------------------------- MODULE AtomicCommitProofs -------------------------
(* That the promise of AtomicCommit is consistent, for any voters and      *)
(* deciders.                                                               *)
EXTENDS AtomicCommit, TLAPS

(* An outcome is backed by the votes, and votes do not change. *)
Backed == \A n \in Deciders :
  /\ outcome[n] = "COMMIT" => \A p \in Voters : vote[p] = "yes"
  /\ outcome[n] = "ABORT" => \E p \in Voters : vote[p] = "no"

Inv == TypeOK /\ Backed

LEMMA InitInv == Init => Inv
BY DEF Init, Inv, TypeOK, Backed

LEMMA StepInv == ASSUME Inv, [Next]_vars PROVE Inv'
<1> USE DEF Inv, TypeOK, Backed
<1>1. ASSUME NEW p \in Voters, NEW v \in {"yes", "no"}, Vote(p, v)
      PROVE  Inv'
  BY <1>1 DEF Vote
<1>2. ASSUME NEW n \in Deciders, Commit(n) PROVE Inv'
  BY <1>2 DEF Commit
<1>3. ASSUME NEW n \in Deciders, NEW p \in Voters, Abort(n, p) PROVE Inv'
  <2>1. TypeOK'
    BY <1>3 DEF Abort
  <2>2. vote'[p] = "no" /\ \A q \in Voters : q # p => vote'[q] = vote[q]
    BY <1>3 DEF Abort
  <2>3. \A m \in Deciders : m # n => outcome'[m] = outcome[m]
    BY <1>3 DEF Abort
  <2>4. outcome'[n] = "ABORT" /\ \A m \in Deciders : outcome[m] # "COMMIT"
    BY <1>3 DEF Abort
  <2> QED BY <2>1, <2>2, <2>3, <2>4
<1>4. CASE UNCHANGED vars
  BY <1>4 DEF vars
<1> QED BY <1>1, <1>2, <1>3, <1>4 DEF Next

(* Deciders agree, whatever the voters and deciders are: what every        *)
(* implementation of AtomicCommit inherits.                                *)
THEOREM ConsistentHolds == Spec => []Consistent
<1>1. Inv => Consistent
  BY DEF Inv, Backed, Consistent
<1>2. Inv /\ [Next]_vars => Inv'
  BY StepInv
<1> QED BY InitInv, <1>1, <1>2, PTL DEF Spec
=============================================================================
