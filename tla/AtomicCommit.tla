---------------------------- MODULE AtomicCommit ----------------------------
(***************************************************************************)
(* What a commit protocol of this repository promises, without logs or     *)
(* messages.  Every voter has one vote that never changes; the outcome at  *)
(* every decider is a function of the votes.  A decider that does not want *)
(* to wait may settle an open vote as "no" (the purpose of LOG_ONCE).      *)
(***************************************************************************)
CONSTANTS Voters,    \* the participants of the transaction
          Deciders   \* everybody who concludes COMMIT or ABORT

VARIABLES vote,      \* vote[p] \in {"none", "yes", "no"}
          outcome    \* outcome[n] \in {"none", "COMMIT", "ABORT"}

vars == <<vote, outcome>>

TypeOK == /\ vote \in [Voters -> {"none", "yes", "no"}]
          /\ outcome \in [Deciders -> {"none", "COMMIT", "ABORT"}]

Init == /\ vote = [p \in Voters |-> "none"]
        /\ outcome = [n \in Deciders |-> "none"]

\* A voter settles its vote.
Vote(p, v) == /\ vote[p] = "none"
              /\ vote' = [vote EXCEPT ![p] = v]
              /\ UNCHANGED outcome

\* A decider commits once every vote is yes.
Commit(n) == /\ outcome[n] = "none"
             /\ \A p \in Voters : vote[p] = "yes"
             /\ outcome' = [outcome EXCEPT ![n] = "COMMIT"]
             /\ UNCHANGED vote

\* A decider aborts because of a vote that is, or that it makes, "no".
Abort(n, p) == /\ outcome[n] = "none"
               /\ vote[p] # "yes"
               /\ vote' = [vote EXCEPT ![p] = "no"]
               /\ outcome' = [outcome EXCEPT ![n] = "ABORT"]

Next == \/ \E p \in Voters, v \in {"yes", "no"} : Vote(p, v)
        \/ \E n \in Deciders : Commit(n) \/ \E p \in Voters : Abort(n, p)

Spec == Init /\ [][Next]_vars

(* No decider commits when another aborts. *)
Consistent == \A n, m \in Deciders : ~(outcome[n] = "COMMIT" /\ outcome[m] = "ABORT")
=============================================================================
