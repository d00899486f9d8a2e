----------------------------- MODULE HostConfig -----------------------------
(***************************************************************************)
(* How the constructor of HostConfig (HostConfig.hpp) chooses the          *)
(* replicators of a host: the next f of the others in the order of the     *)
(* host ids, and from the start of the order when its end is reached.      *)
(* Host ids are numbers here; the code compares strings.                   *)
(***************************************************************************)
EXTENDS Integers, FiniteSets, SequencesExt

SortedOthers(others) == SetToSortSeq(others, <)

(* i: where the first loop stops; next: what the second loop takes before  *)
(* the order ends; the third loop takes the rest from the start.           *)
ReplicatorsOf(id, others, f) ==
  LET sorted == SortedOthers(others)
      i == Cardinality({h \in others : h < id})
      next == SubSeq(sorted, i + 1,
                     IF i + f < Len(sorted) THEN i + f ELSE Len(sorted))
  IN  next \o SubSeq(sorted, 1, f - Len(next))
-----------------------------------------------------------------------------
(* The reference, for every group of up to five hosts and every f that the *)
(* assertion in the constructor lets through.                              *)

Groups == SUBSET (0..4) \ {{}}
Chosen(hosts, h, f) == ReplicatorsOf(h, hosts \ {h}, f)

(* How many steps h is from id around the ring of hosts. *)
Distance(hosts, id, h) ==
  LET rank(x) == Cardinality({g \in hosts : g < x})
  IN  (rank(h) - rank(id)) % Cardinality(hosts)

(* "the next f replicators that are greater than it" (HostConfig.hpp:30),  *)
(* around the ring: the k-th replicator is k steps away, so they are f     *)
(* different other hosts and none in between is skipped.                   *)
NextInRing ==
  \A hosts \in Groups : \A id \in hosts, f \in 0..(Cardinality(hosts) - 1) :
    LET reps == Chosen(hosts, id, f)
    IN  Len(reps) = f /\ \A k \in 1..f : Distance(hosts, id, reps[k]) = k
=============================================================================
