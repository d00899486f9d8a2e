---------------------------- MODULE MCNewCornus -----------------------------
(* Instances of NewCornus for TLC.  Hosts are numbers, and the replicators *)
(* are those that HostConfig chooses: with three hosts and F = 2 every     *)
(* participant is one, with F = 1 one of two, and with four hosts and      *)
(* F = 2 there is also a replicator that is no participant.                *)
EXTENDS NewCornus, HostConfig

CONSTANTS AllHosts, F

ASSUME RingAssumption == NextInRing

ReplicatorHosts == Range(Chosen(AllHosts, Coordinator, F))
Everybody == Hosts
AnyVote == BOOLEAN
=============================================================================
