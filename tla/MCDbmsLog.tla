----------------------------- MODULE MCDbmsLog ------------------------------
(* Instances of DbmsLog for TLC: the clients that one log has in each of   *)
(* the two versions.                                                       *)
EXTENDS DbmsLog, TLC

CONSTANTS n1, n2, n3, n4

PaperClients == n1 :> "voter" @@ n2 :> "terminator" @@ n3 :> "terminator" @@ n4 :> "terminator"
NewClients == n1 :> "participant" @@ n2 :> "replicator" @@ n3 :> "absent" @@ n4 :> "absent"
BothVersions == {PaperClients, NewClients}
=============================================================================
