--------------------------- MODULE MCPaperCornus ----------------------------
(* Instances of PaperCornus for TLC: sets of hosts for its constants. *)
EXTENDS PaperCornus

AllHosts == 0..N
YesOnly == {TRUE}
AnyVote == BOOLEAN
=============================================================================
