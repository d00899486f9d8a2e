SPECIFICATION Spec
CONSTANTS
  AllHosts = {0, 1, 2, 3}
  F = 2
  Coordinator = 2
  Participants = {1, 3}
  Replicators <- ReplicatorHosts
  WorkerVotes <- AnyVote
  MayTimeOut = {"coordinator", "participant", "replicator"}
  Patient = TRUE
  MayCrash = {2}
  Lossy = FALSE
INVARIANTS ReplicatorsHeard
