SPECIFICATION FairSpec
CONSTANTS
  AllHosts = {0, 1, 2}
  F = 1
  Coordinator = 1
  Participants = {0, 2}
  Replicators <- ReplicatorHosts
  WorkerVotes <- AnyVote
  MayTimeOut = {"coordinator", "participant", "replicator"}
  Patient = FALSE
  MayCrash <- Everybody
  Lossy = TRUE
INVARIANTS TypeOK CommitBacked AppliedIsDurable
PROPERTIES CommitStays HandlersEnd
