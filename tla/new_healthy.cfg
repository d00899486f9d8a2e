SPECIFICATION FairSpec
CONSTANTS
  AllHosts = {0, 1, 2, 3}
  F = 2
  Coordinator = 2
  Participants = {1, 3}
  Replicators <- ReplicatorHosts
  WorkerVotes = {TRUE}
  MayTimeOut = {"replicator"}
  Patient = FALSE
  MayCrash = {}
  Lossy = FALSE
PROPERTIES HealthyCommits
