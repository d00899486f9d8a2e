SPECIFICATION FairSpec
CONSTANTS
  N = 3
  WorkerVotes <- YesOnly
  MayTimeOut = {}
  MayCrash = {}
  Lossy = FALSE
PROPERTIES HealthyCommits
