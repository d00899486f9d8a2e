SPECIFICATION FairSpec
CONSTANTS
  N = 2
  WorkerVotes <- AnyVote
  MayTimeOut <- AllHosts
  MayCrash <- AllHosts
  Lossy = TRUE
INVARIANTS TypeOK Agreement OutcomeInLogs AppliedIsDurable
PROPERTIES LogMonotonic ImplementsAtomicCommit HandlersEnd
