SPECIFICATION FairSpec
CONSTANTS
  n1 = n1 n2 = n2 n3 = n3 n4 = n4
  Clients = {n1, n2, n3, n4}
  Populations <- BothVersions
INVARIANTS TypeOK VoteSettledOnce
PROPERTIES ImplementsRegularLog Answered
