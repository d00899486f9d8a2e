SPECIFICATION FairSpec
CONSTANTS
  Connections = {"c1", "c2"}
  MaxMessageSize = 7
  Messages <- AllMessages
  Votes = 2
  Scripts <- AllScripts
  ConfigLength <- Configs
INVARIANTS TypeOK NoLostWakeup BufferDrained
PROPERTIES ImplementsDelivery EveryMessageHandled HandlersLeave
