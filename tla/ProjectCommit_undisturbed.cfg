SPECIFICATION UndisturbedSpec
CONSTANTS
  Writer = {"w1", "w2", "w3"}
  NoWriter = "nobody"
  Body = {"open", "finish"}
  Command = {"open", "finish"}
  Event = {"open", "finish"}
  CommandOf <- MCIdentity
  EventsOf <- MCEvents
  Payload <- MCPayload
  HostOf <- MCTwoHosts
  MaxCrashes = 1
INVARIANTS NoFork OnlyReuseBreaks AcknowledgedApplied RefusedPublishedNothing
PROPERTIES LiveLockKept ImplementsCommitLog
CHECK_DEADLOCK FALSE
