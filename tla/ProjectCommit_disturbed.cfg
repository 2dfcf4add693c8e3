SPECIFICATION Spec
CONSTANTS
  Writer = {"w1", "w2", "w3"}
  NoWriter = "nobody"
  Body = {"open", "finish"}
  Command = {"open", "finish"}
  Event = {"open", "finish"}
  CommandOf <- MCIdentity
  EventsOf <- MCEvents
  Payload <- MCPayload
  HostOf <- MCOneHost
  MaxCrashes = 1
INVARIANTS NoHiddenFork
CHECK_DEADLOCK FALSE
