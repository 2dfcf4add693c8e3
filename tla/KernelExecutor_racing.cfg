SPECIFICATION Spec
CONSTANTS
  Body = {"a", "a changed", "b"}
  Recoverer = {"r"}
  Command = {"A", "B"}
  Event = {"a", "a changed", "b"}
  CommandOf <- MCCommandOf
  EventsOf <- MCEventsOf
  Scope = {"A", "B"}
  Input = {"plain", "changed"}
  Effect = {"handoff", "notice"}
  Required = {"handoff"}
  ScopeOf <- MCScopeOf
  InputOf <- MCInputOf
  EffectsOf <- MCEffectsOf
INVARIANTS OneTransactionPerScope AlwaysComplete EffectsFollowCommit ReceiptIsTrue ReceiptsAgree RefusedPublishedNothing
CHECK_DEADLOCK FALSE
