SPECIFICATION PartsSpec
SYMMETRY SharedValues
CONSTANTS
  None = None
  Caller = {y1, y2}
  Agent = {y1, y2}
  Task = {t1, t2}
  Process = {y1, y2}
  Post = {m1}
  Legacy = None
  MaxPages = 1
  MaxTime = 2
  MaxIssued = 3
  MaxAcks = 3
  MaxDeaths = 1
  RootFile = {y1, y2}
  Record = {r1, r2}
  Migration = {m1, m2}
  Runner = {y1, y2}
  Sources = 2
  Content = {"original", "edited", "shorter"}
  Original = "original"
  CountsOf <- Records
  MaxRuns = 2
  MaxChanges = 2
  Passport = {i1, i2, i3}
  SharedName = name
  AgentOf <- OwnAgent
  AliasesOf <- OneName
  MaxWrites = 4
  Body = {"open", "again", "overlap"}
  Command = {"open", "overlap"}
  Event = {"open", "again", "overlap"}
  CommandOf <- SharedCommand
  EventsOf <- SharedEvents
  MaxLen = 3
  MaxLog = 4
INVARIANTS DoneWaitsForNothing NothingLost ResumesWhereItStopped StagedIsAdmitted AdmittedIsCurrent WalkIsTheChain
PROPERTIES AcknowledgedInOrder AppliedAgrees
CHECK_DEADLOCK FALSE
