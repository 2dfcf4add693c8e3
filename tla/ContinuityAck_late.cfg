SPECIFICATION Spec
CONSTANTS
  None = None
  Process = {p1}
  Post = {m1}
  Legacy = None
  MaxPages = 1
  MaxTime = 2
  MaxIssued = 1
  MaxAcks = 1
  MaxDeaths = 0
INVARIANT WhatIsMissedIsNotOlder
CHECK_DEADLOCK FALSE
