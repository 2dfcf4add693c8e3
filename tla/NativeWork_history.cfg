SPECIFICATION Spec
CONSTANTS
  Session = {"ann", "bob"}
  Principal = {"ann", "bob"}
  PrincipalOf <- MCPrincipalOf
  Intent = {i1, i2}
  Episode = {e1, e2}
  Lease = {l1, l2, l3}
  Receipt = {r1, r2, r3, r4}
  Target = {t1}
  MaxTime = 1
SYMMETRY Interchangeable
INVARIANTS OneLeasePerTarget NeverBroken LeasesCoverLiveWork
PROPERTIES CorrectionIsExact CompletedByHolder ExpiredWorkIsStranded
CHECK_DEADLOCK FALSE
