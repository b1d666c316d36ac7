\* Three concurrent calls are enough to trip the breaker, probe it and race it.
SPECIFICATION FairSpec
CONSTANTS
  Calls = {c1, c2, c3}
  Threshold = 2
  Recovery = 1
  MaxRetries = 2
  Never = Never
  MaxTime = 2
CHECK_DEADLOCK FALSE
INVARIANTS
  TypeOK
  FieldsAgree
PROPERTIES
  GateFollowsBreaker
  ProbeFailureReopens
  OutageIsRecorded
  CallsEnd
