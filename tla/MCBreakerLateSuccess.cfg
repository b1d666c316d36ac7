\* A call let through before the breaker tripped answers after it did.
SPECIFICATION Spec
CONSTANTS
  Calls = {c1, c2, c3}
  Threshold = 2
  Recovery = 1
  MaxRetries = 2
  Never = Never
  MaxTime = 1
CHECK_DEADLOCK FALSE
SYMMETRY Symmetry
PROPERTIES
  OpenOnlyHalfOpens
