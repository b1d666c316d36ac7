CONSTANTS
  Workers = {w1, w2}
  Coroutines = {c1, c2}
  j1 = j1
  j2 = j2
  Jobs = {j1, j2}
  Limit <- MCLimit
  Hashes = {h1}
  MaxRetries = 1
  MaxMishaps = 1
  MaxForeign = 1
  OneSource = TRUE
  NoMessage = NoMessage
  NoHash = NoHash
  NoWorker = NoWorker
  NoJob = NoJob
  NoCoroutine = NoCoroutine
SPECIFICATION Spec
INVARIANTS TypeOK QuotaHolds AttemptsBounded StoredBounded NoJobIsLost
PROPERTIES GateLeavesExpiry
SYMMETRY Symmetry
CHECK_DEADLOCK FALSE
