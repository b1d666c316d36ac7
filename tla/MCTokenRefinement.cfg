\* One login and one rotation, at one instant: expiry does not appear in the
\* ledger.  No symmetry, because of the liveness property.
SPECIFICATION FairSpec
CONSTANTS
  Users = {u1}
  Requests = {r1, r2}
  Jti = {j1, j2, j3, j4}
  NoToken = NoToken
  NoJti = NoJti
  Garbage = Garbage
  AccessTTL = 0
  RefreshTTL = 0
  MaxLogins = 1
  MaxTime = 0
PROPERTIES
  ImplementsLedger
  RequestsFinish
