\* The purge races a request that decoded its token just before it expired.
SPECIFICATION PurgeSpec
CONSTANTS
  Users = {u1}
  Requests = {r1, r2}
  Jti = {j1, j2, j3, j4}
  NoToken = NoToken
  NoJti = NoJti
  Garbage = Garbage
  AccessTTL = 0
  RefreshTTL = 0
  MaxLogins = 2
  MaxTime = 1
SYMMETRY Symmetry
PROPERTIES
  PurgeIsSafe
