\* Two requests race over the tokens of one login and of its two rotations.
SPECIFICATION Spec
CONSTANTS
  Users = {u1}
  Requests = {r1, r2}
  Jti = {j1, j2, j3, j4, j5, j6}
  NoToken = NoToken
  NoJti = NoJti
  Garbage = Garbage
  AccessTTL = 0
  RefreshTTL = 0
  MaxLogins = 1
  MaxTime = 1
SYMMETRY Symmetry
INVARIANTS
  TypeOK
  OneLiveRefreshPerLogin
  LogoutEndsLogin
PROPERTIES
  LogoutComplete
  ServedOnlyIfAuthorised
  RevokedHasNoNewHeirs
