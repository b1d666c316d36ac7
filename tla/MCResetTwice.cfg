\* Two resets present the same token.
SPECIFICATION Spec
CONSTANTS
  Emails = {e1}
  Requests = {r1, r2}
  Tokens = {t1, t2, t3}
  Passwords = {p1, p2}
  NoPassword = NoPassword
  NoEmail = NoEmail
  NoToken = NoToken
  NoRow = NoRow
CHECK_DEADLOCK FALSE
SYMMETRY Symmetry
PROPERTIES
  ResetOnce
