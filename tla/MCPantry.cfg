\* Two requests and the job of one process around a limit of one item.
SPECIFICATION Spec
CONSTANTS
  Requests = {r1, r2}
  Jobs = {n1}
  Items = {i1, i2}
  Limit = 1
  Days = {d1, d2}
  NoItem = NoItem
  NoDate = NoDate
  NoRow = NoRow
SYMMETRY Symmetry
INVARIANTS
  TypeOK
  DatedItemsExist
  OvershootBounded
PROPERTIES
  NoSecondNotice
