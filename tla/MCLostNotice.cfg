\* An edit of the date while the job runs.
SPECIFICATION Spec
CONSTANTS
  Requests = {r1, r2}
  Jobs = {n1}
  Items = {i1, i2}
  Limit = 1
  Days = {d1, d2}
  NoItem = NoItem
  NoDate = NoDate
  NoRow = NoRow
SYMMETRY Symmetry
PROPERTIES
  MarkedIsAnnounced
