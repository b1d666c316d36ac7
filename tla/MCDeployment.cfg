CONSTANTS
  Servers = {s1, s2}
  Ids = {1, 2, 3, 4, 5}
  gram = gram
  litre = litre
  Pantry = Pantry
  Fruits = Fruits
  MaxEdits = 2
  Extra = {}
  UnitSeeds <- MCUnits
  ParentSeeds <- MCParents
  ChildSeeds <- MCChildren
  LinkSeeds <- MCLinks
  NoId = NoId
  NoRow = NoRow
  Nobody = Nobody
  Admins = {admin}
  TrgmInstalled = TRUE
SPECIFICATION Spec
INVARIANTS TypeOK SchemaFollowsRevision HeadLacksUsageLogsOnly
PROPERTIES AccountsAreKept HeadIsLeftForGood ServesOnlyAtHead StartedIsSeeded SeedersOnlyAdd StartupEnds
CHECK_DEADLOCK FALSE
