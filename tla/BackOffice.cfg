SPECIFICATION FairSpec
CONSTANTS
  a = a  b = b  c = c  shop = shop  d1 = d1  k1 = k1  k2 = k2
  k3 = k3  slash = slash  blank = blank  u = u  v = v
  Before = Before  NoRow = NoRow
  Tasks = {a, b, c}
  Jobs <- AnyJobs
  Stored <- ShopRows
  Shops = {shop, d1}
  Real = shop
  Keys = {k1, k2, k3, slash, blank}
  Finds <- Answering
  Blank = blank
  Barbers = {u, v}
  Owner <- WindowOf
  Hours = {1, 2, 3}
INVARIANTS
  TypeOK
  DuplicatesOnlyFromRaces
  UniqueKeysHold
  HoursMakeSense
PROPERTIES
  SoloHoursAsSubmitted
  WritesStayInShop
  EverybodyAnswered
