SPECIFICATION Spec
CONSTANTS
  ana = ana  bruno = bruno  carla = carla  dario = dario
  cut = cut  shave = shave
  b1 = b1  b2 = b2  b3 = b3  m1 = m1  m2 = m2
  x1 = x1  x2 = x2  u1 = u1  t1 = t1  s1 = s1  s2 = s2
  Closed = Closed  NoRow = NoRow  NoWrite = NoWrite
  NoAbsence = NoAbsence  NoAsk = NoAsk
  SlotMinutes = 1  DayLength = 6  UtcOffset <- MCOffset  DaysInWeek = 2
  Lead = 1  MaxAdvance = 8  Cutoff = 4  MaxClock = 1
  Users <- MoveUsers
  Role <- MoveRole
  Requests = {b1, m1, m2}
  Operation <- MoveOperation
  Aborting = {b1}
  Seeds = {s1}
  SeedRows <- MoveSeedRows
  ActiveUsers <- MoveUsers
  Offers <- RaceOffers
  Duration <- RaceDuration
  Hours <- MCHours
  Starts <- MoveStarts
  Spans = {}
INVARIANTS
  BookingInv
  CancelledIsStamped
  TransitionInv
PROPERTIES
  KeepsAgenda
  MovesAreLawful
  FinalUnlessRaced
SYMMETRY MoveSymmetry
