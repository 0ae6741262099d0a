SPECIFICATION Spec
CHECK_DEADLOCK FALSE
CONSTANTS
  MaxStarts = 2
  MaxLost = 1
  Device = {d1, d2}
  MaxWorking = 2
  MaxMisses = 1
  MaxUnsaved = 1
  Action = {l1, l2, s1}
  Launches = {l1, l2}
  Item = {i1, i2}
  MaxLoads = 2
  MaxMade = 1
  MaxAstray = 1
  Headset = {h1, h2}
  Task = {t1, t2}
  NoTask = NoTask
  MaxOpenings = 2
  Player = {p1, p2}
  Chapter = {c1}
  Unset = Unset
  Avatar = {a1, a2}
  HalfWidth = 2
  HalfDepth = 2
  Spot <- Heads
  Gaze <- Gazes
  Threshold = 1
  MinWidth = 2
  MaxWidth = 4
  StartWidth = 3
  Delta <- Drawn
  MaxRenders = 4
INVARIANTS
    PagesAreSound
    OneLoopServes
    FormsAreTrue
PROPERTIES
    ModalIsClosedByItsOwn
    PagesSettle
