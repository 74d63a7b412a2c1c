SPECIFICATION Spec
CONSTANTS
  Path = {p, q}
  Blob = {x, y, e}
  x = x
  y = y
  e = e
  Size <- Sizes
  EmptyBlob = e
  NoBlob = NoBlob
  Conflict = Conflict
  FileClockIsUnix = TRUE
  MaxClock = 2
  MaxSteps = 5
INVARIANT EveryEditShows
CHECK_DEADLOCK FALSE
