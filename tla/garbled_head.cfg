SPECIFICATION HistorySpec
CONSTANTS
  Proc = {p1, p2}
  Path = {a}
  a = a
  Blob = {b1, b2}
  b1 = b1
  b2 = b2
  NoBlob = NoBlob
  CommitId = {c1, c2, c3}
  c1 = c1
  c2 = c2
  c3 = c3
  Unused = Unused
  Malformed = Malformed
  Branch = {main, dev}
  dev = dev
  Tag = {v1}
  Junk = Junk
  Main = main
  HEAD = HEAD
  Missing = Missing
  Empty = Empty
  Commands = {"switch", "commit", "branch"}
  Types = {"blob"}
  MaxCommands = 3
  MaxFaults = 0
PROPERTY RootsOnlyOnNewBranches
CHECK_DEADLOCK FALSE
