\* What a commit overwrites when another process works at the same time: the
\* branch moved (1), or HEAD moved to another branch (2).
SPECIFICATION HistorySpec
CONSTANTS
  Proc = {p1, p2}
  Path = {a}
  a = a
  Blob = {b1, b2}
  b1 = b1
  b2 = b2
  NoBlob = NoBlob
  CommitId = {c1, c2, c3, c4}
  c1 = c1
  c2 = c2
  c3 = c3
  Unused = Unused
  Malformed = Malformed
  Branch = {main, dev}
  dev = dev
  Tag = {v1}
  Junk = Junk
  Main = main
  HEAD = HEAD
  Missing = Missing
  Empty = Empty
\* 1
  Commands = {"commit"}
\* 2
\*  Commands = {"commit", "switch"}
  Types = {"blob"}
  MaxCommands = 2
  MaxFaults = 0
PROPERTY BranchesAdvance
CHECK_DEADLOCK FALSE
