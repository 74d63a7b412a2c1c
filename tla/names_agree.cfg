SPECIFICATION Spec
CONSTANTS
  Name = {"main", "dev", "old", "new", "rel", "tip", "c1", "c2", "c3", "head"}
  BranchName = {"main", "dev", "new"}
  TagName = {"rel", "tip"}
  Target = {"main", "dev", "new", "rel", "tip", "c1", "c3"}
  Commit = {"c1", "c2", "c3"}
  BlobId = {}
  HeadWord = "head"
  Lower <- LowerCase
  Nested = {}
  OneLetter = {}
  FanOut = {}
  None = None
  LooseRefs <- PlainRefs
  PackedRefs <- OldPacked
  History <- TwoCommits
INVARIANTS TypeOK RefsNameCommits
PROPERTIES HeadFollowsWorkTree BranchesOnlyAdvance HeadResolves
CHECK_DEADLOCK FALSE
