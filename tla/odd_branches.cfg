\* Names that leave a branch or HEAD wrong.  Case 1 is switched on; for
\* another, comment its lines in and those of case 1 out.
SPECIFICATION Spec
CONSTANTS
  Name = {"main", "dev", "feature/a", "HEAD", "rel", "b1", "c1", "c2", "head"}
  Nested = {"feature/a"}
  OneLetter = {}
  LooseRefs <- MainRef
  BlobId = {"b1"}
  Commit = {"c1", "c2"}
  HeadWord = "head"
  Lower <- LowerCase
  FanOut = {}
  None = None
  History <- TwoCommits
\* 1: checkout -b of a branch that packed-refs holds
  BranchName = {"main", "dev"}
  TagName = {}
  Target = {"main"}
  PackedRefs <- DevPacked
PROPERTY BranchesOnlyAdvance
\* 2: checkout -b of a branch below a directory that is not there
\*  BranchName = {"main", "feature/a"}
\*  TagName = {}
\*  Target = {"main"}
\*  PackedRefs <- NoRefs
\* PROPERTY HeadResolves
\* 3: checkout HEAD
\*  BranchName = {"main"}
\*  TagName = {}
\*  Target = {"main", "HEAD"}
\*  PackedRefs <- NoRefs
\* PROPERTY HeadResolves
\* 4: a tag of a blob
\*  BranchName = {"main"}
\*  TagName = {"rel"}
\*  Target = {"main", "b1"}
\*  PackedRefs <- NoRefs
\* INVARIANT RefsNameCommits
CHECK_DEADLOCK FALSE
