\* Names for which the work tree and HEAD come to differ.  Case 1 is switched
\* on; for another, comment its lines in and those of case 1 out.
SPECIFICATION Spec
CONSTANTS
  Name = {"main", "dev", "Dev", "rel", "x", "origin/dev", "c1", "c2", "head"}
  BranchName = {"main"}
  BlobId = {}
  Nested = {}
  OneLetter = {"x"}
  PackedRefs <- NoRefs
  Commit = {"c1", "c2"}
  HeadWord = "head"
  Lower <- LowerCase
  FanOut = {}
  None = None
  History <- TwoCommits
\* 1: a branch by its name in the wrong case
  TagName = {}
  Target = {"Dev", "dev"}
  LooseRefs <- PlainRefs
\* 2: a branch and a tag of one name
\*  TagName = {"dev"}
\*  Target = {"main", "dev"}
\*  LooseRefs <- PlainRefs
\* 3: a branch of one letter
\*  TagName = {}
\*  Target = {"main", "x"}
\*  LooseRefs <- ShortRefs
\* 4: a branch of another repository
\*  TagName = {}
\*  Target = {"main", "origin/dev"}
\*  LooseRefs <- ClonedRefs
PROPERTY HeadFollowsWorkTree
CHECK_DEADLOCK FALSE
