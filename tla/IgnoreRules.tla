----------------------------- MODULE IgnoreRules -----------------------------
(***************************************************************************)
(* Which paths are ignored: the walk that collects the .gitignore files    *)
(* when a repository is opened, rewriting the lines of each to patterns    *)
(* for paths from the root; is_ignored, which matches them; wildmatch as   *)
(* it is called here, where no wildcard but ** matches a slash.            *)
(*                                                                         *)
(* A path and a pattern are sequences of components.  What a component     *)
(* with wildcards matches is a constant; ** is a component of its own.     *)
(* Negated lines are not supported by the code and symbolic links are left *)
(* out.                                                                    *)
(***************************************************************************)
EXTENDS Naturals, SequencesExt

CONSTANTS
  Name,     \* names of files and directories
  Glob,     \* what components with wildcards match: component -> set of names
  Starred,  \* those that have a * in them
  Dir,      \* the directories below the work tree
  File,     \* the files
  Line,     \* lines .gitignore files may have
  MaxRules  \* bound: lines in all .gitignore files together

StarStar == "**"
Folder == Dir \cup {<<>>}
Parent(p) == SubSeq(p, 1, Len(p) - 1)
Components == Name \cup DOMAIN Glob \cup {StarStar, ".git"}

ASSUME IgnoreRulesAssumption ==
  /\ Glob \in [DOMAIN Glob -> SUBSET Name] /\ "*" \in DOMAIN Glob /\ Glob["*"] = Name
  /\ ".git" \notin DOMAIN Glob /\ "*" \in Starred /\ Starred \subseteq DOMAIN Glob
  /\ Dir \cup File \subseteq Seq(Name) \ {<<>>}
  /\ \A p \in Dir \cup File : Parent(p) \in Folder
  /\ Line \subseteq [rooted : BOOLEAN, names : Seq(Components), folders : BOOLEAN]
  /\ MaxRules \in Nat

VARIABLES
  rules,     \* the lines in the .gitignore files, each with its directory
  nested,    \* directories that hold a .git of their own
  patterns,  \* ignore_patterns
  pending    \* directories listed by the walk and not looked at yet

ruleVars == <<rules, nested, patterns, pending>>

Children(d) == {e \in Dir : Parent(e) = d}
Beginnings(p) == {SubSeq(p, 1, n) : n \in 1 .. Len(p)}

-----------------------------------------------------------------------------
(***************************************************************************)
(* wildmatch with WILDSTAR and LEADING_DIR: a pattern that matches a       *)
(* directory matches all there is in it.  The segments of the pattern      *)
(* between its ** are found in the string, the first where it begins.      *)
(***************************************************************************)
Matches(component, name) ==
  IF component \in DOMAIN Glob THEN name \in Glob[component] ELSE component = name

(* The empty path is matched by a * that ends the pattern.                 *)
MatchesEmpty(p) ==
  /\ Last(p) \in {"*", StarStar}
  /\ \A i \in 1 .. Len(p) - 1 : p[i] = StarStar

Segments(p) == {1} \cup {i + 1 : i \in {j \in DOMAIN p : p[j] = StarStar}}

(* A segment with what follows it, a ** or the end of the pattern.         *)
Segment(p, i) == {x \in i .. Len(p) + 1 : \A y \in i .. x - 1 : p[y] # StarStar}

(* Where the ** before segment i was come to, or the first of several.     *)
Reached(p, place, i) ==
  LET j == Max({0} \cup {y \in 1 .. i - 1 : p[y] # StarStar})
      h == Max({a \in Segments(p) : a <= j + 1})
  IN place[h] + (j + 1 - h)

(* The first component after a slash of the string that the innermost call *)
(* was given: a * makes a call inside a component, and a ** one at the     *)
(* slash before the next component, or after any slash.                    *)
AfterSlash(p, place, i, x) ==
  LET stars == {y \in i .. x - 1 : p[y] \in Starred}
  IN IF stars # {} THEN place[i] + (Max(stars) - i) + 1
     ELSE IF i > 1 /\ place[i] = Reached(p, place, i) + 1 THEN place[i]
     ELSE place[i] + 1

(* Where the rest of the pattern is tried after the ** at x: at the place  *)
(* reached, and after every slash of that string, the earlier ones too.    *)
Restarts(p, s, place, i, x) ==
  {place[i] + (x - i)} \cup AfterSlash(p, place, i, x) .. Len(s)

Found(p, s, place, i, x) ==
  LET k == place[i] + (x - i) IN
  IF x > Len(p) THEN TRUE
  ELSE IF p[x] = StarStar
  THEN /\ x > i => k <= Len(s)
       /\ x < Len(p) => place[x + 1] \in Restarts(p, s, place, i, x)
  ELSE k <= Len(s) /\ Matches(p[x], s[k])

Wild(p, s) ==
  IF s = <<>> THEN MatchesEmpty(p)
  ELSE \E place \in [Segments(p) -> 1 .. Len(s)] :
         /\ place[1] = 1
         /\ \A i \in Segments(p) : \A x \in Segment(p, i) : Found(p, s, place, i, x)

-----------------------------------------------------------------------------
(***************************************************************************)
(* is_ignored.                                                             *)
(***************************************************************************)
AtAnyDepth(names) == IF Len(names) = 1 THEN <<StarStar>> \o names ELSE names

HitsFolders(r, path, directory) ==  \* mutant: a line for directories is never about a file
  /\ r.names # <<>> /\ (r.folders => directory)
  /\ Wild(IF r.rooted THEN r.names ELSE AtAnyDepth(r.names), path)

Hits(r, path, directory) ==
  /\ r.names # <<>>
  /\ Wild(IF r.rooted THEN r.names ELSE AtAnyDepth(r.names),
          IF r.folders /\ ~ directory THEN Parent(path) ELSE path)

InNestedRepository(path, directory) ==
  Beginnings(IF directory THEN path ELSE Parent(path)) \cap nested # {}

IsIgnored(path, directory) ==
  \/ InNestedRepository(path, directory)
  \/ \E r \in patterns : Hits(r, path, directory)

-----------------------------------------------------------------------------
(***************************************************************************)
(* load_ignore_patterns: depth first, in any order, into directories not   *)
(* ignored by what was loaded before.                                      *)
(***************************************************************************)
RewriteRooted(d, l) ==  \* mutant: a lone name is taken for a path
  IF d = <<>> THEN l ELSE [l EXCEPT !.rooted = FALSE, !.names = d \o l.names]
RewriteShared(d, l) ==  \* mutant: a lone name keeps no directory
  IF d = <<>> \/ Len(l.names) = 1 THEN l ELSE [l EXCEPT !.names = d \o l.names]
Rewrite(d, l) ==
  IF d = <<>> THEN l
  ELSE [l EXCEPT !.rooted = FALSE,
                 !.names = d \o (IF l.rooted THEN l.names ELSE AtAnyDepth(l.names))]

Load(d) == {Rewrite(d, r.line) : r \in {q \in rules : q.dir = d /\ (d = <<>> \/ q.line.names # <<>>)}}

Visit(d) ==
  /\ d \in pending /\ \A e \in pending : Len(e) <= Len(d)
  /\ IF IsIgnored(d, TRUE)
     THEN pending' = pending \ {d} /\ UNCHANGED patterns
     ELSE /\ patterns' = patterns \cup Load(d)
          /\ pending' = (pending \ {d}) \cup Children(d)
  /\ UNCHANGED <<rules, nested>>

DotGit == [rooted |-> FALSE, names |-> <<".git">>, folders |-> TRUE]

RulesInit ==
  /\ rules \in {Range(f) : f \in UNION {[1 .. n -> [dir : Folder, line : Line]] : n \in 0 .. MaxRules}}
  /\ nested \in {{}} \cup {{d} : d \in Dir}
  /\ patterns = {DotGit} \cup Load(<<>>)
  /\ pending = Children(<<>>)

RulesNext == \E d \in Dir : Visit(d)

RulesSpec == RulesInit /\ [][RulesNext]_ruleVars

-----------------------------------------------------------------------------
(***************************************************************************)
(* What the lines ask for.  A line is about what lies below its directory; *)
(* a lone name stands for any depth, a path for that path; a trailing      *)
(* slash asks for directories.                                             *)
(***************************************************************************)
ReadAt(p, s, f, x) ==
  IF p[x] = StarStar THEN f[x] <= f[x + 1] /\ (x = Len(p) => f[x] < f[x + 1])
  ELSE f[x + 1] = f[x] + 1 /\ Matches(p[x], s[f[x]])

Reads(p, s) ==
  \E f \in [1 .. Len(p) + 1 -> 1 .. Len(s) + 1] :
    f[1] = 1 /\ f[Len(p) + 1] = Len(s) + 1 /\ \A x \in DOMAIN p : ReadAt(p, s, f, x)

Below(p, d) == Len(p) > Len(d) /\ SubSeq(p, 1, Len(d)) = d

Covers(d, l, p) ==
  /\ Below(p, d) /\ l.names # <<>>
  /\ l.folders => p \in Dir
  /\ Reads(l.names, IF ~ l.rooted /\ Len(l.names) = 1 THEN <<Last(p)>>
                    ELSE SubSeq(p, Len(d) + 1, Len(p)))

Asked(path) ==
  \E p \in Beginnings(path) :
    \/ p \in Dir /\ (p \in nested \/ Last(p) = ".git")
    \/ \E r \in rules : Covers(r.dir, r.line, p)

(* Rules the code reads as they are written.  It does not where what       *)
(* follows ** matches a directory on the way to it, where a line is for    *)
(* all directories, and where a directory's name reads as a wildcard.      *)
Overlap(c, e) == \E n \in Name : Matches(c, n) /\ Matches(e, n)
Overlaps(p) ==
  \E k \in 3 .. Len(p) - 1 : p[k] = StarStar /\ \E j \in 2 .. k - 1 : Overlap(p[k + 1], p[j])
ForAllFolders(r) == r.dir = <<>> /\ r.line.folders /\ MatchesEmpty(AtAnyDepth(r.line.names))
LiteralFolders == \A r \in rules : ToSet(r.dir) \cap (DOMAIN Glob \cup {StarStar}) = {}
Plain ==
  /\ LiteralFolders
  /\ \A r \in rules : r.line.names # <<>> =>
       ~ Overlaps(Rewrite(r.dir, r.line).names) /\ ~ ForAllFolders(r)

Ignored(p) == IsIgnored(p, p \in Dir)

(* The patterns mean what the lines say: a path is ignored exactly when    *)
(* some .gitignore above it names it or a directory it is in, or when it   *)
(* lies in a repository of its own.  It takes the rewriting, the walk that *)
(* passes over ignored directories and the matching to agree               *)
(* (repository.cpp:36-103, 252-298).                                       *)
PlainRulesAsWritten == pending = {} /\ Plain => \A p \in Dir \cup File : Ignored(p) <=> Asked(p)

(* Whatever the rules, and whenever it is asked: what lies in an ignored   *)
(* directory is ignored, so that the walks of status and add, which do not *)
(* enter one, pass over nothing that is_ignored would let through          *)
(* (index.cpp:176-182, add.cpp:43-48).                                     *)
IgnoredAllTheWayDown ==
  \A p \in Dir \cup File : \A d \in Beginnings(p) \cap Dir : Ignored(d) => Ignored(p)

(* A .gitignore changes the verdict on nothing but what lies below it, so  *)
(* that the order in which directories are listed does not matter: what    *)
(* was decided of other directories stays decided (repository.cpp:45-55).  *)
RulesStayBelow ==
  [][LiteralFolders => \A p \in Dir \cup File :
       Ignored(p) # Ignored(p)' => \E d \in pending \ pending' : Below(p, d)]_ruleVars

(* As PlainRulesAsWritten, for any rules: "each pattern is a glob file     *)
(* pattern, should parse and match it according to glob file rules"        *)
(* (repository.cpp:251-252).                                               *)
RulesAsWritten == pending = {} => \A p \in Dir \cup File : Ignored(p) <=> Asked(p)
=============================================================================
