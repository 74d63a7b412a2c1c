------------------------------- MODULE Pathspec -------------------------------
(***************************************************************************)
(* Which files add stages for the paths it is given: the walk through the  *)
(* directories of the work tree, which enters only what a path can still   *)
(* match.  A path is the sequence of its characters, from the root of the  *)
(* work tree on, and a wildcard may match a slash.  Bracket expressions    *)
(* and escapes are left out, as are paths outside the repository, which    *)
(* end add at once.                                                        *)
(***************************************************************************)
EXTENDS Naturals, SequencesExt

CONSTANTS
  Char,      \* characters of names, the slash and the wildcards
  FilePath,  \* paths of files there may be
  Pattern,   \* patterns users give
  MaxArgs    \* bound: paths on one command line

ASSUME PathspecAssumption ==
  /\ FilePath \cup Pattern \subseteq Seq(Char)
  /\ \A f \in FilePath : f # <<>> /\ f[1] # "/"
  /\ MaxArgs \in Nat \ {0}

VARIABLES
  files,     \* the regular files in the work tree
  closed,    \* ignored files, ignored directories, links to directories
  args,      \* the patterns given
  arg,       \* the one being walked
  phase,     \* start, descend, walk, or how add ended
  at,        \* descend: how much of the pattern names the directory reached
  open,      \* walk: the directories still to be listed
  pat,       \* walk: the pattern files have to match
  matched,   \* whether this pattern has matched a file
  matches    \* the files matched so far

tree == <<files, closed>>
line == <<args, arg>>
pathspecVars == <<tree, line, phase, at, open, pat, matched, matches>>

Wildcard == {"*", "?"}
All == <<>>  \* the pattern "." and what is left of a directory's own path

-----------------------------------------------------------------------------
(***************************************************************************)
(* wildmatch with LEADING_DIR: a pattern that ends where a directory's     *)
(* name does matches all there is in it.  The pieces of the pattern        *)
(* between its stars are found in the string one after the other, the      *)
(* first where the string begins.                                          *)
(***************************************************************************)
Starts(p) == {1} \cup {i + 1 : i \in {j \in DOMAIN p : p[j] = "*"}}

(* A piece with what follows it, a star or the end of the pattern.         *)
Piece(p, i) == {x \in i .. Len(p) + 1 : \A y \in i .. x - 1 : p[y] # "*"}

Fits(p, s, x, k, place) ==
  IF x > Len(p) THEN k = Len(s) + 1 \/ (k <= Len(s) /\ s[k] = "/")
  ELSE IF p[x] = "*" THEN k <= place[x + 1]
  ELSE k <= Len(s) /\ p[x] \in {"?", s[k]}

Match(p, s) ==
  \E place \in [Starts(p) -> 1 .. Len(s) + 1] :
    /\ place[1] = 1
    /\ \A i \in Starts(p) : \A x \in Piece(p, i) : Fits(p, s, x, place[i] + (x - i), place)

(* How wildmatch finds out: the places in the string from which the        *)
(* pattern matches from i on, given those for what follows i.  A star is   *)
(* tried at every place that is left, and one at the end is not tried.     *)
From(p, s, i, next) ==
  {k \in 1 .. Len(s) + 1 :
     IF i > Len(p) THEN k > Len(s) \/ s[k] = "/"
     ELSE IF p[i] = "*" THEN (\A x \in i .. Len(p) : p[x] = "*") \/ next \cap k .. Len(s) # {}
     ELSE k <= Len(s) /\ p[i] \in {"?", s[k]} /\ k + 1 \in next}

Wildmatch(p, s) ==
  LET from[i \in 1 .. Len(p) + 1] == From(p, s, i, from[i + 1])
  IN 1 \in from[1]

-----------------------------------------------------------------------------
(* A path up to where one of its names ends.                               *)
Ends(p) == {n \in DOMAIN p : n = Len(p) \/ p[n + 1] = "/"}
Upto(p, n) == SubSeq(p, 1, n)
Names(p) == {Upto(p, n) : n \in Ends(p)}

(* parent_path, and a name further on the way to p.                        *)
ParentPath(p) == Upto(p, Max({0} \cup (Ends(p) \ {Len(p)})))
NameAfter(p, n) == Min({m \in Ends(p) : n < m})
Literal(p, n) == \A x \in n + 1 .. NameAfter(p, n) : p[x] \notin Wildcard

Within(d, p) == d # p /\ d \in {<<>>} \cup Names(p)
IsFolder(d) == \E f \in files : Within(d, f)

FileMatches(f, p) == f \notin closed /\ (p = All \/ Match(p, f))

(* Files are looked at where the folder matches the pattern's parent; the  *)
(* work tree itself is ".".                                                *)
MatchFiles(d, p) ==
  \/ ParentPath(p) = <<>>
  \/ Match(ParentPath(p), IF d = <<>> THEN <<".">> ELSE d)

-----------------------------------------------------------------------------
(* Files match, into the set and into whether any did.                     *)
Take(S) == matches' = matches \cup S /\ matched' = (matched \/ S # {})

StartMatched ==  \* mutant: one matching pattern counts for those after it
  /\ phase = "start"
  /\ phase' = "descend"
  /\ at' = 0 /\ pat' = args[arg] /\ open' = {} /\ matched' = matched
  /\ UNCHANGED <<tree, line, matches>>

Start ==
  /\ phase = "start"
  /\ phase' = "descend"
  /\ at' = 0 /\ pat' = args[arg] /\ open' = {} /\ matched' = FALSE
  /\ UNCHANGED <<tree, line, matches>>

Walk(d, p) == phase' = "walk" /\ open' = {d} /\ pat' = p
EndOfArg == phase' = "walk" /\ open' = {} /\ UNCHANGED pat

(* add_path: literal names lead straight to a directory or a file.         *)
DescendDone ==
  /\ phase = "descend" /\ at = Len(pat)
  /\ Walk(Upto(pat, at), All)
  /\ UNCHANGED <<tree, line, at, matched, matches>>

DescendWild ==
  /\ phase = "descend" /\ at < Len(pat) /\ ~ Literal(pat, at)
  /\ Walk(Upto(pat, at), pat)
  /\ UNCHANGED <<tree, line, at, matched, matches>>

DescendThroughClosed ==  \* mutant: ignored directories are entered
  /\ phase = "descend" /\ at < Len(pat) /\ Literal(pat, at)
  /\ IsFolder(Upto(pat, NameAfter(pat, at)))
  /\ at' = NameAfter(pat, at)
  /\ UNCHANGED <<tree, line, phase, open, pat, matched, matches>>

DescendFolder ==
  LET candidate == Upto(pat, NameAfter(pat, at)) IN
  /\ phase = "descend" /\ at < Len(pat) /\ Literal(pat, at)
  /\ IsFolder(candidate) /\ candidate \notin closed
  /\ at' = NameAfter(pat, at)
  /\ UNCHANGED <<tree, line, phase, open, pat, matched, matches>>

DescendFile ==
  LET candidate == Upto(pat, NameAfter(pat, at)) IN
  /\ phase = "descend" /\ at < Len(pat) /\ Literal(pat, at)
  /\ ~ (IsFolder(candidate) /\ candidate \notin closed)
  /\ Take({f \in files \cap {candidate} : FileMatches(f, pat)})
  /\ EndOfArg
  /\ UNCHANGED <<tree, line, at>>

(* add_folder: one directory's files, and the directories in it to come.   *)
List(d) ==
  /\ phase = "walk" /\ d \in open
  /\ Take({f \in files : ParentPath(f) = d /\ MatchFiles(d, pat) /\ FileMatches(f, pat)})
  /\ open' = (open \ {d}) \cup
       {e \in UNION {Names(f) : f \in files} :
          ParentPath(e) = d /\ IsFolder(e) /\ e \notin closed}
  /\ UNCHANGED <<tree, line, phase, at, pat>>

(* A pattern that matched nothing ends add before the index is opened.     *)
ArgDone ==
  /\ phase = "walk" /\ open = {}
  /\ IF matched /\ arg < Len(args)
     THEN phase' = "start" /\ arg' = arg + 1
     ELSE phase' = (IF matched THEN "staged" ELSE "threw") /\ UNCHANGED arg
  /\ UNCHANGED <<tree, args, at, open, pat, matched, matches>>

PathspecInit ==
  /\ files \in {F \in SUBSET FilePath : \A f, g \in F : ~ Within(f, g)}
  /\ closed \in SUBSET UNION {Names(f) : f \in files}
  /\ args \in UNION {[1 .. n -> Pattern] : n \in 1 .. MaxArgs}
  /\ arg = 1 /\ phase = "start"
  /\ at = 0 /\ open = {} /\ pat = All
  /\ matched = FALSE /\ matches = {}

PathspecNext ==
  \/ Start \/ DescendDone \/ DescendWild \/ DescendFolder \/ DescendFile \/ ArgDone
  \/ \E d \in open : List(d)

PathspecSpec == PathspecInit /\ [][PathspecNext]_pathspecVars

-----------------------------------------------------------------------------
(* The files a pattern asks for: those it matches that are neither ignored *)
(* nor below a directory that is ignored or a link.                        *)
Wanted(p) ==
  {f \in files : Names(f) \cap closed = {} /\ (p = All \/ Match(p, f))}

(* add stages exactly what the patterns ask for: no directory that was not *)
(* entered, and no file that was not looked at, would have matched         *)
(* (add.cpp:34-40, 60-85).                                                 *)
StagesWhatIsAsked ==
  phase = "staged" => matches = UNION {Wanted(args[i]) : i \in DOMAIN args}

(* add stages all its paths or none: it ends with an error just when one   *)
(* of them asks for no file, whatever the others matched (add.cpp:111-113). *)
AllOrNothing ==
  /\ phase = "threw" => Wanted(args[arg]) = {}
  /\ phase = "staged" => \A i \in DOMAIN args : Wanted(args[i]) # {}
=============================================================================
