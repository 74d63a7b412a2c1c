---------------------------- MODULE MCIgnoreRules ----------------------------
(* Four directories, two of them below each other, and lines of each form. *)
EXTENDS IgnoreRules

Names == {"a", "b", "d", "x", "y", ".git"}
Globs == ("*" :> Names) @@ ("x*" :> {"x"})
Stars == {"*", "x*"}
Dirs == {<<".git">>, <<"a">>, <<"a", "b">>, <<"d">>}
Files == {<<"x">>, <<"y">>, <<"a", "x">>, <<"a", "b", "x">>, <<"a", "b", "y">>, <<"d", "b">>}

Anywhere(c) == [rooted |-> FALSE, names |-> <<c>>, folders |-> FALSE]
Folders(c) == [rooted |-> FALSE, names |-> <<c>>, folders |-> TRUE]
Rooted(names) == [rooted |-> TRUE, names |-> names, folders |-> FALSE]
Nested(names) == [rooted |-> FALSE, names |-> names, folders |-> FALSE]
Lines ==
  {Anywhere("b"), Anywhere("x*"), Folders("b"), Folders("*"), Rooted(<<"x">>), Rooted(<<"b">>),
   Rooted(<<"a", "b">>), Nested(<<"b", "x">>), Nested(<<"a", "**">>), Nested(<<"**", "y">>),
   Nested(<<"a", "**", "x">>), [rooted |-> TRUE, names |-> <<>>, folders |-> TRUE]}

(* One form of line each, for the rules the code reads otherwise than they *)
(* are written: a directory's own name below it, all directories, and a    *)
(* directory whose name reads as a wildcard.                               *)
OwnName == {Anywhere("b")}
AllFolders == {Folders("*")}

BracketNames == {"d", "[d]", "x"}
BracketGlobs == ("*" :> BracketNames) @@ ("[d]" :> {"d"})
BracketStars == {"*"}
BracketDirs == {<<"d">>, <<"[d]">>}
BracketFiles == {<<"d", "x">>, <<"[d]", "x">>}
BracketLines == {Anywhere("x")}

-----------------------------------------------------------------------------
(* wildmatch, call by call, for strings that are not empty: from[i] has    *)
(* the places from which the pattern matches from i on, each with the      *)
(* first component after a slash of the string the call was given.  What   *)
(* Wild says of places is what it finds, for all short patterns and paths. *)
Wildmatch(p, s) ==
  LET Pairs == (1 .. Len(s) + 2) \X (1 .. Len(s) + 1)
      from[i \in 1 .. Len(p) + 1] ==
        IF i > Len(p) THEN Pairs
        ELSE IF p[i] # StarStar
        THEN {b \in Pairs : /\ b[2] <= Len(s) /\ Matches(p[i], s[b[2]])
                            /\ <<IF p[i] \in Starred THEN b[2] + 1 ELSE b[1], b[2] + 1>> \in from[i + 1]}
        ELSE LET rest == {x \in i .. Len(p) : p[x] # StarStar}
                 found == IF rest = {} THEN Pairs ELSE from[Min(rest)]
             IN {b \in Pairs :
                   /\ b[2] <= Len(s)
                   /\ \/ \E k \in {b[2]} \cup b[1] .. Len(s) : <<k + 1, k>> \in found
                      \/ b[2] < Len(s) /\ <<b[2] + 1, b[2] + 1>> \in found}
  IN <<2, 1>> \in from[1]

Short(C) == UNION {[1 .. n -> C] : n \in 1 .. 4}

ASSUME WildIsWildmatch ==
  \A p \in Short({StarStar} \cup DOMAIN Glob \cup (Name \cap {"a", "x"})) :
    \A s \in Short(Name \cap {"a", "b", "x"}) : Wild(p, s) = Wildmatch(p, s)
=============================================================================
