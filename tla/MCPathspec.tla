------------------------------ MODULE MCPathspec ------------------------------
(* Names of one and two characters, three levels deep.                     *)
EXTENDS Pathspec

Characters == {"a", "b", "/", "*", "?"}

FilePaths ==
  {<<"a">>, <<"b", "/", "a">>, <<"a", "b", "/", "b">>,
   <<"b", "/", "a", "b", "/", "a">>, <<"a", "/", "b", "/", "a">>}

Patterns ==
  {<<>>, <<"a">>, <<"b", "/", "a">>, <<"b", "/", "a", "b">>, <<"a", "*">>, <<"*", "a">>, <<"?">>,
   <<"*", "/", "a">>, <<"b", "/", "*">>, <<"b", "/", "*", "/", "a">>, <<"a", "*", "/", "b">>,
   <<"?", "b", "/", "*">>, <<"*", "/", "?", "b">>, <<"b", "*", "a">>, <<"*", "*", "/", "a">>}

-----------------------------------------------------------------------------
(* What Match says in one sentence is what wildmatch finds.                *)
Strings(C, n) == UNION {[1 .. k -> C] : k \in 0 .. n}

ASSUME MatchIsWildmatch ==
  \A p \in Strings(Characters \ {"b"}, 4) \cup Patterns :
    \A s \in Strings({"a", "b", "/"}, 4) \cup FilePaths : Match(p, s) = Wildmatch(p, s)
=============================================================================
