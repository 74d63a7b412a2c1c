------------------------------ MODULE MCWorkTree ------------------------------
(* Two names: a file a, a directory a with a file b, a file b; and a       *)
(* directory in a directory.                                               *)
EXTENDS WorkTree, FiniteSets

Paths == {<<1>>, <<1, 2>>, <<2>>}
DeepPaths == {<<1>>, <<1, 1>>, <<1, 1, 1>>, <<2>>}

(* Two contents; the modes differ where mode changes are to happen, and    *)
(* agree where only the content is to change.  Or one content, either mode. *)
PlainAndScript == {File(1, FALSE), File(2, TRUE)}
Scripts == {File(1, TRUE), File(2, TRUE)}
EitherMode == {File(1, FALSE), File(1, TRUE)}
PlainAndScripts == {File(1, FALSE), File(1, TRUE), File(2, TRUE)}

(* A clean clone with any two trees on its branches.                       *)
Directories(f) ==
  [p \in Path |-> IF f[p] = Absent /\ \E q \in Path : Above(p, q) /\ f[q] # Absent THEN Folder ELSE f[p]]
Trees == {t \in {Directories(f) : f \in [Path -> Version \cup {Absent}]} : IsTree(t)}

CloneInit ==
  /\ tip \in [Branch -> Trees]
  /\ on = 1
  /\ work = tip[1]
  /\ index = FromTree(work)
  /\ job = Idle /\ todo = {}
  /\ outcome = <<"none", "ok">>
  /\ attempt = {}
  /\ steps = 0

CloneSpec == CloneInit /\ [][Next]_vars
=============================================================================
