---------------------------- MODULE MCObjectFormat ----------------------------
(* Names and addresses with spaces, messages that look like headers, and   *)
(* every kind of header line, right or wrong; names of files and           *)
(* directories whose order a "/" decides, and ids with spaces and NULs.    *)
EXTENDS ObjectFormat

Letter == 101
One == Zero + 1
Plain == [name |-> <<Letter>>, email |-> <<Letter>>, timestamp |-> MaxTime, timezone |-> <<One>>]
Spaced == [name |-> <<Letter, Space, Letter>>, email |-> <<Letter, Space, Letter>>,
           timestamp |-> -MaxTime - 1, timezone |-> <<Minus, One>>]
Signatures == {None, <<<<Letter>>>>, <<<<Letter>>, <<Letter>>, <<>>>>}
CommitSet ==
  [tree : {<<One>>}, parent : {<<>>, <<<<One>>>>, <<<<One>>, <<Zero>>>>},
   author : {Plain, Spaced}, committer : {Plain, Spaced}, gpgsig : Signatures]

AllWords == SingleLine \cup {Nothing, "gpgsig", "encoding", "word"}
Word == <<"word">>
Parent == <<"parent", <<One>>>>
Messages == {<<Blank>>, <<Word, Blank>>, <<Blank, Word>>, <<Word, Blank, Parent, Blank, Blank>>}

Lines ==
  {<<"tree", <<One>>>>, <<"tree", <<>>>>, Parent,
   <<"author", IdentityText(Plain)>>, <<"committer", IdentityText(Spaced)>>,
   <<"author", WithTime(Plain, <<Minus, Zero, One>>)>>, <<"author", WithTime(Plain, Decimal(MaxTime + 1))>>,
   <<"committer", <<Letter, Space, Less, Letter, Greater>>>>,
   <<"gpgsig", <<Letter>>>>, <<"encoding", <<Letter>>>>, <<Nothing, <<Letter>>>>}

(* "a", "a b", "a.a" and "a0"; modes 40000, 100644 and 100755.             *)
Names == {<<97>>, <<97, 32, 98>>, <<97, 46, 97>>, <<97, 48>>}
Ids == {<<2, 0, 0, 0>>, <<0, 0, 2, 0>>}
Entry == [mode : {TreeMode, 33188, 33261}, id : Ids]
TreeSet ==
  {{[mode |-> t[n].mode, name |-> n, id |-> t[n].id] : n \in {k \in Names : t[k] # None}} :
     t \in [Names -> Entry \cup {None}]}
=============================================================================
