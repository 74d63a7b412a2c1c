----------------------------- MODULE ObjectGraph -----------------------------
(***************************************************************************)
(* What an object database and the files that point into it promise:       *)
(* nothing refers to an object that is not stored, unless a user says so.  *)
(* An object is named after its content, so what a name refers to is       *)
(* settled once; an object is stored after everything it refers to, except *)
(* for what the contents that users write refer to, which is taken on      *)
(* trust; a root is pointed only at what is stored, a draft also at what   *)
(* is taken on trust; and nothing is ever removed.  Each step is atomic:   *)
(* this is the abstract specification that Repository implements file by   *)
(* file.                                                                   *)
(***************************************************************************)

CONSTANTS
  Node,        \* names of objects
  Root,        \* files that point at objects: HEAD, the refs, the index
  Draft,       \* those of them that commits are drafted in: the index
  Links,       \* the sets of names that an object or a root can refer to
  NoContent    \* what a name refers to before any content has it

(* What the theorems ask of the constants.                                 *)
WellFormedLinks == Links \subseteq SUBSET Node /\ {} \in Links /\ NoContent \notin Links

VARIABLES
  stored,      \* the objects in the database
  onTrust,     \* what the contents that users wrote refer to
  refersTo,    \* what each name's content refers to
  roots        \* what each root points at

vars == <<stored, onTrust, refersTo, roots>>

TypeOK ==
  /\ stored \subseteq Node
  /\ onTrust \subseteq Node
  /\ refersTo \in [Node -> Links \cup {NoContent}]
  /\ roots \in [Root -> Links]

(* Content gets its name.                                                  *)
Bind(n, S) ==
  /\ refersTo[n] \in {NoContent, S}
  /\ refersTo' = [refersTo EXCEPT ![n] = S]
  /\ UNCHANGED <<stored, roots>>

Name(n, S) == Bind(n, S) /\ UNCHANGED onTrust
Write(n, S) == Bind(n, S) /\ onTrust' = onTrust \cup S

Put(n) ==
  /\ refersTo[n] # NoContent
  /\ refersTo[n] \subseteq stored \cup onTrust
  /\ stored' = stored \cup {n}
  /\ UNCHANGED <<onTrust, refersTo, roots>>

(* S is empty when the file is missing, empty, or names another root.      *)
Point(r, S) ==
  /\ S \subseteq stored \cup (IF r \in Draft THEN onTrust ELSE {})
  /\ roots' = [roots EXCEPT ![r] = S]
  /\ UNCHANGED <<stored, onTrust, refersTo>>

Init ==
  /\ stored = {} /\ onTrust = {}
  /\ refersTo \in [Node -> Links \cup {NoContent}]
  /\ roots = [r \in Root |-> {}]

Next ==
  \/ \E n \in Node : Put(n)
  \/ \E r \in Root, S \in Links : Point(r, S)
  \/ \E n \in Node, S \in Links : Name(n, S) \/ Write(n, S)

Spec == Init /\ [][Next]_vars

(* What is referred to, by an object that is stored or by a draft, and not *)
(* stored itself, is what users' contents refer to; no other root refers   *)
(* to an object that is not stored.                                        *)
NothingDangles ==
  /\ \A n \in stored : refersTo[n] # NoContent /\ refersTo[n] \subseteq stored \cup onTrust
  /\ \A r \in Root : roots[r] \subseteq stored \cup (IF r \in Draft THEN onTrust ELSE {})
=============================================================================
