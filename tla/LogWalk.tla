------------------------------- MODULE LogWalk -------------------------------
(***************************************************************************)
(* gyt log: every commit reachable from start, the most recent committer   *)
(* date first among those discovered, ties in order of discovery.  The     *)
(* dates are what the committers' clocks said: nothing orders them.        *)
(***************************************************************************)
EXTENDS History

CONSTANT Dates  \* bound: the committer dates that occur

ASSUME DatesAssumption == Dates \subseteq Nat

VARIABLES
  date,     \* each commit's committer date
  start,    \* the commit the log starts from
  found,    \* the ids discovered, in that order: `order' is the position
  printed,  \* the commits printed so far
  todo,     \* the ids enqueue is still to be called with
  status    \* "running", "done", or "error" for an exception

logGraph == <<parents, unreadable, date, start>>
logVars == <<logGraph, found, printed, todo, status>>

LogTypeOK ==
  /\ parents \in [Commit -> Seq(Commit)]
  /\ unreadable \subseteq Commit
  /\ date \in [Commit -> Dates]
  /\ start \in Commit
  /\ found \in Seq(Commit) /\ printed \in Seq(Commit) /\ todo \in Seq(Commit)
  /\ status \in {"running", "done", "error"}

LogInit ==
  /\ parents \in Histories
  /\ unreadable \in {{}} \cup {{c} : c \in Commit}
  /\ date \in [Commit -> Dates]
  /\ start \in Commit
  /\ found = <<>> /\ printed = <<>> /\ todo = <<start>>
  /\ status = "running"

(* enqueue: an id inserted before is passed over; a new one is inserted,   *)
(* then read, which may throw.                                             *)
Enqueue ==
  /\ status = "running" /\ todo # <<>>
  /\ todo' = Tail(todo)
  /\ LET id == Head(todo) IN
       IF id \in ToSet(found)
       THEN UNCHANGED <<found, status>>
       ELSE /\ found' = Append(found, id)
            /\ status' = IF id \in unreadable THEN "error" ELSE status
  /\ UNCHANGED <<logGraph, printed>>

(* The queue holds what was discovered and not popped yet.                 *)
Waiting == {i \in DOMAIN found : found[i] \notin ToSet(printed)}
NewerByOrder(i, j) == i < j  \* mutant: first come, first printed
Newer(i, j) ==
  \/ date[found[i]] > date[found[j]]
  \/ date[found[i]] = date[found[j]] /\ i < j
IsTop(i) == i \in Waiting /\ \A j \in Waiting \ {i} : Newer(i, j)

(* Mutant: only the first parent of a merge is followed.                   *)
PrintFirstParent ==
  /\ status = "running" /\ todo = <<>>
  /\ \E i \in DOMAIN found :
       /\ IsTop(i)
       /\ printed' = Append(printed, found[i])
       /\ todo' = SelectSeq(parents[found[i]], LAMBDA c : c = Head(parents[found[i]]))
  /\ UNCHANGED <<logGraph, found, status>>

(* Mutant: the top of the queue is printed and not popped.                 *)
PrintUnpopped ==
  /\ status = "running" /\ todo = <<>>
  /\ \E i \in DOMAIN found : IsTop(i) /\ todo' = parents[found[i]]
  /\ UNCHANGED <<logGraph, found, printed, status>>

PrintTop ==
  /\ status = "running" /\ todo = <<>>
  /\ \E i \in DOMAIN found :
       /\ IsTop(i)
       /\ printed' = Append(printed, found[i])
       /\ todo' = parents[found[i]]
  /\ UNCHANGED <<logGraph, found, status>>

Return ==
  /\ status = "running" /\ todo = <<>> /\ Waiting = {}
  /\ status' = "done"
  /\ UNCHANGED <<logGraph, found, printed, todo>>

LogNext == Enqueue \/ PrintTop \/ Return

LogSpec == LogInit /\ [][LogNext]_logVars
FairLogSpec == LogSpec /\ WF_logVars(LogNext)

-----------------------------------------------------------------------------
(* The log shows each commit once, and all of them: never a commit twice,  *)
(* although merges make it reachable on several ways, and when the command *)
(* ends exactly the ancestors of start were shown (commands/log.cpp:32-48, *)
(* log_t.cpp:45).  An exception means an ancestor could not be read.       *)
ShowsHistory ==
  /\ IsInjective(printed)
  /\ ToSet(printed) \subseteq Ancestors(start)
  /\ status = "done" => ToSet(printed) = Ancestors(start)
  /\ status = "error" => Ancestors(start) \cap unreadable # {}

(* No committer's clock was behind that of a parent's committer.           *)
ClocksAgree == \A c \in Commit : \A p \in ToSet(parents[c]) : date[p] <= date[c]

(* With clocks that never ran backwards from a parent to a child, the log  *)
(* as a whole is newest first, not only among what was discovered so far.  *)
NewestFirst ==
  ClocksAgree =>
    \A i, j \in DOMAIN printed : i < j => date[printed[i]] >= date[printed[j]]

(* What the walk knows.  Whatever was discovered or is to be is an         *)
(* ancestor; what was printed has its parents discovered, or about to be;  *)
(* and with clocks that agree nothing still to come is newer than what was *)
(* printed.                                                                *)
LogInv ==
  /\ ToSet(printed) \subseteq ToSet(found)
  /\ ToSet(found) \cup ToSet(todo) \subseteq Ancestors(start)
  /\ status # "error" =>
       \A c \in ToSet(printed) : ToSet(parents[c]) \subseteq ToSet(found) \cup ToSet(todo)
  /\ status # "error" => start \in ToSet(found) \cup ToSet(todo)
  /\ status = "done" => todo = <<>> /\ Waiting = {}
  /\ ClocksAgree =>
       \A c \in (ToSet(found) \ ToSet(printed)) \cup ToSet(todo), d \in ToSet(printed) :
         date[c] <= date[d]

(* The command ends on every history.                                      *)
Ends == <>(status \in {"done", "error"})
=============================================================================
