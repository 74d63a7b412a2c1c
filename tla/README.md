# gyt: a TLA+ verification project

gyt is a re-implementation of a part of git in C++: `init`, `add`, `commit`, `status`,
`checkout`, `merge` (fast-forward only), `tag`, `log`, `hash-object`, `cat-file`, `ls-files`,
`ls-tree`, `show-ref` and `check-ignore`, on the files of a real `.git` directory. This
directory holds TLA+ models of it, TLC configurations that check them on small instances, and
TLAPS proofs of what holds on all. Paths below are relative to the repository; file names
without a directory are files of this one.

Contents: [1 Inventory](#1-the-system) · [2 Modules](#2-modules-and-the-code) ·
[3 Runs](#3-what-the-runs-check) · [4 Proofs](#4-what-is-proved) ·
[5 Disagreements](#5-where-code-and-documents-disagree) ·
[6 Not modelled](#6-left-out-and-why) · [7 Plan](#7-plan) · [8 Running it](#8-running-it)

## 1 The system

Every gyt command is a process: it finds `.git`, reads the files it needs into memory, does its
work and ends. All state that lasts is in files. There is no lock file, no rename into place and
no log: a file is replaced by truncating it (`create_file`, `src/util.cpp`). The parts:

| Part | State | Operations | Used by |
|---|---|---|---|
| Object store (`object.cpp`, `repo_util.cpp`) | `.git/objects`, one zlib file per object, named after its content | `GitObject::write` (skips an object that exists), `read_git_object_data`, `has_loose_object` | everything |
| Refs and HEAD (`repository.cpp`, `object.cpp`) | `.git/HEAD`, files below `.git/refs`, `packed-refs` (read only) | `resolve_ref`, `update_current_ref`, `update_head`, `GitObject::find` | commit, merge, checkout, tag, log |
| Index (`index.cpp`, `index_entry.cpp`) | `.git/index`: per path an id, a mode and stat data | `read`, `save`, `add_file`, `from_tree`, `write_tree`, `scan_status` | add, commit, merge, status, ls-files |
| Trees and the work tree (`tree.cpp`, `blob.cpp`) | the user's files; tree objects | `instantiate_tree`, `serialise`, `deserialise` | checkout, merge |
| History (`commit.cpp`, `commands/log.cpp`) | commit objects and their parents | `has_ancestor`, the walk of log | merge, log |
| Paths (`commands/add.cpp`, `wildmatch`) | none | `add_path`, `add_folder`, `add_file` | add |
| Ignore rules (`repository.cpp`) | `.gitignore` files, read into memory | `is_ignored`, rewriting of nested patterns | add, status, check-ignore |
| Packs (`pack_index.cpp`, `pack_util.cpp`) | pack files, read only | `read_from_pack` (entry header, no deltas); `PackIndex` is a placeholder that opens no index | object reads |
| Command line (`gyt.cpp`, `parsers/`) | none | dispatch; catches `runtime_error` | |

They interact through calls within a process and through the files between processes. A commit,
for example, reads the index, writes tree objects bottom-up, reads HEAD for the parent, writes
the commit object, reads HEAD *again* for the file to move, and truncates and writes that file.

### What is hard in it

- **Interleaving.** Two processes (a user and an editor's plugin, two shells) take steps between
  each other's steps; nothing excludes them.
- **Crash and failure.** Between the truncation and the write of a file the process may die, and
  a write that fails after the open is not noticed (`create_file` returns true): the file stays
  empty. Later commands find it.
- **Order.** An object must be on disk before something that names it; a merge must load the
  index before it moves the branch.
- **Stale values.** HEAD is read twice; the index's stat data are trusted instead of the content.
- **Several readings of one thing.** A name on the command line is resolved by `find`, in lower
  case, and classified again by `checkout`, as typed; a pattern is matched by the walk through
  the directories and by wildmatch; a line of a nested `.gitignore` is rewritten before it is.
- **Partial failure.** `instantiate_tree` changes files one by one and throws in the middle; the
  user tries again on what it left.
- **Boundaries.** Padding of index entries; names of one or two characters; equal dates in log;
  a size cut into groups of seven bits; a header of a pack entry that stops half-way.

`PROJECT.json` lists these as 40 hazards, each at its line. A hazard is listed with the properties
of a run in which it can happen and which would notice. For those at which the code does go wrong there is no
such property; their notes name the configuration of section 5 that shows it.

### What makes each part correct

| Part | It is correct when | Stated as |
|---|---|---|
| Object store, refs, index | no command refers to an object that is not stored, unless the user wrote that reference with `hash-object`, whoever interleaves, crashes or fails to write | `WrittenBeforeReferenced`, `ImplementsObjectGraph` |
| | readable things stay readable; an empty file is being written, and will have been | `IntactStaysIntact`, `EmptyOnlyWhileWriting`, `WindowsClose` |
| | a branch moves forward only; a history starts once | `BranchesAdvance`, `RootsOnlyOnNewBranches` |
| Merge | the index is the target's before the branch is | `IndexFollowsFastForward`, `MergeLoadsIndex` |
| Names | the work tree and HEAD mean the same commit; HEAD goes on resolving; refs name commits | `HeadFollowsWorkTree`, `HeadResolves`, `RefsNameCommits`, `BranchesOnlyAdvance` |
| Work tree | a change-over is exact, also when it took several tries, and touches nothing the trees agree on | `CheckoutIsExact`, `AgreementUntouched` |
| Index and trees | a commit's tree holds no entry below a file and no empty directory; after a merge the index is the tree | `TreesAreTrees`, `MergeLoadsIndex` |
| History | has_ancestor gives the graph's answer and ends; log shows all, once, newest first, and ends | `AnswerIsAncestry`, `Terminates`, `ShowsHistory`, `NewestFirst`, `Ends` |
| Status | a settled file's edit shows; "clean" is true | `SettledFilesAreWatched`, `CleanMeansCommitted` |
| Index file | the reader finds each entry and its name | `InStep`, `NamesReadBack` |
| Paths | add stages what was asked for, all of it or nothing | `StagesWhatIsAsked`, `AllOrNothing` |
| Object reading | an object is read exactly when it is sound, as what it is (but for one packed tag, below) | `ReadsWhatIsStored`, `SizeReadBack` |
| Object formats | what is written reads back, what is read is what the text says; trees are in the order of the index | `WrittenReadsBack`, `ReadsWhatIsThere`, `TreesInIndexOrder` |
| Ignore rules | a path is ignored exactly when a line names it; what an ignored directory holds is ignored; a `.gitignore` decides about nothing above it | `PlainRulesAsWritten`, `IgnoredAllTheWayDown`, `RulesStayBelow` |

## 2 Modules and the code

The map in `PROJECT.json` names, for each definition that models code, the lines it stands for.

```
  ObjectGraph  <--implements--  Repository          History
            \                  /     |              /     \
             RepositoryProofs  MCRepository  AncestryWalk  LogWalk
                                                    \     /
                                                 HistoryProofs

  RefNames    Status     IndexFile   WorkTree    Pathspec  IgnoreRules    ObjectRead  ObjectFormat
   /   \      /   \         |         /   \       |    \    /     |         |     \    /     |
 Proofs MC  Proofs MC     Proofs    Proofs MC    MC  PathRules-  MC        MC    Object-    MC
                                                       Proofs                     Proofs
```

**Repository** is the core: the mutating commands as sequences of file operations of processes
that interleave. `objects` and `torn` are the object files and those that are empty, `info` what
a commit's id stands for (a commit, or `Malformed`: bytes that are none), `refs` and `index` the
content of HEAD, the ref files and the index;
`pc`, `mem`, `obj`, `dest`, `val`, `todo` are a process's next operation and what it holds
(`GitIndex` in memory, the object, the ref file and the content it writes, the files still to
stage). One action is one open (which truncates) or one close (which writes), with the check or
computation before it; `Fail` has the crash of a process at any point and the failure of each open
and each write, with what the code does about it, which is different for objects (throws when the open
fails), for `update_current_ref` (throws), for the other ref writes and for the index (ignored).
`last` is a history variable: what each ref was last written with, whatever became of the file.
Two writers that have the same file open can mix their lines: `Overlaid`.

`hash-object -t blob|tree|commit` stores what it is given and looks for nothing that a tree or a
commit names (`GitObject::write` checks nothing). So `StartHash` stores any blob, any tree, and
under a commit's id any tree with any parents, or `Malformed`; without `-w` an id is only found
out (`HashOnly`). The history variable `named` collects what such trees and commits refer to: the
one way in which a reference to something that is not stored gets into the repository. `Types`
says which types a run lets users write. A later command may meet such an object: a commit that
cannot be read, or whose tree or blobs are missing (`CommitReadable`, `Readable`,
`CanInstantiate`); and has_ancestor, which throws at an ancestor it cannot read if it comes upon
it before it finds what it looks for (`LooksAt`, `MayThrow`; in which order it looks is the
subject of AncestryWalk).

**ObjectGraph** is what Repository promises, in four variables and four atomic steps: content
gets a name, by a command's doing (`Name`) or a user's (`Write`, which takes what it refers to on
trust); an object is stored after what it refers to, but for what is on trust (`Put`); a root is
pointed at what is stored, a draft, which is what commits are made from, also at what is on trust
(`Point`). Repository's `Graph == INSTANCE ObjectGraph WITH ...` is the refinement mapping:
`stored` is the set of object files, `onTrust` is `named`, the index is the one draft, and `roots`
are what HEAD, the refs and the index point at, nothing where they are empty, missing or symbolic.
HEAD and the refs are held to what is stored whatever users write: `tag` and `checkout -b` take
only ids of objects that exist or that a ref holds already.

**RefNames** takes one command at a time, as a step, and models what Repository abstracts: the
spelling. `Find` is `GitObject::find` with its lower-casing and its order of lookups; `Checkout`
classifies the name again; constants say which names have a slash, one character, or are those of
directories below `.git/objects`.

**WorkTree** models files, directories and modes. A tree, like the disk, is a function from paths
to nothing, a directory or a file. `Calls` are the system calls `instantiate_tree` makes for two
trees, in the `Before` order of its two loops and its recursion; `Remove`, `Create` and `SetMode`
make the next one, `Throw` ends the command where the file system refuses it, `Interrupt` kills
it anywhere. `WriteTree` and `FromTree` are the index's conversions. `outcome` says which command
ended last and how; the history variable `attempt` holds the target of a change-over that was
begun on a clean work tree and, if it failed, was only tried again since.

**Status** models `scan_status` section by section over the stat data that `add` stored. `add`
has a step for `stat` and one for reading the file, for each file; a user may edit in between.
Time is in seconds, as stored in the index. `seen`, the second in which stat was called, is a
history field of an entry. `FileClockIsUnix` tells the two builds apart: the code compares the
stored time with that of `std::filesystem::file_time_type`, whose epoch the standard library
chooses. With libstdc++ (`run.sh` and `test.sh` build with g++-15) it is not the Unix epoch, the times
never agree and every tracked file is hashed; with libc++ it is.

**IndexFile** models where `save` puts entries and where `read` looks for them, for files written
by gyt or by real git.

**Pathspec** models add's walk over paths as sequences of characters: literal descent first, then
directory by directory. `Match` is wildmatch with `LEADING_DIR`: the pieces of the pattern between
its stars have places in the string. `Wildmatch` is the recursion itself, which tries a star at
one place after the other; that the two agree is `WildmatchFindsPlaces` of section 4, and
`MCPathspec` has TLC evaluate it for every pattern and string of up to four characters.

**History**, **AncestryWalk** and **LogWalk** model the two walks over commits. LogWalk has a
step for each call of `enqueue`, which inserts an id and then reads its commit, and one for each
commit that is popped and printed; `found` is the order of discovery that breaks ties.

**ObjectRead** models how an object is read back, from a loose file or an entry of a pack. An
integer is the set of its one bits: `Shifted` is the shift of an `int` that is then widened to 64
bits, sign and all. `file` is what is on disk: its type, the size its header says, the size of
its payload, how many bytes of the header are there, and whether the stream is whole. `EmptyTag`
is a corner that git does not write: a tag packed without any text is built as an empty tree.

**IgnoreRules** models the walk that loads the `.gitignore` files, one directory a step in any
order of the listing, the rewriting of their lines, and `is_ignored`. `Wild` is wildmatch as it
is called there, its restarts after `**` included: the rest of the pattern is tried at the place
reached and after every slash of the string that the innermost call was given (`Restarts`). Where
that string begins depends on what made the call, a star within a component (`Starred`) or an
earlier `**` (`AfterSlash`). `MCIgnoreRules` has the recursion call by call, and TLC compares the
two for all patterns and paths of up to four components (`WildIsWildmatch`). `Reads`, `Covers` and
`Asked` say what the lines mean, without rewriting and without restarts.

**ObjectFormat** models `serialise` and `deserialise` of commits, line by line, and of trees,
byte by byte. `WellFormed` and `Says` are the declarative reading of a commit's text. A time is
what the code keeps, a number of seconds: `Value` is what `stoll` makes of the digits (leading
zeros and a minus sign included), a number outside `Times` is refused, as `out_of_range` is caught
and thrown on, and `Decimal` is how a number is printed. So `007` is read as 7 and would be
written as `7`. `MaxTime` stands for the largest `long long`.

Simplifications that matter when reading a result:

- Repository: trees are one level deep; add finds any content in a file; what a command reads
  before it first writes is read in one step, except where the code reads something again later
  (HEAD in commit and merge; the existence of an object, separate from its open). Commit ids are
  given out as needed; two commits with the same tree and parents may get one id, as they do
  within a second. The message, author and date are left out of a commit. Of what a user
  can store by hand, two kinds are left out: a tree that is none, which commands treat as they do
  a tree that is missing; and a commit or a tree that names an object of another kind (a
  blob's id as its tree), since an id carries its kind here. For the same reason tags are put on
  commits only; `odd_branches` case 4 has a tag on a blob.
- RefNames: each command is one step, nothing fails, every commit's objects are readable.
- WorkTree: commands find every object and run one at a time; no symbolic links, no submodules,
  no ignored files; a mode is the executable bit; a name is its place in the order of names.
  Users edit between commands, not while one runs.
- Status: files in one directory, without modes; a file's time is the second it was written in
  (nobody sets times back).
- IndexFile: the fields before the name have fixed offsets and are left out; the extended flags of
  version 3 and the compressed names of version 4 are not read by the code.
- Pathspec: no bracket expressions and no backslash.
- LogWalk: at most one commit cannot be read.
- ObjectRead: whether a stream inflates to its end with the right checksum is one bit, and the
  payload is its type and size; ObjectFormat has the payload.
- IgnoreRules: a component of a pattern is matched by a constant (`Glob`), `**` is always a
  component of its own, and there are no negated lines (the code has none) and no links.
- ObjectFormat: the text of a commit is cut into lines and each line at its first space, which is
  what the code looks for first; characters matter in identities only. `stoll` also takes white
  space and a plus sign before the digits; the code's own check lets neither through. Ids have
  `IdLength` bytes. Bytes that are no tree at all are not given to the tree reader.

## 3 What the runs check

Every run ends within about two minutes. The bounds are in the cfg files.

| Run | Checks | Bounds, and why they are enough | States |
|---|---|---|---|
| `interleavings` | `TypeOK`, `WrittenBeforeReferenced`, `EmptyOnlyWhileWriting`, `ImplementsObjectGraph`, and `WindowsClose` (liveness), on all commands of two processes from an empty repository | Three commands, one fault: two that overlap and one after them that meets what they left. `hash-object` stores blobs and trees; commits are left to the next run, where one process is enough. The theorems of section 4 hold without any bound; the run makes sure that they are not about a model in which nothing happens. | 394,745 |
| `one_process` | `WrittenBeforeReferenced`, `BranchesAdvance`, `RootsOnlyOnNewBranches`, `IntactStaysIntact`, `IndexFollowsFastForward` | One user, five commands, all types of object by hand, two faults, from a history of two commits on two branches: two faults can empty a ref and an object, and three commands remain to stumble over them. The history was made by commands, or its first tree and commit were stored by hand and their blob is missing (then four commands follow): a merge can bring that entry into the index, and a commit from there into another tree. That the files a command reads stay as they are until it writes is what one process gives; with two, `BranchesAdvance` and `RootsOnlyOnNewBranches` fail, and the hazards of two writers are for section 5 to show. | 5,058,712 |
| `names_agree` | `TypeOK`, `HeadFollowsWorkTree`, `BranchesOnlyAdvance`, `HeadResolves`, `RefsNameCommits` | Four branches, one of them packed, two tags, three ids, all lower case, each name used for one thing; any number of commands. It delimits the names for which the code is right: mixed case, one letter, slashes, names used twice and packed branches that `checkout -b` takes are not in it, and section 5 has what happens with those. | 16,944 |
| `ancestry` | `AnswerIsAncestry`, `Terminates` | All histories of four commits with up to two parents, each with every set of unreadable commits: a diamond needs four | 38,887 |
| `log_order` | `ShowsHistory`, `NewestFirst`, `Ends` | The same, with every choice of two dates: equal, right and wrong order of parent and child | 417,152 |
| `files_and_modes` | `CheckoutIsExact`, `AgreementUntouched`, `TreesAreTrees`, `MergeLoadsIndex` | Every pair of trees over `a`, `a/b` and `b` with two contents, one in both modes, and three edits or commands, each change-over one call at a time: a change-over, killed at any call, tried again and once more, or an add and a commit between two. A path is absent, a file or a directory in each tree, which is every case of the code | 1,432,090 |
| `status` | `TypeOK`, `SettledFilesAreWatched`, `CleanMeansCommitted` | Two files, three contents of which two have the same size, two seconds, five edits or commands, `FileClockIsUnix`: add, an edit within it, an edit back, status | 728,765 |
| `index_file` | `InStep`, `NamesReadBack` | Three entries; lengths that leave every case of the padding (name ends at a multiple of eight, one before, one after) and the longest that twelve bits hold | 4,668 |
| `pathspec` | `StagesWhatIsAsked`, `AllOrNothing` | Every work tree over five paths of up to three levels, every choice of closed files and directories, one or two of fifteen patterns, wildcards in each position | 3,227,645 |
| `object_read` | `TypeOK`, `SizeReadBack`, `ReadsWhatIsStored` | Sizes with bits at both ends of every group and at the ends of an `int`; all eight types; loose or packed; whole, cut off anywhere or damaged; payloads of any of the sizes | 259,463 |
| `ignore_rules` | `PlainRulesAsWritten`, `IgnoredAllTheWayDown`, `RulesStayBelow` | Any two of twelve lines, one of each form the code tells apart, in any of five directories three levels deep, with or without a repository in one: a rule above and a rule below can meet, and a directory may be closed before its own rules are read | 101,576 |
| `object_format` | `ReadsWhatIsThere`, `WrittenReadsBack`, `TreesInIndexOrder` | 36 commits with up to two parents, odd identities and signatures, times that are the last that fit, each with messages of empty lines and lines like headers; every header of up to five lines of eleven kinds, among them a time with a sign and a leading zero and one too large by one (`MaxTime` is 12, which leaves numbers of one and two digits); every tree over four names (`a`, `a b`, `a.a`, `a0`) that a slash sorts differently, with three modes and ids that look like spaces and NULs | 1,538,331 |

Each property of a passing run has a mutant: a copy of one definition with a plausible mistake,
kept beside the original and marked `mutant`, for which TLC finds the property violated.

**Fairness.** `interleavings` assumes `WF_vars(Step(p))` for each process: the operating system
goes on scheduling a process that has started. It does not assume that anybody starts a command,
nor that a command succeeds, nor anything of `Fail`. `WindowsClose` promises something only while
no fault has happened, because after one the file stays empty, which `torn_object.cfg` shows. Weak
fairness is enough as no step of one process disables another's: there are no locks, and every
choice leads on. `ancestry` and `log_order` assume weak fairness of their next-state relation: a
loop of one thread goes on running.

**Deadlock** is not checked: every bounded model stops when its bound on commands is used up, and
the algorithms stop when they are done. **Symmetry** is not used.

## 4 What is proved

All with TLAPS, for every value of the constants that satisfies the modules' assumptions.

| Theorem | States |
|---|---|
| `RepositoryProofs!TypeCorrect` | `Spec => []TypeOK` |
| `RepositoryProofs!ReferencesAreWritten` | `Spec => []WrittenBeforeReferenced`, for any number of processes, paths, refs, commands, trees and commits written by hand, crashes and failed writes |
| `RepositoryProofs!Refinement` | `Spec => ImplementsObjectGraph` |
| `RepositoryProofs!EmptyFilesAreBeingWritten` | `Spec => []EmptyOnlyWhileWriting` |
| `RepositoryProofs!MergeSavesIndexFirst`, `ObjectsStayIntact`, `BranchesOnlyMoveForward`, `HistoriesStartOnce` | the four properties of the run `one_process`, for one process (`Alone`) and any number of commands and faults |
| `RepositoryProofs!GraphSafe`, `NothingEverDangles` | `WellFormedLinks` implies that ObjectGraph keeps `NothingDangles`; so Repository, which implements it, does: whatever is missing from the store is named by a user's own tree or commit, and no ref ever holds it |
| `HistoryProofs!AncestryIsRight` | `Spec => []AnswerIsAncestry`, for histories of any size |
| `HistoryProofs!LogShowsHistory`, `LogIsNewestFirst` | `ShowsHistory` and `NewestFirst`, for histories of any size and shape |
| `RefNamesProofs!RefTypes`, `RefsHoldCommits`, `HeadIsShown`, `HeadStaysResolved`, `BranchesAreForwardOnly` | the properties of the run `names_agree`, for any refs, names and history with plain names (`PlainNames`) |
| `ObjectProofs!ReaderTypes`, `SizesSurvive`, `SoundObjectsRead` | the properties of the run `object_read`, for any sizes (the last two for those below two gigabytes, which they say) |
| `ObjectProofs!EveryTextIsReadRight`, `WrittenCommitsReadBack`, `TreesKeepTheirOrder` | the properties of the run `object_format`, for texts of any lines, any commits and messages, any trees and ids of any length |
| `StatusProofs!StatusTypes`, `StatusIsRight`, `CleanIsTrue` | the three properties of the run `status`, for any files, contents, seconds and commands |
| `IndexFileProofs!ReaderInStep`, `NamesSurvive` | `InStep` and `NamesReadBack`, for any number of names shorter than 4095 bytes (`ShortNames`) |
| `WorkTreeProofs!WorkTreeTyped`, `TreesStayTrees`, `MergeLeavesIndex`, `ChangeOverExact`, `AgreementStays` | `TypeOK` and the four properties of the run `files_and_modes`, for any paths of any depth, any files and branches, any number of edits, commands, throws and kills |
| `PathRulesProofs!WildmatchFindsPlaces` | `Match(p, s) <=> Wildmatch(p, s)`, for any pattern of characters, `*` and `?` and any string |
| `PathRulesProofs!AddStagesWhatIsAsked`, `AddIsAllOrNothing` | the properties of the run `pathspec`, for any work tree, any ignored paths and any patterns of characters, `*` and `?` |
| `PathRulesProofs!IgnoredAsWritten`, `IgnoredBelowIgnored`, `RulesStayInTheirFolder` | the properties of the run `ignore_rules`, for any directories, files, lines and nested repositories |

**Repository.** What users write by hand may refer to anything, so nothing can be proved of what is
stored alone. `WrittenBeforeReferenced` has three parts: what a stored object refers to is stored
or in `named`; what HEAD and the refs point at is stored; what the index points at is stored or in
`named`, as a merge takes it from a tree. The content of the graph is in what the commands add:
none of them puts anything in `named` but `hash-object` for its own argument, so with
`Types = {"blob"}` `named` stays empty and the theorem is that every reference is stored. It speaks
of files only; that a step keeps it depends on what the process holds. `HeldClosed(p)` says so, by
program counter: while `p` writes an object, what the object refers to is stored or named; what
`p` holds as index is stored or named, up to the object being written; the commit in `val` is
stored or being written; the target of a merge is a commit whose tree is stored; when a ref is to
be written, `val` is a commit's id or the name of a ref. `IInv` is `TypeOK`,
`WrittenBeforeReferenced` and `HeldClosed` of all processes. Since objects are never removed,
`named` only grows and an id's meaning never changes (`StayClosed`), a step of one process keeps
`HeldClosed` of the others; `ObjectSteps`, `RefSteps`, `IndexSteps`, `HashSteps` and the lemmas
after them are the process's own steps. `Refinement` uses the same invariant: each action is `Put`,
`Point`, `Name`, `Write` or a stutter of the graph. `EmptyOnlyWhileWriting` is inductive beside
`TypeOK` (`WindowStep`): without faults the only step that leaves a window is the write that
closes it, or a writer that mixes its line into another's.

**Repository with one process.** Between the steps of one process nobody else takes any, so what
it has read stays true until it writes. `AloneInv` adds to `IInv` that a ref file holds what was
last written to it or was emptied by a fault (`FilesFollowHistory`), and, by program counter, what
the process knows (`AloneHolds`): the commit it carries to `advance` descends from what the branch
was last written with, if it ever was; for a merge, the index it holds is the target's. The
emptied files are what makes this more than obvious: a command that reads an empty HEAD or branch
has to end with an error instead of taking the branch for an unborn one.

**AncestryWalk.** `WalkInv`: whatever was taken or waits is an ancestor of the tip; the parents
of what was taken are taken or wait; the target was not taken. When nothing waits, what was taken
is closed under parents and contains the tip, so it contains every ancestor, and the target is
none. `SizeAssumption` is all that is assumed.

**LogWalk.** `LogInv`: what was discovered, or is to be, is an ancestor; the parents of what was
printed are discovered or about to be; and where clocks agree, nothing that waits is newer than
anything printed. The last is inductive because a commit is printed when nothing waiting is newer,
and what it adds, its parents, is not newer than itself.

**RefNames.** `IInv` adds to `TypeOK` and `RefsNameCommits` that a name stands in one space only
(`Apart`), that HEAD is at a branch's name, an existing tag or a commit (`HeadPlaced`), and that
packed refs hold commits. Then `find` and `checkout` cannot read a name in two ways. `PlainNames`
says what a name must be for that: in lower case, longer than two characters, without a slash,
used once, no branch of another repository, no `checkout -b` of a packed branch. Each part is
needed: section 5 has a configuration that drops it.

**ObjectRead.** The size put together after *n* bytes is the part of the file's size that *n*
groups cover, and `shift` is where the next one goes; below two gigabytes no group reaches bit 31.

**ObjectFormat, commits.** `CommitInv` follows the two passes of deserialise. While lines are
read, `LinesInv` has the rows so far in order (`Orderly`: each has two parts, no continuation is
astray) and `fields` as their cutting into headers with the continuations below them (`CutAt`).
While headers are taken, `FieldsInv` has a row up to which `commit` holds what the rows say
(`TakenUpTo`, by counting: a header seen once sets its field, one not seen leaves it `None`), and
behind which lie just the headers not taken yet. The property names neither pass: that a
signature keeps its continuations and gets none of a header that was skipped follows from the cuts
(`SignatureOwns`), and wherever the code throws, the row it looked at is one that `WellFormed`
forbids. `WrittenReadsBack` needs no invariant of its own: what `Serialise` writes is well formed and its
first separator is the one after its header, since each header line has two parts
(`WrittenIsWellFormed`), and the only commit that says what those rows say is the one that was
written (`OnlyReading`). That is where identities come in: the last `" <"` and the first
`"> "` after it are those that `IdentityText` put there, if name, address and time zone hold no
angle bracket. `commands/commit.cpp` refuses those that do (`Committer`). A time is read back
because the digits that `Decimal` writes have the number's value (by strong induction, with
`Ladder`), and it fits because it did when it was kept.

**ObjectFormat, trees.** `TreeInv` has `ReadSoFar`: the text is that of the entries in the order
of their keys, `fields` are the first of them, and `rest` is the text of the others. The step needs
`EntryRead`: the first space ends the mode because octal digits are none, the first NUL after it
ends the name because names hold none, and the id has a fixed length, so no byte in it is looked
at; digits in base eight and sixteen come back as numbers (`OctalIs`, `IdsReadBack`). The order of
keys is that of paths by `KeyOrder`: with a slash at the end of a directory's name, comparing the
keys decides every comparison of paths below them, and two entries never have one key
(`KeysDiffer`), because no name holds a slash. `Sorted` chooses an order; `OrderIs`
proves that there is one, for any finite set of entries.

What is assumed is what the code's types and its earlier checks give (`ObjectFormatAssumption`): a
tree's entries are finite and no name occurs twice, as `fileEntries` is a map; modes are
positive and have at most six octal digits, as `TreeMode` and the modes of files do; a
signature has a line, and a message too, an empty one if it is empty; a commit's times are among
those that fit, as `sys_seconds` are. That a text is read exactly when it is well formed includes
that its times fit: `WellFormed` asks it of the number the digits make, with no word of how the
reader gets there.

**Status.** `IInv` adds to the types that no time stamp lies in the future (`StampsArePast`), that
an entry whose stat was called in a later second than the file's stamp says what the file holds
while the stamp stays (`Trustworthy`, for the saved index and for the one `add` has in memory),
and that what was printed is what would be printed again. The first is what makes the second
inductive: an edit gives the file the present second, which a settled entry's stamp is before.

**IndexFile.** `FileInv`: entry *i* starts where entry *i-1* ends, each start is 4 modulo 8, and
what was read so far are the first entries. The one lemma of arithmetic, `StepsAgree`, says that
the reader's rounding to eight from twelve bytes on finds the end that the writer's padding made.

**WorkTree.** A change-over that was killed and is tried again starts on a disk that is neither
tree. `Halfway` says what such a disk may hold: at each path what the current tree has, what the
new one has (perhaps with its mode yet to be set), or nothing, and exactly the common entry where
they agree. It says nothing of order. `Tried` adds, for the try at work, that the calls for a path
are made in order and that one that was made has left its mark; it is what makes the end exact,
and one lemma for each kind of call (`RemoveStep`, `CreateDirectoryStep`, ...) shows that both
survive the call, because the order puts a directory before what is in it, so that a recursive
removal only hits what has not been created yet. `Progress` is `Halfway` and `Tried` for the target of
`attempt`, and `Inv` is `Progress`, `TypeOK`, `TreesAreTrees`, `MergeLoadsIndex` and `JobOK`, which
ties the remaining calls to the two trees. When no call is left, `NothingLeft` reads `Tried` and
finds the new tree, but for the bit that `LosesBit` names. `AgreementStays` needs no invariant but the
types: no call is wanted at, above or below a path where the trees agree.

**Pathspec.** What could be missed is a file below a directory that was not entered or a file whose
folder does not match the pattern's parent. `PathInv` has, while add descends, that what it went
through is literal and open, and, while it walks, that each wanted file is matched already, is not
looked at because it lies below one of the open directories, or will be. Two lemmas about `Match`
carry it: a string that matches begins with the pattern's literal names (`LiteralPrefix`), and the
parent of a string that matches, or a directory above it, matches the parent of the pattern
(`ParentMatches`, by cutting the places of the pieces at the last slash). `WildmatchFindsPlaces`
goes through the pattern from its end (`Backwards`). Pieces that have places are found there
(`FoundBackwards`, `PlacedIsFound`); where the recursion finds something, places are put together
one piece after the other (`PlacedTo`, `FoundIsPlaced`). The two differ in how they treat the end of
the string, where wildmatch tries no star: only a rest of stars can be placed there.

**IgnoreRules.** `RulesStayInTheirFolder` is about the patterns one .gitignore makes: those of a
directory with a literal name begin with its components, and match only below it
(`LiteralFolders` says that the names are literal). `IgnoredBelowIgnored` is monotonicity of `Wild`
under `LEADING_DIR`. `IgnoredAsWritten` joins four arguments. (1) `LoadedInv`: every pattern is the
rewriting of a rule or is `.git/`, and each directory's rules are loaded unless a directory on the
way to it is ignored or still waits. (2) `WildReads`: places that `Wild` found, restarts included,
can be changed into a reading from left to right that never goes back, as long as what follows
`**` matches no directory on the way there (`Overlaps`); conversely a reading gives places
(`ReadsWild`). (3) A rewritten pattern reads a path exactly when the line reads what is below its
directory (`BelowReads`, `ReadsAnyDepth`, `HitsCovers`). (4) A directory that is ignored is ignored for a
reason that `Asked` knows, by (1) to (3) for the shortest such directory, so the rules that were
never loaded do not matter. `Plain` is the hypothesis; each of its three parts is needed, and
section 5 has a configuration without it.

**Induction.** TLAPS cannot instantiate the library's induction theorems. Where an argument goes
by induction over data (a path's length, the pieces of a pattern), it is made by hand: a set of
natural numbers has a least element (`LeastNatural`, from the well-foundedness of finite sets) and a
set that holds 1 and with each number the next is everything (`Ladder`); both take a set, not an operator.

Model-checked only: liveness (`WindowsClose`, `Terminates`, `Ends`), because TLAPS does not do
fairness here. Every other property of a run is stated by a theorem. Only evaluated by TLC, on
short patterns and paths, is that `Wild` of IgnoreRules is what wildmatch's recursion finds
(`WildIsWildmatch` of `MCIgnoreRules`); the theorems about ignore rules are about `Wild`.

## 5 Where code and documents disagree

Found while modelling: what the code does, against what its comments, documents or tests say. They
are configurations of the same modules, each of which makes TLC print the shortest way there:
`tlc -config X.cfg Module`. Where a configuration has several cases, one is switched on and the
others are comments in it. `PROJECT.json` quotes the lines.

| Configuration, module | Property violated | What happens |
|---|---|---|
| `tag_moves`, MCRepository | `TagsFixed` | checkout of a tag makes HEAD name the tag's file; the next commit writes its id into it |
| `torn_object`, MCRepository | `PublishedReadable` | a failed write leaves an empty object that is never written again; commit ends well |
| `lost_commit` case 1, MCRepository | `BranchesAdvance` | two commits at once: the branch ends at one, the other is lost |
| `lost_commit` case 2, MCRepository | `BranchesAdvance` | a checkout between the two reads of HEAD: the commit lands on the other branch |
| `garbled_head`, MCRepository | `RootsOnlyOnNewBranches` | two writers of HEAD leave a mixture; the next commit starts a new history |
| `odd_names` case 1, MCRefNames | `HeadFollowsWorkTree` | checkout Dev shows dev, HEAD names Dev |
| `odd_names` case 2, MCRefNames | `HeadFollowsWorkTree` | a branch and a tag of one name: the work tree shows one, HEAD names the other |
| `odd_names` case 3, MCRefNames | `HeadFollowsWorkTree` | a branch named by one letter: the process aborts between work tree and HEAD |
| `odd_names` case 4, MCRefNames | `HeadFollowsWorkTree` | checkout origin/dev: HEAD names a branch that does not exist |
| `odd_branches` case 1, MCRefNames | `BranchesOnlyAdvance` | checkout -b over a branch in packed-refs moves it anywhere |
| `odd_branches` case 2, MCRefNames | `HeadResolves` | checkout -b feature/a: no directory, no branch file, HEAD names it |
| `odd_branches` case 3, MCRefNames | `HeadResolves` | checkout HEAD: HEAD names the branch HEAD |
| `odd_branches` case 4, MCRefNames | `RefsNameCommits` | tag takes a blob, or the two characters of a fan-out directory |
| `lost_mode`, MCWorkTree | `CheckoutSetsModes` | an executable whose content changes loses its bit |
| `changeover` case 1, MCWorkTree | `CleanCheckoutSucceeds` | where a file becomes a directory, checkout throws half-way |
| `changeover` case 2, MCWorkTree | `EditsSurvive` | checkout overwrites changes |
| `changeover` case 3, MCWorkTree | `CheckoutLoadsIndex` | checkout leaves the old commit's index |
| `stuck_commit`, MCWorkTree | `StagedCommits` | a file that became a directory stays staged; every commit fails |
| `hidden_mode`, MCWorkTree | `StagedChangesShow` | a staged change of mode alone is not shown by status |
| `racy_edit`, MCStatus | `EveryEditShows` | an edit in the second of the add, of the same size, is not shown (only where the clocks agree) |
| `long_name`, IndexFile | `NamesReadBack` | a name of 4095 bytes and more, written by real git, is cut at the front |
| `large_sizes` case 1, MCObjectRead | `LargeEntriesRead` | a packed object of two gigabytes or more is refused: its size is put together by shifting an `int` |
| `large_sizes` case 2, MCObjectRead | `LargeObjectsRead` | a loose one ends the program: `stoi` throws `out_of_range`, which nothing catches |
| `ignored_folders` case 1, MCIgnoreRules | `RulesAsWritten` | the line `b` in `a/b/.gitignore` ignores all of `a/b`: `**/` restarts before the place it reached |
| `ignored_folders` case 2, MCIgnoreRules | `RulesAsWritten` | the line `*/` ignores the files at the root too |
| `ignored_bracket`, MCIgnoreRules | `RulesAsWritten` | the lines of `[d]/.gitignore` are about `d` |
| `extra_header`, MCObjectFormat | `PrintsTheObject` | cat-file leaves out headers the reader does not know |

## 6 Left out, and why

- **Dates and identities, printing**: formatting without state. LogWalk takes dates as numbers.
- **Readers** (cat-file, ls-files, ls-tree, show-ref, check-ignore): they print what one read
  returns and change nothing; ObjectRead, ObjectFormat and IgnoreRules have what they read.
- **Command line**: a command starts with parsed arguments.
- **Fields of the index** before the name have fixed widths and offsets; versions 3 and 4 of the
  file are not read by the code.
- **PackIndex**: a placeholder that `has_pack_object` asks for a file of the object's name.
- **Compression**: whether a stream is whole is one bit of ObjectRead.
- **Third-party code**: inih, TCLAP, Catch2, SHA-1. They are most of the lines of the repository
  (the single header of Catch2 alone is two thirds) and none of gyt's own logic. An object's hash
  is its identity in the models, so two contents never share an id.

## 7 Plan

Done, in this order: Repository with its abstract specification and proofs; RefNames; the walks
over history; WorkTree; Status; IndexFile; Pathspec; then the proofs of LogWalk, RefNames and of
Repository with one process; ObjectRead with its proofs; IgnoreRules; ObjectFormat; the proofs of
WorkTree, Pathspec and IgnoreRules; the proofs of ObjectFormat, first commits, then trees; the proof that Pathspec's `Match` is
what wildmatch finds.

What would come next:

1. *Composition*: the ignored paths of Status and Pathspec taken from IgnoreRules instead of being
   any set, which they now are; the conversions of WorkTree under the interleavings of Repository.
2. *wildmatch* with bracket expressions and escapes, once for Pathspec and IgnoreRules.
3. A proof of `WildIsWildmatch`, as `WildmatchFindsPlaces` is one for Pathspec.

## 8 Running it

    tlc -workers 2 -config interleavings.cfg MCRepository
    tlapm RepositoryProofs.tla

The module of each run is in `PROJECT.json` under "runs", or in section 5.
