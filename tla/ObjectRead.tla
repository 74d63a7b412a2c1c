------------------------------ MODULE ObjectRead ------------------------------
(***************************************************************************)
(* How a stored object is read back: from a loose file, whose text begins  *)
(* with type and size, or from an entry of a pack, whose header has three  *)
(* bits of type and the size in groups of seven bits, lowest first.  gyt   *)
(* never writes a pack: the entries are those of real git, which may be    *)
(* cut off or damaged.  An integer is the set of its bits that are one,    *)
(* and has the width it has in the code.                                   *)
(***************************************************************************)
EXTENDS Integers

CONSTANTS
  Size  \* sizes of objects: sets of bits below 63

ASSUME ObjectReadAssumption == Size \subseteq SUBSET (0 .. 62)

VARIABLES
  file,    \* the file, or the entry of a pack
  phase,   \* start, header, inflate, parse, or how reading ended
  at,      \* header bytes read
  byte,    \* the last of them
  type,    \* object_type, in its place in the first byte
  size,    \* the size put together so far
  shift,   \* where its next group goes
  object   \* what the payload was made into

header == <<at, byte, type, size, shift>>
vars == <<file, phase, header, object>>

Type == SUBSET (4 .. 6)
Commit == {4}
Tree == {5}
Blob == {4, 5}
Tag == {6}
Kind == {Commit, Tree, Blob}
IsDelta(t) == {5, 6} \subseteq t
Ended == {"built", "threw", "aborted"}

(***************************************************************************)
(* Groups of seven follow the first four bits, as many as the size needs.  *)
(***************************************************************************)
Needs(S, n) == S \subseteq 0 .. 3 + 7 * n /\ (n > 0 => ~ S \subseteq 0 .. 3 + 7 * (n - 1))

HeaderByte(i) ==
  [more |-> i <= file.groups,
   bits |-> IF i = 1 THEN (file.size \cap 0 .. 3) \cup file.type
            ELSE {b \in 0 .. 6 : 4 + 7 * (i - 2) + b \in file.size}]

(* What read_bytes returns at the end of the file.                         *)
NoByte == [more |-> FALSE, bits |-> {}]
ByteAtStuck(i) ==  \* mutant: the end of the file leaves the last byte in place
  IF i <= file.kept THEN HeaderByte(i) ELSE byte
ByteAt(i) == IF i <= file.kept THEN HeaderByte(i) ELSE NoByte

(* The group, an int, shifted left and widened to 64 bits: bit 31 is its   *)
(* sign.  The language leaves a shift by 32 and more undefined; x86 and    *)
(* ARM take the distance modulo 32.                                        *)
ShiftedNarrow(bits, s) ==  \* mutant: of a group cast to 16 bits
  {p \in 0 .. 15 : \E b \in bits : p = (s % 32) + b}
Shifted(bits, s) ==
  LET low == {p \in 0 .. 31 : \E b \in bits : p = (s % 32) + b}
  IN low \cup (IF 31 \in low THEN 32 .. 63 ELSE {})

-----------------------------------------------------------------------------
(* GitObject::read: a loose object if there is one, else the pack.         *)
OpenLoose ==
  /\ phase = "start" /\ file.loose
  /\ phase' = "inflate"
  /\ UNCHANGED <<file, header, object>>

OpenPack ==
  /\ phase = "start" /\ ~ file.loose
  /\ phase' = "header"
  /\ at' = 1 /\ byte' = ByteAt(1)
  /\ type' = byte'.bits \cap 4 .. 6
  /\ size' = byte'.bits \cap 0 .. 3
  /\ shift' = 4
  /\ UNCHANGED <<file, object>>

NextGroup ==
  /\ phase = "header" /\ byte.more
  /\ at' = at + 1 /\ byte' = ByteAt(at + 1)
  /\ size' = size \cup Shifted(byte'.bits, shift)
  /\ shift' = shift + 7
  /\ UNCHANGED <<file, phase, type, object>>

HeaderDone ==
  /\ phase = "header" /\ ~ byte.more
  /\ phase' = IF IsDelta(type) THEN "threw" ELSE "inflate"
  /\ UNCHANGED <<file, header, object>>

(* The stream is inflated to its end and compared with what the header     *)
(* says.  The text of a loose object gives its size to stoi, which throws  *)
(* what main does not catch when it does not fit an int.                   *)
InflateLoose ==
  /\ phase = "inflate" /\ file.loose
  /\ phase' = CASE ~ file.whole \/ file.type \notin Kind -> "threw"
                [] ~ file.size \subseteq 0 .. 30 -> "aborted"
                [] OTHER -> IF file.stored = file.size THEN "parse" ELSE "threw"
  /\ type' = file.type
  /\ UNCHANGED <<file, at, byte, size, shift, object>>

InflatePackedUnchecked ==  \* mutant: the size is not compared
  /\ phase = "inflate" /\ ~ file.loose
  /\ phase' = IF file.whole /\ type \in Kind \cup {Tag} THEN "parse" ELSE "threw"
  /\ UNCHANGED <<file, header, object>>

InflatePacked ==
  /\ phase = "inflate" /\ ~ file.loose
  /\ phase' = IF file.whole /\ file.stored = size /\ type \in Kind \cup {Tag}
              THEN "parse" ELSE "threw"
  /\ UNCHANGED <<file, header, object>>

(* Whatever is no blob and no commit is parsed as a tree, which a tag,     *)
(* beginning with a word where a tree has a mode, does not survive; of an  *)
(* empty payload there is nothing to parse.                                *)
Build ==
  /\ phase = "parse"
  /\ IF type = Tag /\ file.stored # {}
     THEN phase' = "aborted" /\ UNCHANGED object
     ELSE phase' = "built" /\ object' = (IF type \in {Blob, Commit} THEN type ELSE Tree)
  /\ UNCHANGED <<file, header>>

(* A header that was cut off has nothing behind it.                        *)
Files ==
  {f \in [loose : BOOLEAN, type : Type, size : Size, groups : 0 .. 9, kept : 0 .. 10,
          whole : BOOLEAN, stored : Size] :
     /\ Needs(f.size, f.groups)
     /\ f.kept <= f.groups + 1
     /\ f.loose => f.kept = f.groups + 1
     /\ f.whole => f.kept = f.groups + 1
     /\ ~ f.whole => f.stored = f.size}

Init ==
  /\ file \in Files
  /\ phase = "start"
  /\ at = 0 /\ byte = NoByte /\ type = {} /\ size = {} /\ shift = 0
  /\ object = {}

Next ==
  \/ OpenLoose \/ OpenPack \/ NextGroup \/ HeaderDone
  \/ InflateLoose \/ InflatePacked \/ Build

Spec == Init /\ [][Next]_vars

-----------------------------------------------------------------------------
TypeOK ==
  /\ file \in Files
  /\ phase \in {"start", "header", "inflate", "parse"} \cup Ended
  /\ at \in 0 .. 10
  /\ byte \in [more : BOOLEAN, bits : SUBSET (0 .. 6)]
  /\ type \in Type /\ size \subseteq 0 .. 63
  /\ shift \in 0 .. 67
  /\ object \in Type

Intact == file.kept = file.groups + 1
Small == file.size \subseteq 0 .. 30

(* "3 bits for type, (n-1)*7+4-bit length data" (doc/packfiles.md:10): the *)
(* groups come back together as the size they were cut from, for every     *)
(* size below two gigabytes (pack_util.cpp:6-27).                          *)
SizeReadBack ==
  Small /\ Intact /\ ~ file.loose /\ phase \notin {"start", "header"} =>
    size = file.size /\ type = file.type

(* What an object is read as is what was stored: whole, of the size and    *)
(* the type its header says; and reading fails for no other reason than    *)
(* that it is not (object.cpp:42-56, repo_util.cpp:106-157).  A packed tag *)
(* with no text, which git does not write, is read as an empty tree.       *)
Sound(f) == f.whole /\ f.stored = f.size /\ f.type \in Kind
EmptyTag(f) == f.whole /\ f.stored = f.size /\ f.type = Tag /\ ~ f.loose /\ f.size = {}
ReadsWhatIsStored ==
  Small /\ phase \in Ended =>
    /\ phase = "built" <=> Sound(file) \/ EmptyTag(file)
    /\ phase = "built" => object = IF EmptyTag(file) THEN Tree ELSE file.type

(* The same for objects of two gigabytes and more: the size of an entry is *)
(* an uint64_t (pack_util.cpp:14), that of a loose object is compared with *)
(* a size_t (repo_util.cpp:130).                                           *)
LargeEntriesRead == ~ file.loose /\ phase \in Ended /\ Sound(file) => phase = "built"
LargeObjectsRead == file.loose /\ phase \in Ended /\ Sound(file) => phase = "built"
=============================================================================
