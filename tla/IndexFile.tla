------------------------------ MODULE IndexFile ------------------------------
(***************************************************************************)
(* The index file: where save puts each entry, and where read looks for    *)
(* it.  Entries have names of any length and are padded; nothing in the    *)
(* file says where an entry starts, so read has to work out from each      *)
(* entry where the next one is.  Of an entry's fields only the name and    *)
(* the twelve bits for its length are modelled: the others sit at fixed    *)
(* offsets before the name.  The file may also be one real git wrote.      *)
(***************************************************************************)
EXTENDS Integers, Sequences

CONSTANTS
  NameLength,  \* lengths of the names of entries
  MaxEntries   \* bound: entries

ASSUME IndexFileAssumption == NameLength \subseteq Nat \ {0} /\ MaxEntries \in Nat

VARIABLES
  writer,    \* who wrote the file
  phase,     \* writing, reading, done; lost, where read is not at an entry
  entries,   \* the entries in the file: offset, length, length bits
  size,      \* the size of the file so far
  ptr,       \* how far read is
  names      \* the names read so far: offset and length

vars == <<writer, phase, entries, size, ptr, names>>

Header == 12   \* signature, version and count
NameAt == 62   \* offset of the name in an entry
FullBits == 4095

Entry == [at : Nat, len : NameLength, bits : 0 .. FullBits]
TypeOK ==
  /\ writer \in {"gyt", "git"}
  /\ phase \in {"writing", "reading", "done", "lost"}
  /\ entries \in Seq(Entry) /\ Len(entries) <= MaxEntries
  /\ size \in Nat /\ ptr \in Nat
  /\ names \in Seq([at : Nat, len : Int])
  /\ Len(names) <= Len(entries)

-----------------------------------------------------------------------------
(* gyt cuts the length to twelve bits; real git writes all ones instead.   *)
LengthBits(w, n) == IF w = "gyt" THEN (n % 65536) % (FullBits + 1)
                    ELSE IF n < FullBits THEN n ELSE FullBits

(* Mutant: no padding after an entry that fills its last eight bytes.      *)
PaddingAsNeeded(n) == (8 - (n % 8)) % 8
(* One to eight zero bytes, so that a name always ends in one.             *)
Padding(n) == 8 - (n % 8)

WriteEntry(n) ==
  LET written == NameAt + n IN
  /\ phase = "writing" /\ Len(entries) < MaxEntries
  /\ entries' = Append(entries, [at |-> size, len |-> n, bits |-> LengthBits(writer, n)])
  /\ size' = size + written + Padding(written)
  /\ UNCHANGED <<writer, phase, ptr, names>>

Written ==
  /\ phase = "writing"
  /\ phase' = "reading"
  /\ UNCHANGED <<writer, entries, size, ptr, names>>

(* ceil(n / 8.0) * 8                                                       *)
CeilTo8(n) == ((n + 7) \div 8) * 8

(* A length of all ones says to look for the zero byte, which read does    *)
(* from two bytes behind the start of the name.                            *)
NameLong(e) == [at |-> ptr + 64, len |-> (e.at + NameAt + e.len) - (ptr + 64)]
NameShort(e) == [at |-> ptr + NameAt, len |-> e.bits]
Name(e) == IF e.bits < FullBits THEN NameShort(e) ELSE NameLong(e)

NextAt(e) ==
  IF e.bits < FullBits THEN CeilTo8(ptr + 50 + e.bits + 1) + Header
  ELSE CeilTo8((e.at + NameAt + e.len) - 12 + 1) + Header

ReadEntry ==
  /\ phase = "reading" /\ Len(names) < Len(entries)
  /\ IF \E i \in DOMAIN entries : entries[i].at = ptr
     THEN \E i \in DOMAIN entries :
            /\ entries[i].at = ptr
            /\ names' = Append(names, Name(entries[i]))
            /\ ptr' = NextAt(entries[i])
            /\ phase' = phase
     ELSE phase' = "lost" /\ UNCHANGED <<names, ptr>>
  /\ UNCHANGED <<writer, entries, size>>

ReadDone ==
  /\ phase = "reading" /\ Len(names) = Len(entries)
  /\ phase' = "done"
  /\ UNCHANGED <<writer, entries, size, ptr, names>>

Init ==
  /\ writer \in {"gyt", "git"}
  /\ phase = "writing"
  /\ entries = <<>> /\ size = Header
  /\ ptr = Header /\ names = <<>>

Next ==
  \/ \E n \in NameLength : WriteEntry(n)
  \/ Written \/ ReadEntry \/ ReadDone

Spec == Init /\ [][Next]_vars

-----------------------------------------------------------------------------
(* read never loses its way: after every entry it is where the next one    *)
(* starts, whoever wrote the file, and at its end after the last           *)
(* (index.cpp:118-128, index_entry.cpp:113-127).                           *)
InStep ==
  /\ phase # "lost"
  /\ phase = "done" => ptr = size

(* The names read are the names written, one for one and in order.         *)
NamesReadBack ==
  \A i \in DOMAIN names :
    names[i] = [at |-> entries[i].at + NameAt, len |-> entries[i].len]
=============================================================================
