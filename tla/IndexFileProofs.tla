--------------------------- MODULE IndexFileProofs ---------------------------
(* Reading an index file back, for any number of names of any length that  *)
(* twelve bits can hold.                                                   *)
EXTENDS IndexFile, TLAPS

ShortNames == \A n \in NameLength : n < FullBits

(* Where entry i starts, from the entry before it; one behind the last it  *)
(* is where the file ends.                                                 *)
EndOf(e) == e.at + NameAt + e.len + Padding(NameAt + e.len)
Start(i) == IF i = 1 THEN Header ELSE EndOf(entries[i - 1])

(* Entries lie one behind the other, each a multiple of eight bytes behind *)
(* the header, which is what read's rounding counts on; and what was read  *)
(* so far are the first entries.                                           *)
Laid ==
  /\ size = Start(Len(entries) + 1)
  /\ \A i \in 1 .. Len(entries) + 1 : Start(i) \in Nat /\ Start(i) % 8 = 4
  /\ \A i \in 1 .. Len(entries) :
       /\ entries[i].at = Start(i) /\ entries[i].at < size
       /\ entries[i].bits = entries[i].len
       /\ \A j \in 1 .. Len(entries) : i < j => entries[i].at < entries[j].at
  /\ phase # "lost"
  /\ phase = "writing" => names = <<>> /\ ptr = Header
  /\ phase # "writing" => ptr = Start(Len(names) + 1)
  /\ phase = "done" => Len(names) = Len(entries)
FileInv == TypeOK /\ Laid /\ NamesReadBack

(* Padding and rounding agree: eight-byte steps from one multiple of eight *)
(* behind the header to the next (index_entry.cpp:126, index.cpp:122).     *)
LEMMA StepsAgree ==
  ASSUME NEW e, e.at \in Nat, e.len \in Nat, e.at % 8 = 4
  PROVE  /\ EndOf(e) \in Nat /\ EndOf(e) % 8 = 4 /\ EndOf(e) > e.at
         /\ CeilTo8(e.at + 50 + e.len + 1) + Header = EndOf(e)
  BY DEF EndOf, NameAt, Padding, CeilTo8, Header

LEMMA EntriesTyped ==
  ASSUME TypeOK, IndexFileAssumption
  PROVE  \A i \in 1 .. Len(entries) :
           /\ entries[i] \in Entry
           /\ entries[i].at \in Nat /\ entries[i].len \in Nat /\ entries[i].len \in NameLength
<1>1. \A i \in 1 .. Len(entries) : entries[i] \in Entry
  BY DEF TypeOK
<1>2. \A x \in Entry : x.at \in Nat /\ x.len \in NameLength
  BY DEF Entry
<1> QED
  BY <1>1, <1>2 DEF IndexFileAssumption

LEMMA BitsHoldLength ==
  ASSUME ShortNames, IndexFileAssumption, NEW n \in NameLength
  PROVE  LengthBits(writer, n) = n /\ n \in Nat /\ n \in 0 .. FullBits
<1>1. n \in Nat /\ n < 4095
  BY DEF ShortNames, IndexFileAssumption, FullBits
<1>2. (n % 65536) % 4096 = n
  BY <1>1
<1> QED
  BY <1>1, <1>2 DEF LengthBits, FullBits

(* Writing one more entry moves none that is there.                        *)
LEMMA WriteKeeps ==
  ASSUME ShortNames, FileInv, NEW n \in NameLength, WriteEntry(n)
  PROVE  FileInv'
<1> USE IndexFileAssumption
<1> DEFINE k == Len(entries)
           e == [at |-> size, len |-> n, bits |-> LengthBits(writer, n)]
<1>1. /\ k \in Nat /\ size \in Nat /\ size % 8 = 4 /\ size = Start(k + 1)
      /\ phase = "writing" /\ k < MaxEntries
  BY DEF FileInv, TypeOK, Laid, WriteEntry
<1>2. n \in Nat /\ e.bits = n /\ e \in Entry
  BY <1>1, BitsHoldLength DEF Entry
<1>3. /\ entries' = Append(entries, e) /\ Len(entries') = k + 1
      /\ entries' \in Seq(Entry)
      /\ \A i \in 1 .. k : entries'[i] = entries[i]
      /\ entries'[k + 1] = e
  BY <1>1, <1>2 DEF WriteEntry, FileInv, TypeOK
<1>4. size' = EndOf(e) /\ size' \in Nat /\ size' % 8 = 4 /\ size' > size
  <2>1. size' = EndOf(e)
    BY <1>1, <1>2 DEF WriteEntry, EndOf, NameAt, Padding
  <2>2. e.at = size /\ e.len = n
    OBVIOUS
  <2> QED
    BY <1>1, <1>2, <2>1, <2>2, StepsAgree
<1>5. \A i \in 1 .. k + 1 : Start(i)' = Start(i)
  BY <1>1, <1>3 DEF Start
<1>6. (size = Start(Len(entries) + 1))'
  <2>1. Len(entries') + 1 = k + 2 /\ k + 2 # 1 /\ (k + 2) - 1 = k + 1
    BY <1>1, <1>3
  <2> QED
    BY <1>3, <1>4, <2>1 DEF Start
<1>7. UNCHANGED <<writer, phase, ptr, names>> /\ names = <<>> /\ ptr = Header
  BY <1>1 DEF WriteEntry, FileInv, Laid
<1>8. TypeOK'
  BY <1>1, <1>3, <1>4, <1>7 DEF FileInv, TypeOK
<1>9. NamesReadBack'
  BY <1>7 DEF NamesReadBack
<1>10. (\A i \in 1 .. Len(entries) + 1 : Start(i) \in Nat /\ Start(i) % 8 = 4)'
  <2>1. \A i \in 1 .. k + 1 : Start(i) \in Nat /\ Start(i) % 8 = 4
    BY DEF FileInv, Laid
  <2>2. \A i \in 1 .. k + 1 : Start(i)' \in Nat /\ Start(i)' % 8 = 4
    BY <1>5, <2>1
  <2>3. (Start(Len(entries) + 1) \in Nat /\ Start(Len(entries) + 1) % 8 = 4)'
    BY <1>4, <1>6
  <2>4. Len(entries') + 1 = k + 2 /\ 1 .. k + 2 = (1 .. k + 1) \cup {k + 2}
    BY <1>1, <1>3
  <2> SUFFICES ASSUME NEW i \in 1 .. Len(entries') + 1
               PROVE  (Start(i) \in Nat /\ Start(i) % 8 = 4)'
    OBVIOUS
  <2>5. CASE i = Len(entries') + 1
    BY <2>3, <2>5
  <2>6. CASE i \in 1 .. k + 1
    BY <2>2, <2>6
  <2> QED
    BY <2>4, <2>5, <2>6
<1>11. (\A i \in 1 .. Len(entries) :
         /\ entries[i].at = Start(i) /\ entries[i].at < size
         /\ entries[i].bits = entries[i].len
         /\ \A j \in 1 .. Len(entries) : i < j => entries[i].at < entries[j].at)'
  <2>1. \A i \in 1 .. k :
          /\ entries[i].at = Start(i) /\ entries[i].at < size
          /\ entries[i].bits = entries[i].len /\ entries[i].at \in Nat
          /\ \A j \in 1 .. k : i < j => entries[i].at < entries[j].at
    BY EntriesTyped DEF FileInv, Laid
  <2>2. \A i \in 1 .. k + 1 :
          /\ entries'[i].at = Start(i) /\ entries'[i].at < size'
          /\ entries'[i].bits = entries'[i].len
    BY <1>1, <1>2, <1>3, <1>4, <2>1
  <2>3. \A i, j \in 1 .. k + 1 : i < j => entries'[i].at < entries'[j].at
    BY <1>1, <1>2, <1>3, <2>1
  <2> QED
    BY <1>3, <1>5, <2>2, <2>3
<1> QED
  BY <1>1, <1>3, <1>6, <1>7, <1>8, <1>9, <1>10, <1>11 DEF FileInv, Laid

(* read finds an entry where it is, that entry is the next one, and read   *)
(* goes on to the one behind it.                                           *)
LEMMA ReadKeeps ==
  ASSUME ShortNames, FileInv, ReadEntry
  PROVE  FileInv'
<1> USE IndexFileAssumption
<1> DEFINE k == Len(names) + 1
<1>1. /\ k \in 1 .. Len(entries) /\ entries[k].at = ptr /\ ptr = Start(k)
      /\ ptr \in Nat /\ ptr % 8 = 4
      /\ phase = "reading"
  BY DEF ReadEntry, FileInv, TypeOK, Laid
<1>2. \A i \in DOMAIN entries : entries[i].at = ptr => i = k
  <2>1. \A i, j \in 1 .. Len(entries) : i < j => entries[i].at < entries[j].at
    BY DEF FileInv, Laid
  <2>2. \A i \in 1 .. Len(entries) : entries[i].at \in Nat
    BY EntriesTyped DEF FileInv
  <2>3. DOMAIN entries = 1 .. Len(entries)
    BY DEF FileInv, TypeOK
  <2>4. SUFFICES ASSUME NEW i \in 1 .. Len(entries), entries[i].at = ptr, i # k
                 PROVE  FALSE
    BY <2>3
  <2>5. i < k \/ k < i
    BY <1>1, <2>4
  <2>6. entries[i].at < entries[k].at \/ entries[k].at < entries[i].at
    BY <1>1, <2>1, <2>5
  <2> QED
    BY <1>1, <2>2, <2>4, <2>6
<1>3. /\ names' = Append(names, Name(entries[k]))
      /\ ptr' = NextAt(entries[k])
      /\ UNCHANGED <<writer, phase, entries, size>>
  BY <1>1, <1>2 DEF ReadEntry, FileInv, TypeOK
<1>4. /\ entries[k].len \in Nat /\ entries[k].len < FullBits
      /\ entries[k].bits = entries[k].len
  BY <1>1, EntriesTyped DEF FileInv, Laid, ShortNames
<1>5. ptr' = EndOf(entries[k]) /\ ptr' \in Nat
  BY <1>1, <1>3, <1>4, StepsAgree DEF NextAt, EndOf
<1>7. Name(entries[k]) = [at |-> entries[k].at + NameAt, len |-> entries[k].len]
  BY <1>1, <1>4 DEF Name, NameShort
<1>8. /\ names' \in Seq([at : Nat, len : Int]) /\ Len(names') = k
      /\ \A i \in 1 .. k - 1 : names'[i] = names[i]
      /\ names'[k] = Name(entries[k])
  BY <1>1, <1>3, <1>4, <1>7 DEF FileInv, TypeOK, NameAt
<1>6. (ptr = Start(Len(names) + 1))'
  BY <1>1, <1>3, <1>5, <1>8 DEF Start
<1>9. TypeOK'
  BY <1>1, <1>3, <1>5, <1>8 DEF FileInv, TypeOK
<1>10. NamesReadBack'
  <2>1. \A i \in 1 .. k - 1 : names[i] = [at |-> entries[i].at + NameAt, len |-> entries[i].len]
    BY DEF FileInv, NamesReadBack, TypeOK
  <2> QED
    BY <1>1, <1>3, <1>7, <1>8, <2>1 DEF NamesReadBack
<1>11. Laid'
  <2>1. \A i : Start(i)' = Start(i)
    BY <1>3 DEF Start
  <2>2. phase' = "reading" /\ size' = size /\ entries' = entries
    BY <1>1, <1>3
  <2> QED
    BY <1>6, <2>1, <2>2 DEF FileInv, Laid
<1> QED
  BY <1>9, <1>10, <1>11 DEF FileInv

(* FileInv holds in every state of every behaviour.                        *)
LEMMA FileInvariant == ASSUME ShortNames PROVE Spec => []FileInv
<1>1. Init => FileInv
  BY IndexFileAssumption DEF Init, FileInv, TypeOK, Laid, Start, Header, NamesReadBack
<1>2. FileInv /\ [Next]_vars => FileInv'
  <2> SUFFICES ASSUME FileInv, [Next]_vars PROVE FileInv'
    OBVIOUS
  <2>1. ASSUME NEW n \in NameLength, WriteEntry(n) PROVE FileInv'
    BY <2>1, WriteKeeps
  <2>2. CASE ReadEntry
    BY <2>2, ReadKeeps
  <2>3. ASSUME UNCHANGED <<writer, entries, size, ptr, names>>,
               \/ phase' = phase
               \/ phase = "writing" /\ phase' = "reading"
               \/ phase = "reading" /\ phase' = "done" /\ Len(names) = Len(entries)
        PROVE  FileInv'
    <3>1. \A i \in 1 .. Len(entries) + 1 : Start(i)' = Start(i)
      BY <2>3 DEF Start
    <3>2. phase = "writing" => ptr = Start(Len(names) + 1)
      BY DEF FileInv, Laid, Start
    <3> QED
      BY <2>3, <3>1, <3>2 DEF FileInv, TypeOK, Laid, NamesReadBack
  <2> QED
    BY <2>1, <2>2, <2>3 DEF Next, Written, ReadDone, vars
<1> QED
  BY <1>1, <1>2, PTL DEF Spec

(* read is in step with save, and ends where the file does                 *)
(* (index.cpp:118-128, index_entry.cpp:113-127).                           *)
THEOREM ReaderInStep == ASSUME ShortNames PROVE Spec => []InStep
<1>1. FileInv => InStep
  BY DEF FileInv, Laid, InStep
<1> QED
  BY <1>1, FileInvariant, PTL

(* The names come back as they were written, whoever wrote them.           *)
THEOREM NamesSurvive == ASSUME ShortNames PROVE Spec => []NamesReadBack
<1>1. FileInv => NamesReadBack
  BY DEF FileInv
<1> QED
  BY <1>1, FileInvariant, PTL
=============================================================================
