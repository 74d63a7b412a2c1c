----------------------------- MODULE ObjectFormat -----------------------------
(***************************************************************************)
(* What commit and tree objects look like: serialise, and deserialise, a   *)
(* line or an entry at a time.                                             *)
(*                                                                         *)
(* A commit is the sequence of its lines.  A line is the sequence of the   *)
(* parts its first space separates: <<key, value>>, where the key is       *)
(* Nothing if it starts with the space and continues the header above;     *)
(* <<word>> where there is none; <<>> where it is empty.  Values are       *)
(* sequences of bytes, timestamps numbers.  A tree is a sequence of        *)
(* bytes, with ids of IdLength bytes for git's twenty.                     *)
(***************************************************************************)
EXTENDS Integers, FiniteSets, FiniteSetsExt, SequencesExt

CONSTANTS
  None,      \* a field that is not set
  Words,     \* what a line may begin with
  Line,      \* lines that headers are made of
  Message,   \* messages: sequences of lines, <<Blank>> when empty
  Commits,   \* commits that are written
  MaxLines,  \* bound: lines of a header that is not one of theirs
  MaxTime,   \* the largest number of seconds, LLONG_MAX
  Trees,     \* trees that are written: sets of entries, no name twice
  IdLength   \* bytes of an id

Blank == <<>>
Nothing == ""
SingleLine == {"tree", "parent", "author", "committer"}
Nul == 0
Space == 32
Minus == 45
Slash == 47
Zero == 48
Less == 60
Greater == 62
Byte == 0 .. 255
Digit == Zero .. Zero + 9

Text == Seq(Byte)
AnyLine == {Blank} \cup [1 .. 1 -> Words] \cup (Words \X Text)
Times == -MaxTime - 1 .. MaxTime
Person == [name : Text, email : Text, timestamp : Times, timezone : Text]

(* Digits, read in a base.                                                 *)
InBase(base, digits) ==
  LET number[n \in 0 .. Len(digits)] == IF n = 0 THEN 0 ELSE base * number[n - 1] + digits[n] - Zero
  IN number[Len(digits)]

(* stoll takes a sign and digits, and finds the number that they make.     *)
Signed(t) == t # <<>> /\ t[1] = Minus
Digits(t) == IF Signed(t) THEN Tail(t) ELSE t
Number(t) == Digits(t) # <<>> /\ ToSet(Digits(t)) \subseteq Digit
Value(t) == IF Signed(t) THEN -InBase(10, Digits(t)) ELSE InBase(10, Digits(t))

(* A number as << writes it.                                               *)
Decimal(n) ==
  LET digits[m \in 0 .. MaxTime + 1] ==
        IF m < 10 THEN <<Zero + m>> ELSE Append(digits[m \div 10], Zero + (m % 10))
  IN IF n < 0 THEN <<Minus>> \o digits[-n] ELSE digits[n]

(* The identities commands/commit.cpp lets through (lines 53-62).          *)
Committer ==
  {i \in Person : ToSet(i.name \o i.email \o i.timezone) \cap {Less, Greater} = {}}

(* Modes are of up to six octal digits; no name of a file has a "/".       *)
Power == <<32768, 4096, 512, 64, 8, 1>>
TreeMode == 16384
TreeEntries ==
  [mode : 1 .. 8 * Power[1] - 1, name : Seq((1 .. 255) \ {Slash}) \ {<<>>}, id : [1 .. 2 * IdLength -> 0 .. 15]]

ASSUME ObjectFormatAssumption ==
  /\ None \notin Text \cup Seq(Text) \cup Person
  /\ SingleLine \cup {Nothing, "gpgsig", "word"} \subseteq Words
  /\ Line \subseteq AnyLine
  /\ Message \subseteq Seq(AnyLine) \ {<<>>}
  /\ Commits \subseteq
       [tree : Text \ {<<>>}, parent : Seq(Text \ {<<>>}), author : Committer, committer : Committer,
        gpgsig : {None} \cup (Seq(Text) \ {<<>>})]
  /\ MaxLines \in Nat /\ MaxTime \in Nat /\ IdLength \in Nat
  /\ \A t \in Trees :
       IsFiniteSet(t) /\ t \subseteq TreeEntries /\ \A e, f \in t : e.name = f.name => e = f

VARIABLES
  data,    \* the object's text
  stage,   \* what deserialise does next
  rest,    \* header lines, or bytes of a tree, not read yet
  fields,  \* headers not taken yet, with their continuations; a tree's entries
  commit,  \* the commit's fields, None where they are not set
  message

formatVars == <<data, stage, rest, fields, commit, message>>

Empty == [tree |-> None, parent |-> <<>>, author |-> None, committer |-> None, gpgsig |-> None]

-----------------------------------------------------------------------------
(***************************************************************************)
(* serialise.                                                              *)
(***************************************************************************)
WithTime(i, time) ==
  i.name \o <<Space, Less>> \o i.email \o <<Greater, Space>> \o time \o <<Space>> \o i.timezone

IdentityText(i) == WithTime(i, Decimal(i.timestamp))

GpgsigLines(sig) ==
  [n \in DOMAIN sig |-> <<IF n = 1 THEN "gpgsig" ELSE Nothing, sig[n]>>]

Serialise(c, m) ==
  <<<<"tree", c.tree>>>>
  \o [n \in DOMAIN c.parent |-> <<"parent", c.parent[n]>>]
  \o <<<<"author", IdentityText(c.author)>>, <<"committer", IdentityText(c.committer)>>>>
  \o (IF c.gpgsig = None THEN <<>> ELSE GpgsigLines(c.gpgsig))
  \o <<Blank>> \o m

-----------------------------------------------------------------------------
(***************************************************************************)
(* deserialise: the header ends at the first empty line that is neither    *)
(* the first line nor the last.                                            *)
(***************************************************************************)
Separators(text) == {n \in 2 .. Len(text) - 1 : text[n] = Blank}
SeparatorLast(text) == Max(Separators(text))  \* mutant: the last empty line
Separator(text) == Min(Separators(text))

Throw == stage' = "threw" /\ UNCHANGED <<rest, fields, commit, message>>

Open ==
  /\ stage = "open"
  /\ \/ /\ data = <<Blank>>
        /\ stage' = "done"
        /\ UNCHANGED <<rest, fields, commit, message>>
     \/ data # <<Blank>> /\ Separators(data) = {} /\ Throw
     \/ /\ Separators(data) # {}
        /\ LET s == Separator(data)
               header == SubSeq(data, 1, s - 1)
           IN /\ rest' = IF header = <<Blank>> THEN <<>> ELSE header
              /\ message' = SubSeq(data, s + 1, Len(data))
        /\ stage' = "lines"
        /\ UNCHANGED <<fields, commit>>

(* A header, or a continuation of the one above it.                        *)
ContinuesAny == fields # <<>>  \* mutant: a continuation of any header is taken
Continues == fields # <<>> /\ Last(fields).key \notin SingleLine

HeaderLine ==
  /\ stage = "lines" /\ rest # <<>>
  /\ LET line == Head(rest) IN
     \/ Len(line) < 2 /\ Throw
     \/ Len(line) = 2 /\ line[1] = Nothing /\ ~ Continues /\ Throw
     \/ /\ Len(line) = 2
        /\ line[1] = Nothing => Continues
        /\ fields' = IF line[1] = Nothing
                     THEN [fields EXCEPT ![Len(fields)].values = Append(@, line[2])]
                     ELSE Append(fields, [key |-> line[1], values |-> <<line[2]>>])
        /\ rest' = Tail(rest)
        /\ UNCHANGED <<stage, commit, message>>
  /\ UNCHANGED data

HeaderEnds ==
  /\ stage = "lines" /\ rest = <<>>
  /\ stage' = "fields"
  /\ UNCHANGED <<data, rest, fields, commit, message>>

(* The identity in a value: its cuts are found from the last " <" on.      *)
At(v, a, b) == {n \in 1 .. Len(v) - 1 : v[n] = a /\ v[n + 1] = b}
EmailStart(v) == Max(At(v, Space, Less))
EmailEnds(v) == {n \in At(v, Greater, Space) : n >= EmailStart(v)}
EmailEnd(v) == Min(EmailEnds(v))
TimestampEnds(v) == {n \in 1 .. Len(v) : v[n] = Space /\ n >= EmailEnd(v) + 2}

TimestampText(v) == SubSeq(v, EmailEnd(v) + 2, Min(TimestampEnds(v)) - 1)

Parts(v) ==
  LET s == EmailStart(v)
      e == EmailEnd(v)
      t == Min(TimestampEnds(v))
  IN [name |-> SubSeq(v, 1, s - 1), email |-> SubSeq(v, s + 2, e - 1),
      timestamp |-> Value(TimestampText(v)), timezone |-> SubSeq(v, t + 1, Len(v))]

(* stoll throws out_of_range for a number of seconds that does not fit.    *)
IsIdentity(v) ==
  /\ At(v, Space, Less) # {} /\ EmailEnds(v) # {} /\ TimestampEnds(v) # {}
  /\ Number(TimestampText(v)) /\ Value(TimestampText(v)) \in Times

(* A repeated header, an empty tree or parent, no identity: all throw.     *)
Accepts(f) ==
  CASE f.key = "parent" -> f.values[1] # <<>>
    [] f.key = "tree" -> commit.tree = None /\ f.values[1] # <<>>
    [] f.key \in {"author", "committer"} -> commit[f.key] = None /\ IsIdentity(f.values[1])
    [] f.key = "gpgsig" -> commit.gpgsig = None
    [] OTHER -> TRUE

Taken(f) ==
  CASE f.key = "parent" -> [commit EXCEPT !.parent = Append(@, f.values[1])]
    [] f.key = "tree" -> [commit EXCEPT !.tree = f.values[1]]
    [] f.key \in {"author", "committer"} -> [commit EXCEPT ![f.key] = Parts(f.values[1])]
    [] f.key = "gpgsig" -> [commit EXCEPT !.gpgsig = f.values]
    [] OTHER -> commit

Take ==
  /\ stage = "fields" /\ fields # <<>>
  /\ \/ ~ Accepts(Head(fields)) /\ Throw
     \/ /\ Accepts(Head(fields))
        /\ commit' = Taken(Head(fields))
        /\ fields' = Tail(fields)
        /\ UNCHANGED <<stage, rest, message>>
  /\ UNCHANGED data

Finish ==
  /\ stage = "fields" /\ fields = <<>>
  /\ stage' = IF None \in {commit.tree, commit.author, commit.committer} THEN "threw" ELSE "done"
  /\ UNCHANGED <<data, rest, fields, commit, message>>

Texts ==
  {Serialise(c, m) : c \in Commits, m \in Message}
  \cup {h \o <<Blank, Blank>> : h \in UNION {[1 .. n -> Line] : n \in 0 .. MaxLines}}
  \cup UNION {[1 .. n -> Line \cup {Blank, <<"word">>}] : n \in 1 .. 3}

-----------------------------------------------------------------------------
(***************************************************************************)
(* Trees.  In memory an id is in hexadecimal digits.                       *)
(***************************************************************************)
HexToBinary(hex) == [n \in 1 .. Len(hex) \div 2 |-> 16 * hex[2 * n - 1] + hex[2 * n]]
BinaryToHex(bytes) ==
  [n \in 1 .. 2 * Len(bytes) |->
     LET byte == bytes[(n + 1) \div 2] IN IF n % 2 = 1 THEN byte \div 16 ELSE byte % 16]

(* std::oct and stoi with base 8.                                         *)
Octal(mode) ==
  LET digits == [n \in 1 .. 6 |-> Zero + ((mode \div Power[n]) % 8)]
  IN SubSeq(digits, Min({n \in 1 .. 6 : digits[n] # Zero}), 6)
FromOctal(text) == InBase(8, text)

Before(v, w) ==
  \E n \in 1 .. Len(w) :
    /\ n <= Len(v) + 1
    /\ \A k \in 1 .. n - 1 : v[k] = w[k]
    /\ n <= Len(v) => v[n] < w[n]

Sorted(S, key) ==
  CHOOSE s \in [1 .. Cardinality(S) -> S] :
    \A m, n \in 1 .. Cardinality(S) : m < n => Before(key[s[m]], key[s[n]])

KeyByName(entry) == entry.name  \* mutant: directories in the place of files
Key(entry) == IF entry.mode = TreeMode THEN Append(entry.name, Slash) ELSE entry.name

EntryText(entry) ==
  Octal(entry.mode) \o <<Space>> \o entry.name \o <<Nul>> \o HexToBinary(entry.id)

SerialiseTree(tree) ==
  LET entries == Sorted(tree, [e \in tree |-> Key(e)])
  IN FlattenSeq([n \in DOMAIN entries |-> EntryText(entries[n])])

Find(byte, v, from) == Min({n \in from .. Len(v) : v[n] = byte})

(* A mode ends at the first space, a name at the first NUL after it.       *)
TreeEntry ==
  /\ stage = "entries" /\ rest # <<>>
  /\ LET space == Find(Space, rest, 1)
         nul == Find(Nul, rest, space + 1)
     IN /\ fields' = Append(fields,
             [mode |-> FromOctal(SubSeq(rest, 1, space - 1)),
              name |-> SubSeq(rest, space + 1, nul - 1),
              id |-> BinaryToHex(SubSeq(rest, nul + 1, nul + IdLength))])
        /\ rest' = SubSeq(rest, nul + IdLength + 1, Len(rest))
  /\ UNCHANGED <<data, stage, commit, message>>

(* pathNames are sorted as they are, whatever they name.                   *)
TreeEnds ==
  /\ stage = "entries" /\ rest = <<>>
  /\ LET order == Sorted(DOMAIN fields, [n \in DOMAIN fields |-> fields[n].name])
     IN fields' = [n \in DOMAIN fields |-> fields[order[n]]]
  /\ stage' = "read"
  /\ UNCHANGED <<data, rest, commit, message>>

FormatInit ==
  /\ \/ data \in Texts /\ stage = "open" /\ rest = <<>>
     \/ data \in {SerialiseTree(tree) : tree \in Trees} /\ stage = "entries" /\ rest = data
  /\ fields = <<>> /\ commit = Empty /\ message = <<Blank>>

FormatNext ==
  \/ (Open /\ UNCHANGED data) \/ HeaderLine \/ HeaderEnds \/ Take \/ Finish
  \/ TreeEntry \/ TreeEnds

FormatSpec == FormatInit /\ [][FormatNext]_formatVars

-----------------------------------------------------------------------------
(***************************************************************************)
(* What a text says, whatever the order of its lines.                      *)
(***************************************************************************)
Header(text) == SubSeq(text, 1, Separator(text) - 1)
Of(h, key) == {n \in DOMAIN h : h[n][1] = key}
Owner(h, n) == Max({m \in 1 .. n : h[m][1] # Nothing})

WellFormed(text) ==
  /\ Separators(text) # {}
  /\ LET h == Header(text) IN
     /\ \A n \in DOMAIN h : Len(h[n]) = 2
     /\ \A n \in Of(h, Nothing) : n > 1 /\ h[1][1] # Nothing /\ h[Owner(h, n)][1] \notin SingleLine
     /\ \A key \in {"tree", "author", "committer"} : \E n \in DOMAIN h : Of(h, key) = {n}
     /\ \A m, n \in Of(h, "gpgsig") : m = n
     /\ \A n \in Of(h, "tree") \cup Of(h, "parent") : h[n][2] # <<>>
     /\ \A n \in Of(h, "author") \cup Of(h, "committer") : IsIdentity(h[n][2])

(* A line may spell the seconds in ways that serialise would not: the      *)
(* commit that is read has their number, and loses the spelling.           *)
SaysWho(v, i) ==
  \E a, b \in DOMAIN v :
    LET t == SubSeq(v, a, b) IN Number(t) /\ Value(t) = i.timestamp /\ v = WithTime(i, t)

Says(h, c) ==
  /\ \A n \in Of(h, "tree") : c.tree = h[n][2]
  /\ Len(c.parent) = Cardinality(Of(h, "parent"))
  /\ \A n \in Of(h, "parent") : c.parent[Cardinality(Of(h, "parent") \cap 1 .. n)] = h[n][2]
  /\ \A n \in Of(h, "author") : c.author.timestamp \in Times /\ SaysWho(h[n][2], c.author)
  /\ \A n \in Of(h, "committer") : c.committer.timestamp \in Times /\ SaysWho(h[n][2], c.committer)
  /\ Of(h, "gpgsig") = {} <=> c.gpgsig = None
  /\ \A n \in Of(h, "gpgsig") :
       /\ c.gpgsig[1] = h[n][2]
       /\ {n + k - 1 : k \in 2 .. Len(c.gpgsig)} = {m \in Of(h, Nothing) : Owner(h, m) = n}
       /\ \A k \in 2 .. Len(c.gpgsig) : c.gpgsig[k] = h[n + k - 1][2]

(* A text is read exactly when each header it must have is there once and  *)
(* no line is astray, and then every field is what its lines say: a        *)
(* continuation goes to its own header, one that is skipped keeps its      *)
(* continuations, the parents stay in order and the message is all that    *)
(* follows (commit.cpp:59-167).                                            *)
ReadsWhatIsThere ==
  /\ stage = "threw" => ~ WellFormed(data)
  /\ stage = "done" /\ data # <<Blank>> =>
       /\ WellFormed(data)
       /\ Says(Header(data), commit)
       /\ data = Header(data) \o <<Blank>> \o message

(* What serialise writes of a commit, with names and addresses of any form *)
(* that commands/commit.cpp lets through and messages with empty lines or  *)
(* lines like headers, reads back as that commit (commit.cpp:24-167).      *)
WrittenReadsBack ==
  stage \in {"done", "threw"} =>
    \A c \in Commits, m \in Message :
      data = Serialise(c, m) => stage = "done" /\ commit = c /\ message = m

(* The entries of a tree come in the order in which the index has the      *)
(* paths below them, a directory where its files are and not where a file  *)
(* of its name would be: "Git compares directory names as if they end in   *)
(* '/'" (tree.cpp:35).  And the reader, which looks for spaces and NULs,   *)
(* is misled by none in a name or an id: it finds the entries of the tree  *)
(* that was written.                                                       *)
PathsBelow(entry) ==
  IF entry.mode = TreeMode
  THEN {entry.name \o <<Slash, byte>> : byte \in {1, Space, 255}}
  ELSE {entry.name}

TreesInIndexOrder ==
  /\ stage = "entries" =>
       \A m, n \in DOMAIN fields : m < n =>
         \A p \in PathsBelow(fields[m]), q \in PathsBelow(fields[n]) : Before(p, q)
  /\ stage = "read" =>
       /\ ToSet(fields) \in Trees /\ SerialiseTree(ToSet(fields)) = data
       /\ Cardinality(ToSet(fields)) = Len(fields)

(* A commit of git's that says how its message is encoded.                 *)
Encoded(text) ==
  \E c \in Commits :
    text = SubSeq(Serialise(c, <<>>), 1, Len(c.parent) + 3) \o <<<<"encoding", <<101>>>>, Blank, Blank>>

(* cat-file, which prints what serialise makes of the commit it read,      *)
(* "prints an existing git object" (commands/cat-file.md:7).               *)
PrintsTheObject ==
  stage = "done" /\ Encoded(data) => Serialise(commit, message) = data
=============================================================================
