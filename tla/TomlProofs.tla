----------------------------- MODULE TomlProofs ------------------------------
(***************************************************************************)
(* Proofs about the editor and reader of node.toml, for files of any       *)
(* length, any tables, values and order of edits: the loops' invariants    *)
(* tie their flags and counters to what the lines mean.                    *)
(***************************************************************************)
EXTENDS TomlEdit, TLAPS

(* Headers, fields and other text are told apart. *)
LEMMA LineFacts ==
  /\ \A t : IsHeader(Header(t))
  /\ \A k, v, j : ~IsHeader(Field(k, v)) /\ (IsField(Field(k, v), j) <=> k = j)
  /\ \A k, v : Field(k, v)[3] = v
  /\ \A line, k : IsField(line, k) => ~IsHeader(line)
  /\ \A line, k, j : IsField(line, k) /\ IsField(line, j) => k = j
  /\ \A t, u : Header(t) = Header(u) => t = u
BY DEF IsHeader, Header, Field, IsField

(* A field of a file is its key and its value. *)
LEMMA FieldFacts ==
  /\ \A k \in Keys, v \in AnyValue : Field(k, v) \in Lines
  /\ \A line \in Lines, k \in Keys :
        IsField(line, k) => line[3] \in AnyValue /\ line = Field(k, line[3])
BY DEF Lines, Header, Field, Text, IsField

(* Where a section is left and where it goes on. *)
LEMMA BelongsNext ==
  ASSUME NEW lines, NEW i \in Nat, NEW s
  PROVE  Belongs(lines, i + 1, s) <=>
            IF IsHeader(lines[i + 1]) THEN s # Root /\ lines[i + 1] = Header(s)
                                      ELSE Belongs(lines, i, s)
<1>0. \A j : j \in 1 .. i + 1 <=> j \in 1 .. i \/ j = i + 1
  OBVIOUS
<1>1. CASE s = Root
  BY <1>0, <1>1 DEF Belongs
<1>2. CASE s # Root /\ IsHeader(lines[i + 1])
  <2>1. ASSUME NEW j \in 1 .. i + 1, \A l \in j + 1 .. i + 1 : ~IsHeader(lines[l])
        PROVE  j = i + 1
    BY <1>2, <2>1
  <2>2. \A l \in (i + 1) + 1 .. i + 1 : FALSE
    OBVIOUS
  <2> QED
    BY <1>2, <2>1, <2>2 DEF Belongs
<1>3. CASE s # Root /\ ~IsHeader(lines[i + 1])
  <2>1. ASSUME NEW j \in 1 .. i
        PROVE  (\A l \in j + 1 .. i + 1 : ~IsHeader(lines[l]))
                  <=> (\A l \in j + 1 .. i : ~IsHeader(lines[l]))
    <3>1. \A l : l \in j + 1 .. i + 1 <=> l \in j + 1 .. i \/ l = i + 1
      OBVIOUS
    <3> QED
      BY <1>3, <3>1
  <2>2. lines[i + 1] # Header(s)
    BY <1>3, LineFacts
  <2> QED
    BY <1>0, <1>3, <2>1, <2>2 DEF Belongs
<1> QED
  BY <1>1, <1>2, <1>3

(* Ahead of the first line is the root. *)
LEMMA BelongsFirst == \A lines, s : Belongs(lines, 0, s) <=> s = Root
<1>1. \A j \in 1 .. 0 : FALSE
  OBVIOUS
<1> QED
  BY <1>1 DEF Belongs

(* A line is in one section. *)
LEMMA BelongsOnce ==
  ASSUME NEW lines, NEW i \in Nat, NEW s, NEW t,
         Belongs(lines, i, s), Belongs(lines, i, t)
  PROVE  s = t
<1>1. CASE s = Root \/ t = Root
  BY <1>1, LineFacts DEF Belongs
<1>2. CASE s # Root /\ t # Root
  <2>1. PICK a \in 1 .. i : lines[a] = Header(s) /\ \A l \in a + 1 .. i : ~IsHeader(lines[l])
    BY <1>2 DEF Belongs
  <2>2. PICK b \in 1 .. i : lines[b] = Header(t) /\ \A l \in b + 1 .. i : ~IsHeader(lines[l])
    BY <1>2 DEF Belongs
  <2>3. IsHeader(lines[a]) /\ IsHeader(lines[b])
    BY <2>1, <2>2, LineFacts
  <2>4. a \notin b + 1 .. i /\ b \notin a + 1 .. i
    BY <2>1, <2>2, <2>3
  <2>5. a = b
    BY <2>4
  <2> QED
    BY <2>1, <2>2, <2>5, LineFacts
<1> QED
  BY <1>1, <1>2

(* The sections are those of the headers, whatever the other lines are. *)
LEMMA BelongsByHeaders ==
  ASSUME NEW lines, NEW other, NEW len \in Nat,
         \A j \in 1 .. len : /\ IsHeader(other[j]) <=> IsHeader(lines[j])
                             /\ IsHeader(lines[j]) => other[j] = lines[j]
  PROVE  \A i \in 0 .. len : \A s : Belongs(other, i, s) <=> Belongs(lines, i, s)
<1> SUFFICES ASSUME NEW i \in 0 .. len, NEW s
             PROVE  Belongs(other, i, s) <=> Belongs(lines, i, s)
  OBVIOUS
<1>1. \A j \in 1 .. i : j \in 1 .. len /\ \A l \in j + 1 .. i : l \in 1 .. len
  OBVIOUS
<1>2. \A j \in 1 .. len : other[j] = Header(s) <=> lines[j] = Header(s)
  BY LineFacts
<1> QED
  BY <1>1, <1>2 DEF Belongs

(* A line that is added is in the section of the line before it, and every
   other line stays in its own. *)
LEMMA BelongsInserted ==
  ASSUME NEW lines, NEW longer, NEW i, NEW line, NEW s,
         Len(lines) \in Nat, Inserted(longer, lines, i, line), ~IsHeader(line)
  PROVE  /\ \A j \in 0 .. i - 1 : Belongs(longer, j, s) <=> Belongs(lines, j, s)
         /\ \A j \in i - 1 .. Len(lines) : Belongs(longer, j + 1, s) <=> Belongs(lines, j, s)
<1>0. i \in Nat \ {0} /\ i - 1 \in 0 .. Len(lines) /\ i - 1 \in Nat
  BY DEF Inserted
<1>a. \A j \in 1 .. i - 1 : longer[j] = lines[j]
  BY DEF Inserted
<1>1. \A j \in 0 .. i - 1 : Belongs(longer, j, s) <=> Belongs(lines, j, s)
  BY <1>0, <1>a, BelongsByHeaders
<1>2. longer[i] = line /\ \A j \in i .. Len(lines) : longer[j + 1] = lines[j]
  BY DEF Inserted
<1>3. ASSUME NEW j \in i - 1 .. Len(lines)
      PROVE  Belongs(longer, j + 1, s) <=> Belongs(lines, j, s)
  <2>0. j \in Nat
    BY <1>0
  <2>1. CASE s = Root
    <3>1. ASSUME NEW l \in 1 .. j PROVE \E m \in 1 .. j + 1 : longer[m] = lines[l]
      <4>1. CASE l < i
        <5>1. l \in 1 .. i - 1 /\ l \in 1 .. j + 1 BY <1>0, <4>1
        <5> QED BY <5>1, <1>a
      <4>2. CASE l >= i
        <5>1. l \in i .. Len(lines) /\ l + 1 \in 1 .. j + 1 BY <1>0, <4>2
        <5> QED BY <5>1, <1>2
      <4> QED BY <1>0, <4>1, <4>2
    <3>2. ASSUME NEW m \in 1 .. j + 1
          PROVE  longer[m] = line \/ \E l \in 1 .. j : longer[m] = lines[l]
      <4>1. CASE m < i
        <5>1. m \in 1 .. i - 1 /\ m \in 1 .. j BY <1>0, <4>1
        <5> QED BY <5>1, <1>a
      <4>2. CASE m > i
        <5>1. m - 1 \in i .. Len(lines) /\ m - 1 \in 1 .. j /\ (m - 1) + 1 = m BY <1>0, <4>2
        <5>2. longer[(m - 1) + 1] = lines[m - 1] BY <5>1, <1>2
        <5> QED BY <5>1, <5>2
      <4>3. CASE m = i
        BY <1>2, <4>3
      <4> QED BY <1>0, <4>1, <4>2, <4>3
    <3> QED
      BY <2>1, <3>1, <3>2 DEF Belongs
  <2>2. CASE s # Root
    <3>1. ASSUME NEW a \in 1 .. j, lines[a] = Header(s),
                 \A l \in a + 1 .. j : ~IsHeader(lines[l])
          PROVE  \E b \in 1 .. j + 1 :
                    longer[b] = Header(s) /\ \A l \in b + 1 .. j + 1 : ~IsHeader(longer[l])
      <4> DEFINE b == IF a < i THEN a ELSE a + 1
      <4>1. b \in 1 .. j + 1 /\ longer[b] = lines[a]
        <5>1. CASE a < i
          <6>1. a \in 1 .. i - 1 BY <1>0, <5>1
          <6> QED BY <5>1, <6>1, <1>a
        <5>2. CASE a >= i
          <6>1. a \in i .. Len(lines) BY <1>0, <5>2
          <6> QED BY <1>0, <5>2, <6>1, <1>2
        <5> QED BY <1>0, <5>1, <5>2
      <4>2. ASSUME NEW l \in b + 1 .. j + 1 PROVE ~IsHeader(longer[l])
        <5>1. CASE l < i
          <6>1. l \in 1 .. i - 1 /\ l \in a + 1 .. j BY <1>0, <5>1
          <6> QED BY <6>1, <1>a, <3>1
        <5>2. CASE l > i
          <6>1. l - 1 \in i .. Len(lines) /\ l - 1 \in a + 1 .. j /\ (l - 1) + 1 = l
            BY <1>0, <5>2
          <6>2. longer[(l - 1) + 1] = lines[l - 1] BY <6>1, <1>2
          <6> QED BY <6>1, <6>2, <3>1
        <5>3. CASE l = i
          BY <5>3, <1>2
        <5> QED BY <1>0, <5>1, <5>2, <5>3
      <4> QED BY <3>1, <4>1, <4>2
    <3>2. ASSUME NEW b \in 1 .. j + 1, longer[b] = Header(s),
                 \A l \in b + 1 .. j + 1 : ~IsHeader(longer[l])
          PROVE  \E a \in 1 .. j :
                    lines[a] = Header(s) /\ \A l \in a + 1 .. j : ~IsHeader(lines[l])
      <4> DEFINE a == IF b < i THEN b ELSE b - 1
      <4>0. b # i
        BY <3>2, <1>2, LineFacts
      <4>1. a \in 1 .. j /\ longer[b] = lines[a]
        <5>1. CASE b < i
          <6>1. b \in 1 .. i - 1 /\ b \in 1 .. j BY <1>0, <5>1
          <6> QED BY <5>1, <6>1, <1>a
        <5>2. CASE b > i
          <6>1. b - 1 \in i .. Len(lines) /\ b - 1 \in 1 .. j /\ (b - 1) + 1 = b BY <1>0, <5>2
          <6>2. longer[(b - 1) + 1] = lines[b - 1] BY <6>1, <1>2
          <6> QED BY <1>0, <5>2, <6>1, <6>2
        <5> QED BY <1>0, <4>0, <5>1, <5>2
      <4>2. ASSUME NEW l \in a + 1 .. j PROVE ~IsHeader(lines[l])
        <5>1. CASE l < i
          <6>1. l \in 1 .. i - 1 /\ l \in b + 1 .. j + 1 BY <1>0, <4>0, <5>1
          <6> QED BY <6>1, <1>a, <3>2
        <5>2. CASE l >= i
          <6>1. l \in i .. Len(lines) /\ l + 1 \in b + 1 .. j + 1 BY <1>0, <4>0, <5>2
          <6>2. longer[l + 1] = lines[l] BY <6>1, <1>2
          <6> QED BY <6>1, <6>2, <3>2
        <5> QED BY <1>0, <5>1, <5>2
      <4> QED BY <3>2, <4>1, <4>2
    <3> QED
      BY <2>2, <3>1, <3>2 DEF Belongs
  <2> QED
    BY <2>1, <2>2
<1> QED
  BY <1>1, <1>3

(* A field that replaces one of its key is where that one was. *)
LEMMA FieldsReplaced ==
  ASSUME NEW lines \in Seq(Lines), NEW other \in Seq(Lines), NEW i, NEW k, NEW v,
         Replaced(other, lines, i, Field(k, v)), IsField(lines[i], k)
  PROVE  \A s, j : Fields(other, s, j) = Fields(lines, s, j)
<1>1. Len(lines) \in Nat /\ DOMAIN other = DOMAIN lines /\ DOMAIN lines = 1 .. Len(lines)
  BY DEF Replaced
<1>2. \A l \in 1 .. Len(lines) : /\ IsHeader(other[l]) <=> IsHeader(lines[l])
                                 /\ IsHeader(lines[l]) => other[l] = lines[l]
                                 /\ \A j : IsField(other[l], j) <=> IsField(lines[l], j)
  BY LineFacts DEF Replaced
<1>3. \A l \in 0 .. Len(lines) : \A s : Belongs(other, l, s) <=> Belongs(lines, l, s)
  BY <1>1, <1>2, BelongsByHeaders
<1> QED
  BY <1>1, <1>2, <1>3 DEF Fields

\* The fields are where they were, or one line further.
FieldsKept(longer, lines, i, s, j) ==
  /\ \A l \in 1 .. i - 1 : l \in Fields(longer, s, j) <=> l \in Fields(lines, s, j)
  /\ \A l \in i .. Len(lines) : l + 1 \in Fields(longer, s, j) <=> l \in Fields(lines, s, j)

(* A field that is added is one more of its key in its section; the others are
   kept. *)
LEMMA FieldsInserted ==
  ASSUME NEW lines \in Seq(Lines), NEW longer \in Seq(Lines), NEW i, NEW k, NEW v, NEW s, NEW j,
         Inserted(longer, lines, i, Field(k, v))
  PROVE  /\ i \in Fields(longer, s, j) <=> k = j /\ Belongs(lines, i - 1, s)
         /\ FieldsKept(longer, lines, i, s, j)
<1>1. /\ Len(lines) \in Nat /\ DOMAIN lines = 1 .. Len(lines)
      /\ DOMAIN longer = 1 .. Len(lines) + 1 /\ i \in 1 .. Len(lines) + 1
  BY DEF Inserted
<1>2. ~IsHeader(Field(k, v)) /\ (IsField(Field(k, v), j) <=> k = j)
  BY LineFacts
<1>3. /\ \A l \in 0 .. i - 1 : Belongs(longer, l, s) <=> Belongs(lines, l, s)
      /\ \A l \in i - 1 .. Len(lines) : Belongs(longer, l + 1, s) <=> Belongs(lines, l, s)
  BY <1>1, <1>2, BelongsInserted
<1>4. i \in Fields(longer, s, j) <=> k = j /\ Belongs(lines, i - 1, s)
  <2>1. Belongs(longer, (i - 1) + 1, s) <=> Belongs(lines, i - 1, s)
    BY <1>1, <1>3
  <2>2. longer[i] = Field(k, v) /\ (i - 1) + 1 = i
    BY <1>1 DEF Inserted
  <2> QED
    BY <1>1, <1>2, <2>1, <2>2 DEF Fields
<1>5. ASSUME NEW l \in 1 .. i - 1
      PROVE  l \in Fields(longer, s, j) <=> l \in Fields(lines, s, j)
  <2>1. longer[l] = lines[l]
    BY DEF Inserted
  <2>2. l \in DOMAIN lines /\ l \in DOMAIN longer /\ l \in 0 .. i - 1
    BY <1>1
  <2> QED
    BY <1>3, <2>1, <2>2 DEF Fields
<1>6. ASSUME NEW l \in i .. Len(lines)
      PROVE  l + 1 \in Fields(longer, s, j) <=> l \in Fields(lines, s, j)
  <2>1. longer[l + 1] = lines[l]
    BY DEF Inserted
  <2>2. l \in DOMAIN lines /\ l + 1 \in DOMAIN longer /\ l \in i - 1 .. Len(lines)
    BY <1>1
  <2> QED
    BY <1>3, <2>1, <2>2 DEF Fields
<1> QED
  BY <1>4, <1>5, <1>6 DEF FieldsKept

-----------------------------------------------------------------------------
(* The loops.                                                              *)

(* One line more is a field met, or none. *)
LEMMA ScanNext ==
  ASSUME TomlInv, NEW kind \in {"set", "read"}, Reads(kind), UNCHANGED <<file, call>>,
         active' = IF IsHeader(Line) THEN Here ELSE active,
         found' \in Nat
  PROVE  /\ ScanInv'
         /\ Line \in Lines /\ n + 1 \in DOMAIN file
         /\ Hits' = IF active /\ IsField(Line, key) THEN Hits \cup {n + 1} ELSE Hits
<1>1. /\ file \in Seq(Lines) /\ n \in 0 .. Len(file) /\ n < Len(file) /\ n' = n + 1
      /\ section \in Sections /\ key \in Keys /\ (active <=> Belongs(file, n, section))
      /\ UNCHANGED <<file, section, key, op>>
  BY DEF TomlInv, ScanInv, Reads, call
<1>2. Len(file) \in Nat /\ n \in Nat /\ n + 1 \in DOMAIN file /\ Line \in Lines
      /\ DOMAIN file = 1 .. Len(file)
  BY <1>1 DEF Line
<1>3. Belongs(file, n + 1, section) <=> active'
  BY <1>1, <1>2, BelongsNext DEF Line, Here
<1>4. ScanInv'
  BY <1>1, <1>2, <1>3 DEF ScanInv
<1>5. n + 1 \in Fields(file, section, key) <=> active /\ IsField(Line, key)
  BY <1>1, <1>2, <1>3, LineFacts DEF Fields, Line
<1>6. \A i \in Fields(file, section, key) : i <= n + 1 <=> i <= n \/ i = n + 1
  BY <1>2 DEF Fields
<1>7. Hits' = {i \in Fields(file, section, key) : i <= n + 1}
  BY <1>1 DEF Hits
<1> QED
  BY <1>2, <1>4, <1>5, <1>6, <1>7 DEF Hits

(* A field met is one more counted. *)
LEMMA CountNext ==
  ASSUME TomlInv, op # "none", CountInv,
         \/ Hits' = Hits /\ found' = found
         \/ Hits' = Hits \cup {n + 1} /\ found' = found + 1
  PROVE  CountInv'
<1>1. found \in Nat /\ n \in Nat /\ \A i \in Hits : i \in Nat /\ i <= n
  BY DEF TomlInv, ScanInv, Hits, Fields
<1>2. n + 1 \notin Hits
  BY <1>1
<1> QED
  BY <1>1, <1>2 DEF CountInv

LEMMA ReadNext ==
  ASSUME TomlInv, ReadHeader \/ ReadField \/ ReadOther
  PROVE  TomlInv'
<1>0. op = "read" /\ CountInv /\ found \in Nat /\ \A i \in Hits : found = 1 => value = file[i][3]
  BY DEF TomlInv, ScanInv, ReadHeader, ReadField, ReadOther, Reads
<1>1. Reads("read") /\ UNCHANGED <<file, edits, call, out>>
  BY DEF ReadHeader, ReadField, ReadOther
<1>2. active' = (IF IsHeader(Line) THEN Here ELSE active) /\ found' \in Nat
  BY <1>0, LineFacts DEF ReadHeader, ReadField, ReadOther
<1>3. ScanInv' /\ Hits' = IF active /\ IsField(Line, key) THEN Hits \cup {n + 1} ELSE Hits
  BY <1>1, <1>2, ScanNext
<1>4. \/ Hits' = Hits /\ found' = found /\ value' = value
      \/ Hits' = Hits \cup {n + 1} /\ found' = found + 1 /\ value' = file[n + 1][3]
  BY <1>3, LineFacts DEF ReadHeader, ReadField, ReadOther, Line
<1>5. CountInv'
  BY <1>0, <1>4, CountNext
<1>6. \A i \in Hits' : found' = 1 => value' = file'[i][3]
  BY <1>0, <1>1, <1>4 DEF CountInv
<1>7. EditsHold'
  BY <1>1 DEF TomlInv, EditsHold, edits
<1> QED
  BY <1>0, <1>1, <1>3, <1>5, <1>6, <1>7 DEF TomlInv, RecordInv, call, edits

(* What becomes of the lines that were read before is not changed by the next. *)
LEMMA CopyNext ==
  ASSUME TomlInv, op = "set", UNCHANGED <<file, call, value>>, Line \in Lines,
         Hits' = IF active /\ IsField(Line, key) THEN Hits \cup {n + 1} ELSE Hits
  PROVE  /\ \A i \in 1 .. n : Copy(i)' = Copy(i)
         /\ \A i : i = n + 1 =>
                Copy(i)' = IF active /\ IsField(Line, key) THEN Field(key, value) ELSE Line
<1>1. n \in Nat /\ \A i \in Hits : i \in Nat /\ i <= n
  BY DEF TomlInv, ScanInv, Hits, Fields
<1>2. n + 1 \notin Hits /\ \A i \in 1 .. n : i \in Hits' <=> i \in Hits
  BY <1>1
<1>3. UNCHANGED <<file, key, value>>
  BY DEF call
<1> QED
  BY <1>1, <1>2, <1>3 DEF Copy, Line

(* The section is left: a field that was not met in it is added, once. *)
LEMMA SetHeaderNext == ASSUME TomlInv, SetHeader PROVE TomlInv'
<1>0. op = "set" /\ SetInv /\ ScanInv
  BY DEF TomlInv, SetHeader, Reads
<1>1. /\ Reads("set") /\ IsHeader(Line) /\ UNCHANGED <<file, edits, call, value>>
      /\ active' = Here /\ seen' = (seen \/ Here) /\ found' = Count /\ out' = Append(Left, Line)
  BY DEF SetHeader
<1>2. n' = n + 1 /\ UNCHANGED <<op, section, key>> /\ n \in Nat /\ found \in Nat /\ file \in Seq(Lines)
      /\ n < Len(file) /\ Len(file) \in Nat
  BY <1>0, <1>1 DEF Reads, call, ScanInv, TomlInv
<1>3. found' \in Nat
  BY <1>1, <1>2 DEF Count
<1>4. ScanInv' /\ Line \in Lines /\ Hits' = Hits
  BY <1>1, <1>3, ScanNext, LineFacts
<1>5. Field(key, value) \in Lines
  BY <1>0, FieldFacts DEF ScanInv, SetInv, AnyValue
<1>6. /\ out \in Seq(Lines) /\ Len(out) \in Nat
      /\ Left \in Seq(Lines) /\ out' \in Seq(Lines)
      /\ Len(out') = Len(Left) + 1 /\ out'[Len(Left) + 1] = Line
      /\ \A i \in 1 .. Len(Left) : out'[i] = Left[i]
  BY <1>0, <1>1, <1>4, <1>5 DEF SetInv, Left
<1>7. (\A i \in 1 .. n : Copy(i)' = Copy(i)) /\ \A i : i = n + 1 => Copy(i)' = Line
  BY <1>0, <1>1, <1>4, CopyNext, LineFacts
<1>8. seen' <=> section' = Root \/ \E i \in 1 .. n' : file'[i] = Header(section')
  <2>1. \A i : i \in 1 .. n + 1 <=> i \in 1 .. n \/ i = n + 1
    BY <1>2
  <2> QED
    BY <1>0, <1>1, <1>2, <2>1 DEF SetInv, Here, Line
<1>9. seen' /\ found' = 0 /\ section' # Root => active'
  BY <1>0, <1>1, <1>2 DEF SetInv, Here, Count, Missing
<1>10. CopyInv' \/ \E i \in 1 .. n' : AddInv(i)'
  <2>1. CASE Missing
    <3>1. found = 0 /\ section # Root /\ active /\ CopyInv /\ Hits = {}
      BY <1>0, <2>1 DEF Missing, SetInv, CopyInv, AddInv, CountInv
    <3>2. /\ Len(out) = n /\ Len(Left) = n + 1 /\ Left[n + 1] = Field(key, value)
          /\ \A i \in 1 .. n : Left[i] = file[i]
      BY <1>2, <1>5, <1>6, <2>1, <3>1 DEF Left, CopyInv, Copy
    <3>3. Belongs(file, (n + 1) - 1, section)
      BY <1>0, <1>2, <3>1 DEF ScanInv
    <3>4. found' = 1
      BY <1>1, <2>1 DEF Count
    <3>5. ASSUME NEW i \in Nat, i = n + 1 PROVE AddInv(i)'
      <4>1. \A j \in 1 .. i - 1 : out'[j] = file'[j]
        BY <1>1, <1>2, <1>6, <3>2, <3>5
      <4>2. \A j \in i .. n' : out'[j + 1] = Copy(j)'
        BY <1>2, <1>6, <1>7, <3>2, <3>5
      <4>3. Len(out') = n' + 1 /\ out'[i] = Field(key', value')
        BY <1>1, <1>2, <1>6, <3>2, <3>5
      <4> QED
        BY <1>1, <1>2, <1>4, <3>1, <3>3, <3>4, <3>5, <4>1, <4>2, <4>3 DEF AddInv, Line
    <3> QED
      BY <1>2, <3>5
  <2>2. CASE ~Missing
    <3>1. Left = out /\ found' = found
      BY <1>1, <2>2 DEF Left, Count
    <3>2. CASE CopyInv
      <4>1. Len(out') = n' /\ \A i \in 1 .. n' : out'[i] = Copy(i)'
        BY <1>2, <1>6, <1>7, <3>1, <3>2 DEF CopyInv
      <4> QED
        BY <1>4, <3>1, <3>2, <4>1 DEF CopyInv, CountInv
    <3>3. ASSUME NEW i \in 1 .. n, AddInv(i)
          PROVE  AddInv(i)'
      <4>1. Len(out') = n' + 1 /\ out'[i] = Field(key', value')
        BY <1>1, <1>2, <1>6, <3>1, <3>3 DEF AddInv
      <4>2. \A j \in 1 .. i - 1 : out'[j] = file'[j]
        BY <1>1, <1>2, <1>6, <3>1, <3>3 DEF AddInv
      <4>3. \A j \in i .. n' : out'[j + 1] = Copy(j)'
        <5>1. /\ Len(out) = n + 1 /\ \A j \in i .. n : out[j + 1] = Copy(j)
              /\ \A j \in i .. n : j + 1 \in 1 .. Len(out) /\ j \in 1 .. n
          BY <1>2, <3>3 DEF AddInv
        <5>2. \A j \in i .. n : out'[j + 1] = Copy(j)'
          BY <1>6, <1>7, <3>1, <5>1
        <5>3. ASSUME NEW j \in i .. n', j = n + 1 PROVE out'[j + 1] = Copy(j)'
          BY <1>6, <1>7, <3>1, <5>1, <5>3
        <5>4. \A j \in i .. n' : j \in i .. n \/ j = n + 1
          BY <1>2
        <5> QED
          BY <5>2, <5>3, <5>4
      <4> QED
        BY <1>1, <1>2, <1>4, <3>1, <3>3, <4>1, <4>2, <4>3 DEF AddInv
    <3> QED
      BY <1>0, <1>2, <3>2, <3>3 DEF SetInv
  <2> QED
    BY <2>1, <2>2
<1>11. SetInv'
  BY <1>0, <1>1, <1>6, <1>8, <1>9, <1>10 DEF SetInv
<1>12. EditsHold'
  BY <1>1 DEF TomlInv, EditsHold, edits
<1> QED
  BY <1>0, <1>1, <1>2, <1>4, <1>11, <1>12 DEF TomlInv, RecordInv, edits

(* A line within the sections is copied, or is the field and is replaced. *)
LEMMA SetLineNext == ASSUME TomlInv, SetField \/ CopyLine PROVE TomlInv'
<1> DEFINE hit == active /\ IsField(Line, key)
<1>0. op = "set" /\ SetInv /\ ScanInv
  BY DEF TomlInv, SetField, CopyLine, Reads
<1>1. /\ Reads("set") /\ ~IsHeader(Line) /\ UNCHANGED <<file, edits, call, value, active, seen>>
      /\ out' = Append(out, IF hit THEN Field(key, value) ELSE Line)
      /\ found' = IF hit THEN found + 1 ELSE found
  BY LineFacts DEF SetField, CopyLine
<1>2. n' = n + 1 /\ UNCHANGED <<op, section, key>> /\ n \in Nat /\ found \in Nat /\ file \in Seq(Lines)
      /\ n < Len(file) /\ Len(file) \in Nat
  BY <1>0, <1>1 DEF Reads, call, ScanInv, TomlInv
<1>3. ScanInv' /\ Line \in Lines /\ Hits' = IF hit THEN Hits \cup {n + 1} ELSE Hits
  BY <1>1, <1>2, ScanNext
<1>4. Field(key, value) \in Lines
  BY <1>0, FieldFacts DEF ScanInv, SetInv, AnyValue
<1>5. (\A i \in 1 .. n : Copy(i)' = Copy(i))
      /\ \A i : i = n + 1 => Copy(i)' = IF hit THEN Field(key, value) ELSE Line
  BY <1>0, <1>1, <1>3, CopyNext
<1>6. /\ out \in Seq(Lines) /\ Len(out) \in Nat /\ out' \in Seq(Lines)
      /\ Len(out') = Len(out) + 1 /\ out'[Len(out) + 1] = (IF hit THEN Field(key, value) ELSE Line)
      /\ \A i \in 1 .. Len(out) : out'[i] = out[i]
  BY <1>0, <1>1, <1>3, <1>4, <1>5 DEF SetInv
<1>7. seen' <=> section' = Root \/ \E i \in 1 .. n' : file'[i] = Header(section')
  <2>1. \A i : i \in 1 .. n + 1 <=> i \in 1 .. n \/ i = n + 1
    BY <1>2
  <2>2. file[n + 1] # Header(section)
    BY <1>1, LineFacts DEF Line
  <2> QED
    BY <1>0, <1>1, <1>2, <2>1, <2>2 DEF SetInv
<1>8. seen' /\ found' = 0 /\ section' # Root => active'
  BY <1>0, <1>1, <1>2 DEF SetInv
<1>9. CASE CopyInv
  <2>1. Len(out') = n' /\ \A i \in 1 .. n' : out'[i] = Copy(i)'
    BY <1>2, <1>5, <1>6, <1>9 DEF CopyInv
  <2>2. CountInv'
    BY <1>0, <1>1, <1>3, <1>9, CountNext DEF CopyInv
  <2> QED
    BY <1>0, <1>1, <1>2, <1>3, <1>6, <1>7, <1>8, <2>1, <2>2
       DEF TomlInv, RecordInv, SetInv, CopyInv, EditsHold, edits
<1>10. ASSUME NEW i \in 1 .. n, AddInv(i)
       PROVE  TomlInv'
  <2>1. Len(out') = n' + 1 /\ out'[i] = Field(key', value')
    BY <1>1, <1>2, <1>6, <1>10 DEF AddInv
  <2>2. \A j \in 1 .. i - 1 : out'[j] = file'[j]
    BY <1>1, <1>2, <1>6, <1>10 DEF AddInv
  <2>3. \A j \in i .. n' : out'[j + 1] = Copy(j)'
    <3>1. /\ Len(out) = n + 1 /\ \A j \in i .. n : out[j + 1] = Copy(j)
          /\ \A j \in i .. n : j + 1 \in 1 .. Len(out) /\ j \in 1 .. n
      BY <1>2, <1>10 DEF AddInv
    <3>2. \A j \in i .. n : out'[j + 1] = Copy(j)'
      BY <1>5, <1>6, <3>1
    <3>3. ASSUME NEW j \in i .. n', j = n + 1 PROVE out'[j + 1] = Copy(j)'
      BY <1>5, <1>6, <3>1, <3>3
    <3>4. \A j \in i .. n' : j \in i .. n \/ j = n + 1
      BY <1>2
    <3> QED
      BY <3>2, <3>3, <3>4
  <2>4. (\A j \in Hits' : j > i) /\ found' # 0 /\ (found' = 1 <=> Hits' = {})
    <3>1. found # 0 /\ (found = 1 <=> Hits = {}) /\ (\A j \in Hits : j > i) /\ n + 1 > i
      BY <1>2, <1>10 DEF AddInv
    <3>2. CASE hit
      BY <1>1, <1>2, <1>3, <3>1, <3>2
    <3>3. CASE ~hit
      BY <1>1, <1>3, <3>1, <3>3
    <3> QED
      BY <3>2, <3>3
  <2>5. i \in 1 .. n' /\ Belongs(file, i - 1, section) /\ section # Root /\ IsHeader(file[i])
    BY <1>2, <1>10 DEF AddInv
  <2>6. AddInv(i)'
    BY <1>1, <1>2, <2>1, <2>2, <2>3, <2>4, <2>5 DEF AddInv
  <2> QED
    BY <1>0, <1>1, <1>2, <1>3, <1>6, <1>7, <1>8, <2>5, <2>6
       DEF TomlInv, RecordInv, SetInv, EditsHold, edits
<1> QED
  BY <1>0, <1>9, <1>10 DEF SetInv

(* A value is read, a setting is edited or the record is patched; a sequence
   number is set in the record only. *)
LEMMA BeginNext ==
  ASSUME TomlInv, NEW s \in Sections, NEW k \in Keys,
         \/ ReadValue(s, k)
         \/ k = Addr /\ \E v \in Values : EditSetting(s, v)
         \/ s = Discovery /\ \E v \in Values : PatchRecord(k, v)
  PROVE  TomlInv'
<1>1. /\ op' \in {"set", "read"} /\ section' = s /\ key' = k /\ (op' = "set" => value' \in Values)
      /\ n' = 0 /\ active' = (s = Root) /\ seen' = (s = Root) /\ found' = 0 /\ out' = <<>>
      /\ UNCHANGED <<file, asked, signing, due>>
      /\ op' = "set" /\ k = SeqNum => s = Discovery
  BY ValueAssumption DEF ReadValue, EditSetting, PatchRecord, SetTomlValue, Begin, edits
<1>2. file \in Seq(Lines) /\ Len(file) \in Nat
  BY DEF TomlInv
<1>3. Hits' = {}
  BY <1>1, <1>2 DEF Hits, Fields
<1>4. ScanInv'
  <2>1. Belongs(file', n', section') <=> s = Root
    BY <1>1, BelongsFirst
  <2>2. n' \in 0 .. Len(file') /\ found' \in Nat
    BY <1>1, <1>2
  <2> QED
    BY <1>1, <2>1, <2>2 DEF ScanInv
<1>5. CountInv'
  BY <1>1, <1>3 DEF CountInv
<1>6. CopyInv'
  <2>1. Len(out') = n' /\ \A i \in 1 .. n' : FALSE
    BY <1>1
  <2> QED
    BY <1>5, <2>1 DEF CopyInv
<1>8. op' = "set" => SetInv'
  <2>1. out' \in Seq(Lines) /\ \A i \in 1 .. n' : FALSE
    BY <1>1
  <2> QED
    BY <1>1, <1>6, <2>1 DEF SetInv
<1>7. EditsHold'
  BY <1>1 DEF TomlInv, EditsHold
<1>9. RecordInv'
  BY <1>1 DEF TomlInv, RecordInv
<1> QED
  BY <1>1, <1>2, <1>3, <1>4, <1>5, <1>7, <1>8, <1>9 DEF TomlInv

(* What SetTomlValue has to write when it has read the file: the one field of the
   section replaced, or added in it. *)
LEMMA LeftIsEdited ==
  ASSUME TomlInv, op = "set", n = Len(file), Unambiguous
  PROVE  /\ Left \in Seq(Lines) /\ Field(key, value) \in Lines
         /\ \E i \in 1 .. Len(Left) :
               \/ Fields(file, section, key) = {i} /\ Replaced(Left, file, i, Field(key, value))
               \/ /\ Fields(file, section, key) = {} /\ Belongs(file, i - 1, section)
                  /\ Inserted(Left, file, i, Field(key, value))
<1>1. /\ file \in Seq(Lines) /\ Len(file) \in Nat /\ DOMAIN file = 1 .. Len(file)
      /\ SetInv /\ ScanInv /\ out \in Seq(Lines) /\ Len(out) \in Nat
  BY DEF TomlInv, SetInv
<1>2. Field(key, value) \in Lines
  BY <1>1, FieldFacts DEF ScanInv, SetInv, AnyValue
<1>3. Hits = Fields(file, section, key)
  BY <1>1 DEF Hits, Fields
<1>4. Left \in Seq(Lines)
  BY <1>1, <1>2 DEF Left
<1>5. CASE Missing
  <2>1. found = 0 /\ CopyInv /\ Hits = {} /\ Belongs(file, Len(file), section)
    BY <1>1, <1>5 DEF Missing, SetInv, CopyInv, AddInv, CountInv, ScanInv
  <2>2. /\ Len(Left) = Len(file) + 1 /\ Left[Len(file) + 1] = Field(key, value)
        /\ \A i \in 1 .. Len(file) : Left[i] = file[i]
    BY <1>1, <1>2, <1>5, <2>1 DEF Left, CopyInv, Copy
  <2> DEFINE i == Len(file) + 1
  <2>3. i \in 1 .. Len(Left) /\ i - 1 = Len(file) /\ Inserted(Left, file, i, Field(key, value))
    BY <1>1, <2>2 DEF Inserted
  <2> QED
    BY <1>2, <1>3, <1>4, <2>1, <2>3
<1>6. CASE ~Missing
  <2>1. Left = out /\ found = 1
    BY <1>6 DEF Left, Unambiguous, Count
  <2>2. CASE CopyInv
    <3>1. PICK i \in Hits : Hits = {i}
      BY <2>1, <2>2 DEF CopyInv, CountInv
    <3>2. i \in 1 .. Len(file)
      BY <1>1, <1>3, <3>1 DEF Fields
    <3>3. Len(out) = Len(file) /\ \A j \in 1 .. Len(file) : out[j] = Copy(j)
      BY <2>2 DEF CopyInv
    <3>4. Replaced(out, file, i, Field(key, value))
      BY <3>1, <3>2, <3>3 DEF Replaced, Copy
    <3> QED
      BY <1>2, <1>3, <1>4, <2>1, <3>1, <3>2, <3>3, <3>4
  <2>3. ASSUME NEW i \in 1 .. n, AddInv(i)
        PROVE  /\ i \in 1 .. Len(out) /\ Hits = {} /\ Belongs(file, i - 1, section)
               /\ Inserted(out, file, i, Field(key, value))
    <3>1. Hits = {} /\ Len(out) = Len(file) + 1 /\ i \in 1 .. Len(out)
      BY <1>1, <2>1, <2>3 DEF AddInv
    <3>2. \A j \in i .. Len(file) : out[j + 1] = file[j]
      BY <2>3, <3>1 DEF AddInv, Copy
    <3> QED
      BY <2>3, <3>1, <3>2 DEF AddInv, Inserted
  <2> QED
    BY <1>1, <1>2, <1>3, <1>4, <2>1, <2>2, <2>3 DEF SetInv
<1> QED
  BY <1>5, <1>6

(* The field that was set is the only one of its key in its section. *)
LEMMA EditedField ==
  ASSUME TomlInv, Rewrite
  PROVE  \E i \in DOMAIN file' :
            /\ Fields(file', section, key) = {i} /\ file'[i] = Field(key, value)
            /\ \/ Fields(file, section, key) = {i} /\ Replaced(file', file, i, Field(key, value))
               \/ /\ Fields(file, section, key) = {} /\ Belongs(file, i - 1, section)
                  /\ Inserted(file', file, i, Field(key, value))
<1>1. /\ file \in Seq(Lines) /\ Len(file) \in Nat /\ file' \in Seq(Lines) /\ Len(file') \in Nat
      /\ DOMAIN file = 1 .. Len(file) /\ DOMAIN file' = 1 .. Len(file')
  BY LeftIsEdited DEF TomlInv, Rewrite
<1>2. PICK i \in 1 .. Len(file') :
            \/ Fields(file, section, key) = {i} /\ Replaced(file', file, i, Field(key, value))
            \/ /\ Fields(file, section, key) = {} /\ Belongs(file, i - 1, section)
               /\ Inserted(file', file, i, Field(key, value))
  BY LeftIsEdited DEF Rewrite
<1>3. CASE Fields(file, section, key) = {i} /\ Replaced(file', file, i, Field(key, value))
  <2>1. IsField(file[i], key)
    BY <1>3 DEF Fields
  <2>2. Fields(file', section, key) = {i}
    BY <1>1, <1>3, <2>1, FieldsReplaced
  <2> QED
    BY <1>1, <1>3, <2>2 DEF Replaced
<1>4. CASE /\ Fields(file, section, key) = {} /\ Belongs(file, i - 1, section)
           /\ Inserted(file', file, i, Field(key, value))
  <2>1. /\ i \in Fields(file', section, key)
        /\ \A l \in 1 .. i - 1 : l \notin Fields(file', section, key)
        /\ \A l \in i .. Len(file) : l + 1 \notin Fields(file', section, key)
    <3>1. i \in Fields(file', section, key) /\ FieldsKept(file', file, i, section, key)
      BY <1>1, <1>4, FieldsInserted
    <3> QED
      BY <1>4, <3>1 DEF FieldsKept
  <2>2. ASSUME NEW j \in Fields(file', section, key)
        PROVE  j = i
    <3>1. j \in 1 .. Len(file) + 1
      BY <1>1, <1>4 DEF Fields, Inserted
    <3>2. CASE j < i
      <4>1. j \in 1 .. i - 1 BY <3>1, <3>2
      <4> QED BY <2>1, <2>2, <4>1
    <3>3. CASE j > i
      <4>1. j - 1 \in i .. Len(file) /\ (j - 1) + 1 = j BY <1>1, <3>1, <3>3
      <4>2. (j - 1) + 1 \notin Fields(file', section, key) BY <2>1, <4>1
      <4> QED BY <2>2, <4>1, <4>2
    <3> QED
      BY <3>1, <3>2, <3>3
  <2>3. Fields(file', section, key) = {i}
    BY <2>1, <2>2
  <2> QED
    BY <1>1, <1>4, <2>3 DEF Inserted
<1> QED
  BY <1>1, <1>2, <1>3, <1>4

(* The other fields that were set before are still there, and alone. *)
LEMMA OtherFields ==
  ASSUME TomlInv, Rewrite, NEW s \in Sections, NEW k \in Keys, asked[s][k] # None,
         k = SeqNum => k \notin due, s # section \/ k # key
  PROVE  \E i \in Fields(file', s, k) :
            Fields(file', s, k) = {i} /\ file'[i] = Field(k, asked[s][k])
<1>1. PICK a \in Fields(file, s, k) :
            Fields(file, s, k) = {a} /\ file[a] = Field(k, asked[s][k])
  BY DEF TomlInv, EditsHold
<1>2. /\ file \in Seq(Lines) /\ Len(file) \in Nat /\ file' \in Seq(Lines) /\ Len(file') \in Nat
      /\ DOMAIN file = 1 .. Len(file) /\ DOMAIN file' = 1 .. Len(file')
  BY LeftIsEdited DEF TomlInv, Rewrite
<1>3. a \in 1 .. Len(file) /\ a \in Nat /\ IsField(file[a], k) /\ Belongs(file, a, s)
  BY <1>1, <1>2 DEF Fields
<1>4. PICK i \in DOMAIN file' :
            /\ Fields(file', section, key) = {i} /\ file'[i] = Field(key, value)
            /\ \/ Fields(file, section, key) = {i} /\ Replaced(file', file, i, Field(key, value))
               \/ /\ Fields(file, section, key) = {} /\ Belongs(file, i - 1, section)
                  /\ Inserted(file', file, i, Field(key, value))
  BY EditedField
<1>5. CASE Fields(file, section, key) = {i} /\ Replaced(file', file, i, Field(key, value))
  <2>1. IsField(file[i], key) /\ Belongs(file, i, section)
    BY <1>5 DEF Fields
  <2>2. a # i
    BY <1>3, <2>1, BelongsOnce, LineFacts
  <2>3. Fields(file', s, k) = Fields(file, s, k)
    BY <1>2, <1>5, <2>1, FieldsReplaced
  <2>4. file'[a] = file[a]
    BY <1>3, <1>5, <2>2 DEF Replaced
  <2> QED
    BY <1>1, <2>3, <2>4
<1>6. CASE Belongs(file, i - 1, section) /\ Inserted(file', file, i, Field(key, value))
  <2>1. i - 1 \in Nat /\ i \in 1 .. Len(file) + 1 /\ Len(file') = Len(file) + 1
    BY <1>2, <1>6 DEF Inserted
  <2>2. i \notin Fields(file', s, k)
    <3>1. i \in Fields(file', s, k) => key = k /\ Belongs(file, i - 1, s)
      BY <1>2, <1>6, FieldsInserted
    <3>2. Belongs(file, i - 1, s) => s = section
      BY <1>6, <2>1, BelongsOnce
    <3> QED
      BY <3>1, <3>2
  <2>3. /\ \A l \in 1 .. i - 1 : l \in Fields(file', s, k) <=> l = a
        /\ \A l \in i .. Len(file) : l + 1 \in Fields(file', s, k) <=> l = a
    <3>1. FieldsKept(file', file, i, s, k)
      BY <1>2, <1>6, FieldsInserted
    <3> QED
      BY <1>1, <3>1 DEF FieldsKept
  <2> DEFINE b == IF a < i THEN a ELSE a + 1
  <2>4. b \in Fields(file', s, k) /\ file'[b] = file[a]
    <3>1. CASE a < i
      <4>1. a \in 1 .. i - 1 BY <1>3, <2>1, <3>1
      <4> QED BY <1>6, <2>3, <3>1, <4>1 DEF Inserted
    <3>2. CASE ~(a < i)
      <4>1. a \in i .. Len(file) BY <1>2, <1>3, <2>1, <3>2
      <4> QED BY <1>6, <2>3, <3>2, <4>1 DEF Inserted
    <3> QED BY <3>1, <3>2
  <2>5. ASSUME NEW j \in Fields(file', s, k) PROVE j = b
    <3>1. j \in 1 .. Len(file) + 1 /\ j # i
      BY <1>2, <2>1, <2>2 DEF Fields
    <3>2. CASE j < i
      <4>1. j \in 1 .. i - 1 BY <2>1, <3>1, <3>2
      <4> QED BY <2>3, <2>5, <3>2, <4>1
    <3>3. CASE j > i
      <4>1. j - 1 \in i .. Len(file) /\ (j - 1) + 1 = j BY <1>2, <2>1, <3>1, <3>3
      <4>2. j - 1 = a BY <2>3, <2>5, <4>1
      <4> QED BY <2>1, <4>1, <4>2
    <3> QED BY <2>1, <3>1, <3>2, <3>3
  <2> QED
    BY <1>1, <2>4, <2>5
<1> QED
  BY <1>4, <1>5, <1>6

LEMMA RewriteNext == ASSUME TomlInv, Rewrite PROVE TomlInv'
<1>1. file' \in Seq(Lines) /\ op' = "none" /\ UNCHANGED <<section, key, value>>
  BY LeftIsEdited DEF Rewrite, Return
<1>2. /\ section \in Sections /\ key \in Keys /\ value \in Values
      /\ asked \in [Sections -> [Keys -> Values \cup {None}]]
      /\ asked' = [asked EXCEPT ![section][key] = value]
      /\ due' = due \ {key} /\ signing' = signing
  BY DEF TomlInv, ScanInv, SetInv, Rewrite
<1>3. asked' \in [Sections -> [Keys -> Values \cup {None}]]
  BY <1>2
<1>4. RecordInv'
  <2>1. RecordInv /\ (key = SeqNum => section = Discovery)
    BY DEF TomlInv, RecordInv, Rewrite
  <2>2. ASSUME NEW s \in Sections, asked'[s][SeqNum] # None PROVE s = Discovery
    BY <1>2, <2>1, <2>2 DEF RecordInv, Keys
  <2> QED
    BY <1>1, <1>2, <2>1, <2>2 DEF RecordInv
<1>5. ASSUME NEW s \in Sections, NEW k \in Keys, asked'[s][k] # None,
             k = SeqNum => k \notin due'
      PROVE  \E i \in Fields(file', s, k) :
                Fields(file', s, k) = {i} /\ file'[i] = Field(k, asked'[s][k])
  <2>1. CASE s = section /\ k = key
    <3>1. asked'[s][k] = value
      BY <1>2, <2>1
    <3> QED
      BY <2>1, <3>1, EditedField
  <2>2. CASE s # section \/ k # key
    <3>1. asked'[s][k] = asked[s][k]
      BY <1>2, <2>2
    \* The sequence number that is set now is the record's, as the other would be.
    <3>2. k = SeqNum => k \notin due
      <4>1. k = SeqNum /\ key = SeqNum => s = Discovery /\ section = Discovery
        BY <1>5, <3>1 DEF TomlInv, RecordInv, Rewrite
      <4> QED
        BY <1>2, <1>5, <2>2, <4>1
    <3> QED
      BY <1>5, <2>2, <3>1, <3>2, OtherFields
  <2> QED
    BY <2>1, <2>2
<1>6. EditsHold'
  BY <1>5 DEF EditsHold
<1> QED
  BY <1>1, <1>3, <1>4, <1>6 DEF TomlInv

(* Placeholders are replaced where they are.  A sequence number becomes due; the
   other values that were set are no placeholders. *)
LEMMA SanitizeNext == ASSUME TomlInv, SanitizePlaceholders PROVE TomlInv'
<1>1. /\ op' = "none" /\ file \in Seq(Lines) /\ Len(file) \in Nat /\ DOMAIN file = 1 .. Len(file)
      /\ file' = [i \in 1 .. Len(file) |-> SanitizedLine(file[i])]
      /\ asked' = asked /\ asked \in [Sections -> [Keys -> Values \cup {None}]]
      /\ signing' = TRUE /\ due' = Keys
  BY DEF SanitizePlaceholders, SanitizeFile, TomlInv, call
<1>2. ASSUME NEW line \in Lines
      PROVE  /\ SanitizedLine(line) \in Lines
             /\ IsHeader(SanitizedLine(line)) <=> IsHeader(line)
             /\ IsHeader(line) => SanitizedLine(line) = line
             /\ \A k : IsField(SanitizedLine(line), k) <=> IsField(line, k)
             /\ \A k, v : line = Field(k, v) => SanitizedLine(line) = Field(k, Sanitized(k, v))
  BY <1>2 DEF SanitizedLine, Sanitized, Lines, AnyValue, IsHeader, IsField, Header, Field, Text
<1>3. /\ file' \in Seq(Lines) /\ Len(file') = Len(file) /\ DOMAIN file' = DOMAIN file
      /\ \A i \in 1 .. Len(file) : file[i] \in Lines /\ file'[i] = SanitizedLine(file[i])
  BY <1>1, <1>2
<1>4. \A i \in 0 .. Len(file) : \A s : Belongs(file', i, s) <=> Belongs(file, i, s)
  BY <1>1, <1>2, <1>3, BelongsByHeaders
<1>5. \A s, k : Fields(file', s, k) = Fields(file, s, k)
  BY <1>1, <1>2, <1>3, <1>4 DEF Fields
<1>6. RecordInv'
  BY <1>1 DEF TomlInv, RecordInv
<1>7. EditsHold'
  <2> SUFFICES ASSUME NEW s \in Sections, NEW k \in Keys, asked'[s][k] # None,
                      k = SeqNum => k \notin due'
               PROVE  \E i \in Fields(file', s, k) :
                        Fields(file', s, k) = {i} /\ file'[i] = Field(k, asked'[s][k])
    BY DEF EditsHold
  <2>1. k # SeqNum /\ asked[s][k] # None /\ asked[s][k] \in Values
    BY <1>1
  <2>2. PICK i \in Fields(file, s, k) :
            Fields(file, s, k) = {i} /\ file[i] = Field(k, asked[s][k])
    BY <2>1 DEF TomlInv, EditsHold
  <2>3. i \in 1 .. Len(file)
    BY <1>1, <2>2 DEF Fields
  <2>4. Sanitized(k, asked[s][k]) = asked[s][k]
    BY <2>1, ValueAssumption DEF Sanitized
  <2>5. file'[i] = Field(k, asked[s][k])
    BY <1>2, <1>3, <2>2, <2>3, <2>4
  <2> QED
    BY <1>1, <1>5, <2>2, <2>5
<1> QED
  BY <1>1, <1>3, <1>6, <1>7 DEF TomlInv

LEMMA TomlNext == TomlInv /\ [Next]_vars => TomlInv'
<1> SUFFICES ASSUME TomlInv, [Next]_vars PROVE TomlInv'
  OBVIOUS
<1>1. CASE UNCHANGED vars
  <2>1. /\ UNCHANGED <<file, asked, signing, due, op, section, key, value>>
        /\ UNCHANGED <<n, active, seen, found, out>>
    BY <1>1 DEF vars, call, edits
  <2>2. ScanInv' = ScanInv /\ CountInv' = CountInv /\ Hits' = Hits /\ SetInv' = SetInv
    BY <2>1 DEF ScanInv, CountInv, CopyInv, AddInv, SetInv, Hits, Copy
  <2>3. RecordInv' = RecordInv /\ EditsHold' = EditsHold
    BY <2>1 DEF RecordInv, EditsHold
  <2> QED
    BY <2>1, <2>2, <2>3 DEF TomlInv
<1>2. ASSUME NEW s \in Sections, NEW k \in Keys, ReadValue(s, k)
      PROVE  TomlInv'
  BY <1>2, BeginNext
<1>3. ASSUME NEW s \in Sections, NEW v \in Values, EditSetting(s, v)
      PROVE  TomlInv'
  BY <1>3, BeginNext DEF Keys
<1>4. ASSUME NEW k \in Keys, NEW v \in Values, PatchRecord(k, v)
      PROVE  TomlInv'
  BY <1>4, BeginNext, TableAssumption DEF Sections
<1>5. CASE Refuse \/ ReturnAnswer
  <2>1. op' = "none" /\ UNCHANGED <<file, edits>>
    BY <1>5 DEF Refuse, ReturnAnswer, Return
  <2> QED
    BY <2>1 DEF TomlInv, RecordInv, EditsHold, edits
<1> QED
  BY <1>1, <1>2, <1>3, <1>4, <1>5, SetHeaderNext, SetLineNext, ReadNext, RewriteNext, SanitizeNext DEF Next

LEMMA TomlInit == Init => TomlInv
<1> SUFFICES ASSUME Init PROVE TomlInv
  OBVIOUS
<1>1. file \in Seq(Lines)
  <2>1. PICK len \in 1 .. InitialLines : file \in [1 .. len -> Lines]
    BY DEF Init
  <2> QED
    BY <2>1
<1>2. EditsHold
  BY DEF Init, EditsHold
<1>3. asked \in [Sections -> [Keys -> Values \cup {None}]] /\ RecordInv
  BY DEF Init, RecordInv, Sections, Keys
<1> QED
  BY <1>1, <1>2, <1>3 DEF Init, TomlInv

-----------------------------------------------------------------------------
(* SetTomlValue, ReadValue, SanitizePlaceholders: what holds in every state.  *)
THEOREM TomlInvariance == Spec => []TomlInv
BY TomlInit, TomlNext, PTL DEF Spec

(* SetTomlValue: an edit changes or adds the one field it is about, in its
   section, and moves or alters no other line. *)
THEOREM EditIsAlwaysExact == Spec => EditIsExact
<1>1. TomlInv /\ [Next]_vars => [Rewrite => OneFieldSet]_vars
  BY EditedField DEF OneFieldSet
<1> QED
  BY <1>1, TomlInvariance, PTL DEF Spec, EditIsExact

(* signRecord's check: what configure and signRecord set is the field's one value,
   through every later edit and the replacement of placeholders; only a sequence
   number that has to be set again, after that replacement, may have been lost. *)
THEOREM EditsAlwaysHold == Spec => []EditsHold
<1>1. TomlInv => EditsHold
  BY DEF TomlInv
<1> QED
  BY <1>1, TomlInvariance, PTL

(* SetTomlValue: an edit of a valid file is refused only for want of the table, or
   of the key at the root. *)
THEOREM ValidIsAlwaysEdited == Spec => []ValidIsEdited
<1>1. TomlInv => ValidIsEdited
  <2> SUFFICES ASSUME TomlInv, op = "set", n = Len(file), Valid(file)
               PROVE  Unambiguous <=> HasTable(file, section)
                                      /\ (section = Root => Fields(file, section, key) # {})
    BY DEF ValidIsEdited
  <2>1. /\ file \in Seq(Lines) /\ Len(file) \in Nat /\ DOMAIN file = 1 .. Len(file)
        /\ SetInv /\ ScanInv
    BY DEF TomlInv
  <2>2. seen <=> HasTable(file, section)
    BY <2>1 DEF SetInv, HasTable
  <2>3. Hits = Fields(file, section, key)
    BY <2>1 DEF Hits, Fields
  <2>4. \A i, j \in Hits : i = j
    BY <2>1, <2>3 DEF Valid, ScanInv
  <2>5. CASE Missing
    BY <2>2, <2>5 DEF Unambiguous, Count, Missing
  <2>6. ASSUME ~Missing, CopyInv
        PROVE  Unambiguous <=> seen /\ Hits # {}
    BY <2>4, <2>6 DEF Unambiguous, Count, CopyInv, CountInv
  <2>7. ASSUME ~Missing, NEW i \in 1 .. n, AddInv(i)
        PROVE  found = 1 /\ section # Root
    <3>1. section # Root /\ section \in Tables /\ IsHeader(file[i]) /\ (found = 1 <=> Hits = {})
      BY <2>1, <2>7 DEF AddInv, ScanInv, Sections
    <3>2. ASSUME NEW h \in Hits PROVE FALSE
      <4>1. h \in 1 .. Len(file) /\ h > i /\ Belongs(file, h, section)
        BY <2>1, <2>3, <2>7, <3>2 DEF AddInv, Fields
      <4>2. PICK a \in 1 .. h :
                file[a] = Header(section) /\ \A l \in a + 1 .. h : ~IsHeader(file[l])
        BY <3>1, <4>1 DEF Belongs
      <4>3. PICK b \in 1 .. i - 1 : file[b] = Header(section)
        BY <2>7, <3>1 DEF AddInv, Belongs
      <4>4. a >= i
        BY <3>1, <4>1, <4>2
      <4>5. a \in DOMAIN file /\ b \in DOMAIN file /\ a # b
        BY <2>1, <4>1, <4>3, <4>4
      <4> QED
        BY <3>1, <4>2, <4>3, <4>5 DEF Valid
    <3> QED
      BY <3>1, <3>2
  <2>8. ASSUME ~Missing, section # Root, seen
        PROVE  found # 0
    BY <2>1, <2>8 DEF SetInv, Missing
  <2>9. CASE ~Missing /\ CopyInv
    BY <2>2, <2>3, <2>6, <2>8, <2>9 DEF CopyInv, CountInv
  <2>10. ASSUME ~Missing, NEW i \in 1 .. n, AddInv(i)
         PROVE  Unambiguous <=> HasTable(file, section)
                                /\ (section = Root => Fields(file, section, key) # {})
    BY <2>2, <2>7, <2>10 DEF Unambiguous, Count
  <2> QED
    BY <2>1, <2>5, <2>9, <2>10 DEF SetInv
<1> QED
  BY <1>1, TomlInvariance, PTL

(* ReadValue, TomlGet: the readers give a field the value it has in TOML. *)
THEOREM ReadsAgree == Spec => []ReadAgrees
<1>1. ASSUME TomlInv, op = "read", n = Len(file)
      PROVE  Answer = Meaning(file, section, key)
  <2>1. /\ file \in Seq(Lines) /\ Len(file) \in Nat /\ DOMAIN file = 1 .. Len(file)
        /\ CountInv /\ \A i \in Hits : found = 1 => value = file[i][3]
    BY <1>1 DEF TomlInv
  <2>2. Hits = Fields(file, section, key)
    BY <1>1, <2>1 DEF Hits, Fields
  <2>3. CASE found = 0
    BY <2>1, <2>2, <2>3 DEF CountInv, Answer, Meaning
  <2>4. CASE found = 1
    <3>1. PICK i \in Hits : Hits = {i}
      BY <2>1, <2>4 DEF CountInv
    <3>2. (CHOOSE j \in Hits : TRUE) = i /\ value = file[i][3]
      BY <2>1, <2>4, <3>1
    <3> QED
      BY <2>2, <2>4, <3>1, <3>2 DEF Answer, Meaning
  <2>5. CASE found # 0 /\ found # 1
    BY <2>1, <2>2, <2>5 DEF CountInv, Answer, Meaning
  <2> QED
    BY <2>3, <2>4, <2>5
<1>2. ASSUME TomlInv, NEW k \in Keys, NEW i \in Fields(file, Root, k), Fields(file, Root, k) = {i}
      PROVE  TomlGet(file, k) = Meaning(file, Root, k)
  <2> DEFINE hits == {j \in DOMAIN file : IsField(file[j], k)}
  <2>1. DOMAIN file = 1 .. Len(file) /\ Len(file) \in Nat
    BY <1>2 DEF TomlInv
  <2>2. i \in hits /\ i \in Nat /\ \A l \in 1 .. i : ~IsHeader(file[l])
    BY <2>1 DEF Fields, Belongs
  <2>3. ASSUME NEW j \in hits, j <= i PROVE j = i
    <3>1. j \in Fields(file, Root, k)
      BY <2>1, <2>2, <2>3 DEF Fields, Belongs
    <3> QED
      BY <1>2, <3>1
  <2>4. \A j \in hits : j \in Nat
    BY <2>1
  <2>5. \A j \in hits : i <= j
    BY <2>2, <2>3, <2>4
  <2>6. \A j \in hits : (\A l \in hits : j <= l) => j = i
    BY <2>2, <2>3
  <2>7. (CHOOSE j \in hits : \A l \in hits : j <= l) = i
    BY <2>2, <2>5, <2>6
  <2>8. TomlGet(file, k) = <<"value", file[i][3]>>
    BY <2>2, <2>7 DEF TomlGet
  <2>9. Meaning(file, Root, k) = <<"value", file[i][3]>>
    BY <1>2 DEF Meaning
  <2> QED
    BY <2>8, <2>9
<1>3. TomlInv => ReadAgrees
  BY <1>1, <1>2 DEF ReadAgrees
<1> QED
  BY <1>3, TomlInvariance, PTL

=============================================================================
