------------------------------ MODULE TomlEdit ------------------------------
(***************************************************************************)
(* The line-based editor and reader of node.toml, on the staged copy.  A   *)
(* file is a sequence of lines: headers, `key = value` fields, and text    *)
(* that is neither (comments, blank lines).  SetTomlValue and ReadValue    *)
(* read them once, in order: a step for each round of their loops.  Their  *)
(* callers are configure, which edits the settings, and signRecord, which  *)
(* replaces placeholders, patches the name record and reads it back.       *)
(*                                                                         *)
(* A header that names none of the tables that are asked for, or names one *)
(* in a spelling the code does not compare equal ([[t]], [ t ]), is an Odd *)
(* one.  Values that span lines, or are no literals, are not in a small,   *)
(* flat file.                                                              *)
(***************************************************************************)
EXTENDS Naturals, Sequences

CONSTANTS
    Tables,         \* the tables the tool edits
    Discovery,      \* the one that holds the name record, peer_discovery
    SeqNum, Addr,   \* self_record_seq_num, and self_address for any other key
    Values,         \* what the tool sets them to
    Placeholder,    \* an install-time value, such as "<IP>:<PORT>"
    Zero,           \* what a placeholder is replaced with
    Root, Odd,      \* no table, a table that is not one of these
    None,           \* no value
    InitialLines,   \* the length of the file that is copied (a bound)
    MaxLines        \* the length up to which it is edited (a bound)

ASSUME TableAssumption == Root # Odd /\ {Root, Odd} \cap Tables = {} /\ Discovery \in Tables
ASSUME ValueAssumption == SeqNum # Addr /\ None \notin Values /\ Placeholder \notin Values

Keys == {SeqNum, Addr}
Sections == Tables \cup {Root}
AnyValue == Values \cup {Placeholder, Zero}

Header(t) == <<"header", t>>
Field(k, v) == <<"field", k, v>>
Text == <<"text">>
IsHeader(line) == line[1] = "header"
IsField(line, k) == line[1] = "field" /\ line[2] = k

Lines == {Header(t) : t \in Tables \cup {Odd}}
         \cup {Field(k, v) : k \in Keys, v \in AnyValue} \cup {Text}

VARIABLES
    file,           \* node.toml.new
    asked,          \* what each field was last set to, None: never
    signing,        \* configure is over, signRecord has begun
    due,            \* the keys of the name record it has still to patch
    op,             \* "set": in SetTomlValue, "read": in ReadValue, "none": in neither
    section, key,   \* its arguments
    value,          \* SetTomlValue's argument, ReadValue's local
    n,              \* the lines it has read
    active, seen, found, out    \* its other locals (found: ReadValue's count)

call == <<op, section, key>>
edits == <<asked, signing, due>>
vars == <<file, edits, call, value, n, active, seen, found, out>>

Init ==
    /\ \E len \in 1 .. InitialLines : file \in [1 .. len -> Lines]
    /\ asked = [s \in Sections |-> [k \in Keys |-> None]]
    /\ signing = FALSE /\ due = {}
    /\ op = "none" /\ section = Root /\ key = SeqNum /\ value = None
    /\ n = 0 /\ active = TRUE /\ seen = TRUE /\ found = 0 /\ out = <<>>

-----------------------------------------------------------------------------
(* SetTomlValue.                                                           *)

Begin(kind, s, k, v) ==
    /\ op = "none" /\ op' = kind
    /\ section' = s /\ key' = k /\ value' = v
    /\ n' = 0 /\ active' = (s = Root) /\ seen' = (s = Root)
    /\ found' = 0 /\ out' = <<>>
    /\ UNCHANGED <<file, edits>>

Return == op' = "none" /\ UNCHANGED <<section, key, value, n, active, seen, found, out>>

SetTomlValue(s, k, v) == Len(file) < MaxLines /\ Begin("set", s, k, v)

\* configure: a setting outside the name record, in any order.
EditSetting(s, v) == ~signing /\ s # Discovery /\ SetTomlValue(s, Addr, v)

\* signRecord: what the signer emitted, each field once.
PatchRecord(k, v) == k \in due /\ SetTomlValue(Discovery, k, v)

Line == file[n + 1]
Reads(kind) == op = kind /\ n < Len(file) /\ n' = n + 1

\* Mutant: the end of the file does not end a section.
MissingInside == active /\ found = 0 /\ section # Root /\ n < Len(file)

\* The section ends here, and the key was not met in it.
Missing == active /\ found = 0 /\ section # Root

\* The lines written once the section is left.
Left == IF Missing THEN Append(out, Field(key, value)) ELSE out

Count == IF Missing THEN 1 ELSE found

\* Mutant: the section that was found is never left.
HereOrBefore == active \/ (section # Root /\ Line = Header(section))

Here == section # Root /\ Line = Header(section)

\* A header ends the section and may begin it.
SetHeader ==
    /\ Reads("set") /\ IsHeader(Line)
    /\ active' = Here /\ seen' = (seen \/ Here)
    /\ found' = Count
    /\ out' = Append(Left, Line)
    /\ UNCHANGED <<file, edits, call, value>>

\* Mutant: the table is not looked at.
SetFieldAnywhere ==
    /\ Reads("set") /\ IsField(Line, key)
    /\ found' = found + 1
    /\ out' = Append(out, Field(key, value))
    /\ UNCHANGED <<file, edits, call, value, active, seen>>

SetField ==
    /\ Reads("set") /\ active /\ IsField(Line, key)
    /\ found' = found + 1
    /\ out' = Append(out, Field(key, value))
    /\ UNCHANGED <<file, edits, call, value, active, seen>>

CopyLine ==
    /\ Reads("set") /\ ~IsHeader(Line) /\ ~(active /\ IsField(Line, key))
    /\ out' = Append(out, Line)
    /\ UNCHANGED <<file, edits, call, value, active, seen, found>>

Unambiguous == seen /\ Count = 1

Rewrite ==
    /\ op = "set" /\ n = Len(file) /\ Unambiguous
    /\ file' = Left
    /\ asked' = [asked EXCEPT ![section][key] = value]
    /\ due' = due \ {key} /\ UNCHANGED signing
    /\ Return

\* The edit is refused, or the temporary file cannot be written.
Refuse == op = "set" /\ n = Len(file) /\ Return /\ UNCHANGED <<file, edits>>

-----------------------------------------------------------------------------
(* ReadValue, TomlGet and SanitizePlaceholders.                            *)

ReadValue(s, k) == Begin("read", s, k, None)

ReadHeader ==
    /\ Reads("read") /\ IsHeader(Line)
    /\ active' = Here
    /\ UNCHANGED <<file, edits, call, value, seen, found, out>>

\* Mutant: the section is not looked at.
ReadFieldAnywhere ==
    /\ Reads("read") /\ IsField(Line, key)
    /\ found' = found + 1 /\ value' = Line[3]
    /\ UNCHANGED <<file, edits, call, active, seen, out>>

ReadField ==
    /\ Reads("read") /\ active /\ IsField(Line, key)
    /\ found' = found + 1 /\ value' = Line[3]
    /\ UNCHANGED <<file, edits, call, active, seen, out>>

ReadOther ==
    /\ Reads("read") /\ ~IsHeader(Line) /\ ~(active /\ IsField(Line, key))
    /\ UNCHANGED <<file, edits, call, value, active, seen, found, out>>

\* The one value of the key in its own section, or why there is none.
Answer ==
    IF found = 0 THEN <<"missing">>
    ELSE IF found = 1 THEN <<"value", value>> ELSE <<"ambiguous">>

ReturnAnswer == op = "read" /\ n = Len(file) /\ Return /\ UNCHANGED <<file, edits>>

\* The first match in the file, whatever its table (of the two settings that phase
\* 5 writes, ReadValue's answer).
TomlGet(lines, k) ==
    LET hits == {i \in DOMAIN lines : IsField(lines[i], k)} IN
    IF hits = {} THEN <<"missing">>
    ELSE <<"value", lines[CHOOSE i \in hits : \A j \in hits : i <= j][3]>>

\* A placeholder address is replaced; the pattern for the sequence number also
\* matches the blank before a real one.
Sanitized(k, v) ==
    IF k = SeqNum \/ (k = Addr /\ v = Placeholder) THEN Zero ELSE v

SanitizedLine(line) ==
    IF line[1] = "field" THEN Field(line[2], Sanitized(line[2], line[3])) ELSE line

SanitizeFile ==
    /\ op = "none"
    /\ file' = [i \in DOMAIN file |-> SanitizedLine(file[i])]
    /\ signing' = TRUE
    /\ UNCHANGED <<asked, call, value, n, active, seen, found, out>>

\* Mutant: the placeholders are replaced when the record is patched already.
SanitizeLate == SanitizeFile /\ due' = IF signing THEN due ELSE Keys

\* signRecord begins, or is begun again by a resume: the whole record is patched
\* after this.
SanitizePlaceholders == SanitizeFile /\ due' = Keys

Next ==
    \/ \E s \in Sections, k \in Keys : ReadValue(s, k)
    \/ \E s \in Sections, v \in Values : EditSetting(s, v)
    \/ \E k \in Keys, v \in Values : PatchRecord(k, v)
    \/ SetHeader \/ SetField \/ CopyLine \/ Rewrite \/ Refuse
    \/ ReadHeader \/ ReadField \/ ReadOther \/ ReturnAnswer
    \/ SanitizePlaceholders

Spec == Init /\ [][Next]_vars

-----------------------------------------------------------------------------
(* What the lines mean: a field belongs to the header it follows.          *)

\* Line i of the file, or what is added behind it, is in section s.
Belongs(lines, i, s) ==
    IF s = Root THEN \A j \in 1 .. i : ~IsHeader(lines[j])
    ELSE \E j \in 1 .. i :
            lines[j] = Header(s) /\ \A l \in j + 1 .. i : ~IsHeader(lines[l])

Fields(lines, s, k) ==
    {i \in DOMAIN lines : IsField(lines[i], k) /\ Belongs(lines, i, s)}

HasTable(lines, s) == s = Root \/ \E i \in DOMAIN lines : lines[i] = Header(s)

\* As TOML requires: no table twice, no key twice in a table.
Valid(lines) ==
    /\ \A t \in Tables : \A i, j \in DOMAIN lines :
            lines[i] = Header(t) /\ lines[j] = Header(t) => i = j
    /\ \A s \in Sections, k \in Keys : \A i, j \in Fields(lines, s, k) : i = j

\* The longer file is the other with the line added before line i.
Inserted(longer, lines, i, line) ==
    /\ Len(longer) = Len(lines) + 1 /\ i \in 1 .. Len(longer) /\ longer[i] = line
    /\ \A j \in 1 .. i - 1 : longer[j] = lines[j]
    /\ \A j \in i .. Len(lines) : longer[j + 1] = lines[j]

\* The other file is the one with line i replaced.
Replaced(other, lines, i, line) ==
    /\ Len(other) = Len(lines) /\ i \in 1 .. Len(lines) /\ other[i] = line
    /\ \A j \in 1 .. Len(lines) : j # i => other[j] = lines[j]

\* The key has one field in the section, where it had one or where there was none.
OneFieldSet ==
    \E i \in DOMAIN file' :
        /\ Fields(file', section, key) = {i}
        /\ \/ Fields(file, section, key) = {i} /\ Replaced(file', file, i, Field(key, value))
           \/ Fields(file, section, key) = {} /\ Inserted(file', file, i, Field(key, value))

\* An edit changes the one field it is about, in its section, or adds it there, and
\* every other line stays what and where it was ("the file is rewritten only when
\* the edit is unambiguous", SetTomlValue).
EditIsExact == [][Rewrite => OneFieldSet]_vars

\* A valid file is edited: only a missing table, or a key missing at the root, is
\* refused (SetTomlValue).
ValidIsEdited ==
    op = "set" /\ n = Len(file) /\ Valid(file) =>
        (Unambiguous <=> HasTable(file, section)
                         /\ (section = Root => Fields(file, section, key) # {}))

\* The value TOML gives a field, if it gives one.
Meaning(lines, s, k) ==
    LET fields == Fields(lines, s, k) IN
    IF fields = {} THEN <<"missing">>
    ELSE IF \E i \in fields : fields = {i}
    THEN <<"value", lines[CHOOSE i \in fields : TRUE][3]>> ELSE <<"ambiguous">>

\* ReadValue finds the value TOML gives the field, and says so when there is none
\* or more than one; TomlGet finds it for the keys it is used for, those at the
\* root.
ReadAgrees ==
    /\ op = "read" /\ n = Len(file) => Answer = Meaning(file, section, key)
    /\ \A k \in Keys : \A i \in Fields(file, Root, k) :
        Fields(file, Root, k) = {i} => TomlGet(file, k) = Meaning(file, Root, k)

\* What was set is the field's one value, however many other fields and tables are
\* edited later and although the placeholders of the whole file are replaced in
\* between.  That replacement zeroes a real sequence number too, so signRecord must
\* set it after each one: it may differ only while it is due, and when none is (the
\* check that ends signRecord) all that was ever set holds.
EditsHold ==
    \A s \in Sections, k \in Keys :
        asked[s][k] # None /\ (k = SeqNum => k \notin due) =>
            \E i \in Fields(file, s, k) :
                Fields(file, s, k) = {i} /\ file[i] = Field(k, asked[s][k])

-----------------------------------------------------------------------------
(* What holds between two lines.                                           *)

\* The fields met so far, and what became of the lines.
Hits == {i \in Fields(file, section, key) : i <= n}
Copy(i) == IF i \in Hits THEN Field(key, value) ELSE file[i]

\* The section is where the last header says, and found counts the fields in it.
ScanInv ==
    /\ n \in 0 .. Len(file)
    /\ section \in Sections /\ key \in Keys
    /\ active <=> Belongs(file, n, section)
    /\ found \in Nat

CountInv == (found = 0 <=> Hits = {}) /\ (found = 1 <=> \E i \in Hits : Hits = {i})

\* Nothing has been added: the lines are the file's, with the fields replaced.
CopyInv == CountInv /\ Len(out) = n /\ \A i \in 1 .. n : out[i] = Copy(i)

\* The field has been added before line i, the header that ended the section.
AddInv(i) ==
    /\ Belongs(file, i - 1, section) /\ section # Root /\ IsHeader(file[i])
    /\ \A j \in Hits : j > i
    /\ found # 0 /\ (found = 1 <=> Hits = {})
    /\ Len(out) = n + 1 /\ out[i] = Field(key, value)
    /\ \A j \in 1 .. i - 1 : out[j] = file[j]
    /\ \A j \in i .. n : out[j + 1] = Copy(j)

SetInv ==
    /\ value \in Values /\ out \in Seq(Lines)
    /\ seen <=> section = Root \/ \E i \in 1 .. n : file[i] = Header(section)
    /\ seen /\ found = 0 /\ section # Root => active
    /\ CopyInv \/ \E i \in 1 .. n : AddInv(i)

\* A sequence number is set in the name record only.
RecordInv ==
    /\ signing \in BOOLEAN /\ due \subseteq Keys
    /\ \A s \in Sections : asked[s][SeqNum] # None => s = Discovery
    /\ op = "set" /\ key = SeqNum => section = Discovery

TomlInv ==
    /\ file \in Seq(Lines) /\ asked \in [Sections -> [Keys -> Values \cup {None}]]
    /\ op \in {"none", "set", "read"}
    /\ RecordInv
    /\ op # "none" => ScanInv
    /\ op = "set" => SetInv
    /\ op = "read" => CountInv /\ \A i \in Hits : found = 1 => value = file[i][3]
    /\ EditsHold

=============================================================================
