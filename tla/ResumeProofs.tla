---------------------------- MODULE ResumeProofs ----------------------------
(***************************************************************************)
(* Proof that no run leaves a mix of two attempts, nor a record which the  *)
(* next one calls corrupt, for any number of runs; the latter on a machine *)
(* whose BACKUP_ROOT fits.                                                 *)
(***************************************************************************)
EXTENDS ResumeRecord, TLAPS

RootsFit == \A r \in Roots : Fits(r)

(* os.MkdirTemp, LoadResume: a BACKUP_ROOT of admitted parts that does not end
   in a separator is one whose backups are accepted. *)
LEMMA PlainRootFits ==
    ASSUME NEW r \in Seq(PathParts), r # <<>>, Last(r) # "/"
    PROVE  Fits(r)
<1> DEFINE p == Append(r, "/")
           d == Append(p, "failover")
<1>1. p \in Seq(PathParts) /\ d \in Seq(PathParts) /\ p \o <<"failover">> = d
    BY DEF PathParts
<1>2. MkdirTemp(r) = d BY <1>1 DEF MkdirTemp
<1>3. ToSet(d) \subseteq PathParts BY <1>1 DEF ToSet
<1>4. IsPrefix(p, d)
    <2>1. Len(p) <= Len(d) /\ \A i \in 1..Len(p) : p[i] = d[i] BY <1>1
    <2>2. SubSeq(p, 1, Len(p)) = SubSeq(d, 1, Len(p)) BY <1>1, <2>1
    <2> QED BY <2>1, <2>2 DEF IsPrefix
<1> QED BY <1>2, <1>3, <1>4 DEF Fits, Under

(* os.MkdirTemp, LoadResume: with a trailing separator they never are. *)
LEMMA TrailingSlashRefused ==
    ASSUME NEW S, NEW r \in Seq(S), r # <<>>, Last(r) = "/"
    PROVE  ~Fits(r)
<1> DEFINE n == Len(r) + 1
           d == r \o <<"failover">>
<1>1. MkdirTemp(r) = d BY DEF MkdirTemp
<1>2. d[n] = "failover" /\ Append(r, "/")[n] = "/" /\ Len(Append(r, "/")) = n
    OBVIOUS
<1>3. SUFFICES ASSUME IsPrefix(Append(r, "/"), d) PROVE FALSE
    BY <1>1 DEF Fits, Under
<1>4. SubSeq(Append(r, "/"), 1, n)[n] = SubSeq(d, 1, n)[n]
    BY <1>2, <1>3 DEF IsPrefix
<1>5. SubSeq(Append(r, "/"), 1, n)[n] = "/" /\ SubSeq(d, 1, n)[n] = "failover"
    BY <1>2
<1> QED BY <1>4, <1>5

(* Writes: six phases write fields; phases 1 and 3 write none. *)
LEMMA PhasesWriting == DOMAIN Writes = 1..6
BY DEF Writes

(* Writes: each entry is a field. *)
LEMMA FieldsWritten ==
    ASSUME NEW n \in 1..6
    PROVE  /\ Len(Writes[n]) \in 0..6
           /\ DOMAIN Writes[n] = 1..Len(Writes[n])
           /\ \A i \in DOMAIN Writes[n] : Writes[n][i] \in Fields
<1>1. /\ Len(Writes[n]) \in 0..6
      /\ DOMAIN Writes[n] = 1..Len(Writes[n])
    <2>1. CASE n = 1 BY <2>1 DEF Writes
    <2>2. CASE n = 2 BY <2>2 DEF Writes
    <2>3. CASE n = 3 BY <2>3 DEF Writes
    <2>4. CASE n = 4 BY <2>4 DEF Writes
    <2>5. CASE n = 5 BY <2>5 DEF Writes
    <2>6. CASE n = 6 BY <2>6 DEF Writes
    <2> QED BY <2>1, <2>2, <2>3, <2>4, <2>5, <2>6
<1>2. \A i \in DOMAIN Writes[n] : Writes[n][i] \in ToSet(Writes[n])
    BY DEF ToSet
<1> QED BY <1>1, <1>2, PhasesWriting DEF Fields

(* Writes: the checksums are fields. *)
LEMMA ShaFields == Shas \subseteq Fields
<1>1. Writes[4][3] = "staged_secp_sha" /\ 3 \in DOMAIN Writes[4] BY DEF Writes
<1>2. Writes[4][4] = "staged_bls_sha" /\ 4 \in DOMAIN Writes[4] BY DEF Writes
<1>3. Writes[6][6] = "staged_toml_sha" /\ 6 \in DOMAIN Writes[6] BY DEF Writes
<1> QED BY <1>1, <1>2, <1>3, FieldsWritten DEF Shas

(* Writes: phase 2 writes the network, and nothing else. *)
LEMMA NetworkFirst ==
    /\ ToSet(Writes[2]) = {"network"} /\ Writes[2][1] = "network" /\ Len(Writes[2]) = 1
    /\ "network" \in Fields \ Shas
<1>1. Writes[2] = <<"network">> BY DEF Writes
<1>2. ToSet(Writes[2]) = {"network"} BY <1>1 DEF ToSet
<1>3. "network" \in Fields BY <1>2, PhasesWriting DEF Fields
<1> QED BY <1>1, <1>2, <1>3 DEF Shas

(* The network of a record that is past phase 2 names an attempt. *)
LEMMA NetworkKnown ==
    ASSUME TypeOK, Complete, lastStep >= 2
    PROVE  field["network"] \in Attempts
BY NetworkFirst DEF TypeOK, Complete

(* The empty record before any run. *)
LEMMA RecordInit == Init => RecordInv
<1> SUFFICES ASSUME Init PROVE RecordInv OBVIOUS
<1> USE DEF Init
<1>1. field \in [Fields -> Attempts \cup {None}] BY DEF Blank
<1>2. backupDir \in {<<>>, MkdirTemp(root)} OBVIOUS
<1>3. started \in BOOLEAN /\ swapped \in BOOLEAN OBVIOUS
<1>4. lastStep \in 0..8 /\ phase \in 0..9 /\ at \in 1..7 OBVIOUS
<1>5. TypeOK BY ONLY <1>1, <1>2, <1>3, <1>4, Init DEF TypeOK, Init
<1>6. WrittenInv BY PhasesWriting DEF WrittenInv
<1> QED BY <1>5, <1>6 DEF RecordInv, PhaseInv, AttemptInv, Consistent, Complete

(* What of the invariant is about the record alone. *)
Recorded ==
    /\ Consistent /\ Complete
    /\ \A n \in 2..6 : lastStep >= n => \A f \in ToSet(Writes[n]) : OfAttempt(field["network"], f)
    /\ lastStep \in 0..8 /\ started \in BOOLEAN /\ swapped \in BOOLEAN
    /\ field \in [Fields -> Attempts \cup {None}] /\ backupDir \in {<<>>, MkdirTemp(root)}
    /\ swapped => started

(* Store.Clear: an empty record is consistent, and nothing is missing. *)
LEMMA ClearedFits == ASSUME ClearRecord, UNCHANGED root PROVE Recorded'
<1> USE DEF ClearRecord
<1>1. field' \in [Fields -> Attempts \cup {None}] BY DEF Blank
<1>2. backupDir' \in {<<>>, MkdirTemp(root)} OBVIOUS
<1>3. started' \in BOOLEAN /\ swapped' \in BOOLEAN OBVIOUS
<1>4. lastStep' \in 0..8 OBVIOUS
<1>5. Consistent' /\ Complete' BY DEF Consistent, Complete
<1> QED BY <1>1, <1>2, <1>3, <1>4, <1>5 DEF Recorded

(* Store.Clear, when the removal fails. *)
LEMMA RecordKept == ASSUME RecordInv, UNCHANGED <<root, record>> PROVE Recorded'
<1>1. Recorded BY DEF RecordInv, Recorded, AttemptInv, TypeOK, PhaseInv
<1>2. UNCHANGED <<root, lastStep, started, swapped, field, backupDir>> BY DEF record
<1> QED BY <1>1, <1>2 DEF Recorded, Consistent, Complete, OfAttempt

(* A process at the beginning of a phase, over a record that fits. *)
LEMMA BeginsPhase ==
    ASSUME Recorded', root' \in Roots, mine' \in Attempts, at' = 1, phase' \in 0..9, PhaseInv',
           phase' >= 2 /\ lastStep' >= 2 => mine' = field'["network"]
    PROVE  RecordInv'
<1>1. TypeOK' BY DEF TypeOK, Recorded
<1>2. WrittenInv' BY PhasesWriting, FieldsWritten DEF WrittenInv
<1>3. AttemptInv' BY DEF AttemptInv, Recorded
<1> QED BY <1>1, <1>2, <1>3 DEF RecordInv, Recorded

(* Prepare, Promote: beginning a run keeps the invariant. *)
LEMMA BeginKeeps == ASSUME RecordInv, Fresh \/ Resume PROVE RecordInv'
<1>1. CASE Fresh
    <2>1. UNCHANGED <<root, record>> \/ ClearRecord BY <1>1 DEF Fresh, Clear
    <2>2. Recorded' BY <1>1, <2>1, RecordKept, ClearedFits DEF Fresh
    <2>3. ~started' /\ ~swapped'
        BY <1>1, <2>1 DEF Fresh, ClearRecord, record, RecordInv, PhaseInv
    <2>4. /\ root' \in Roots /\ mine' \in Attempts /\ at' = 1 /\ phase' = 1
        BY <1>1 DEF Fresh, Begin, NewAttempts, RecordInv, TypeOK
    <2>5. PhaseInv' BY <2>3, <2>4 DEF PhaseInv
    <2> QED BY <2>2, <2>4, <2>5, BeginsPhase
<1>2. CASE Resume
    <2>1. Recorded' BY <1>2, RecordKept DEF Resume
    <2>2. /\ root' \in Roots /\ at' = 1 /\ phase' = lastStep + 1 /\ phase' \in 0..9
          /\ lastStep \in 1..8
        BY <1>2 DEF Resume, Begin, RecordInv, TypeOK
    <2>3. mine' \in Attempts /\ (lastStep' >= 2 => mine' = field'["network"])
        BY <1>2, NetworkKnown DEF Resume, record, RecordInv, TypeOK
    <2>4. PhaseInv'
        BY <1>2, <2>2 DEF PhaseInv, Resume, Begin, record, Consistent, RecordInv, TypeOK
    <2> QED BY <2>1, <2>2, <2>3, <2>4, BeginsPhase
<1> QED BY <1>1, <1>2

(* Run.backupConfig: backup_dir is the new directory, of no attempt. *)
LEMMA BackUpKeeps == ASSUME RecordInv, BackUp PROVE RecordInv'
<1> USE DEF RecordInv, BackUp
<1>1. backupDir' \in {<<>>, MkdirTemp(root)} OBVIOUS
<1>2. TypeOK' BY <1>1 DEF TypeOK
<1>3. Consistent' /\ Complete' BY DEF Consistent, Complete
<1>4. PhaseInv' BY DEF PhaseInv
<1>5. Len(Writes[3]) = 0 BY DEF Writes
<1>6. WrittenInv' BY <1>5, PhasesWriting, FieldsWritten DEF WrittenInv
<1>7. AttemptInv' BY DEF AttemptInv, OfAttempt
<1> QED BY <1>2, <1>3, <1>4, <1>6, <1>7

(* Store.Set within a phase: the field is given the value of this attempt, or a
   checksum comes out empty; the fields of earlier phases are of the same attempt. *)
LEMMA SetFieldKeeps == ASSUME RecordInv, SetField PROVE RecordInv'
<1> USE DEF RecordInv, SetField
<1> DEFINE f == Writes[phase][at]
<1>1. phase \in 1..6 /\ at \in DOMAIN Writes[phase] /\ f \in Fields
    BY PhasesWriting, FieldsWritten DEF TypeOK
<1>2. PICK v \in {mine} \cup (IF f \in Shas THEN {None} ELSE {}) :
        field' = [field EXCEPT ![f] = v]
    OBVIOUS
<1>3. v = mine \/ (f \in Shas /\ v = None) BY <1>2
<1>4. field' \in [Fields -> Attempts \cup {None}] BY <1>1, <1>2, <1>3 DEF TypeOK
<1>5. /\ field'[f] = v
      /\ \A g \in Fields \ {f} : field'[g] = field[g]
    BY <1>1, <1>2 DEF TypeOK
<1>6. ~started /\ (lastStep >= 7 => started)
    BY <1>1 DEF PhaseInv, Consistent
<1>7. TypeOK'
    <2>1. at \in 1..6 BY <1>1, FieldsWritten
    <2>2. at' \in 1..7 BY <2>1
    <2> QED BY <1>4, <2>2 DEF TypeOK
<1>8. Consistent' BY <1>6 DEF Consistent
<1>9. PhaseInv' BY <1>1 DEF PhaseInv, TypeOK
<1>10. \A g \in Fields : OfAttempt(mine, g) => OfAttempt(mine, g)'
    BY <1>3, <1>5 DEF OfAttempt
<1>11. WrittenInv'
    <2> SUFFICES ASSUME NEW i \in DOMAIN Writes[phase], i < at + 1
                 PROVE  OfAttempt(mine, Writes[phase][i])'
        BY DEF WrittenInv
    <2>1. Writes[phase][i] \in Fields /\ i \in Nat
        BY <1>1, FieldsWritten
    <2>2. CASE i = at BY <2>2, <1>3, <1>5 DEF OfAttempt
    <2>3. CASE i < at BY <2>3, <2>1, <1>1, <1>10, PhasesWriting DEF WrittenInv
    <2> QED BY <2>1, <2>2, <2>3 DEF TypeOK
<1>12. \A n \in 2..6 : ToSet(Writes[n]) \subseteq Fields
    BY PhasesWriting DEF Fields
<1>13. lastStep >= 2 => mine = field["network"] /\ field'["network"] = mine
    <2> SUFFICES ASSUME lastStep >= 2
                 PROVE  mine = field["network"] /\ field'["network"] = mine
        OBVIOUS
    <2>1. phase # 1 BY <1>1, FieldsWritten DEF Writes
    <2>2. mine = field["network"] BY <1>1, <2>1 DEF AttemptInv, TypeOK
    <2> QED BY <2>2, <1>3, <1>5, NetworkFirst
<1>14. \A n \in 2..6 : lastStep >= n => lastStep >= 2
    BY DEF TypeOK
<1>15. AttemptInv'
    <2>1. ASSUME NEW n \in 2..6, lastStep >= n, NEW g \in ToSet(Writes[n])
          PROVE  OfAttempt(field["network"], g)'
        <3>1. OfAttempt(mine, g) BY <1>13, <1>14, <2>1 DEF AttemptInv
        <3>2. OfAttempt(mine, g)' BY <1>10, <1>12, <2>1, <3>1
        <3> QED BY <1>13, <1>14, <2>1, <3>2 DEF OfAttempt
    <2> QED BY <1>13, <2>1 DEF AttemptInv
<1>16. Complete'
    <2> SUFFICES ASSUME NEW n \in 2..6, lastStep >= n, NEW g \in ToSet(Writes[n]) \ Shas
                 PROVE  field'[g] # None
        BY DEF Complete
    <2>1. field[g] # None BY DEF Complete
    <2>2. CASE g = f BY <2>2, <1>3, <1>5, NoneAssumption DEF TypeOK
    <2>3. CASE g # f BY <2>1, <2>3, <1>5, <1>12
    <2> QED BY <2>2, <2>3
<1> QED BY <1>7, <1>8, <1>9, <1>11, <1>15, <1>16

(* Store.Set of last_step: what the step requires has been written, by this
   attempt. *)
LEMMA SetLastStepKeeps == ASSUME RecordInv, SetLastStep PROVE RecordInv'
<1> USE DEF RecordInv, SetLastStep, PhaseWritten, Begin
<1>1. phase \in 1..6 /\ ~started /\ ~swapped
    BY PhasesWriting DEF PhaseInv
<1>2. ASSUME NEW g \in ToSet(Writes[phase]) PROVE OfAttempt(mine, g)
    <2>1. PICK i \in DOMAIN Writes[phase] : g = Writes[phase][i]
        BY DEF ToSet
    <2>2. i < at BY <1>1, FieldsWritten DEF TypeOK
    <2> QED BY <2>1, <2>2, <1>1, PhasesWriting DEF WrittenInv
<1>3. phase >= 2 => mine = field["network"]
    <2>1. CASE phase = 2
        <3>1. OfAttempt(mine, "network") BY <1>2, <2>1, NetworkFirst
        <3> QED BY <3>1, NetworkFirst DEF OfAttempt
    <2>2. CASE phase > 2
        BY <1>1, <2>2 DEF PhaseInv, AttemptInv
    <2> QED BY <1>1, <2>1, <2>2
<1>4. ASSUME NEW n \in 2..6, phase >= n, NEW g \in ToSet(Writes[n])
      PROVE  /\ OfAttempt(field["network"], g)
             /\ g \notin Shas => field[g] # None
    <2>1. CASE n = phase
        BY <1>2, <1>3, <1>4, <2>1, NoneAssumption DEF OfAttempt, TypeOK
    <2>2. CASE n < phase
        <3>1. lastStep >= n BY <2>2, <1>1 DEF PhaseInv
        <3> QED BY <3>1, <1>4 DEF Complete, AttemptInv
    <2> QED BY <1>1, <1>4, <2>1, <2>2
<1>5. Complete' BY <1>4 DEF Complete
<1>6. Consistent' BY <1>1 DEF Consistent
<1>7. TypeOK' BY <1>1 DEF TypeOK
<1>8. PhaseInv' BY <1>1 DEF PhaseInv
<1>9. WrittenInv' BY <1>1, PhasesWriting, FieldsWritten DEF WrittenInv
<1>10. AttemptInv'
    <2>1. \A n \in 2..6 : lastStep' >= n => \A g \in ToSet(Writes[n]) : OfAttempt(field["network"], g)'
        BY <1>4 DEF OfAttempt
    <2> QED BY <1>3, <2>1 DEF AttemptInv
<1> QED BY <1>5, <1>6, <1>7, <1>8, <1>9, <1>10

(* Run.cutover up to Run.finish: no field changes. *)
LEMMA CutoverKeeps ==
    ASSUME RecordInv,
           BeginCutover \/ Swap \/ EndCutover \/ Verified
    PROVE  RecordInv'
<1> USE DEF RecordInv, Begin
<1>1. UNCHANGED <<root, field, backupDir, mine>> /\ phase \in 7..8
    BY DEF BeginCutover, MarkStarted, Swap, EndCutover, Verified, TypeOK
<1>2. lastStep \in 6..7 /\ lastStep = phase - 1 /\ mine = field["network"]
    BY <1>1 DEF PhaseInv, AttemptInv
<1>3. lastStep' \in 6..8 /\ phase' \in 7..9 /\ swapped' \in BOOLEAN /\ started' \in BOOLEAN
    <2>1. CASE BeginCutover BY <1>1, <1>2, <2>1 DEF BeginCutover, MarkStarted, TypeOK
    <2>2. CASE Swap BY <1>1, <1>2, <2>2 DEF Swap, TypeOK
    <2>3. CASE EndCutover BY <1>1, <1>2, <2>3 DEF EndCutover, TypeOK
    <2>4. CASE Verified BY <1>1, <1>2, <2>4 DEF Verified, TypeOK
    <2> QED BY <2>1, <2>2, <2>3, <2>4
<1>4. TypeOK'
    BY <1>1, <1>3 DEF BeginCutover, MarkStarted, Swap, EndCutover, Verified, TypeOK
<1>5. PhaseInv' /\ (started => started')
    BY <1>1, <1>2 DEF BeginCutover, MarkStarted, Swap, EndCutover, Verified, PhaseInv
<1>6. Consistent'
    BY <1>1, <1>2, <1>3, <1>5
    DEF BeginCutover, MarkStarted, Swap, EndCutover, Verified, Consistent, PhaseInv
<1>7. Complete' /\ AttemptInv'
    <2>1. \A n \in 2..6 : lastStep >= n BY <1>2
    <2> QED BY <1>1, <1>2, <2>1 DEF Complete, AttemptInv, OfAttempt
<1>8. WrittenInv' BY <1>3, PhasesWriting DEF WrittenInv
<1> QED BY <1>4, <1>5, <1>6, <1>7, <1>8

(* The process ends: by itself, over a rejected plan, or by an error. *)
LEMMA EndKeeps == ASSUME RecordInv, RejectPlan \/ Finish \/ Stop PROVE RecordInv'
<1>1. root' = root /\ phase' = 0 /\ at' = 1 /\ mine' = mine
    BY DEF RejectPlan, Finish, Stop, Begin
<1>2. UNCHANGED record \/ ClearRecord
    BY DEF RejectPlan, Finish, Stop, Clear
<1>3. Recorded' BY <1>1, <1>2, RecordKept, ClearedFits
<1>4. PhaseInv' BY <1>1, <1>3 DEF PhaseInv, Recorded
<1> QED BY <1>1, <1>3, <1>4, BeginsPhase DEF RecordInv, TypeOK

(* Every write, end and beginning of a run keeps the invariant. *)
LEMMA RecordNext == ASSUME RecordInv, [Next]_vars PROVE RecordInv'
<1>1. CASE UNCHANGED vars
    BY <1>1 DEF vars, record, process, RecordInv, TypeOK, PhaseInv, WrittenInv, AttemptInv, OfAttempt,
                Consistent, Complete
<1> QED
    BY <1>1, BeginKeeps, BackUpKeeps, SetFieldKeeps, SetLastStepKeeps,
       CutoverKeeps, EndKeeps DEF Next

(* The invariant holds whatever BACKUP_ROOT is. *)
THEOREM RecordInvariance == Spec => []RecordInv
<1>1. RecordInv /\ [Next]_vars => RecordInv' BY RecordNext
<1> QED BY <1>1, RecordInit, PTL DEF Spec

(* Run.Promote, LoadResume: what a resume goes on with is of one attempt, also
   when the removal of an earlier record failed (Store.Clear). *)
THEOREM OneAttemptHolds == Spec => []OneAttempt
<1>1. ASSUME RecordInv PROVE OneAttempt
    <2> USE <1>1 DEF RecordInv
    <2>1. CASE lastStep >= 2
        <3>1. field["network"] \in Attempts BY <2>1, NetworkKnown
        <3> QED BY <3>1 DEF OneAttempt, AttemptInv, OfAttempt
    <2>2. CASE ~(lastStep >= 2)
        <3>1. mine \in Attempts /\ \A n \in 2..6 : ~(lastStep >= n) BY <2>2 DEF TypeOK
        <3> QED BY <3>1 DEF OneAttempt
    <2> QED BY <2>1, <2>2
<1> QED BY <1>1, RecordInvariance, PTL

(* ValidateConsistency, LoadResume: where BACKUP_ROOT fits, no run leaves a
   record that the next one refuses. *)
THEOREM NeverCorruptHolds == ASSUME RootsFit PROVE Spec => []NeverCorrupt
<1>1. RecordInv => NeverCorrupt
    BY DEF RecordInv, TypeOK, NeverCorrupt, Loads, RootsFit, Fits
<1> QED BY <1>1, RecordInvariance, PTL

=============================================================================
