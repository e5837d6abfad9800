---------------------------- MODULE ResumeRecord ----------------------------
(***************************************************************************)
(* What the phases write into the record against what a later run accepts  *)
(* of it: ValidateConsistency before every run, LoadResume before a        *)
(* --resume.  Each Store.Set is atomic here (see StateFile); a run may end *)
(* between any two of them.                                                *)
(*                                                                         *)
(* A field holds the attempt, from phase 1 on, that wrote it, or None when  *)
(* it is empty.  Fields that are only shown again in the plan always have  *)
(* the shape that LoadResume asks of them and may be empty: they are left  *)
(* out.  A path is a sequence of its parts.                                *)
(***************************************************************************)
EXTENDS Naturals, SequencesExt

CONSTANTS
    Roots,          \* what BACKUP_ROOT may be set to, one per machine
    Attempts,       \* bound on attempts that leave values in one record
    None            \* an empty field

ASSUME NoneAssumption == None \notin Attempts

VARIABLES
    root,           \* BACKUP_ROOT of this machine
    lastStep,       \* last_step, 0 when the record holds none
    started,        \* cutover_started
    swapped,        \* swap_done
    field,          \* the fields below
    backupDir,      \* backup_dir, <<>> when empty
    phase, at,      \* the phase under way, 0: no process; the next write in it
    mine            \* the attempt whose values the process carries

record == <<lastStep, started, swapped, field, backupDir>>
process == <<phase, at, mine>>
vars == <<root, record, process>>

\* The fields written by each phase, in this order, before its last_step.
Writes == <<
    <<>>,
    <<"network">>,
    <<>>,                                   \* and backup_dir, see BackUp
    <<"secp_pub", "bls_pub", "staged_secp_sha", "staged_bls_sha">>,
    <<"new_seq">>,
    <<"ip", "self_address", "self_sig", "self_seq", "self_auth_port",
      "staged_toml_sha">> >>

Fields == UNION {ToSet(Writes[n]) : n \in DOMAIN Writes}
Shas == {"staged_secp_sha", "staged_bls_sha", "staged_toml_sha"}
Blank == [f \in Fields |-> None]

Init ==
    /\ root \in Roots
    /\ lastStep = 0 /\ started = FALSE /\ swapped = FALSE
    /\ field = Blank /\ backupDir = <<>>
    /\ phase = 0 /\ at = 1 /\ mine \in Attempts

-----------------------------------------------------------------------------
(* Validation.                                                             *)

Consistent ==
    /\ started => lastStep \in 6..8 /\ \A f \in Shas : field[f] # None
    /\ lastStep >= 7 => started

\* Required by the step that was reached.
Complete ==
    \A n \in 2..6 : lastStep >= n =>
        \A f \in ToSet(Writes[n]) \ Shas : field[f] # None

\* Parts that LoadResume admits: not "..", no space or other odd character.
PathParts == {"/", "srv", "backup", "failover"}

Under(dir, r) == ToSet(dir) \subseteq PathParts /\ IsPrefix(Append(r, "/"), dir)

Loads == Complete /\ (backupDir # <<>> => Under(backupDir, root))

-----------------------------------------------------------------------------
(* The process.                                                            *)

Begin(n) == phase' = n /\ at' = 1

ClearRecord ==
    /\ lastStep' = 0 /\ started' = FALSE /\ swapped' = FALSE
    /\ field' = Blank /\ backupDir' = <<>>

\* Errors of the removal are ignored.
Clear == ClearRecord \/ UNCHANGED record

NewAttempts == Attempts \ {field[f] : f \in Fields}

\* A run without --resume; over an earlier record, "Start fresh?" is answered yes.
Fresh ==
    /\ phase = 0 /\ Consistent /\ ~started
    /\ IF lastStep = 0 THEN UNCHANGED record ELSE Clear
    /\ Begin(1)
    /\ mine' \in NewAttempts
    /\ UNCHANGED root

\* The process goes on with the values it has read.
Resume ==
    /\ phase = 0 /\ lastStep # 0 /\ Consistent /\ Loads
    /\ Begin(lastStep + 1)
    /\ mine' = IF lastStep >= 2 THEN field["network"] ELSE mine
    /\ UNCHANGED <<root, record>>

\* os.MkdirTemp puts a separator only where there is none.
MkdirTemp(dir) ==
    (IF dir # <<>> /\ Last(dir) = "/" THEN dir ELSE Append(dir, "/"))
        \o <<"failover">>

\* Mutant: the directory of all backups is recorded.
BackUpRoot ==
    /\ phase = 3 /\ at = 1 /\ at' = 2
    /\ backupDir' = root
    /\ UNCHANGED <<root, lastStep, started, swapped, field, phase, mine>>

BackUp ==
    /\ phase = 3 /\ at = 1 /\ at' = 2
    /\ backupDir' = MkdirTemp(root)
    /\ UNCHANGED <<root, lastStep, started, swapped, field, phase, mine>>

\* A staged file that cannot be read has an empty checksum.
SetField ==
    /\ phase \in DOMAIN Writes /\ at <= Len(Writes[phase])
    /\ LET f == Writes[phase][at] IN
       \E v \in {mine} \cup (IF f \in Shas THEN {None} ELSE {}) :
           field' = [field EXCEPT ![f] = v]
    /\ at' = at + 1
    /\ UNCHANGED <<root, lastStep, started, swapped, backupDir, phase, mine>>

PhaseWritten ==
    /\ phase \in DOMAIN Writes /\ at > Len(Writes[phase])
    /\ phase = 3 => at = 2

\* Mutant: last_step never goes back.
SetLastStepForward ==
    /\ PhaseWritten
    /\ lastStep' = IF phase > lastStep THEN phase ELSE lastStep
    /\ Begin(phase + 1)
    /\ UNCHANGED <<root, started, swapped, field, backupDir, mine>>

SetLastStep ==
    /\ PhaseWritten
    /\ lastStep' = phase
    /\ Begin(phase + 1)
    /\ UNCHANGED <<root, started, swapped, field, backupDir, mine>>

\* The plan is rejected; a cutover that has begun keeps its record.
RejectPlan ==
    /\ phase = 7 /\ at = 1 /\ ~swapped
    /\ IF started THEN UNCHANGED record ELSE Clear
    /\ Begin(0)
    /\ UNCHANGED <<root, mine>>

MarkStarted ==
    /\ phase = 7 /\ at = 1 /\ ~swapped /\ at' = 2
    /\ started' = TRUE
    /\ UNCHANGED <<root, lastStep, swapped, field, backupDir, phase, mine>>

\* Mutant: the checksums are not looked at before the cutover is marked.
BeginCutoverUnvetted == MarkStarted

\* The plan is confirmed and every file matches a recorded checksum.
BeginCutover == MarkStarted /\ \A f \in Shas : field[f] # None

\* The files are placed.
Swap ==
    /\ phase = 7 /\ at = 2 /\ at' = 1
    /\ swapped' = TRUE
    /\ UNCHANGED <<root, lastStep, started, field, backupDir, phase, mine>>

\* The services are up.
EndCutover ==
    /\ phase = 7 /\ at = 1 /\ swapped
    /\ lastStep' = 7 /\ Begin(8)
    /\ UNCHANGED <<root, started, swapped, field, backupDir, mine>>

Verified ==
    /\ phase = 8
    /\ lastStep' = 8 /\ Begin(9)
    /\ UNCHANGED <<root, started, swapped, field, backupDir, mine>>

Finish ==
    /\ phase = 9 /\ Clear /\ Begin(0)
    /\ UNCHANGED <<root, mine>>

\* An error, an interrupt, or a verification still pending.
Stop ==
    /\ phase # 0 /\ Begin(0)
    /\ UNCHANGED <<root, record, mine>>

Next ==
    \/ Fresh \/ Resume
    \/ BackUp \/ SetField \/ SetLastStep
    \/ RejectPlan \/ BeginCutover \/ Swap \/ EndCutover \/ Verified \/ Finish
    \/ Stop

Spec == Init /\ [][Next]_vars

-----------------------------------------------------------------------------
\* Every variable holds a value the code could give it.
TypeOK ==
    /\ root \in Roots /\ lastStep \in 0..8 /\ started \in BOOLEAN /\ swapped \in BOOLEAN
    /\ field \in [Fields -> Attempts \cup {None}] /\ backupDir \in {<<>>, MkdirTemp(root)}
    /\ phase \in 0..9 /\ at \in 1..7
    /\ mine \in Attempts

\* The settings of BACKUP_ROOT whose backups LoadResume accepts.
Fits(r) == Under(MkdirTemp(r), r)

\* Whatever a run leaves behind, and wherever it ends, the next run does not
\* call its record corrupt, inconsistent or incomplete.
NeverCorrupt == Consistent /\ (lastStep # 0 => Loads)

\* The field holds a value of the attempt a, or the checksum of no file.
OfAttempt(a, f) == field[f] = a \/ (f \in Shas /\ field[f] = None)

\* What a resume goes on with is of one attempt: no phase it skips has values
\* of an earlier one, although a removal of the record may have failed.
OneAttempt ==
    \E a \in Attempts : \A n \in 2..6 : lastStep >= n =>
        \A f \in ToSet(Writes[n]) : OfAttempt(a, f)

\* "Run `monad-failover --resume`, including after a partial cutover"
\* (README.md): a begun cutover that no process works on can be resumed.
BegunResumable == phase = 0 /\ started => Consistent /\ Loads

-----------------------------------------------------------------------------
\* Where the process stands agrees with the record that it finds.
PhaseInv ==
    /\ phase \in 1..6 => ~started
    /\ phase \in 2..9 => lastStep = phase - 1
    /\ phase >= 8 \/ (phase = 7 /\ at = 2) => started
    /\ swapped => started

\* The fields of the phase under way that are written already.
WrittenInv ==
    phase \in DOMAIN Writes =>
        \A i \in DOMAIN Writes[phase] : i < at => OfAttempt(mine, Writes[phase][i])

\* The network is the first field of an attempt: what is recorded up to last_step
\* is of the attempt that wrote it, and from phase 2 on the process is of it too.
AttemptInv ==
    /\ \A n \in 2..6 : lastStep >= n => \A f \in ToSet(Writes[n]) : OfAttempt(field["network"], f)
    /\ phase \in 2..9 /\ lastStep >= 2 => mine = field["network"]

RecordInv == TypeOK /\ PhaseInv /\ WrittenInv /\ AttemptInv /\ Consistent /\ Complete

=============================================================================
