------------------------------ MODULE Placement ------------------------------
(***************************************************************************)
(* One identity file on its way from staging to the live directory, at the *)
(* grain of the system calls of place.VerifiedOwned, with the page cache   *)
(* in between: stagedDoubt and liveDoubt hold what a power loss may leave  *)
(* instead of what processes read.  Masking and stopping of the services   *)
(* between the start of the cutover and the placement are left out here,   *)
(* and so is last_step: a recorded checksum stands for its phase being     *)
(* complete.  A process places the file at most once.                      *)
(***************************************************************************)
CONSTANTS
    Old,        \* the file the full node had
    New,        \* what the run prepared
    Changed,    \* what somebody else put there
    Torn,       \* a file whose data never reached the disk
    Absent      \* no file

Contents == {Old, New, Changed, Torn}

ASSUME ContentAssumption ==
    /\ Old \notin {New, Changed, Torn, Absent} /\ New \notin {Changed, Torn, Absent}
    /\ Changed \notin {Torn, Absent} /\ Torn # Absent

VARIABLES
    pc,                 \* what the process does next, "idle" when none runs
    sha, started,       \* the record: checksum of the staged file, cutover_started
    staged, stagedDoubt,
    live, liveDoubt,
    copy, synced        \* the temporary file next to the live one

record == <<sha, started>>
staging == <<staged, stagedDoubt>>
config == <<live, liveDoubt>>
temporary == <<copy, synced>>
vars == <<pc, sha, started, staged, stagedDoubt, live, liveDoubt, copy, synced>>

PCs == {"idle", "record", "vet", "begin", "open", "sync", "verify",
        "rename", "relook", "syncDir", "unstage"}

Init ==
    /\ pc = "idle" /\ sha = Absent /\ started = FALSE
    /\ staged = Absent /\ stagedDoubt = {}
    /\ live = Old /\ liveDoubt = {}
    /\ copy = Absent /\ synced = FALSE

-----------------------------------------------------------------------------
(* Phases 4 to 6 for this file, and the cutover up to its mark.            *)

\* A key is imported, or node.toml.new rewritten: neither is synced.
Prepare ==
    /\ pc = "idle" /\ ~started /\ pc' = "record"
    /\ sha' = Absent /\ UNCHANGED started
    /\ staged' = New
    /\ stagedDoubt' = stagedDoubt \cup {staged, Torn}
    /\ UNCHANGED <<config, temporary>>

RecordSha ==
    /\ pc = "record" /\ pc' = "vet"
    /\ sha' = staged
    /\ UNCHANGED <<started, staging, config, temporary>>

Resume ==
    /\ pc = "idle" /\ sha # Absent /\ pc' = "vet"
    /\ UNCHANGED <<record, staging, config, temporary>>

Vetted == staged = sha \/ (staged = Absent /\ live = sha)

Vet ==
    /\ pc = "vet"
    /\ pc' = IF Vetted THEN "begin" ELSE "idle"
    /\ UNCHANGED <<record, staging, config, temporary>>

Begin ==
    /\ pc = "begin" /\ pc' = "open"
    /\ started' = TRUE
    /\ UNCHANGED <<sha, staging, config, temporary>>

-----------------------------------------------------------------------------
(* VerifiedOwned.                                                          *)

\* The staged file is copied next to the live one.
Copy ==
    /\ pc = "open" /\ staged # Absent /\ pc' = "sync"
    /\ copy' = staged /\ synced' = FALSE
    /\ UNCHANGED <<record, staging, config>>

\* Nothing staged: the file was placed earlier, or it is lost.
NothingStaged ==
    /\ pc = "open" /\ staged = Absent /\ pc' = "idle"
    /\ UNCHANGED <<record, staging, config, temporary>>

\* Mutant: the copy is not synced.
SyncCopyForgotten ==
    /\ pc = "sync" /\ pc' = "verify"
    /\ UNCHANGED <<record, staging, config, temporary>>

SyncCopy ==
    /\ pc = "sync" /\ pc' = "verify"
    /\ synced' = TRUE
    /\ UNCHANGED <<record, staging, config, copy>>

\* Mutant: the copy is renamed whatever it holds.
VerifyCopySkipped ==
    /\ pc = "verify" /\ pc' = "rename"
    /\ UNCHANGED <<record, staging, config, temporary>>

VerifyCopy ==
    /\ pc = "verify"
    /\ pc' = IF copy = sha THEN "rename" ELSE "idle"
    /\ UNCHANGED <<record, staging, config, temporary>>

\* Until the directory is synced the old file may come back.
Rename ==
    /\ pc = "rename" /\ pc' = "relook"
    /\ live' = copy
    /\ liveDoubt' = liveDoubt \cup {live} \cup (IF synced THEN {} ELSE {Torn})
    /\ UNCHANGED <<record, staging, temporary>>

VerifyLive ==
    /\ pc = "relook"
    /\ pc' = IF live = sha THEN "syncDir" ELSE "idle"
    /\ UNCHANGED <<record, staging, config, temporary>>

\* Mutant: the directory is not synced.
SyncDirForgotten ==
    /\ pc = "syncDir" /\ pc' = "unstage"
    /\ UNCHANGED <<record, staging, config, temporary>>

SyncDir ==
    /\ pc = "syncDir" /\ pc' = "unstage"
    /\ liveDoubt' = {}
    /\ UNCHANGED <<record, staging, live, temporary>>

\* The staged copy is removed; a failure is ignored.
Unstage ==
    /\ pc = "unstage" /\ pc' = "idle"
    /\ \/ staged' = Absent /\ stagedDoubt' = stagedDoubt \cup {staged}
       \/ UNCHANGED staging
    /\ UNCHANGED <<record, config, temporary>>

-----------------------------------------------------------------------------
\* Any call fails, or the process ends.
Stop ==
    /\ pc # "idle" /\ pc' = "idle"
    /\ UNCHANGED <<record, staging, config, temporary>>

PowerLoss ==
    /\ pc' = "idle"
    /\ staged' \in {staged} \cup stagedDoubt /\ stagedDoubt' = {}
    /\ live' \in {live} \cup liveDoubt /\ liveDoubt' = {}
    /\ UNCHANGED <<record, temporary>>

ChangeStaged ==
    /\ staged # Absent /\ staged' = Changed
    /\ UNCHANGED <<pc, record, stagedDoubt, config, temporary>>

Work ==
    \/ Prepare \/ RecordSha \/ Resume \/ Vet \/ Begin
    \/ Copy \/ NothingStaged \/ SyncCopy \/ VerifyCopy \/ Rename \/ VerifyLive
    \/ SyncDir \/ Unstage

Next == Work \/ Stop \/ PowerLoss \/ ChangeStaged

Spec == Init /\ [][Next]_vars

-----------------------------------------------------------------------------
\* Every variable holds a value the code could give it.
TypeOK ==
    /\ pc \in PCs /\ sha \in Contents \cup {Absent} /\ started \in BOOLEAN
    /\ staged \in Contents \cup {Absent} /\ stagedDoubt \subseteq Contents \cup {Absent}
    /\ live \in Contents /\ liveDoubt \subseteq Contents
    /\ copy \in Contents \cup {Absent} /\ synced \in BOOLEAN

\* The live file is the old one or the confirmed one, whole: also after a power
\* loss between rename and directory sync, and if the staged file changes or
\* tears while it is being placed.
OldOrConfirmed == live = Old \/ (started /\ live = sha)

\* The staged copy is given up only for a live file that a power loss cannot
\* take back.
GivenUpWhenDurable ==
    [][staged # Absent /\ staged' = Absent /\ pc = "unstage"
        => (live = sha /\ liveDoubt = {}) \/ PowerLoss]_vars

-----------------------------------------------------------------------------
\* What may turn up in the live directory, and what is about to.
PlaceInv ==
    /\ TypeOK
    /\ \A c \in {live} \cup liveDoubt : c = Old \/ (started /\ c = sha)
    /\ pc \in {"open", "sync", "verify", "rename", "relook", "syncDir", "unstage"} => started
    /\ pc \in {"verify", "rename"} => synced
    /\ pc = "rename" => copy = sha
    /\ pc \in {"syncDir", "unstage"} => live = sha
    /\ pc = "unstage" => liveDoubt = {}
    /\ pc = "record" => ~started /\ staged # Absent
    /\ started \/ pc \in {"vet", "begin"} => sha # Absent

=============================================================================
