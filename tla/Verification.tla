---------------------------- MODULE Verification ----------------------------
(***************************************************************************)
(* Phase 8 and the end of a run, after the services were started: the      *)
(* bounded wait for sync, the export of both keys with the earlier exports *)
(* kept aside, the public-key listing, and the end of the record.          *)
(*                                                                         *)
(* The phase is repeated by every resume until all of it has succeeded,    *)
(* and by the next migration of the same machine.  Changes of a directory  *)
(* reach the disk in the order they were made, at the latest when the      *)
(* directory is synced.                                                    *)
(***************************************************************************)
EXTENDS Integers

CONSTANTS
    Names,          \* names that os.CreateTemp may reserve for a copy
    MaxGen,         \* migrations of this machine (a bound)
    Limits,         \* MF_SYNC_WAIT
    Cap, Pause,     \* of one status call, between two of them
    CheckTime,      \* the longest that a check over RPC takes
    None, Reserved  \* nothing, an empty file that holds a name

Kinds == {"secp", "bls"}
Copies == Kinds \X (0 .. MaxGen)
Waits == [limit : Limits, status : BOOLEAN, clock : Nat]

ASSUME TimeAssumption ==
    /\ Limits \subseteq Nat
    /\ Cap \in Nat \ {0} /\ Pause \in Nat \ {0} /\ CheckTime \in Nat
    /\ None \notin Waits
ASSUME FileAssumption ==
    /\ MaxGen \in Nat \ {0} /\ Names \cap Kinds = {}
    /\ None \notin Copies \cup Nat /\ Reserved \notin Copies /\ None # Reserved

VARIABLES
    pc, key,        \* the next effect of the process and the key it is about
    wait,           \* the window: its limit, the way to ask, the time since
    pending,        \* Run.verifyPending
    bak,            \* the name reserved for the copy that is put aside
    step,           \* last_step: 7, 8, or None once the record is removed
    gen,            \* the identity that is live
    dir,            \* BACKUP_ROOT: secp-backup, bls-backup, and the names
    doubt,          \* states of it that a power loss may bring back
    confirmed,      \* a check found the node in sync since it was migrated
    exported,       \* every copy that was there or was reported as exported
    listings        \* every text that pubkey-secp-bls was given

disk == <<dir, doubt, exported, listings>>
vars == <<pc, key, wait, pending, bak, step, gen, confirmed,
          dir, doubt, exported, listings>>

Files == Kinds \cup Names
Contents == Copies \cup {None, Reserved}
CopiesIn(d) == {d[f] : f \in Files} \cap Copies

\* Earlier runs, or the operator, may have left either file.
Init ==
    /\ pc = "idle" /\ key = "secp"
    /\ wait = None /\ pending = FALSE /\ bak = None
    /\ step = 7 /\ gen = 1 /\ confirmed = FALSE
    /\ \E kept \in SUBSET Kinds :
        dir = [f \in Files |-> IF f \in kept THEN <<f, 0>> ELSE None]
    /\ doubt = {} /\ listings = {}
    /\ exported = CopiesIn(dir)

At(p, k) == pc' = p /\ key' = k
\* What the process held in memory goes with it.
Ended == At("idle", "secp") /\ wait' = None /\ pending' = FALSE /\ bak' = None
Change(d) == dir' = d /\ doubt' = doubt \cup {dir}

-----------------------------------------------------------------------------
(* The window.                                                             *)

\* The run that has just started the services, or a resume of it.
Start ==
    /\ pc = "idle" /\ step # None
    /\ At(IF step = 7 THEN "health" ELSE "finish", "secp")
    /\ UNCHANGED <<wait, pending, bak, step, gen, confirmed, disk>>

\* The units are active, and monad-status is installed or not.
OpenWindow(limit, status) ==
    /\ pc = "health" /\ At("attempt", "secp")
    /\ wait' = [limit |-> limit, status |-> status, clock |-> 0]
    /\ UNCHANGED <<pending, bak, step, gen, confirmed, disk>>

\* It is not, and there are no public references to check over RPC with.
NothingToAsk ==
    /\ pc = "health" /\ At("uptime", "secp")
    /\ pending' = TRUE
    /\ UNCHANGED <<wait, bak, step, gen, confirmed, disk>>

Left(w) == w.limit - w.clock

\* Mutant: a call may run past the end of the window.
TimeoutUncut(w) == Cap

\* What is left of the window, when that is less than a call may take.
Timeout(w) == IF w.limit > 0 /\ Left(w) < Cap THEN Left(w) ELSE Cap

\* The status call is cut at its timeout; the check over RPC has its own.
Ask(d, inSync) ==
    /\ pc = "attempt" /\ Timeout(wait) > 0
    /\ d <= (IF wait.status THEN Timeout(wait) ELSE CheckTime)
    /\ wait' = [wait EXCEPT !.clock = @ + d]
    /\ confirmed' = (confirmed \/ inSync)
    /\ LET over == ~inSync /\ (wait.limit = 0 \/ Left(wait') <= 0) IN
        /\ At(IF inSync \/ over THEN "uptime" ELSE "pause", "secp")
        /\ pending' = over
    /\ UNCHANGED <<bak, step, gen, disk>>

WindowOver ==
    /\ pc = "attempt" /\ Timeout(wait) <= 0 /\ At("uptime", "secp")
    /\ pending' = TRUE
    /\ UNCHANGED <<wait, bak, step, gen, confirmed, disk>>

\* Mutant: the calls follow each other without a pause.
NoPause(w) == 0

PauseFor(w) == IF Left(w) < Pause THEN Left(w) ELSE Pause

Sleep ==
    /\ pc = "pause" /\ At("attempt", "secp")
    /\ wait' = [wait EXCEPT !.clock = @ + PauseFor(wait)]
    /\ UNCHANGED <<pending, bak, step, gen, confirmed, disk>>

\* The uptime service is asked and reported on; it stops nothing.
CheckUptime ==
    /\ pc = "uptime" /\ At("rotate", "secp")
    /\ wait' = None
    /\ UNCHANGED <<pending, bak, step, gen, confirmed, disk>>

-----------------------------------------------------------------------------
(* The exports.                                                            *)

\* Mutant: each key is put aside just before its own export.
OneByOne(p, k) ==
    IF p = "rotate" THEN At("export", k)
    ELSE IF k = "secp" THEN At("rotate", "bls") ELSE At("list", k)

\* Both copies are put aside before the first new one is made.
Following(p, k) ==
    IF p = "rotate"
    THEN IF k = "secp" THEN At("rotate", "bls") ELSE At("export", "secp")
    ELSE IF k = "secp" THEN At("export", "bls") ELSE At("list", k)

NothingToRotate ==
    /\ pc = "rotate" /\ dir[key] = None /\ Following("rotate", key)
    /\ UNCHANGED <<wait, pending, bak, step, gen, confirmed, disk>>

\* Mutant: the name is predictable, and may be taken.
ReserveAny(name) ==
    /\ pc = "rotate" /\ dir[key] # None /\ At("aside", key)
    /\ bak' = name
    /\ Change([dir EXCEPT ![name] = IF @ = None THEN Reserved ELSE @])
    /\ UNCHANGED <<wait, pending, step, gen, confirmed, exported, listings>>

Reserve(name) ==
    /\ pc = "rotate" /\ dir[key] # None /\ At("aside", key)
    /\ dir[name] = None /\ bak' = name
    /\ Change([dir EXCEPT ![name] = Reserved])
    /\ UNCHANGED <<wait, pending, step, gen, confirmed, exported, listings>>

Aside ==
    /\ pc = "aside" /\ Following("rotate", key)
    /\ Change([dir EXCEPT ![bak] = dir[key], ![key] = None])
    /\ bak' = None
    /\ UNCHANGED <<wait, pending, step, gen, confirmed, exported, listings>>

\* The name is given back, and the run ends.
AsideFails ==
    /\ pc = "aside" /\ Ended
    /\ Change([dir EXCEPT ![bak] = None])
    /\ UNCHANGED <<step, gen, confirmed, exported, listings>>

\* The synced output of monad-keystore is renamed over the backup.
Export ==
    /\ pc = "export" /\ At("sync", key)
    /\ Change([dir EXCEPT ![key] = <<key, gen>>])
    /\ UNCHANGED <<wait, pending, bak, step, gen, confirmed, exported, listings>>

\* Mutant: the directory is not synced.
SyncForgotten ==
    /\ pc = "sync" /\ Following("export", key)
    /\ exported' = exported \cup {<<key, gen>>}
    /\ UNCHANGED <<wait, pending, bak, step, gen, confirmed, dir, doubt, listings>>

SyncExport ==
    /\ pc = "sync" /\ Following("export", key)
    /\ doubt' = {}
    /\ exported' = exported \cup {<<key, gen>>}
    /\ UNCHANGED <<wait, pending, bak, step, gen, confirmed, dir, listings>>

\* The public keys are copied from the two exports.  Best effort.
RefreshList(ok) ==
    /\ pc = "list" /\ At("record", key)
    /\ listings' = listings \cup (IF ok THEN {<<dir["secp"], dir["bls"]>>} ELSE {})
    /\ UNCHANGED <<wait, pending, bak, step, gen, confirmed, dir, doubt, exported>>

-----------------------------------------------------------------------------
(* The end of the run.                                                     *)

\* Mutant: the phase is recorded although sync is not confirmed.
RecordAnyway ==
    /\ pc = "record" /\ At("finish", key)
    /\ step' = 8
    /\ UNCHANGED <<wait, pending, bak, gen, confirmed, disk>>

Record ==
    /\ pc = "record" /\ At("finish", key)
    /\ step' = (IF pending THEN step ELSE 8)
    /\ UNCHANGED <<wait, pending, bak, gen, confirmed, disk>>

\* The record is kept while sync is not confirmed.  Clear may fail unseen.
Finish ==
    /\ pc = "finish" /\ Ended
    /\ step' \in (IF pending THEN {step} ELSE {step, None})
    /\ UNCHANGED <<gen, confirmed, disk>>

\* A call fails and the run ends with advice, or the process is killed.
Exit ==
    /\ pc # "idle" /\ Ended
    /\ UNCHANGED <<step, gen, confirmed, disk>>

\* Clear does not sync the directory of the record.
PowerLoss ==
    /\ Ended
    /\ dir' \in {dir} \cup doubt /\ doubt' = {}
    /\ step' \in (IF step = None THEN {None, 8} ELSE {step})
    /\ UNCHANGED <<gen, confirmed, exported, listings>>

\* The seven phases before this one, of another migration.
Migrate ==
    /\ pc = "idle" /\ step = None /\ gen < MaxGen
    /\ gen' = gen + 1 /\ step' = 7 /\ confirmed' = FALSE
    /\ UNCHANGED <<pc, key, wait, pending, bak, disk>>

MaxDelay == Cap + CheckTime

RunStep ==
    \/ (\E limit \in Limits, status \in BOOLEAN : OpenWindow(limit, status)) \/ NothingToAsk
    \/ \E d \in 0 .. MaxDelay, inSync \in BOOLEAN : Ask(d, inSync)
    \/ WindowOver \/ Sleep \/ CheckUptime
    \/ NothingToRotate \/ (\E name \in Names : Reserve(name)) \/ Aside \/ AsideFails
    \/ Export \/ SyncExport \/ (\E ok \in BOOLEAN : RefreshList(ok))
    \/ Record \/ Finish \/ Exit

Next == Start \/ RunStep \/ PowerLoss \/ Migrate

\* A process that runs goes on running.
Spec == Init /\ [][Next]_vars /\ WF_vars(RunStep)

-----------------------------------------------------------------------------
\* Every variable holds a value the code could give it.
TypeOK ==
    /\ pc \in {"idle", "health", "attempt", "pause", "uptime", "rotate", "aside",
               "export", "sync", "list", "record", "finish"}
    /\ key \in Kinds /\ pending \in BOOLEAN /\ bak \in Names \cup {None}
    /\ wait \in Waits \cup {None}
    /\ step \in {7, 8, None} /\ gen \in 1 .. MaxGen /\ confirmed \in BOOLEAN
    /\ dir \in [Files -> Contents] /\ doubt \subseteq [Files -> Contents]
    /\ exported \subseteq Copies /\ listings \subseteq Contents \X Contents

\* A copy of a key that was there, or that an export reported as made, is in
\* some file of the backup directory for ever, whatever resumes, migrations and
\* power losses follow ("Existing exports are renamed, never overwritten",
\* SECURITY.md; Run.refreshKeyBackups, Tools.ExportBackup).
NoExportLost == \A d \in doubt \cup {dir} : exported \subseteq CopiesIn(d)

\* The two exports that are found under their own names are of one identity,
\* after any power loss too, and so are the two lines of the public-key listing
\* (the order of refreshKeyBackups, refreshPubkeyList).
OfOne(a, b) == \A i, j \in 0 .. MaxGen : a = <<"secp", i>> /\ b = <<"bls", j>> => i = j
PairAgrees ==
    /\ \A d \in doubt \cup {dir} : OfOne(d["secp"], d["bls"])
    /\ \A text \in listings : text = <<<<"secp", text[1][2]>>, <<"bls", text[1][2]>>>>

\* Once the phase is recorded as done, or the record is gone, the node was found
\* in sync with the identity that is live, and both exports are copies of it
\* that no power loss takes away (Run.verify, Run.finish).
DoneIsDone ==
    step \in {8, None} =>
        /\ confirmed
        /\ \A d \in doubt \cup {dir}, k \in Kinds : d[k] = <<k, gen>>

\* The wait for sync ends with the window; with the check over RPC, which is not
\* cut, at most one check later (Run.postVerify).
LastCall(w) == IF w.status THEN Cap ELSE CheckTime
WindowEnd(w) ==
    IF w.limit = 0 THEN LastCall(w) ELSE IF w.status THEN w.limit ELSE w.limit + CheckTime
WindowKept == wait # None => wait.clock <= WindowEnd(wait)

\* A run that is started ends, for every outcome of its calls (Run.postVerify's
\* loop).
RunEnds == (pc # "idle") ~> (pc = "idle")
-----------------------------------------------------------------------------
\* What a process relies on from one effect to the next.
WindowFacts ==
    /\ pc \in {"idle", "health", "attempt", "pause"} => ~pending
    /\ pc \in {"attempt", "pause"} => wait # None
    /\ pc = "attempt" => wait.clock = 0 \/ (wait.limit > 0 /\ wait.clock <= wait.limit)
    /\ pc = "pause" => wait.clock < wait.limit

RecordFacts ==
    /\ pc \notin {"idle", "finish"} => step = 7
    /\ pc = "finish" => step \in {7, 8} /\ (~pending => step = 8)
    /\ (pc \in {"uptime", "rotate", "aside", "export", "sync", "list", "record"} /\ ~pending)
            => confirmed

ExportFacts ==
    /\ pc = "aside" => bak \in Names /\ dir[bak] = Reserved
    /\ (pc \in {"rotate", "aside"} /\ key = "bls") => dir["secp"] = None
    /\ (pc = "export" /\ key = "secp") => dir["secp"] = None
    /\ (pc = "export" \/ (pc = "sync" /\ key = "secp")) => dir["bls"] = None
    /\ ((pc = "export" /\ key = "bls") \/ pc = "sync") => dir["secp"] = <<"secp", gen>>
    /\ (pc = "sync" /\ key = "bls") => dir["bls"] = <<"bls", gen>>
    /\ pc \in {"list", "record"} => doubt = {} /\ \A k \in Kinds : dir[k] = <<k, gen>>

VerifyInv ==
    TypeOK /\ NoExportLost /\ PairAgrees /\ DoneIsDone /\ WindowKept
    /\ WindowFacts /\ RecordFacts /\ ExportFacts

=============================================================================
