------------------------------ MODULE Failover ------------------------------
(***************************************************************************)
(* One target machine and the monad-failover runs an operator makes on it. *)
(*                                                                         *)
(* A run is a process that performs the eight phases of Run.Promote, one   *)
(* durable effect at a time: a Set of the record, a file staged, renamed   *)
(* or removed, a systemctl call.  Between any two of them the process may  *)
(* stop (an error return, a signal, a kill) or the machine may reboot, and *)
(* the operator then resumes or starts fresh.                              *)
(*                                                                         *)
(* What a file holds is abstracted to the generation of the key import it  *)
(* belongs to: generation 0 is the full node's own identity, a key file of *)
(* generation g came out of the g-th import, and a node.toml of generation *)
(* g carries a name record signed with that import's SECP key.  Equal      *)
(* contents have equal checksums, so a recorded checksum is modelled by    *)
(* the content it was computed from.                                       *)
(***************************************************************************)
EXTENDS Naturals

CONSTANTS
    Units,      \* systemd.Units: the services a migration manages
    Rpc,        \* the one unit that may stay masked (monad-rpc)
    MaxGen,     \* bound: how many key imports are explored
    Absent,     \* no such file, or no such record field
    Draft,      \* a staged node.toml whose name record is not yet patched in
    Foreign,    \* content nobody prepared: a file changed behind the run
    Down        \* a unit that is not running

ASSUME RpcAssumption == Rpc \in Units
ASSUME MaxGenAssumption == MaxGen \in Nat
ASSUME MarkerAssumption ==
    /\ {Absent, Draft, Foreign} \cap Nat = {}
    /\ Absent # Draft /\ Absent # Foreign /\ Draft # Foreign

VARIABLES
    pc,         \* what the running process does next, "idle" when none runs
    checked,    \* this process has itself read the full node as in sync
    pending,    \* Run.verifyPending: up, but not yet seen in sync
    told,       \* how the last run ended, as it reported it
    rec,        \* the state file: the durable record of the run
    staged,     \* the staging directory (id-secp.new, id-bls.new, node.toml.new)
    live,       \* the live config directory the units load from
    gen,        \* key imports made so far
    masked,     \* units masked in systemd (persistent)
    running,    \* what each running unit loaded when it started, or Down
    opmask      \* units the operator has masked, as he or she means them

process == <<pc, checked, pending>>
files == <<staged, live, gen>>
services == <<masked, running, opmask>>
vars == <<pc, checked, pending, told, rec, staged, live, gen, masked, running, opmask>>

-----------------------------------------------------------------------------
(* Data.                                                                   *)

Files == {"secp", "bls", "toml"}
Content == Nat \cup {Draft, Foreign}
MaybeFiles == [Files -> Content \cup {Absent}]
NoFiles == [f \in Files |-> Absent]
Generation(g) == [f \in Files |-> g]

\* A complete identity: both keys and the config of one and the same import.
Whole(d) == d["secp"] \in Nat /\ d["bls"] = d["secp"] /\ d["toml"] = d["secp"]

NoRecord == [step |-> 0, started |-> FALSE, observed |-> FALSE, swapped |-> FALSE,
             pre |-> {}, sha |-> NoFiles, backup |-> NoFiles]
Record == [step : 0..8, started : BOOLEAN, observed : BOOLEAN, swapped : BOOLEAN,
           pre : SUBSET Units, sha : MaybeFiles, backup : MaybeFiles]

Required == Units \ {Rpc}
Active == {u \in Units : running[u] # Down}

\* The phase a run enters when last_step is n (Run.todo, Store.CompletedStep).
PhaseAfter(n) ==
    CASE n = 0 -> "preflight" [] n = 1 -> "network" [] n = 2 -> "backup"
      [] n = 3 -> "import"    [] n = 4 -> "configure" [] n = 5 -> "sign"
      [] n = 6 -> "cutover"   [] n = 7 -> "health"    [] n = 8 -> "cleanup"

\* Placement goes secp, bls, toml: where a file is renamed, where its staged
\* copy is removed, and what follows.
RenameAt == [secp |-> "renameSecp", bls |-> "renameBls", toml |-> "renameToml"]
UnlinkAt == [secp |-> "unlinkSecp", bls |-> "unlinkBls", toml |-> "unlinkToml"]
AfterPlacing == [secp |-> "renameBls", bls |-> "renameToml", toml |-> "markSwapped"]

PCs == {"idle", "recheck", "preflight", "network", "backup", "backedUp",
        "import", "importSecp", "importBls", "recordSecp", "recordBls", "imported",
        "configure", "configured", "sign", "recordToml", "signed",
        "cutover", "discard", "vet", "mark", "observe", "observed",
        "mask", "checkMask", "stop", "checkStop",
        "renameSecp", "unlinkSecp", "renameBls", "unlinkBls", "renameToml", "unlinkToml",
        "markSwapped", "checkLive", "unmask", "checkUnmask", "start", "started",
        "health", "sync", "export", "cleanup", "finish"}

Reports == {"nothing", "stopped", "failed", "refused", "rejected",
            "notPlaced", "notIntact", "stale", "pending", "complete"}

\* The process moves on / the process exits, its volatile state gone.
Go(p) == pc' = p /\ UNCHANGED <<checked, pending, told>>
Exit(report) == pc' = "idle" /\ checked' = FALSE /\ pending' = FALSE /\ told' = report

\* Store.Set of one field, with the process going on to p.
Save(field, value, p) ==
    /\ rec' = [rec EXCEPT ![field] = value]
    /\ Go(p)
    /\ UNCHANGED <<files, services>>

\* The staged files are removed one by one; a removal that fails is ignored.
RemoveStaged ==
    \E kept \in SUBSET Files :
        staged' = [f \in Files |-> IF f \in kept THEN staged[f] ELSE Absent]
-----------------------------------------------------------------------------
(* The machine before the tool was ever used: a whole full-node identity   *)
(* on disk, some units masked by the operator, some units running it.      *)

Init ==
    /\ pc = "idle" /\ checked = FALSE /\ pending = FALSE /\ told = "nothing"
    /\ rec = NoRecord
    /\ staged = NoFiles /\ live = Generation(0) /\ gen = 0
    /\ masked \in SUBSET Units
    /\ opmask = masked
    /\ running \in [Units -> {Down, Generation(0)}]

-----------------------------------------------------------------------------
(* Starting a run: Run.Prepare and the first lines of Run.Promote.         *)

\* Mutant: a run that stopped mid-cutover can be started over.
FreshAlways == TRUE

\* Whether a run without --resume may start over the record it finds.
FreshAllowed == ~rec.started

Enter(p) ==
    /\ pc = "idle" /\ pc' = p /\ told' = "nothing"
    /\ UNCHANGED <<checked, pending, files, services>>

\* "Start fresh?" answered yes (or no record to start over).
StartFresh ==
    /\ FreshAllowed
    /\ rec' = NoRecord
    /\ Enter("preflight")

RefuseFresh ==
    /\ pc = "idle" /\ ~FreshAllowed
    /\ Exit("refused")
    /\ UNCHANGED <<rec, files, services>>

\* Mutant: a resume trusts the sync reading of the run it continues.
ResumeUnchecked ==
    /\ UNCHANGED rec
    /\ Enter(PhaseAfter(rec.step))

\* --resume; before the cutover has begun the node's sync is read again.
Resume ==
    /\ UNCHANGED rec
    /\ Enter(CASE rec.step = 0 -> "preflight"
               [] rec.step # 0 /\ ~rec.started -> "recheck"
               [] OTHER -> PhaseAfter(rec.step))

-----------------------------------------------------------------------------
(* Phases 1 to 3: sync check, network, backup of the identity in place.    *)

\* Run.checkSync succeeding; when it fails the run stops (Stop below).
InSync(p) ==
    /\ checked' = TRUE /\ pc' = p
    /\ UNCHANGED <<pending, told, files, services>>

Recheck ==
    /\ pc = "recheck"
    /\ UNCHANGED rec
    /\ InSync(PhaseAfter(rec.step))

Preflight ==
    /\ pc = "preflight"
    /\ rec' = [rec EXCEPT !.step = 1]
    /\ InSync("network")

DetectNetwork == pc = "network" /\ Save("step", 2, "backup")

\* A new backup directory gets the three live files, then the record its path.
BackupConfig == pc = "backup" /\ Save("backup", live, "backedUp")

BackedUp == pc = "backedUp" /\ Save("step", 3, "import")

-----------------------------------------------------------------------------
(* Phase 4: the validator keys into staging, and the checksums that bind   *)
(* them to what the operator will confirm.                                 *)

ClearStaging ==
    /\ pc = "import"
    /\ RemoveStaged
    /\ Go("importSecp")
    /\ UNCHANGED <<rec, live, gen, services>>

ImportSecp ==
    /\ pc = "importSecp" /\ gen < MaxGen
    /\ gen' = gen + 1
    /\ staged' = [staged EXCEPT !["secp"] = gen + 1]
    /\ Go("importBls")
    /\ UNCHANGED <<rec, live, services>>

ImportBls ==
    /\ pc = "importBls"
    /\ staged' = [staged EXCEPT !["bls"] = gen]
    /\ Go("recordSecp")
    /\ UNCHANGED <<rec, live, gen, services>>

\* Set staged_<f>_sha from the staged file.
RecordSha(f, p) == Save("sha", [rec.sha EXCEPT ![f] = staged[f]], p)

RecordSecp == pc = "recordSecp" /\ RecordSha("secp", "recordBls")
RecordBls == pc = "recordBls" /\ RecordSha("bls", "imported")
Imported == pc = "imported" /\ Save("step", 4, "configure")

-----------------------------------------------------------------------------
(* Phases 5 and 6: a staged copy of the live node.toml is edited, then the *)
(* name record is signed with the staged SECP key and patched into it.     *)

Configure ==
    /\ pc = "configure"
    /\ staged' = [staged EXCEPT !["toml"] = Draft]
    /\ Go("configured")
    /\ UNCHANGED <<rec, live, gen, services>>

Configured == pc = "configured" /\ Save("step", 5, "sign")

SignRecord ==
    /\ pc = "sign"
    /\ IF staged["toml"] # Absent /\ staged["secp"] \in Nat
       THEN /\ staged' = [staged EXCEPT !["toml"] = staged["secp"]]
            /\ Go("recordToml")
       ELSE staged' = staged /\ Exit("failed")
    /\ UNCHANGED <<rec, live, gen, services>>

\* Mutant: the checksum of the patched node.toml is not recorded.
RecordTomlForgotten == pc = "recordToml" /\ Go("signed") /\ UNCHANGED <<rec, files, services>>

RecordToml == pc = "recordToml" /\ RecordSha("toml", "signed")
Signed == pc = "signed" /\ Save("step", 6, "cutover")

-----------------------------------------------------------------------------
(* Phase 7, up to the first change of the live node: the plan and its one  *)
(* confirmation, and the last check of what was confirmed.                 *)

SkipSwap ==
    /\ pc = "cutover" /\ rec.swapped
    /\ Go("checkLive")
    /\ UNCHANGED <<rec, files, services>>

ConfirmPlan ==
    /\ pc = "cutover" /\ ~rec.swapped
    /\ Go("vet")
    /\ UNCHANGED <<rec, files, services>>

\* Rejected after the cutover began: the run only stops.
RejectStarted ==
    /\ pc = "cutover" /\ ~rec.swapped /\ rec.started
    /\ Exit("failed")
    /\ UNCHANGED <<rec, files, services>>

\* Mutant: a rejected plan is discarded although the cutover has begun.
RejectPlanBegun ==
    /\ pc = "cutover" /\ ~rec.swapped
    /\ RemoveStaged
    /\ Go("discard")
    /\ UNCHANGED <<rec, live, gen, services>>

\* Rejected before: discardPlan removes the staged files, then the record.
RejectPlan ==
    /\ pc = "cutover" /\ ~rec.swapped /\ ~rec.started
    /\ RemoveStaged
    /\ Go("discard")
    /\ UNCHANGED <<rec, live, gen, services>>

DiscardRecord ==
    /\ pc = "discard"
    /\ rec' = NoRecord
    /\ Exit("rejected")
    /\ UNCHANGED <<files, services>>

\* place.VerifyStagedOrPlaced.
StagedIntact(f) == rec.sha[f] # Absent /\ staged[f] = rec.sha[f]
AlreadyInPlace(f) == rec.sha[f] # Absent /\ staged[f] = Absent /\ live[f] = rec.sha[f]
Vetted(f) == StagedIntact(f) \/ AlreadyInPlace(f)

VetPlan ==
    /\ pc = "vet"
    /\ \A f \in Files : Vetted(f)
    /\ Go("mark")
    /\ UNCHANGED <<rec, files, services>>

\* The files are vetted secp, bls, toml; the first bad one ends the run.
VettedBefore == [secp |-> {}, bls |-> {"secp"}, toml |-> {"secp", "bls"}]

RefusePlan(f) ==
    /\ pc = "vet"
    /\ \A e \in VettedBefore[f] : Vetted(e)
    /\ ~Vetted(f)
    /\ Exit(IF staged[f] # Absent THEN "stale" ELSE "failed")
    /\ UNCHANGED <<rec, files, services>>

\* Mutant: the swap goes first, masking and stopping are left out.
MarkStartedSwapFirst == pc = "mark" /\ Save("started", TRUE, "renameSecp")

MarkStarted == pc = "mark" /\ Save("started", TRUE, "observe")

-----------------------------------------------------------------------------
(* maskServices and stopServices: nothing is placed until every unit is    *)
(* masked, and stopped.                                                    *)

\* Mutant: a resume observes the masks again, after the run's own.
ObserveMasksAgain == pc = "observe" /\ Save("pre", masked, "observed")

\* What the operator had masked is observed once, before the first mask.
ObserveMasks ==
    /\ pc = "observe"
    /\ IF rec.observed
       THEN Go("mask") /\ UNCHANGED <<rec, files, services>>
       ELSE Save("pre", masked, "observed")

Observed == pc = "observed" /\ Save("observed", TRUE, "mask")

\* systemctl mask takes effect on the units in S.
MaskServices(S) ==
    /\ pc = "mask"
    /\ masked' = masked \cup S
    /\ Go("checkMask")
    /\ UNCHANGED <<rec, files, running, opmask>>

\* Mutant: a mask that did not take effect goes unnoticed.
CheckMaskUnchecked ==
    /\ pc = "checkMask"
    /\ Go("stop")
    /\ UNCHANGED <<rec, files, services>>

CheckMask ==
    /\ pc = "checkMask"
    /\ IF Units \subseteq masked THEN Go("stop") ELSE Exit("failed")
    /\ UNCHANGED <<rec, files, services>>

\* systemctl stop, after which the units in S are down.
StopServices(S) ==
    /\ pc = "stop"
    /\ running' = [u \in Units |-> IF u \in S THEN Down ELSE running[u]]
    /\ Go("checkStop")
    /\ UNCHANGED <<rec, files, masked, opmask>>

\* Mutant: a successful systemctl stop is taken at its word.
CheckStopUnchecked ==
    /\ pc = "checkStop"
    /\ Go("renameSecp")
    /\ UNCHANGED <<rec, files, services>>

CheckStop ==
    /\ pc = "checkStop"
    /\ IF Active = {} THEN Go("renameSecp") ELSE Exit("failed")
    /\ UNCHANGED <<rec, files, services>>

-----------------------------------------------------------------------------
(* The swap: placeOne for secp, bls, toml (place.VerifiedOwned).           *)

\* Mutant: the copy is not compared with the recorded checksum.
PlaceUnverified(f) ==
    /\ pc = RenameAt[f]
    /\ staged[f] # Absent
    /\ live' = [live EXCEPT ![f] = staged[f]]
    /\ Go(UnlinkAt[f])
    /\ UNCHANGED <<rec, staged, gen, services>>

\* The copy made next to the live file still has the recorded checksum and
\* is renamed over it.
Place(f) ==
    /\ pc = RenameAt[f]
    /\ staged[f] # Absent /\ staged[f] = rec.sha[f]
    /\ live' = [live EXCEPT ![f] = staged[f]]
    /\ Go(UnlinkAt[f])
    /\ UNCHANGED <<rec, staged, gen, services>>

\* The staged file is removed, unless the removal fails, which is ignored.
Unstage(f) ==
    /\ pc = UnlinkAt[f]
    /\ \/ staged' = [staged EXCEPT ![f] = Absent]
       \/ staged' = staged
    /\ Go(AfterPlacing[f])
    /\ UNCHANGED <<rec, live, gen, services>>

\* Mutant: a file that an earlier attempt placed is missed in staging.
PlacedEarlierRefused(f) ==
    /\ pc = RenameAt[f]
    /\ staged[f] = Absent
    /\ Exit("failed")
    /\ UNCHANGED <<rec, files, services>>

PlacedEarlier(f) ==
    /\ pc = RenameAt[f]
    /\ staged[f] = Absent /\ live[f] = rec.sha[f]
    /\ Go(AfterPlacing[f])
    /\ UNCHANGED <<rec, files, services>>

\* place.ErrNotPlaced: the copy or the rename failed.
NotPlaced(f) ==
    /\ pc = RenameAt[f] /\ staged[f] # Absent
    /\ Exit(IF f = "secp" THEN "notPlaced" ELSE "failed")
    /\ UNCHANGED <<rec, files, services>>

RefusePlacement(f) ==
    /\ pc = RenameAt[f]
    /\ staged[f] # rec.sha[f]
    /\ staged[f] = Absent => live[f] # rec.sha[f]
    /\ Exit(IF staged[f] # Absent THEN "notIntact" ELSE "failed")
    /\ UNCHANGED <<rec, files, services>>

MarkSwapped == pc = "markSwapped" /\ Save("swapped", TRUE, "checkLive")

-----------------------------------------------------------------------------
(* Bringing the services up: resumable on its own once the swap is done.   *)

\* Mutant: what the swap placed is not looked at again.
CheckLiveSkipped ==
    /\ pc = "checkLive"
    /\ Go("unmask")
    /\ UNCHANGED <<rec, files, services>>

\* verifyLiveIdentity.
CheckLive ==
    /\ pc = "checkLive"
    /\ IF \A f \in Files : rec.sha[f] # Absent /\ live[f] = rec.sha[f]
       THEN Go("unmask") ELSE Exit("failed")
    /\ UNCHANGED <<rec, files, services>>

\* The units this run masked (unmaskServices, startableServices).
OwnUnits == Units \ rec.pre

\* systemctl unmask takes effect on the units in S.
UnmaskServices(S) ==
    /\ pc = "unmask" /\ S \subseteq OwnUnits
    /\ masked' = masked \ S
    /\ Go("checkUnmask")
    /\ UNCHANGED <<rec, files, running, opmask>>

CheckUnmask ==
    /\ pc = "checkUnmask"
    /\ IF masked \cap OwnUnits = {} THEN Go("start") ELSE Exit("failed")
    /\ UNCHANGED <<rec, files, services>>

\* A unit that starts loads the three files as they are on disk.
Started(S) == [u \in Units |-> IF u \in S /\ running[u] = Down THEN live ELSE running[u]]

\* systemctl start: all units come up, or only those in S and it fails.
StartServices(S) ==
    /\ pc = "start" /\ S \subseteq OwnUnits \ masked
    /\ running' = Started(S)
    /\ IF S = OwnUnits THEN Go("started") ELSE Exit("failed")
    /\ UNCHANGED <<rec, files, masked, opmask>>

CutoverDone == pc = "started" /\ Save("step", 7, "health")

-----------------------------------------------------------------------------
(* Phase 8 and the end of the run.                                         *)

\* postVerify: every unit active, except an RPC unit the operator masked.
CheckHealth ==
    /\ pc = "health"
    /\ IF Units \ (rec.pre \cap {Rpc}) \subseteq Active THEN Go("sync") ELSE Exit("failed")
    /\ UNCHANGED <<rec, files, services>>

\* The bounded wait for sync ends with, or without, an in-sync reading.
WaitForSync(seen) ==
    /\ pc = "sync"
    /\ pending' = ~seen /\ pc' = "export"
    /\ UNCHANGED <<checked, told, rec, files, services>>

\* The key backups are exported again; only a synced run is past phase 8.
ExportKeys ==
    /\ pc = "export"
    /\ IF pending
       THEN Go("cleanup") /\ UNCHANGED <<rec, files, services>>
       ELSE Save("step", 8, "cleanup")

Cleanup ==
    /\ pc = "cleanup"
    /\ RemoveStaged
    /\ Go("finish")
    /\ UNCHANGED <<rec, live, gen, services>>

Finish ==
    /\ pc = "finish"
    /\ IF pending THEN rec' = rec /\ Exit("pending")
                  ELSE rec' = NoRecord /\ Exit("complete")
    /\ UNCHANGED <<files, services>>

-----------------------------------------------------------------------------
(* What happens around a run.                                              *)

\* The process ends before its next effect: an error return, Ctrl-C, a kill.
Stop ==
    /\ pc # "idle"
    /\ Exit("stopped")
    /\ UNCHANGED <<rec, files, services>>

\* Units that are not masked may come up on boot, with the files on disk.
Reboot(S) ==
    /\ S \cap masked = {}
    /\ Exit("stopped")
    /\ running' = [u \in Units |-> IF u \in S THEN live ELSE Down]
    /\ UNCHANGED <<rec, files, masked, opmask>>

UnitDies(u) ==
    /\ running[u] # Down
    /\ running' = [running EXCEPT ![u] = Down]
    /\ UNCHANGED <<process, told, rec, files, masked, opmask>>

\* The operator starts a unit by hand; systemd refuses a masked one.
OperatorStart(u) ==
    /\ u \notin masked /\ running[u] = Down
    /\ running' = [running EXCEPT ![u] = live]
    /\ UNCHANGED <<process, told, rec, files, masked, opmask>>

\* Once services are up, the operator is told to unmask a required unit he
\* or she had masked ("systemctl unmask u && systemctl start u").
OperatorUnmask(u) ==
    /\ rec.step = 7 /\ u \in Required \cap opmask
    /\ opmask' = opmask \ {u} /\ masked' = masked \ {u}
    /\ UNCHANGED <<process, told, rec, files, running>>

\* A file changes that no run changed: in the live directory between runs, in
\* staging at any time.
TamperLive(f) ==
    /\ pc = "idle"
    /\ live' = [live EXCEPT ![f] = Foreign]
    /\ UNCHANGED <<process, told, rec, staged, gen, services>>

TamperStaged(f) ==
    /\ staged[f] # Absent
    /\ staged' = [staged EXCEPT ![f] = Foreign]
    /\ UNCHANGED <<process, told, rec, live, gen, services>>

-----------------------------------------------------------------------------
Prepare ==
    \/ Recheck \/ Preflight \/ DetectNetwork \/ BackupConfig \/ BackedUp
    \/ ClearStaging \/ ImportSecp \/ ImportBls \/ RecordSecp \/ RecordBls \/ Imported
    \/ Configure \/ Configured \/ SignRecord \/ RecordToml \/ Signed

Swap ==
    \/ SkipSwap \/ VetPlan \/ MarkStarted \/ ObserveMasks \/ Observed
    \/ MaskServices(Units) \/ CheckMask \/ StopServices(Units) \/ CheckStop
    \/ \E f \in Files : RefusePlan(f) \/ Place(f) \/ Unstage(f) \/ PlacedEarlier(f) \/ RefusePlacement(f)
    \/ MarkSwapped

BringUp ==
    \/ CheckLive \/ UnmaskServices(OwnUnits) \/ CheckUnmask
    \/ StartServices(OwnUnits) \/ CutoverDone
    \/ CheckHealth \/ WaitForSync(FALSE) \/ ExportKeys \/ Cleanup \/ Finish

\* What a run does by itself, and what the operator answers and starts.
Work == Prepare \/ Swap \/ BringUp \/ WaitForSync(TRUE) \/ DiscardRecord

Operator ==
    \/ StartFresh \/ RefuseFresh \/ Resume
    \/ ConfirmPlan \/ RejectStarted \/ RejectPlan
    \/ \E u \in Units : OperatorStart(u) \/ OperatorUnmask(u)

\* What can go wrong: the process ends, a unit goes down, a file cannot be
\* written, a systemctl call does only part of what it was asked.
Fault ==
    \/ Stop
    \/ \E S \in SUBSET Units : Reboot(S)
    \/ \E u \in Units : UnitDies(u)
    \/ \E f \in Files : NotPlaced(f)
    \/ \E S \in SUBSET Units :
        \/ ~(Units \subseteq masked \cup S) /\ MaskServices(S)
        \/ ~(Active \subseteq S) /\ StopServices(S)
        \/ ~(masked \cap OwnUnits \subseteq S) /\ UnmaskServices(S)
        \/ S # OwnUnits /\ StartServices(S)

Next == Work \/ Operator \/ Fault

Spec == Init /\ [][Next]_vars

Tamper == \E f \in Files : TamperLive(f) \/ TamperStaged(f)

StagedTamperSpec == Init /\ [][Next \/ \E f \in Files : TamperStaged(f)]_vars

TamperSpec == Init /\ [][Next \/ Tamper]_vars

\* A process that is not stopped goes on.  The operator answers a stopped run
\* with --resume, does not reject the plan for ever, and follows the printed
\* systemctl start and unmask commands; a node that keeps being asked is in
\* sync some day.
Fairness ==
    /\ WF_vars(Work)
    /\ SF_vars(WaitForSync(TRUE))
    /\ WF_vars(Resume)
    /\ SF_vars(ConfirmPlan)
    /\ \A u \in Units : WF_vars(OperatorStart(u)) /\ WF_vars(OperatorUnmask(u))

FairSpec == Spec /\ Fairness

-----------------------------------------------------------------------------
(* Properties.                                                             *)

\* Every variable holds a value the code could give it.
TypeOK ==
    /\ pc \in PCs /\ checked \in BOOLEAN /\ pending \in BOOLEAN /\ told \in Reports
    /\ rec \in Record
    /\ staged \in MaybeFiles /\ live \in [Files -> Content] /\ gen \in 0..MaxGen
    /\ masked \subseteq Units /\ opmask \subseteq Units
    /\ running \in [Units -> [Files -> Content] \cup {Down}]

\* No unit ever runs with keys and config of two identities, and no two units
\* run with different identities: not after a crash or reboot between two
\* renames, nor after services that failed to stop or to start.
OneIdentity ==
    \A u, v \in Active : Whole(running[u]) /\ running[u] = running[v]

\* While the files on disk are of two identities nothing can come up: every
\* unit is masked and down, and the record makes the next run finish the swap.
MixedIsLocked ==
    Whole(live) \/ (rec.started /\ Units \subseteq masked /\ Active = {})

\* From the moment the cutover begins both ways out stay open.  Forward: each
\* confirmed file is still staged or already live.  Back: the backup the
\* record names is one whole identity, and each live file is that one or the
\* confirmed one.
Recoverable ==
    rec.started =>
        /\ Whole(rec.sha) /\ Whole(rec.backup)
        /\ \A f \in Files : /\ rec.sha[f] \in {staged[f], live[f]}
                            /\ live[f] \in {rec.backup[f], rec.sha[f]}

\* A unit the operator masked stays masked, and a mask the tool applied exists
\* only while the record still makes a run lift it.
MasksAccounted ==
    /\ opmask \subseteq masked
    /\ masked = opmask \/ rec.started

\* The cutover begins only in a process that itself saw the node in sync: a
\* resume does not trust the reading of an earlier run.
BeginsInSync == [][~rec.started /\ rec'.started => checked]_vars

\* The record of a begun cutover is given up only when the swap is complete and
\* the run's own masks are lifted; what is then still staged, because it could not
\* be removed, is a copy of what is live and belongs to no other attempt.
EndsDone ==
    [][rec.started /\ ~rec'.started =>
        /\ live = rec.sha /\ masked = opmask
        /\ \A f \in Files : staged[f] \in {live[f], Absent}]_vars

\* Live files change only to what was confirmed, whatever happens to the
\* staged files meanwhile (TamperLive is not the tool's change).
OnlyConfirmedPlaced ==
    [][\A f \in Files : live'[f] # live[f] => \/ rec.started /\ live'[f] = rec.sha[f]
                                              \/ TamperLive(f)]_vars

\* The run lifts its masks only over the three files it placed, also when it
\* resumes long after the swap.
OnlyVerifiedUnmasked ==
    [][\A u \in masked \ opmask : u \notin masked' => live = rec.sha]_vars

\* When the run says that nothing has changed because the SECP key cannot be
\* placed (cutover) or a prepared file is not what it was (VerifyStagedOrPlaced),
\* or that nothing has been swapped because it did not copy intact
\* (VerifiedOwned), none of its files is live.
NothingHasChanged ==
    told \in {"notPlaced", "stale", "notIntact"} => \A f \in Files : live[f] # rec.sha[f]

\* When faults stop at last, a begun cutover completes: no crash point, reboot
\* or half-done systemctl call leaves a record no resume can finish.
CutoverFinishes ==
    <>[][~Fault]_vars => (rec.started ~> told = "complete" /\ ~rec.started)

-----------------------------------------------------------------------------
(* The abstract machine this one implements.  A mixed set of files is no   *)
(* identity at all.                                                        *)

IdentityOf(d) == IF Whole(d) THEN d["secp"] ELSE Absent

Abstract == INSTANCE IdentitySwitch WITH
    Identities <- Nat,
    None <- Absent,
    identity <- IdentityOf(live),
    locked <- masked,
    serving <- [u \in Units |-> IF running[u] = Down THEN Down ELSE IdentityOf(running[u])]

\* Every run, crash and resume is a behaviour of the abstract machine.
SwitchesIdentity == Abstract!Spec

=============================================================================
