# monad-failover in TLA+

`monad-failover` promotes a synced Monad full node to validator. It imports the
validator keys into staging, edits and signs a staged `node.toml`, asks for one
confirmation, then masks and stops the services, replaces `id-secp`, `id-bls`
and `node.toml` one rename at a time, and brings the services back. A run may be
interrupted anywhere and continued with `--resume`.

This directory holds TLA+ modules of that program, the TLC configurations that
check them, and TLAPS proofs. `PROJECT.json` ties each definition to the source
lines it stands for.

## Inventory

| Part (source under `src/`) | State it keeps | Operations | What makes it correct |
|---|---|---|---|
| Migration run (`internal/promote/run.go`, `cmd/monad-failover/main.go`) | phase, values carried in the process | `Prepare`, `Promote`, phases 1-6, resume, interrupts | phases in order; the cutover begins only in sync; a begun cutover is never started over |
| Cutover and finish (`internal/promote/cutover.go`) | `verifyPending`; all else is durable | `confirmPlan`, `discardPlan`, `maskServices`, `stopServices`, `placeOne`, `verifyLiveIdentity`, `unmaskServices`, start, `postVerify`, `refreshKeyBackups`, `finish` | no mixed identity ever runs; every interruption can be finished; masks of the operator survive, those of the run do not |
| Durable record (`internal/state/state.go`) | the `key=value` state file, the run lock | `Set`, `Get`, `Clear`, `ValidateConsistency`, `LoadResume`, `AcquireLock`, `Secure` | each `Set` is atomic and durable; what the run writes, a resume accepts; one run at a time |
| Placement (`internal/place/place.go`) | staged file, temporary file, live file | `VerifyStagedOrPlaced`, `VerifiedOwned`, `CheckLive`, `CopyPreserve` | a live file is always the old or the confirmed one, whole; repeating a placement is harmless |
| Services (`internal/systemd/systemd.go`) | masked and active units (in systemd) | `Mask`, `Unmask`, `Stop`, `Start`, `Masked`, `ActiveState` | callers verify the effect: commands may do part of it, or nothing |
| Sync check (`internal/rpcsync/rpcsync.go`) | readings of one check | `Verify` | never in sync when behind, stalled or on another chain; arithmetic at the edges of uint64 |
| Sequence floor (`internal/foundation`, `internal/monad/signer.go`, `chooseSeq`) | none | `Lookup`, `ParseSignerOutput` | the signed sequence is above every published one known, and what is written is what was signed |
| Key tools (`internal/monad/monad.go`) | keystore files | `ImportKey`, `SignNameRecord`, `ExportBackup` | a failed export leaves no truncated file and loses no earlier copy |
| Staged config (`internal/nodeconf`) | `node.toml.new` | `SetTomlValue`, `SanitizePlaceholders`, `ReadValue` | an edit changes exactly one value, or nothing |
| Preflight, dry run, netinfo, paths, ui, uptime, rpcports, harden | none | reports, prompts, one-shot settings | refusals only, no state |

How they interact: the run calls all others in sequence, in one goroutine; the
only other goroutine waits for a signal and exits the process. What they share
is the file system: the record, the staging directory, the live configuration
directory, which the systemd units read whenever they start. The real
concurrency is therefore between the process and everything that may happen
between two of its effects: an interrupt, a failing call, a reboot, a unit that
dies or comes up, an operator who starts a unit, a file changed by hand, a power
loss. A second process is kept out by the run lock.

Hard to test, and so the aim of the properties: interruptions between any two
durable effects, and interruptions of the run that resumes from one; commands
that take effect on some units; reboots with a half-swapped identity; masks
that nobody lifts; a record that no run accepts any more; a window that does not
end; a backup lost between two renames; an edit one line off. `PROJECT.json`
("hazards") lists each at its line with the property that covers it, or with the
reason why none does yet.

## Modules

| Module | Models |
|---|---|
| `Failover` | the whole lifecycle of runs on one target machine, with its properties |
| `IdentitySwitch` | the abstract specification: what the tool promises of the machine |
| `FailoverInvariant` | the inductive invariants: `IInv` of `Failover`, `TamperInv` when files change behind the run |
| `FailoverProofs` | proofs of both, of the safety properties, and that `Failover` implements `IdentitySwitch` |
| `AtomicRecord` | the abstract specification of the record: what `Set` and `Clear` promise their callers |
| `StateFile`, `MCStateFile`, `StateFileProofs` | the run lock, the fresh-or-resume decision, `Store.Set` and `Store.Clear` at the grain of system calls |
| `Placement`, `PlacementProofs` | `place.VerifiedOwned` for one file at the same grain |
| `ResumeRecord`, `MCResumeRecord`, `ResumeProofs` | what each phase records, against what a resume accepts |
| `NameRecord`, `NameRecordProofs` | what phases 5 and 6 collect for the plan: the settings, and the sequence of the name record from the snapshot through the signer to the live config |
| `RpcSync`, `MCRpcSync`, `RpcSyncProofs` | `rpcsync.Verify` over heads that move |
| `Verification`, `VerificationProofs` | phase 8 and the end of a run: sync window, key-backup rotation and export, listing, end of the record |
| `TomlEdit`, `MCTomlEdit`, `TomlProofs` | the line editor and reader of `node.toml`, line by line, against what the lines mean |

All but the first four are parts of `Failover` seen closer: it takes a `Set`, a
placement, a sync check and phase 8 as one effect or one verdict each, a record
as acceptable, and a signed `node.toml` as one content per import. `TomlEdit`
sees an edit of `NameRecord` closer: there it replaces one value. They share no
variables; `INSTANCE` is used for the two abstract specifications,
`IdentitySwitch` in `Failover` and `AtomicRecord` in `StateFile`.

### Failover

State and code:

| Variable | Code |
|---|---|
| `pc` | where the process is in `Promote`; `"idle"` when none runs |
| `checked` | a `checkSync` of this process has succeeded |
| `pending` | `Run.verifyPending` |
| `told` | how the last run ended, as it reported it |
| `rec` | the state file: `last_step`, `cutover_started`, `mask_observed`, `swap_done`, `premasked_units`, `staged_*_sha`, and the directory `backup_dir` names |
| `staged`, `live` | the staging and configuration directories |
| `gen` | key imports made so far (a bound, `MaxGen`) |
| `masked`, `running` | systemd: masked units, and what each active unit loaded when it started |
| `opmask` | units the operator has masked, as he or she means them |

One action is one durable effect of the code, with the decision that leads to
it: a `Store.Set`, a file created, renamed or removed, a `systemctl` call, or a
check that decides whether the run goes on. A `systemctl` call and the check
that follows it are two actions, because the call can take effect on any subset
of the units and the process can stop in between. Fields of the record that the
run only shows (addresses, names, sources) are left out; consecutive `Set`s that
write only such fields are no step of their own. `services_masked` is written by
the code and read by none of it, so it is left out as well.

A file's content is the generation of the key import it belongs to: 0 is the
full node's own identity, the g-th import gives key files of generation g, and
a `node.toml` is of generation g when its name record is signed with the SECP
key of that import. `Draft` is a staged `node.toml` without its record,
`Foreign` a content nobody prepared. A checksum is modelled by the content it
was taken of (no collisions).

Faults: `Stop` ends the process before any effect (error return, interrupt,
kill); `Reboot(S)` also takes all units down and brings any unmasked subset `S`
up with the files on disk; `NotPlaced` is `place.ErrNotPlaced`; `MaskServices`,
`StopServices`, `UnmaskServices` and `StartServices` take effect on any subset;
`Unstage` may leave the staged copy behind, and so may `RemoveStaged`, with any of
the three: before an import, when a plan is rejected and at the end of a run the
errors of the removals are ignored. `OperatorStart` and `OperatorUnmask` are the commands the tool prints. `TamperSpec` adds files that
change behind the run: staged ones at any time, live ones between runs, when
`CheckLive` is there to notice it.

### IdentitySwitch

One identity on disk, a set of locked units, and what each unit serves. The
identity changes only while every unit is locked and down, and while it is
changing (no identity) no lock is lifted and nothing starts. `Failover`
implements it with the mapping at its end: the identity is the generation of the
three live files when they agree, and none when they do not; locked is masked.

### StateFile

`file` is the state file as processes read it, `doubt` what a power loss may
leave in its place: every rename and removal puts the replaced content into
`doubt` until the directory is synced, and a rename of an unsynced temporary
file puts `Torn` there. `op` is the system call the `Set` under way makes next;
it may fail at any of them (`Abandon`). `saved` is the promise to the callers: a
field is in it from the moment its `Set` returned without error until the next
`Set` of that field begins or the record is cleared. `SetIsAtomic` maps this to
`AtomicRecord`: the record is the lines of `file`, the past those of the contents
in `doubt`, and what is promised is `saved`. `ReadErrorSpec` adds that
the file cannot be read, in which case `Store.lines` returns nothing.

`pos` is where each process is: not started, in `Prepare` with the lock, waiting
for the answer to "Start fresh?", or past it; `lock` is the holder, which the
kernel forgets with the process. `AskStartFresh` is the look at the record,
`StartFresh` the answer, which may come any time later and acts without looking
again. A process that is refused the lock ends without an effect, so it has no
step. Which fields a record needs is `ResumeRecord`'s matter; here a record whose
`cutover_started` is set is not started over.

### AtomicRecord

The record as callers think of it. A field is asked for, put in one step that
changes no other, and reported; a report makes everything before it
unreachable. A power loss gives back the record or one it went through since the
last report, never a mix and never a part. `Put` needs the field to be asked for
again first, so a promised field cannot change under its promise.

### Placement

One identity file: its staged copy, the temporary copy next to the live one and
the live file, with `stagedDoubt` and `liveDoubt` as above, and the record's
checksum (the content it was taken of) and `cutover_started`. Every call of
`VerifiedOwned` is an action, in its order; between any two of them the process
may stop, the power may fail and the staged file may change.

### ResumeRecord

The record as a function from fields to values, written field by field in the
order of the code, in a directory tree where `BACKUP_ROOT` and the attempt's
`backup_dir` are sequences of path elements: `LoadResume` compares strings, so
here the conversion matters. `Loads` is `LoadResume` with
`ValidateConsistency`: shapes of the values, the prefix, which fields
a `last_step` asks for and which flags imply which. Runs end between any two
writes, are resumed or started fresh, and the removal of the old record may fail
without notice (`Store.Clear`'s error is ignored). An attempt is the identity of
one run's values, so a mix of two runs is visible.

### NameRecord

Phases 5 and 6 and the plan, for one imported key. `root` and `liveRoot` are the
two settings at the root of the staged and the live `node.toml`, `own` what the
run takes them to be and `kept` those it calls "kept from node.toml". A value
found there may be one the tool would not write (`Unfit`, the empty string
included) and is then shown by its printable part; a key that is missing
(`Unset`) cannot be set, because `SetTomlValue` adds no key at the root. `rec`
holds `last_step`, the settings, `new_seq`, `snapshot_seq`, `ip` and `self_seq`,
the last four written one at a time in the order of the code, `toml` and `live`
the three values of `[peer_discovery]` in the staged and the live `node.toml`,
patched one at a time, `published` the
highest sequence the network knows, which the old validator may raise at any
time. A signature is the pair (address, sequence) it covers; the signer may emit
any other pair than the one asked for. Numbers are those a uint64 holds, below
`Word`, and `Word` itself for every larger one. `Lookup` takes a snapshot that
may be for another network, list the key twice, list another BLS key or no
record. One assumption about the world is in `Snapshots`: a current entry that
lists both keys of this validator is at most behind what is published. It is the
assumption of the comment in `chooseSeq` ("a stale snapshot can only be behind
the network"). `Confirm` stands for the whole cutover, which `Failover` models;
a rejected plan is taken to remove the record here, while
`ResumeRecord` lets it fail.

### RpcSync

`pc` is the request `Verify` makes next, `After` their order. `head` is the real
head of every node and advances at any time; `heads` is what was answered in
each of the two rounds, `first` and `second` the readings of the local head. Any
request may go unanswered. `Plus` adds machine words of `Word` values (2^64 in
the code). Heads do not go back: an endpoint that answers from several nodes of
different height is outside the model. `tip` is a history variable: no reference
of the chain was ahead of the node at any moment since the check began.

### Verification

`Run.verify` and `Run.finish`. `wait` is the sync window with the time since it
was opened: a call takes any time up to its timeout (or, over RPC, up to the
longest check, which the code does not cut), a pause as long as `postVerify`
makes it. `dir` is `BACKUP_ROOT`: the two exports and the names `os.CreateTemp`
may reserve; a copy is the pair of its key and the identity (`gen`) it was
exported from. `doubt` holds the states of the directory that a power loss may
bring back, `SyncExport` (`place.SyncDir`) empties it. One assumption about the
file system is made: changes of one directory reach the disk in the order they
were made, so what comes back is one of the earlier states and no mix of them.
`step` is `last_step`, 7 or 8, or none after `Clear`, which a power loss may undo.
`exported` and `listings` are history variables: every copy that was there or
was reported, and every text the public-key listing was given. `Exit` ends the
process at any effect, with an error or without; `Start` is the next `--resume`;
`Migrate` stands for phases 1 to 7 of another migration of the same machine,
with another identity.

### TomlEdit

A file is a sequence of lines: headers, fields of the keys the tool edits, and
any other text. `SetTomlValue` and `ReadValue` read it once and are one step per
line, with the locals of the code (`active`, `seen`, `found`, `out`) and the
lines read so far, `n`; `Rewrite`, `Refuse` and `ReturnAnswer` are their ends.
`found` counts the fields replaced and, as in the code, the one that is added.
The reference is `Belongs` and `Fields`: a field belongs to the last header
before it. `[[t]]` and `[ t ]` are headers the code does not compare equal, as is
any table it never asks for: they are all `Odd`. `Init` is any file of up to
`InitialLines` lines, valid or not. Files are read at any time; they are edited
in the order of the two callers, while they are shorter than `MaxLines`, which
bounds their growth by a line per edit: `EditSetting` is `configure`, which edits
settings outside `[peer_discovery]`, in any order and number; then comes
`signRecord`, whose `SanitizePlaceholders` looks at the whole file and begins
anew with each resume of phase 6 (also between two edits, after an
interruption), and whose `PatchRecord` sets the keys of the record. `signing`
tells the two apart and `due` holds the keys that are still to be patched since
placeholders were last replaced. `asked` is a history variable: what each field
was last set to by `SetTomlValue`, and by nothing else. A `self_record_seq_num`
is taken to have a blank before its value, as SetTomlValue writes it.
The editor is single-threaded and nothing else writes
the staged file meanwhile (`Placement` and `TamperSpec` have the file changed by
hand).

## Runs

| Run | Checks | Bounds | Result |
|---|---|---|---|
| `safety` | `OneIdentity`, `MixedIsLocked`, `Recoverable`, `MasksAccounted`, `IInv` (`TypeOK` is its first part), `BeginsInSync`, `EndsDone`, `SwitchesIdentity` (refinement of `IdentitySwitch`), `CutoverFinishes`, all under `FairSpec` | three units, two imports | hold; 115 156 states |
| `tamper` | `OnlyConfirmedPlaced`, `OnlyVerifiedUnmasked` under `TamperSpec` | two units, one import | hold; 6 310 025 states |
| `state_file` | `SavedSurvives`, `KeepInv`, `FreshIsSafe`, `SetIsAtomic` (refinement of `AtomicRecord`) | two processes, two fields, two values, symmetry | hold; 199 275 states |
| `placement` | `OldOrConfirmed`, `GivenUpWhenDurable`, `PlaceInv` | one file | hold; 2 333 states |
| `resume_record` | `NeverCorrupt`, `OneAttempt`, `RecordInv` | three attempts, two plain roots, symmetry | hold; 12 828 states |
| `name_record` | `SignedAsShown`, `FloorIsPublished`, `PlanIsStaged`, `PeersAccept`, `SeqInv` | one given value, two addresses, words of four values, `SeqSaneMax` 2 | hold; 2 097 599 states |
| `rpc_sync` | `SoundVerdict`, `TipNotBehind`, `RpcInv` | two references, words of five values, margins of one, symmetry | hold; 585 273 states |
| `verification` | `NoExportLost`, `PairAgrees`, `DoneIsDone`, `WindowKept`, `VerifyInv`, `RunEnds` | two migrations, two spare names, windows of 0, 1 and 4, calls of 2, pauses of 1, checks of 3 | hold; 165 315 states |
| `toml_edit` | `EditIsExact`, `ValidIsEdited`, `ReadAgrees`, `EditsHold`, `TomlInv` | two tables, two keys, two values besides the placeholder and zero, symmetry, files of up to four lines that grow to seven | hold; 4 037 955 states |
| `nothing_changed` | `NothingHasChanged` under `StagedTamperSpec` | two units, one import | violated |
| `read_error` | `SavedSurvives` under `ReadErrorSpec` | as `state_file` | violated |
| `backup_root` | `BegunResumable` | roots with a final separator or a space | violated |

Why the bounds are enough: three units are the real set (`systemd.Units`), of
which one (`monad-rpc`) has a role of its own; two units keep one of each role.
Two imports let a rejected or restarted run be followed by another with
different keys, and a completed migration by a second one over a validator's
identity; `MaxGen` is only a guard of `ImportSecp`. Symmetry is used for safety
alone, over values that no definition tells apart (processes, values set, attempts,
references). Reboots, stops, partial
commands and resumes are not bounded: any number of them, in any order, is in
the state space. Two fields are one that is being written and one that must not
suffer from it; two values are an old and a new one. Three attempts are one
whose record could not be removed, one that writes over it and one after that;
their number is only a guard of a fresh run. Four sequence numbers with a limit of 2, and the
one beyond them, are below, at and above each limit of the code; two addresses
are the one signed and one found by a later detection. The words of `RpcSync` are small
enough for every sum to overflow and large enough for a node to be behind,
ahead, level and stalled. Two processes are the holder of the lock and one that
is waiting for it to go; each may be started again, any number of times. Two
migrations let an export of one identity meet that of another; two spare names
are one for each key, and when none is left the rotation fails, as it may. The
windows of `Verification` are none, one shorter than a call and one that a call,
a pause and a further call fill. Four lines hold two tables and two fields in every
order, or one table around a key of another; seven lines leave room for three that
are added, a setting and both keys of the record; two values, with the placeholder
and zero, tell an edited field from one that was there and a record patched before
an interruption from the one patched after it. Deadlock is checked in every run but `backup_root`,
where the point is that there is no way on: the resume is refused for ever, and
the fresh run too.

### What the safety properties say

- `OneIdentity`: no active unit ever runs with files of two identities, and no
  two active units run different ones. It needs the masks, the verified stop,
  the order of the renames and `verifyLiveIdentity` together.
- `MixedIsLocked`: while the live files are of two identities, every unit is
  masked and down and the record forces the next run to finish the swap.
- `Recoverable`: once the cutover has begun, each confirmed file is still
  staged or already live, and the backup the record names is a whole identity
  with each live file either from it or confirmed.
- `MasksAccounted`: operator masks stay; other masks exist only while the
  record makes a run lift them.
- `BeginsInSync`: `cutover_started` is written only by a process that itself
  read the node as in sync.
- `EndsDone`: the record of a begun cutover is given up only when all three files
  are live and no mask of the run is left; a staged file that could not be removed
  is then a copy of the live one, and not of another attempt.
- `OnlyConfirmedPlaced`, `OnlyVerifiedUnmasked`: with files changing behind the
  run, it places nothing but what was confirmed and unmasks only over what it
  placed.

- `SwitchesIdentity`: each behaviour is one of `IdentitySwitch`.
- `SetIsAtomic`: each behaviour of the state file is one of `AtomicRecord`: no
  `Set`, however it fails or is interrupted, changes another field, and what a
  power loss brings back is a record that was there since the last report.
- `SavedSurvives`: a field reported as recorded is in the file and in everything
  a power loss can make of it, whatever other `Set`s did or failed to do since.
- `OldOrConfirmed`, `GivenUpWhenDurable`: the live file is always the old or the
  confirmed one, whole, and the staged copy goes only when a power loss can no
  longer bring the old file back.
- `NeverCorrupt`, `OneAttempt`: what a run leaves at any point, the next one
  never finds corrupt, inconsistent or incomplete; and it never resumes a mix of
  two attempts, although the removal of an old record may have failed unnoticed.
- `SignedAsShown`: once `last_step` is 6 the staged `node.toml` holds exactly
  what its signature covers, and the plan shows the same, whatever the signer
  emitted and however often phase 6 was interrupted or the address changed.
- `FloorIsPublished`, `PeersAccept`: the floor a run goes by, also one found
  before an interruption, was really published, and the record that goes live is
  above it.
- `FreshIsSafe`: no process throws away a record whose cutover was reported as
  begun, however late the question was answered. It needs the lock to be taken
  before the first look and held to the end.
- `PlanIsStaged`: the plan shows the settings of the staged `node.toml`, and
  calls kept what the full node has, although phase 5 may be begun again after
  some of its edits and with other answers.
- `NoExportLost`: a copy of a key that was there or reported as made is in some
  file of the backup directory, in every state a power loss can leave.
- `PairAgrees`: `secp-backup` and `bls-backup` are never of two identities, which
  needs both old ones to be put aside before the first new one is made; nor are
  the two lines of the listing.
- `DoneIsDone`: last_step 8, or no record, means that sync was confirmed for the
  live identity and both its exports are durable.
- `WindowKept`: the wait for sync ends with the window; over RPC, one check later.
- `EditIsExact`, `ValidIsEdited`, `ReadAgrees`, `EditsHold`: an edit that is
  written changes the one field it is about, in its section, or adds it there,
  and every other line stays what and where it was; a valid file is refused
  only for a missing table or a missing key at the root; the reader finds what
  TOML says. What `configure` and `signRecord` set stays set through all later
  edits and replacements of placeholders, with one exception, which `EditsHold`
  names: a sequence number that an interrupted `signRecord` had set is zeroed by
  the next one and is due again. When nothing is due, at the check that ends
  `signRecord`, everything holds. Replaced in another order, after the record was
  patched, placeholders would take the signed number with them: that is the mutant.
- `SoundVerdict`, `TipNotBehind`: in sync means on the chain, moved since the
  check began and within the margins in true integers; a node at the tip is not
  found behind, which needs the local head to be read last.

### Liveness and fairness

`CutoverFinishes`: if faults stop at last, a begun cutover completes. Fairness:
weak on what the process does by itself (it is sequential code with bounded
calls) and on the operator's `--resume`, who is told to run it by every message
that ends a begun cutover; strong on confirming the plan, since a resumed run
asks again each time and an operator may reject a few times but not for ever;
strong on an in-sync reading, since the node catches up but a single window may
pass before it does; weak, per unit, on the printed `systemctl start` and
`systemctl unmask`, which the tool asks for when a unit is down or was masked
before the run. No fairness is put on faults, and no property assumes that they
stop except this one, by its premise.

`RunEnds`: a run of phase 8 ends, whatever its calls answer. Fairness: weak, on
the next effect of a process that is running; nothing is assumed of answers. It
holds because every round of the wait advances its clock: a call may take no
time, so it is the pause that does.

### Where code and words differ

- Three messages promise that nothing has changed or been swapped:
  `cutover.go:204` when the SECP key cannot be placed, `place.go:66-68` when a
  staged file changed, `place.go:160-162` when a copy did not come out intact.
  The first is wrong on a resume after the rename of the SECP key and before its
  staged copy was removed; the second on any resume of a half-done swap; the
  third for the second and third file. The last two advise a fresh run, which
  `run.go:129` refuses once the cutover has begun (`nothing_changed`).
- `state.go:227` promises an atomic record of one field. `Store.lines` takes a
  file it cannot read for an empty one, so a transient read error during a `Set`
  drops every other field, and the `Set` reports success (`read_error`).
- The README's "Run `monad-failover --resume`, including after a partial
  cutover" does not hold for a `BACKUP_ROOT` such as `/srv/backup/` or one with
  a space: `backup_dir` then fails `LoadResume`'s prefix or shape check and the
  run's own record is refused as corrupt (`backup_root`).

Found while modelling, without a run of their own:

- `rpcsync.go:5-9` says that the head must be close to the heads the references
  report. A reference that answers only the first of the two rounds is forgotten
  when another one answers the second (`rpcsync.go:108-110`), however far ahead
  it was.
- `run.go:711-714` and `CHANGELOG.md:189-190` say that the operator can supply a
  setting that is absent from the config. `SetTomlValue` adds no key at the root
  (`toml.go:32-33`, `72`), so the answer is refused; it works for an empty value.
  This is the exception in `ValidIsEdited` and a guard of `Replace`.
- `toml.go:215` says that `SanitizePlaceholders` replaces install-time
  placeholders, and `nodeconf_test.go:231` that real values are left alone (its
  fixture has the sequence 0). The pattern for the sequence number,
  `\s*[^0-9]`, matches the blank before a real number too: any
  `self_record_seq_num = 7` becomes 0, in every table of the file, where
  `toml.go:16-17` says that editing is restricted to the requested one. No harm
  follows in a run, because the signed number is written after it: the exception
  in `EditsHold`.
- The README (line 27) and `CHANGELOG.md:158` say that rejecting the plan removes
  the staged files and the run state. `discardPlan` ignores the errors of the
  removals (`cutover.go:126-128`) and clears the record all the same, as `finish`
  does (`706-709`): copies of the validator keys may then stay in staging with
  nothing that says so. The next import tries to remove them again
  (`run.go:517-519`), with its errors ignored too.
- A line of a multi-line array that begins with `[` is taken for a header.
- In `refreshPubkeyList` the `err` of `tmp.Chmod` and `tmp.Sync` is a shadow of
  the one tested below (`cutover.go:677-692`): a failed `Chown` or `Close` is not
  noticed and the file is renamed into place all the same.
- The check over RPC is not cut to what is left of the sync window, as
  `monad-status` is; `WindowKept` allows it one check.
- Each resume of phase 8 puts one more pair of `.bak` copies aside; nothing bounds
  their number.
- Staged files are written without a sync (`toml.go:82-109`) while the checksums
  and `cutover_started` are synced: after a power loss the record can be newer than
  the files it vouches for. `Placement` has it as a staged file with no data, which
  is refused.

## Proofs

Assumptions: `Rpc` is one of `Units` (any set, also infinite), `MaxGen` is a
natural number, the markers are distinct and no numbers; the contents of
`Placement` are distinct; `StateFile` has any processes, fields and values, of
which `cutover_started` is one; `Verification` has any number of migrations, any
set of names other than the two exports, any windows, and calls and pauses of
some length; `RpcSync` has any references, any word size and margins that are
words; `NameRecord` has any addresses and settings and any limit below the word
size; `TomlEdit` has any tables, of which `Discovery` is one, any values of
which the placeholder is none (the tool sets addresses, numbers and signatures),
and files of any length.
`RecordInvariance` and `OneAttemptHolds` hold for any `BACKUP_ROOT`.
`NeverCorruptHolds` is proved for roots that satisfy `RootsFit` (no final
separator, path elements of the accepted shape); `PlainRootFits` shows that an
ordinary root does and `TrailingSlashRefused` that one with a final separator
makes the record unloadable. Everything else is proved from each module's
`Spec`, and what holds under tampering (last row of the first table below) from
`TamperSpec`.

### Failover

An invariant such as `OneIdentity` is not inductive: that a resumed placement
puts the right file in place depends on what phases 4 to 6 recorded, that a
start loads a whole identity depends on the swap being complete, and that it is
complete depends on the position of the process and the record agreeing. `IInv`
says all of that, in parts. `FlowInv` is what the record, the process and the
masks have in common whatever the files hold: `ProcessInv` (which record a
process at each point can find), `RecordInv` (which fields imply which) and
`MaskInv`. `DataInv` is what they say of the files: `StagingInv` (checksums and
staged files) and `LiveInv` (backup, live files, progress of the swap). To these
come `ServiceInv` (a running unit has what is on disk) and `MixedIsLocked`.

`FailoverProofs` begins with four lemmas that say which actions change the live
files, the masks, the running units and `cutover_started`, and how:
`LiveChanges`, `MaskChanges`, `RunningChanges`, `BegunChanges`. What is left
alone by an action is then a matter of one citation. `TypeNext` and `FlowNext`
hold for every step, those that change files behind the run included; `DataNext`,
one step per action, `ServiceNext` and `MixedNext` for those of the code.
`WholeOutsideSwap` is the link between them: the live files are of one identity
wherever the process is not swapping. From `IInv` to each property is then a
short step. `BegunInSync` and `EndedByFinish` say which single action begins a
cutover and which one ends its record; the two action properties follow.
`EndsDone` needs of `StagingInv` that what is staged after step 6 is what was
confirmed, since nothing says that it is gone.
`SwitchNext` shows that each concrete step locks, unlocks over a whole identity,
changes files in the dark, or takes units down and up, and `Implements` derives
the refinement of `IdentitySwitch` from it.

Under `TamperSpec` neither `DataInv` nor `OneIdentity` holds, and need not. What
is left is `TamperInv`: `FlowInv`, and `VerifiedInv`, that a process past
`verifyLiveIdentity` still has before it what it verified. The latter is the
order of the checks: `UnmaskingFollowsCheck` shows that only the step that
checks all three live files leads to where masks are lifted, and every file of
that moment stays until the process has ended. Then `OnlyConfirmedPlaced` follows
from `LiveChanges` and `FlowInv`: `Place` checks what it renames, and a process
that places has found the cutover begun; `OnlyVerifiedUnmasked` follows from
`MaskChanges` and `VerifiedInv`.
`MasksAccounted` needs `FlowInv` alone, so tampering cannot make the run lose an
operator's mask or leave one of its own. TLC has the two properties of the run
`tamper`; `TamperInv` itself is stated by the theorem only.

| Theorem | Establishes, for all units and any number of imports |
|---|---|
| `TypeCorrect`, `Invariance` | `TypeOK`, `IInv` |
| `OneIdentityHolds`, `MixedIsLockedHolds`, `RecoverableHolds`, `MasksAccountedHolds` | the invariants of the run `safety` |
| `BeginsInSyncHolds`, `EndsDoneHolds` | its action properties |
| `Implements` | `SwitchesIdentity` |
| `TamperInvariance`, `OnlyConfirmedPlacedHolds`, `OnlyVerifiedUnmaskedHolds`, `MasksAccountedUnderTamper` | `TamperInv`, the properties of the run `tamper`, and `MasksAccounted`, under `TamperSpec` |

### The other modules

| Theorem | Establishes |
|---|---|
| `KeepInvariance`, `SavedSurvivesHolds`, `FreshIsAlwaysSafe`, `SetIsAlwaysAtomic` | the properties of the run `state_file`, for any processes, fields and values |
| `PlaceInvariance`, `OldOrConfirmedHolds`, `GivenUpWhenDurableHolds` | those of `placement` |
| `RecordInvariance`, `OneAttemptHolds`, `NeverCorruptHolds` | those of `resume_record`, for any number of attempts |
| `SeqInvariance`, `SignedAsShownHolds`, `FloorIsPublishedHolds`, `PlanIsStagedHolds`, `PeersAcceptHolds` | those of `name_record`, for any limit and word size |
| `RpcInvariance`, `SoundVerdictHolds`, `TipNotBehindHolds` | those of `rpc_sync`, for any references, margins and word size |
| `VerifyInvariance`, `NoExportIsLost`, `PairsAgree`, `DoneIsReallyDone`, `WindowIsKept` | the invariants of `verification`, for any names, limits and number of migrations |
| `TomlInvariance`, `EditIsAlwaysExact`, `ValidIsAlwaysEdited`, `ReadsAgree`, `EditsAlwaysHold` | the properties of `toml_edit`, for any tables, values and files |

The smaller proofs follow the same plan.

- `KeepInv` strengthens `SavedSurvives` by what the temporary file of a `Set`
  under way holds (the record with the one field changed), when it is synced, and
  that nothing torn is ever in place of the record; and `FreshIsSafe` by the
  exclusion: only the holder of the lock is past `out`, so a process that waits
  for an answer is the only one that could have changed what it read.
  `StepIsAtomic` goes through the actions once more: the rename is the abstract
  `Put`, the sync of the directory the `Report`, and all other steps of a `Set`
  are stutters. The clause about the temporary file is what makes the rename
  change one field only.
- `PlaceInv` says of each position in `VerifiedOwned` which of the checksum,
  sync and rename guarantees already hold.
- `RecordInv` of `ResumeRecord` says which fields are present at each position of
  the writing run and of whose attempt each one is. A record of an attempt whose
  removal failed unnoticed may still have fields of later phases; `OneAttempt`
  holds because every phase up to `last_step` has written all of its fields since
  the network was recorded, which is the first field of an attempt. That a resume accepts the record needs `RootsFit` on
  top, and only for `backup_dir`.
- `SeqInv` says which fields agree with the process at each of its positions and
  that the chosen sequence is above the floor it was chosen with; its
  `SettingsInv` says which settings the process already knows and which the
  staged file still shares with the live one.
- `RpcInv` relates each reading to the real heads (a reported head is never
  above the present one) and, at the tip, to the last reading.
- `VerifyInv` says for each position in phase 8 which of the two names are free
  or already hold the live identity, that the reserved name still holds nothing
  else when the old export is renamed over it, that the record is at 7 until the
  exports are durable, and where the clock stands at each round of the wait.
- `TomlInv` is a loop invariant, which is why the editor is modelled line by
  line: what a fold computes for every file would need induction over data, but
  what one more line adds to it does not. `ScanInv` says that `active` is
  `Belongs` at the line reached; `CountInv` that `found` counts the fields of the
  section among the lines read; `CopyInv` and `AddInv` what `out` holds so far,
  before and after a missing field was added. The lemmas under it are about
  `Belongs` and `Fields`: how a header moves the former (`BelongsNext`,
  `BelongsOnce`), and what replacing or inserting one line does to both
  (`FieldsReplaced`, `BelongsInserted`, `FieldsInserted`); `EditedField` and
  `OtherFields` apply them at `Rewrite`, where `EditsHold` needs that no field
  of another section or key comes, goes or changes. `RecordInv` says that a
  sequence number is set in `[peer_discovery]` only, so that patching the one that
  is due restores all there is; the other values that were set are no placeholders,
  so `SanitizeNext` leaves them alone.

Only model-checked: `CutoverFinishes` and `RunEnds`, because liveness under
fairness is out of the prover's reach.

## Not modelled, and why

Console, paths, hardening, port reports, address detection, private directory
and ownership checks, unit checks, preflight and dry run: they keep no state, or
only refuse. The uptime report is a step of `Verification` that changes nothing.
The external commands (`monad-keystore`, `monad-sign-name-record`, `systemctl`)
are modelled by the effects the code relies on; whether `monad-keystore` syncs
the files it writes is not known here, so no claim is made about staged files
after a power loss, and it is called without a deadline, so a run may wait for
it for ever: `RunEnds` takes every call to return. Commands that outlive an
interrupted run and act beside the next one are not modelled; the lock does not
hold them. The manual rollback of `docs/recovery.md` is a list of shell commands,
not code of the program; left half done it leaves masks which a later run takes
for the operator's. Quoting and comments inside a value, `.env` and backup-file
parsing are string handling.

## Plan

Done, in this order: `Failover` with `IdentitySwitch` (the behaviour the tool
exists for), `StateFile`, `Placement`, `ResumeRecord`, `RpcSync`, `NameRecord`,
`Verification`, the run lock in `StateFile`, `TomlEdit`, the settings in
`NameRecord`, each with its runs and proofs. What remains unmodelled is listed
above with its reason; what remains to be done is proof.

Theorems still worth proving: that `Placement` implements the atomic `Place` and
`Unstage` of `Failover`, as `StateFile` does `AtomicRecord`; and the two orders
of `Verification` (put aside before exporting, export before the record is
removed) as a refinement of an abstract archive of exports.
