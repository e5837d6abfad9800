----------------------------- MODULE NameRecord -----------------------------
(***************************************************************************)
(* What phases 5 and 6 collect for the plan: the beneficiary and the name  *)
(* of the node, and the sequence number of the name record, from the       *)
(* Foundation snapshot through the signer into node.toml.                  *)
(*                                                                         *)
(* One imported key, with the record of earlier attempts removed.  The     *)
(* numbers are those that a uint64 holds, and one more for every larger    *)
(* one.  An answer that is refused ends the run.                           *)
(***************************************************************************)
EXTENDS Naturals

CONSTANTS
    Given,          \* what the operator gives for a setting
    Unset, Unfit,   \* an empty answer or a key that is missing, and a value
                    \* found in node.toml that the tool would not write
    Shown,          \* the printable part of such a value
    IPs,            \* the addresses this host may be found to have
    SeqSaneMax,     \* the largest sequence the tool asks for
    Word,           \* the first number that a uint64 does not hold
    None            \* no number, no field

Numbers == 0 .. Word - 1
Settings == {"beneficiary", "nodeName"}
Owned == Given \cup {Unset, Unfit}

ASSUME BoundAssumption == SeqSaneMax \in Nat /\ Word \in Nat /\ SeqSaneMax < Word
ASSUME SettingAssumption == {Unset, Unfit, Shown} \cap Given = {} /\ Unset # Unfit
ASSUME NoneAssumption == None \notin Numbers /\ None \notin IPs /\ None \notin IPs \X Numbers

VARIABLES
    pc,                 \* the next effect of the process, "idle" when none runs
    own, kept,          \* the settings, and which were left as they were
    newSeq, foundSeq,   \* Run.newSeq; Run.foundSeq, None when not foundKnown
    ip, signed,         \* Run.ip; the address and sequence the signer emitted
    rec,                \* last_step and the recorded values of the plan
    root, liveRoot,     \* the settings in node.toml.new and node.toml
    toml, live,         \* peer_discovery in node.toml.new and node.toml
    published           \* the highest sequence published for this key

settings == <<own, kept>>
process == <<pc, own, kept, newSeq, foundSeq, ip, signed>>
files == <<root, liveRoot, toml, live>>
vars == <<pc, own, kept, newSeq, foundSeq, ip, signed, rec,
          root, liveRoot, toml, live, published>>

\* A signature is modelled by the address and sequence it covers.
PeerDiscovery == [address : IPs \cup {None}, seq : Numbers \cup {None},
                  sig : (IPs \X Numbers) \cup {None}]
NoRecord == [address |-> None, seq |-> None, sig |-> None]
NoSetting == [k \in Settings |-> Unset]
Imported == [step |-> 4, own |-> NoSetting, kept |-> {}, newSeq |-> None,
             foundSeq |-> None, ip |-> None, selfSeq |-> None]

Init ==
    /\ pc = "idle" /\ own = NoSetting /\ kept = {}
    /\ newSeq = None /\ foundSeq = None /\ ip = None /\ signed = None
    /\ rec = Imported
    /\ liveRoot \in [Settings -> Owned] /\ root = liveRoot
    /\ toml = NoRecord /\ live = NoRecord
    /\ published \in Numbers

Go(p) == pc' = p
Exit ==
    /\ pc' = "idle" /\ own' = NoSetting /\ kept' = {}
    /\ newSeq' = None /\ foundSeq' = None /\ ip' = None /\ signed' = None
Save(key, value) == rec' = [rec EXCEPT ![key] = value]

-----------------------------------------------------------------------------
(* The snapshot.                                                           *)

\* What it may say of this key: an entry of its own, unless it is for another
\* network or malformed, can only be behind what is published.
Snapshots ==
    {s \in [current : BOOLEAN, entries : 0 .. 2, bls : {"same", "other", "none"},
            seq : Numbers \cup {None}] :
        s.current /\ s.entries = 1 /\ s.bls = "same" /\ s.seq # None => s.seq <= published}

\* Mutant: an entry with another BLS key is taken for this validator's.
LookupBySecp(s) ==
    IF s.current /\ s.entries = 1 /\ s.seq # None /\ s.seq <= SeqSaneMax THEN s.seq ELSE None

\* The last published sequence, None with a note.
Lookup(s) ==
    IF /\ s.current /\ s.entries = 1 /\ s.bls = "same"
       /\ s.seq # None /\ s.seq <= SeqSaneMax
    THEN s.seq ELSE None

-----------------------------------------------------------------------------
(* Phase 5.                                                                *)

\* --resume, or a run that has just imported the key.
Start ==
    /\ pc = "idle"
    /\ pc' = CASE rec.step = 4 -> "configure" [] rec.step = 5 -> "sign" [] OTHER -> "confirm"
    /\ own' = rec.own /\ kept' = rec.kept /\ newSeq' = rec.newSeq
    /\ foundSeq' = rec.foundSeq /\ ip' = rec.ip /\ signed' = None
    /\ UNCHANGED <<rec, files, published>>

\* Mutant: the staged copy of an interrupted run is taken up.
ConfigureAgain ==
    /\ pc = "configure" /\ Go("beneficiary")
    /\ UNCHANGED <<settings, newSeq, foundSeq, ip, signed, rec, files, published>>

\* The live node.toml is copied.
Configure ==
    /\ pc = "configure" /\ Go("beneficiary")
    /\ toml' = live /\ root' = liveRoot
    /\ UNCHANGED <<settings, newSeq, foundSeq, ip, signed, rec, liveRoot, live, published>>

Printable(v) == IF v = Unfit THEN Shown ELSE v

\* Left as it is: a beneficiary has to be an address, a name only printable.
Keep(k, next) ==
    /\ pc = k /\ Go(next)
    /\ k = "beneficiary" => root[k] \in Given
    /\ own' = [own EXCEPT ![k] = Printable(root[k])] /\ kept' = kept \cup {k}
    /\ UNCHANGED <<newSeq, foundSeq, ip, signed, rec, files, published>>

\* From a flag or the keyboard.  A key that is missing at the root is not added.
Replace(k, v, next) ==
    /\ pc = k /\ Go(next)
    /\ root[k] # Unset /\ root' = [root EXCEPT ![k] = v]
    /\ own' = [own EXCEPT ![k] = v] /\ kept' = kept \ {k}
    /\ UNCHANGED <<newSeq, foundSeq, ip, signed, rec, liveRoot, toml, live, published>>

Choose(k, next) == Keep(k, next) \/ \E v \in Given : Replace(k, v, next)
ChooseBeneficiary == Choose("beneficiary", "nodeName")
ChooseNodeName == Choose("nodeName", "choose")

\* From a flag, the keyboard or, with Enter, the snapshot.  Mutant: the snapshot
\* is no floor.
AcceptableAnyway(n, floor) == n \in 1 .. SeqSaneMax

Acceptable(n, floor) == n \in 1 .. SeqSaneMax /\ (floor # None => n > floor)

\* A floor of an earlier start stands when the snapshot does not say.
ChooseSeq(s, n) ==
    LET floor == IF Lookup(s) # None THEN Lookup(s) ELSE foundSeq
    IN  /\ pc = "choose"
        /\ IF Acceptable(n, floor)
           THEN /\ Go("recordOwn") /\ newSeq' = n /\ foundSeq' = floor
                /\ UNCHANGED <<settings, ip, signed>>
           ELSE Exit
        /\ UNCHANGED <<rec, files, published>>

\* Four fields; none of them counts before the step is recorded.
RecordSettings ==
    /\ pc = "recordOwn" /\ Go("recordSeq")
    /\ rec' = [rec EXCEPT !.own = own, !.kept = kept]
    /\ UNCHANGED <<settings, newSeq, foundSeq, ip, signed, files, published>>

Record(here, key, value, next) ==
    /\ pc = here /\ Go(next) /\ Save(key, value)
    /\ UNCHANGED <<settings, newSeq, foundSeq, ip, signed, files, published>>

RecordSeq == Record("recordSeq", "newSeq", newSeq, "recordFound")
RecordFound == Record("recordFound", "foundSeq", foundSeq, "configured")
Configured == Record("configured", "step", 5, "sign")

-----------------------------------------------------------------------------
(* Phase 6.                                                                *)

\* Mutant: the sequence that was asked for is taken for the one signed.
ParsedAsked(out, requested) == IF out[2] < Word THEN <<out[1], requested>> ELSE None

\* Mutant: a lower sequence than requested is accepted.
ParsedAny(out, requested) == IF out[2] < Word THEN out ELSE None

\* A lower sequence than requested is refused, and one outside uint64.
Parsed(out, requested) ==
    IF out[2] < Word /\ out[2] >= requested THEN out ELSE None

\* The signer covers what it emits, which need not be what was asked for.
SignRecord(i, out) ==
    /\ pc = "sign"
    /\ IF Parsed(out, newSeq) # None /\ out[1] = i
       THEN /\ Go("patchAddress") /\ ip' = i
            /\ signed' = [value |-> Parsed(out, newSeq), sig |-> out]
            /\ UNCHANGED <<settings, newSeq, foundSeq>>
       ELSE Exit
    /\ UNCHANGED <<rec, files, published>>

\* One edit of the staged file, which replaces it as a whole.
Patch(here, key, value, next) ==
    /\ pc = here /\ Go(next)
    /\ toml' = [toml EXCEPT ![key] = value]
    /\ UNCHANGED <<settings, newSeq, foundSeq, ip, signed, rec, root, liveRoot, live, published>>

PatchAddress == Patch("patchAddress", "address", signed.value[1], "patchSeq")
PatchSeq == Patch("patchSeq", "seq", signed.value[2], "patchSig")
PatchSig == Patch("patchSig", "sig", signed.sig, "verify")

\* The staged file is read back.
VerifyPatch ==
    /\ pc = "verify"
    /\ IF toml = [address |-> signed.value[1], seq |-> signed.value[2], sig |-> signed.sig]
       THEN Go("recordIP") /\ UNCHANGED <<settings, newSeq, foundSeq, ip, signed>>
       ELSE Exit
    /\ UNCHANGED <<rec, files, published>>

RecordIP == Record("recordIP", "ip", ip, "recordSelf")
RecordSelf == Record("recordSelf", "selfSeq", signed.value[2], "signed")
Signed == Record("signed", "step", 6, "confirm")

-----------------------------------------------------------------------------
(* The plan.                                                               *)

\* The cutover, up to the end of the run; the node publishes its record.
Confirm ==
    /\ pc = "confirm" /\ Exit
    /\ live' = toml /\ liveRoot' = root /\ rec' = Imported
    /\ published' = IF toml.seq > published THEN toml.seq ELSE published
    /\ UNCHANGED <<root, toml>>

RejectPlan ==
    /\ pc = "confirm" /\ Exit
    /\ rec' = Imported
    /\ UNCHANGED <<files, published>>

\* Any call fails, or the process ends.
Stop ==
    /\ pc # "idle" /\ Exit
    /\ UNCHANGED <<rec, files, published>>

\* The old validator is still there.
Publish ==
    /\ published + 1 < Word /\ published' = published + 1
    /\ UNCHANGED <<process, rec, files>>

Next ==
    \/ Start \/ Configure \/ ChooseBeneficiary \/ ChooseNodeName
    \/ \E s \in Snapshots, n \in 0 .. Word : ChooseSeq(s, n)
    \/ RecordSettings \/ RecordSeq \/ RecordFound \/ Configured
    \/ \E i \in IPs, out \in IPs \X (0 .. Word) : SignRecord(i, out)
    \/ PatchAddress \/ PatchSeq \/ PatchSig \/ VerifyPatch
    \/ RecordIP \/ RecordSelf \/ Signed
    \/ Confirm \/ RejectPlan \/ Stop \/ Publish

Spec == Init /\ [][Next]_vars

-----------------------------------------------------------------------------
\* The record in the plan is the one the signature covers, and the one in the
\* staged node.toml, although the signer may emit another sequence than asked
\* and the address may have changed since the record was last begun.
SignedAsShown ==
    rec.step = 6 => toml = [address |-> rec.ip, seq |-> rec.selfSeq,
                            sig |-> <<rec.ip, rec.selfSeq>>]

\* The plan shows the settings of the staged node.toml, and calls those kept that
\* the full node has, whichever run asked for them and however often phase 5 was
\* begun (configure, LoadResume, showPlan).
PlanIsStaged ==
    rec.step >= 5 => \A k \in Settings :
        /\ rec.own[k] = Printable(root[k])
        /\ k \in rec.kept => root[k] = liveRoot[k]

\* "The snapshot value is a floor, never a ceiling: a stale snapshot can only be
\* behind the network" (chooseSeq): also one read before an interruption.
FloorIsPublished == rec.foundSeq # None => rec.foundSeq <= published

\* A record goes live with a sequence above everything that was known to be
\* published; when that is still the last, peers accept it.
PeersAccept ==
    [][live' # live /\ rec.foundSeq # None
        => live'.seq > rec.foundSeq /\ (rec.foundSeq = published => live'.seq > published)]_vars

-----------------------------------------------------------------------------
Choosing == {"configure", "beneficiary", "nodeName", "choose", "recordOwn",
             "recordSeq", "recordFound", "configured"}
Patching == {"patchAddress", "patchSeq", "patchSig", "verify"}
Recording == {"recordIP", "recordSelf", "signed"}

TypeOK ==
    /\ pc \in {"idle", "sign", "confirm"} \cup Choosing \cup Patching \cup Recording
    /\ root \in [Settings -> Owned] /\ liveRoot \in [Settings -> Owned]
    /\ own \in [Settings -> Owned \cup {Shown}] /\ kept \subseteq Settings
    /\ newSeq \in Numbers \cup {None} /\ foundSeq \in Numbers \cup {None}
    /\ rec \in [step : 4 .. 6, own : [Settings -> Owned \cup {Shown}], kept : SUBSET Settings,
                 newSeq : Numbers \cup {None}, foundSeq : Numbers \cup {None},
                 ip : IPs \cup {None}, selfSeq : Numbers \cup {None}]
    /\ toml \in PeerDiscovery /\ live \in PeerDiscovery /\ published \in Numbers

\* Which step the record is at for each position of the process, and which of
\* the process's values are recorded.
StepInv ==
    /\ pc \in Choosing => rec.step = 4
    /\ pc \in {"sign"} \cup Patching \cup Recording => rec.step = 5 /\ newSeq = rec.newSeq
    /\ pc = "confirm" => rec.step = 6
    /\ pc \in {"recordFound", "configured"} => rec.newSeq = newSeq
    /\ pc = "configured" => rec.foundSeq = foundSeq
    /\ pc \in {"recordSeq", "recordFound", "configured"} => rec.own = own /\ rec.kept = kept

Above(n, floor) == n \in 1 .. SeqSaneMax /\ (floor # None => n > floor)

\* What was found is published, and what was chosen is above it.
FloorInv ==
    /\ foundSeq # None => foundSeq <= published
    /\ pc \in {"recordOwn", "recordSeq", "recordFound", "configured"} => Above(newSeq, foundSeq)
    /\ rec.step >= 5 => Above(rec.newSeq, rec.foundSeq)

\* What was signed, and how far it is written.
SignedInv ==
    /\ pc \in Patching \cup Recording =>
        \E i \in IPs, n \in Numbers :
            /\ signed = [value |-> <<i, n>>, sig |-> <<i, n>>] /\ ip = i /\ n >= newSeq
            /\ pc \in Recording => toml = [address |-> i, seq |-> n, sig |-> <<i, n>>]
            /\ pc = "signed" => rec.selfSeq = n
    /\ pc \in {"recordSelf", "signed"} => rec.ip = ip
    /\ rec.step = 6 => rec.ip \in IPs /\ rec.selfSeq \in Numbers /\ rec.selfSeq >= rec.newSeq

\* Which settings of the staged file the process knows, and which are still those
\* of the live file.
Agrees(k) == own[k] = Printable(root[k]) /\ (k \in kept => root[k] = liveRoot[k])
Collected == {"choose", "recordOwn", "recordSeq", "recordFound", "configured"}
SettingsInv ==
    /\ pc = "beneficiary" => root = liveRoot
    /\ pc = "nodeName" => root["nodeName"] = liveRoot["nodeName"]
    /\ pc \in {"nodeName"} \cup Collected => Agrees("beneficiary")
    /\ pc \in Collected => Agrees("nodeName")

\* Strong enough to be kept by every step.
SeqInv ==
    /\ TypeOK /\ StepInv /\ FloorInv /\ SignedInv /\ SettingsInv
    /\ SignedAsShown /\ FloorIsPublished /\ PlanIsStaged

=============================================================================
