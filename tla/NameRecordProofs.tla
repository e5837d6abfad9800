-------------------------- MODULE NameRecordProofs --------------------------
(***************************************************************************)
(* Proof that the plan shows the record the signature covers and the       *)
(* settings of the staged file, and that the sequence is above every one   *)
(* found published, for any bounds on numbers and any settings.            *)
(***************************************************************************)
EXTENDS NameRecord, TLAPS

(* A found sequence is of this validator, and so published. *)
LEMMA LookupPublished ==
    ASSUME NEW s \in Snapshots, Lookup(s) # None
    PROVE  Lookup(s) \in Numbers /\ Lookup(s) <= published
BY DEF Snapshots, Lookup

(* A sequence that was accepted is a number that a uint64 holds. *)
LEMMA AboveNumber ==
    ASSUME NEW n, NEW floor, Above(n, floor) PROVE n \in Numbers
BY BoundAssumption DEF Above, Numbers

(* Before the first run nothing is chosen, signed or recorded. *)
LEMMA SeqInit == Init => SeqInv
BY NoneAssumption DEF Init, SeqInv, TypeOK, StepInv, FloorInv, SignedInv, SignedAsShown,
   FloorIsPublished, PlanIsStaged, SettingsInv, Collected, Agrees, Owned, NoSetting, Imported, NoRecord, PeerDiscovery, Choosing, Patching, Recording

(* Phases 5 and 6 as far as the signature keep the invariant. *)
LEMMA ChooseKeeps ==
    ASSUME SeqInv, \/ Start \/ Configure
                   \/ \E s \in Snapshots, n \in 0 .. Word : ChooseSeq(s, n)
                   \/ RecordSettings \/ RecordSeq \/ RecordFound \/ Configured
    PROVE  SeqInv'
<1> USE DEF SeqInv, TypeOK, StepInv, FloorInv, SignedInv, SignedAsShown, FloorIsPublished,
            PlanIsStaged, SettingsInv, Collected, Agrees,
            Settings, Owned, NoSetting, settings, files, Go, Exit, Save, Record, Choosing, Patching, Recording
<1>1. CASE Start BY <1>1 DEF Start
<1>2. CASE Configure BY <1>2 DEF Configure
<1>3. ASSUME NEW s \in Snapshots, NEW n \in 0 .. Word, ChooseSeq(s, n) PROVE SeqInv'
    <2> DEFINE floor == IF Lookup(s) # None THEN Lookup(s) ELSE foundSeq
    <2>1. CASE Acceptable(n, floor)
        <3>1. pc = "choose" /\ pc' = "recordOwn" /\ newSeq' = n /\ foundSeq' = floor
              /\ UNCHANGED <<own, kept, ip, signed, rec, root, liveRoot, toml, live, published>>
            BY <1>3, <2>1 DEF ChooseSeq
        <3>2. Above(n, floor) /\ n \in Numbers
            BY <2>1, AboveNumber DEF Acceptable, Above
        <3>3. floor \in Numbers \cup {None} /\ (floor # None => floor <= published)
            BY LookupPublished
        <3> HIDE DEF floor
        <3>4. TypeOK' BY <3>1, <3>2, <3>3
        <3>5. FloorInv' BY <3>1, <3>2, <3>3
        <3> QED BY <3>1, <3>4, <3>5
    <2>2. CASE ~Acceptable(n, floor) BY <1>3, <2>2, NoneAssumption DEF ChooseSeq
    <2> QED BY <2>1, <2>2
<1>4. CASE RecordSeq
    <2>1. newSeq \in Numbers BY <1>4, AboveNumber DEF RecordSeq
    <2> QED BY <1>4, <2>1 DEF RecordSeq
<1>5. CASE RecordFound BY <1>5 DEF RecordFound
<1>6. CASE Configured BY <1>6 DEF Configured
<1>7. CASE RecordSettings BY <1>7 DEF RecordSettings
<1> QED BY <1>1, <1>2, <1>3, <1>4, <1>5, <1>6, <1>7

(* The choice of the settings keeps the invariant. *)
LEMMA SettingsKeep ==
    ASSUME SeqInv, ChooseBeneficiary \/ ChooseNodeName
    PROVE  SeqInv'
<1> USE DEF SeqInv, TypeOK, StepInv, FloorInv, SignedInv, SignedAsShown, FloorIsPublished,
            PlanIsStaged, SettingsInv, Collected, Agrees, Go, Choosing, Patching, Recording
<1>1. ASSUME NEW v \in Given, Replace("beneficiary", v, "nodeName") \/ Replace("nodeName", v, "choose")
      PROVE  SeqInv'
    <2>1. Printable(v) = v /\ v \in Owned BY SettingAssumption DEF Printable, Owned
    <2>2. CASE Replace("beneficiary", v, "nodeName") BY <2>1, <2>2 DEF Replace, Settings
    <2>3. CASE Replace("nodeName", v, "choose") BY <2>1, <2>3 DEF Replace, Settings
    <2> QED BY <1>1, <2>2, <2>3
<1>2. ASSUME Keep("beneficiary", "nodeName") \/ Keep("nodeName", "choose") PROVE SeqInv'
    <2>1. \A k \in Settings : Printable(root[k]) \in Owned \cup {Shown} BY DEF Printable
    <2>2. CASE Keep("beneficiary", "nodeName")
        <3>1. /\ pc = "beneficiary" /\ pc' = "nodeName"
              /\ own' = [own EXCEPT !["beneficiary"] = Printable(root["beneficiary"])]
              /\ kept' = kept \cup {"beneficiary"}
              /\ UNCHANGED <<newSeq, foundSeq, ip, signed, rec, root, liveRoot, toml, live, published>>
            BY <2>2 DEF Keep, files
        <3>2. TypeOK' BY <2>1, <3>1 DEF Settings
        <3> QED BY <3>1, <3>2 DEF Settings
    <2>3. CASE Keep("nodeName", "choose")
        <3>1. /\ pc = "nodeName" /\ pc' = "choose"
              /\ own' = [own EXCEPT !["nodeName"] = Printable(root["nodeName"])]
              /\ kept' = kept \cup {"nodeName"}
              /\ UNCHANGED <<newSeq, foundSeq, ip, signed, rec, root, liveRoot, toml, live, published>>
            BY <2>3 DEF Keep, files
        <3>2. TypeOK' BY <2>1, <3>1 DEF Settings
        <3> QED BY <3>1, <3>2 DEF Settings
    <2> QED BY <1>2, <2>2, <2>3
<1> QED BY <1>1, <1>2 DEF ChooseBeneficiary, ChooseNodeName, Choose

(* The signature and the edits of the staged file keep the invariant. *)
LEMMA SignKeeps ==
    ASSUME SeqInv, \/ \E i \in IPs, out \in IPs \X (0 .. Word) : SignRecord(i, out)
                   \/ PatchAddress \/ PatchSeq \/ PatchSig \/ VerifyPatch
    PROVE  SeqInv'
<1> USE DEF SeqInv, TypeOK, StepInv, FloorInv, SignedInv, SignedAsShown, FloorIsPublished,
            PlanIsStaged, SettingsInv, Collected, Agrees,
            Settings, Owned, NoSetting, settings, files, Go, Exit, Patch, Choosing, Patching, Recording, PeerDiscovery
<1>1. ASSUME NEW i \in IPs, NEW out \in IPs \X (0 .. Word), SignRecord(i, out) PROVE SeqInv'
    <2>1. CASE Parsed(out, newSeq) # None /\ out[1] = i
        <3>1. out[2] \in Numbers /\ out[2] >= newSeq /\ out = <<i, out[2]>>
            BY <2>1, BoundAssumption DEF Parsed, Numbers
        <3>2. signed' = [value |-> <<i, out[2]>>, sig |-> <<i, out[2]>>] /\ ip' = i
            BY <1>1, <2>1, <3>1 DEF SignRecord, Parsed
        <3>3. /\ pc = "sign" /\ pc' = "patchAddress"
              /\ UNCHANGED <<newSeq, foundSeq, rec, toml, live, published>>
            BY <1>1, <2>1 DEF SignRecord
        <3>4. SignedInv' BY <3>1, <3>2, <3>3
        <3>5. UNCHANGED <<own, kept, root, liveRoot>> BY <1>1, <2>1 DEF SignRecord
        <3>6. TypeOK' /\ SettingsInv' /\ PlanIsStaged' BY <3>3, <3>5
        <3> QED BY <3>3, <3>4, <3>6
    <2>2. CASE ~(Parsed(out, newSeq) # None /\ out[1] = i) BY <1>1, <2>2 DEF SignRecord
    <2> QED BY <2>1, <2>2
<1>2. CASE PatchAddress BY <1>2 DEF PatchAddress
<1>3. CASE PatchSeq BY <1>3 DEF PatchSeq
<1>4. CASE PatchSig BY <1>4 DEF PatchSig
<1>5. CASE VerifyPatch
    <2>1. CASE Exit BY <1>5, <2>1 DEF VerifyPatch
    <2>2. CASE ~Exit
        <3>1. /\ pc = "verify" /\ pc' = "recordIP"
              /\ toml = [address |-> signed.value[1], seq |-> signed.value[2], sig |-> signed.sig]
              /\ UNCHANGED <<own, kept, newSeq, foundSeq, ip, signed, rec,
                             root, liveRoot, toml, live, published>>
            BY <1>5, <2>2 DEF VerifyPatch
        <3>2. SignedInv' BY <3>1
        <3>3. TypeOK' /\ StepInv' /\ FloorInv' /\ SettingsInv' BY <3>1
        <3>4. SignedAsShown' /\ FloorIsPublished' /\ PlanIsStaged' BY <3>1
        <3> QED BY <3>2, <3>3, <3>4
    <2> QED BY <2>1, <2>2
<1> QED BY <1>1, <1>2, <1>3, <1>4, <1>5

(* So do its record, the plan, and what happens meanwhile. *)
LEMMA PlanKeeps ==
    ASSUME SeqInv, \/ RecordIP \/ RecordSelf \/ Signed \/ Confirm \/ RejectPlan
                   \/ Stop \/ Publish
    PROVE  SeqInv'
<1> USE DEF SeqInv, TypeOK, StepInv, FloorInv, SignedInv, SignedAsShown, FloorIsPublished,
            PlanIsStaged, SettingsInv, Collected, Agrees,
            Settings, Owned, NoSetting, settings, files, Go, Exit, Save, Record, Choosing, Patching, Recording, PeerDiscovery
<1>1. CASE RecordIP BY <1>1 DEF RecordIP
<1>2. CASE RecordSelf BY <1>2 DEF RecordSelf
<1>3. CASE Signed BY <1>3 DEF Signed
<1>4. CASE Confirm BY <1>4, NoneAssumption DEF Confirm, Imported
<1>5. CASE RejectPlan BY <1>5, NoneAssumption DEF RejectPlan, Imported
<1>6. CASE Stop BY <1>6 DEF Stop
<1>7. CASE Publish BY <1>7, BoundAssumption DEF Publish, process, Numbers
<1> QED BY <1>1, <1>2, <1>3, <1>4, <1>5, <1>6, <1>7

(* Every step keeps the invariant. *)
LEMMA SeqNext == SeqInv /\ [Next]_vars => SeqInv'
<1> SUFFICES ASSUME SeqInv, [Next]_vars PROVE SeqInv' OBVIOUS
<1>1. CASE UNCHANGED vars
    BY <1>1 DEF vars, SeqInv, TypeOK, StepInv, FloorInv, SignedInv, SignedAsShown, FloorIsPublished,
               PlanIsStaged, SettingsInv, Collected, Agrees
<1>2. CASE Next BY <1>2, ChooseKeeps, SettingsKeep, SignKeeps, PlanKeeps DEF Next
<1> QED BY <1>1, <1>2

(* Phases 5 and 6: the invariant holds in every reachable state. *)
THEOREM SeqInvariance == Spec => []SeqInv
BY SeqInit, SeqNext, PTL DEF Spec

(* signRecord: the plan, the staged node.toml and the signature agree. *)
THEOREM SignedAsShownHolds == Spec => []SignedAsShown
<1>1. SeqInv => SignedAsShown BY DEF SeqInv
<1> QED BY <1>1, SeqInvariance, PTL

(* chooseSeq: the floor is a sequence published for this key. *)
THEOREM FloorIsPublishedHolds == Spec => []FloorIsPublished
<1>1. SeqInv => FloorIsPublished BY DEF SeqInv
<1> QED BY <1>1, SeqInvariance, PTL

(* The plan, whatever was interrupted before it, shows what is staged. *)
THEOREM PlanIsStagedHolds == Spec => []PlanIsStaged
<1>1. SeqInv => PlanIsStaged BY DEF SeqInv
<1> QED BY <1>1, SeqInvariance, PTL

(* The record that goes live is above every sequence found published. *)
THEOREM PeersAcceptHolds == Spec => PeersAccept
<1>1. SeqInv /\ [Next]_vars =>
        [live' # live /\ rec.foundSeq # None
            => live'.seq > rec.foundSeq /\ (rec.foundSeq = published => live'.seq > published)]_vars
    <2> SUFFICES ASSUME SeqInv, [Next]_vars, live' # live, rec.foundSeq # None
                 PROVE  live'.seq > rec.foundSeq
        BY DEF vars
    <2>1. Confirm
        BY DEF vars, files, Next, Start, Configure, ChooseBeneficiary, ChooseNodeName, Choose,
               Keep, Replace, RecordSettings, ChooseSeq, RecordSeq, RecordFound, Configured,
               SignRecord, PatchAddress, PatchSeq, PatchSig, VerifyPatch, RecordIP, RecordSelf,
               Signed, RejectPlan, Stop, Publish, Record, Patch
    <2>2. rec.step = 6 /\ live' = toml BY <2>1 DEF Confirm, SeqInv, StepInv
    <2>3. live'.seq = rec.selfSeq BY <2>2 DEF SeqInv, SignedAsShown
    <2>4. rec.selfSeq >= rec.newSeq /\ rec.newSeq > rec.foundSeq
        BY <2>2 DEF SeqInv, SignedInv, FloorInv, Above
    <2>5. rec.selfSeq \in Nat /\ rec.newSeq \in Nat /\ rec.foundSeq \in Nat
        BY <2>2, AboveNumber DEF SeqInv, SignedInv, FloorInv, TypeOK, Numbers
    <2> QED BY <2>3, <2>4, <2>5
<1> QED BY <1>1, SeqInvariance, PTL DEF Spec, PeersAccept

=============================================================================
