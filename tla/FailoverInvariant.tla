------------------------- MODULE FailoverInvariant -------------------------
(***************************************************************************)
(* The inductive invariant of Failover: what every reachable state of a    *)
(* run has in common, by record, by staging directory, by live directory,  *)
(* and by service.  The safety properties follow from it.                  *)
(***************************************************************************)
EXTENDS Failover

Planning == {"cutover", "vet", "mark"}
Masking == {"observe", "observed", "mask", "checkMask", "stop", "checkStop"}
Placing == {"renameSecp", "unlinkSecp", "renameBls", "unlinkBls", "renameToml", "unlinkToml",
            "markSwapped"}
Rising == {"checkLive", "unmask", "checkUnmask", "start", "started"}
Unmasking == Rising \ {"checkLive"}

\* The last_step that a process finds in the record where it stands.
ProcessInv ==
    /\ pc = "recheck" => rec.step \in 1..6 /\ ~rec.started
    /\ pc = "preflight" => rec.step = 0
    /\ pc = "network" => rec.step = 1
    /\ pc \in {"backup", "backedUp"} => rec.step = 2
    /\ pc \in {"import", "importSecp", "importBls", "recordSecp", "recordBls", "imported"}
           => rec.step = 3
    /\ pc \in {"configure", "configured"} => rec.step = 4
    /\ pc \in {"sign", "recordToml", "signed"} => rec.step = 5
    /\ pc \in Planning \cup Masking \cup Placing \cup Rising \cup {"discard"} => rec.step = 6
    /\ pc \in {"health", "sync", "export"} => rec.step = 7
    /\ pc \in {"cleanup", "finish"} => rec.step \in 7..8
    /\ pc \in Masking \cup Placing => rec.started /\ ~rec.swapped
    /\ pc \in {"vet", "mark"} => ~rec.swapped
    /\ pc \in Rising => rec.swapped
    /\ pc = "discard" => ~rec.started
    /\ ~checked => pc \in {"idle", "recheck", "preflight", "discard"} \/ rec.started

RecordInv ==
    /\ rec.started => rec.step >= 6
    /\ rec.step >= 7 => rec.swapped
    /\ rec.swapped => rec.started /\ rec.observed
    /\ rec.observed => rec.started

\* The checksums bind what is staged; from step 6 on all three are recorded.
StagingInv ==
    /\ rec.step >= 4 => /\ rec.sha["secp"] \in Nat /\ rec.sha["bls"] = rec.sha["secp"]
                        /\ \A f \in {"secp", "bls"} : staged[f] \in {rec.sha[f], Absent}
    /\ rec.step >= 6 => /\ rec.sha["toml"] = rec.sha["secp"]
                        /\ staged["toml"] \in {rec.sha["toml"], Absent}
    /\ pc \in {"importBls", "recordSecp", "recordBls", "imported"} => staged["secp"] = gen
    /\ pc \in {"recordSecp", "recordBls", "imported"} => staged["bls"] = gen
    /\ pc \in {"recordBls", "imported"} => rec.sha["secp"] = gen
    /\ pc = "imported" => rec.sha["bls"] = gen
    /\ pc \in {"recordToml", "signed"} => staged["toml"] = rec.sha["secp"]
    /\ pc = "signed" => rec.sha["toml"] = rec.sha["secp"]

\* Backed up, then replaced file by file.
LiveInv ==
    /\ ~rec.started => Whole(live)
    /\ (rec.step >= 3 /\ ~rec.started) \/ pc = "backedUp" => rec.backup = live
    /\ rec.started => /\ Whole(rec.backup)
                      /\ \A f \in Files : live[f] \in {rec.backup[f], rec.sha[f]}
    /\ rec.started \/ pc = "mark" => \A f \in Files : rec.sha[f] \in {staged[f], live[f]}
    /\ pc \in {"unlinkSecp", "renameBls", "unlinkBls", "renameToml", "unlinkToml", "markSwapped"}
           => live["secp"] = rec.sha["secp"]
    /\ pc \in {"unlinkBls", "renameToml", "unlinkToml", "markSwapped"} => live["bls"] = rec.sha["bls"]
    /\ pc \in {"unlinkToml", "markSwapped"} \/ rec.swapped => live = rec.sha

MaskInv ==
    /\ opmask \subseteq masked
    /\ ~rec.observed \/ rec.step >= 7 \/ pc \in {"start", "started"} => masked = opmask
    /\ rec.observed \/ pc = "observed" => opmask \subseteq rec.pre
    /\ (rec.observed \/ pc = "observed") /\ rec.step = 6 => rec.pre = opmask
    /\ pc \in (Masking \ {"observe", "observed"}) \cup Placing => rec.observed
    /\ pc \in {"stop", "checkStop"} \cup Placing => Units \subseteq masked
    /\ pc \in Placing => Active = {}

ServiceInv == \A u \in Active : running[u] = live

\* What the record, the process and the masks have in common, whatever the files
\* hold.
FlowInv == ProcessInv /\ RecordInv /\ MaskInv

DataInv == StagingInv /\ LiveInv

IInv == TypeOK /\ FlowInv /\ DataInv /\ ServiceInv /\ MixedIsLocked

\* A process that goes on from verifyLiveIdentity still has before it what it
\* has verified.
VerifiedInv == pc \in Unmasking => live = rec.sha

\* What is left of IInv when files may change behind the run.
TamperInv == TypeOK /\ FlowInv /\ VerifiedInv

=============================================================================
