-------------------------- MODULE PlacementProofs --------------------------
(***************************************************************************)
(* Proof that the live file is the old or the confirmed one at every point *)
(* of a placement, also across power losses and with a staged file that    *)
(* changes, and that a staged copy is given up only once that is durable.  *)
(***************************************************************************)
EXTENDS Placement, TLAPS

(* Before any run the live file is the old one. *)
LEMMA PlaceInit == Init => PlaceInv
BY ContentAssumption DEF Init, PlaceInv, TypeOK, Contents, PCs

(* Every system call, stop, power loss and change of the staged file keeps
   what may turn up in the live directory old or confirmed. *)
LEMMA PlaceNext == PlaceInv /\ [Next]_vars => PlaceInv'
<1> SUFFICES ASSUME PlaceInv, [Next]_vars PROVE PlaceInv' OBVIOUS
<1> USE ContentAssumption DEF PlaceInv, TypeOK, Contents, PCs
<1> USE DEF record, staging, config, temporary
<1>1. CASE UNCHANGED vars BY <1>1 DEF vars
<1>2. CASE Prepare BY <1>2 DEF Prepare
<1>3. CASE RecordSha BY <1>3 DEF RecordSha
<1>4. CASE Resume BY <1>4 DEF Resume
<1>5. CASE Vet BY <1>5 DEF Vet, Vetted
<1>6. CASE Begin BY <1>6 DEF Begin
<1>7. CASE Copy BY <1>7 DEF Copy
<1>8. CASE NothingStaged BY <1>8 DEF NothingStaged
<1>9. CASE SyncCopy BY <1>9 DEF SyncCopy
<1>10. CASE VerifyCopy BY <1>10 DEF VerifyCopy
<1>11. CASE Rename BY <1>11 DEF Rename
<1>12. CASE VerifyLive BY <1>12 DEF VerifyLive
<1>13. CASE SyncDir BY <1>13 DEF SyncDir
<1>14. CASE Unstage BY <1>14 DEF Unstage
<1>15. CASE Stop BY <1>15 DEF Stop
<1>16. CASE PowerLoss BY <1>16 DEF PowerLoss
<1>17. CASE ChangeStaged BY <1>17 DEF ChangeStaged
<1> QED
    BY <1>1, <1>2, <1>3, <1>4, <1>5, <1>6, <1>7, <1>8, <1>9, <1>10, <1>11,
       <1>12, <1>13, <1>14, <1>15, <1>16, <1>17 DEF Next, Work

(* VerifiedOwned: the invariant holds in every reachable state. *)
THEOREM PlaceInvariance == Spec => []PlaceInv
BY PlaceInit, PlaceNext, PTL DEF Spec

(* VerifiedOwned: the live file is the old one or the confirmed one, whole. *)
THEOREM OldOrConfirmedHolds == Spec => []OldOrConfirmed
<1>1. PlaceInv => OldOrConfirmed BY DEF PlaceInv, OldOrConfirmed
<1> QED BY <1>1, PlaceInvariance, PTL

(* VerifiedOwned: the staged copy is removed last. *)
THEOREM GivenUpWhenDurableHolds == Spec => GivenUpWhenDurable
<1>1. PlaceInv /\ [Next]_vars =>
        [staged # Absent /\ staged' = Absent /\ pc = "unstage"
            => (live = sha /\ liveDoubt = {}) \/ PowerLoss]_vars
    BY DEF PlaceInv
<1> QED BY <1>1, PlaceInvariance, PTL DEF Spec, GivenUpWhenDurable

=============================================================================
