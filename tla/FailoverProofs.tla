--------------------------- MODULE FailoverProofs ---------------------------
(***************************************************************************)
(* Proofs about Failover, for every set of units, every bound on the       *)
(* number of imports and any number of crashes, reboots and resumes.       *)
(***************************************************************************)
EXTENDS FailoverInvariant, TLAPS

(* The phase a run enters after last_step n. *)
LEMMA PhaseAfterStep ==
  ASSUME NEW n \in 0..8
  PROVE  /\ n = 0 => PhaseAfter(n) = "preflight"
         /\ n = 1 => PhaseAfter(n) = "network"
         /\ n = 2 => PhaseAfter(n) = "backup"
         /\ n = 3 => PhaseAfter(n) = "import"
         /\ n = 4 => PhaseAfter(n) = "configure"
         /\ n = 5 => PhaseAfter(n) = "sign"
         /\ n = 6 => PhaseAfter(n) = "cutover"
         /\ n = 7 => PhaseAfter(n) = "health"
         /\ n = 8 => PhaseAfter(n) = "cleanup"
<1>1. n = 0 => PhaseAfter(n) = "preflight"  BY DEF PhaseAfter
<1>2. n = 1 => PhaseAfter(n) = "network"  BY DEF PhaseAfter
<1>3. n = 2 => PhaseAfter(n) = "backup"  BY DEF PhaseAfter
<1>4. n = 3 => PhaseAfter(n) = "import"  BY DEF PhaseAfter
<1>5. n = 4 => PhaseAfter(n) = "configure"  BY DEF PhaseAfter
<1>6. n = 5 => PhaseAfter(n) = "sign"  BY DEF PhaseAfter
<1>7. n = 6 => PhaseAfter(n) = "cutover"  BY DEF PhaseAfter
<1>8. n = 7 => PhaseAfter(n) = "health"  BY DEF PhaseAfter
<1>9. n = 8 => PhaseAfter(n) = "cleanup"  BY DEF PhaseAfter
<1> QED BY <1>1, <1>2, <1>3, <1>4, <1>5, <1>6, <1>7, <1>8, <1>9

(* The cleared record is a record. *)
LEMMA NoRecordType == NoRecord \in Record
  BY DEF NoRecord, Record, NoFiles, MaybeFiles

(* os.Remove on the staged files: each is gone, or what it was. *)
LEMMA StagedRemoved ==
  ASSUME staged \in MaybeFiles, RemoveStaged
  PROVE  /\ staged' \in MaybeFiles
         /\ \A f \in Files : staged'[f] \in {staged[f], Absent}
  BY DEF RemoveStaged, MaybeFiles

-----------------------------------------------------------------------------
(* Which actions change what.  The rest leave it alone.                      *)

(* Live files change by a placement. *)
LEMMA LiveChanges ==
  ASSUME [Next]_vars
  PROVE  UNCHANGED live \/ \E f \in Files : Place(f)
<1> USE DEF files, Save, Go, Exit, Enter, InSync
<1>1. CASE Prepare
  BY <1>1 DEF Prepare, Recheck, Preflight, DetectNetwork, BackupConfig, BackedUp, ClearStaging,
     ImportSecp, ImportBls, RecordSecp, RecordBls, Imported, Configure, Configured, SignRecord,
     RecordToml, Signed, RecordSha
<1>2. CASE Swap
  BY <1>2 DEF Swap, SkipSwap, VetPlan, MarkStarted, ObserveMasks, Observed, MaskServices,
     CheckMask, StopServices, CheckStop, RefusePlan, Unstage, PlacedEarlier, RefusePlacement,
     MarkSwapped
<1>3. CASE BringUp \/ WaitForSync(TRUE) \/ DiscardRecord
  BY <1>3 DEF BringUp, CheckLive, UnmaskServices, CheckUnmask, StartServices, CutoverDone,
     CheckHealth, WaitForSync, ExportKeys, Cleanup, Finish, DiscardRecord
<1>4. CASE Operator
  BY <1>4 DEF Operator, StartFresh, RefuseFresh, Resume, ConfirmPlan, RejectStarted, RejectPlan,
     OperatorStart, OperatorUnmask
<1>5. CASE Fault
  BY <1>5 DEF Fault, Stop, Reboot, UnitDies, NotPlaced, MaskServices, StopServices,
     UnmaskServices, StartServices
<1>6. CASE UNCHANGED vars
  BY <1>6 DEF vars
<1> QED
  BY <1>1, <1>2, <1>3, <1>4, <1>5, <1>6 DEF Next, Work

(* Masks change by systemctl mask and unmask, the run's or the operator's. *)
LEMMA MaskChanges ==
  ASSUME [Next]_vars
  PROVE  \/ UNCHANGED masked
         \/ \E S \in SUBSET Units : MaskServices(S) \/ UnmaskServices(S)
         \/ \E u \in Units : OperatorUnmask(u)
<1> USE DEF services, OwnUnits, Save, Go, Exit, Enter, InSync
<1>1. CASE Prepare
  BY <1>1 DEF Prepare, Recheck, Preflight, DetectNetwork, BackupConfig, BackedUp, ClearStaging,
     ImportSecp, ImportBls, RecordSecp, RecordBls, Imported, Configure, Configured, SignRecord,
     RecordToml, Signed, RecordSha
<1>2. CASE Swap
  BY <1>2 DEF Swap, SkipSwap, VetPlan, MarkStarted, ObserveMasks, Observed, CheckMask,
     StopServices, CheckStop, RefusePlan, Place, Unstage, PlacedEarlier, RefusePlacement,
     MarkSwapped
<1>3. CASE BringUp \/ WaitForSync(TRUE) \/ DiscardRecord
  BY <1>3 DEF BringUp, CheckLive, CheckUnmask, StartServices, CutoverDone, CheckHealth,
     WaitForSync, ExportKeys, Cleanup, Finish, DiscardRecord
<1>4. CASE Operator
  BY <1>4 DEF Operator, StartFresh, RefuseFresh, Resume, ConfirmPlan, RejectStarted, RejectPlan,
     OperatorStart
<1>5. CASE Fault
  BY <1>5 DEF Fault, Stop, Reboot, UnitDies, NotPlaced, StopServices, StartServices
<1>6. CASE UNCHANGED vars
  BY <1>6 DEF vars
<1> QED
  BY <1>1, <1>2, <1>3, <1>4, <1>5, <1>6 DEF Next, Work

(* Units stop and start by systemctl, on boot, by themselves and by hand. *)
LEMMA RunningChanges ==
  ASSUME [Next]_vars
  PROVE  \/ UNCHANGED running
         \/ \E S \in SUBSET Units : StopServices(S) \/ StartServices(S) \/ Reboot(S)
         \/ \E u \in Units : UnitDies(u) \/ OperatorStart(u)
<1> USE DEF services, OwnUnits, Save, Go, Exit, Enter, InSync
<1>1. CASE Prepare
  BY <1>1 DEF Prepare, Recheck, Preflight, DetectNetwork, BackupConfig, BackedUp, ClearStaging,
     ImportSecp, ImportBls, RecordSecp, RecordBls, Imported, Configure, Configured, SignRecord,
     RecordToml, Signed, RecordSha
<1>2. CASE Swap
  BY <1>2 DEF Swap, SkipSwap, VetPlan, MarkStarted, ObserveMasks, Observed, MaskServices,
     CheckMask, CheckStop, RefusePlan, Place, Unstage, PlacedEarlier, RefusePlacement,
     MarkSwapped
<1>3. CASE BringUp \/ WaitForSync(TRUE) \/ DiscardRecord
  BY <1>3 DEF BringUp, CheckLive, UnmaskServices, CheckUnmask, CutoverDone, CheckHealth,
     WaitForSync, ExportKeys, Cleanup, Finish, DiscardRecord
<1>4. CASE Operator
  BY <1>4 DEF Operator, StartFresh, RefuseFresh, Resume, ConfirmPlan, RejectStarted, RejectPlan,
     OperatorUnmask
<1>5. CASE Fault
  BY <1>5 DEF Fault, Stop, NotPlaced, MaskServices, UnmaskServices
<1>6. CASE UNCHANGED vars
  BY <1>6 DEF vars
<1> QED
  BY <1>1, <1>2, <1>3, <1>4, <1>5, <1>6 DEF Next, Work

(* cutover_started is set at the end of the plan, and goes with the record. *)
LEMMA BegunChanges ==
  ASSUME rec \in Record, [Next]_vars
  PROVE  rec'.started = rec.started \/ StartFresh \/ MarkStarted \/ DiscardRecord \/ Finish
<1> USE DEF Record, Save, Go, Exit, Enter, InSync
<1>1. CASE Prepare
  BY <1>1 DEF Prepare, Recheck, Preflight, DetectNetwork, BackupConfig, BackedUp, ClearStaging,
     ImportSecp, ImportBls, RecordSecp, RecordBls, Imported, Configure, Configured, SignRecord,
     RecordToml, Signed, RecordSha
<1>2. CASE Swap
  BY <1>2 DEF Swap, SkipSwap, VetPlan, ObserveMasks, Observed, MaskServices, CheckMask,
     StopServices, CheckStop, RefusePlan, Place, Unstage, PlacedEarlier, RefusePlacement,
     MarkSwapped
<1>3. CASE BringUp \/ WaitForSync(TRUE) \/ DiscardRecord
  BY <1>3 DEF BringUp, CheckLive, UnmaskServices, CheckUnmask, StartServices, CutoverDone,
     CheckHealth, WaitForSync, ExportKeys, Cleanup
<1>4. CASE Operator
  BY <1>4 DEF Operator, RefuseFresh, Resume, ConfirmPlan, RejectStarted, RejectPlan,
     OperatorStart, OperatorUnmask
<1>5. CASE Fault
  BY <1>5 DEF Fault, Stop, Reboot, UnitDies, NotPlaced, MaskServices, StopServices,
     UnmaskServices, StartServices
<1>6. CASE UNCHANGED vars
  BY <1>6 DEF vars
<1> QED
  BY <1>1, <1>2, <1>3, <1>4, <1>5, <1>6 DEF Next, Work

-----------------------------------------------------------------------------
(* Every step keeps the variables in their types. *)
LEMMA TypeNext == TypeOK /\ [Next \/ Tamper]_vars => TypeOK'
<1> SUFFICES ASSUME TypeOK, [Next \/ Tamper]_vars PROVE TypeOK'
  OBVIOUS
<1>0. /\ rec \in Record /\ staged \in MaybeFiles /\ live \in [Files -> Content]
      /\ gen \in 0..MaxGen /\ masked \subseteq Units /\ opmask \subseteq Units
      /\ running \in [Units -> [Files -> Content] \cup {Down}]
  BY DEF TypeOK
<1> USE RpcAssumption, MarkerAssumption, MaxGenAssumption
    DEF TypeOK, PCs, Reports, Record, MaybeFiles, Content, Files, files, services, process
<1>1. CASE StartFresh
  BY <1>0, <1>1, NoRecordType DEF StartFresh, FreshAllowed, Enter, NoRecord, NoFiles
<1>2. CASE RefuseFresh
  BY <1>0, <1>2 DEF RefuseFresh, Exit
<1>3. CASE Resume
  BY <1>0, <1>3, PhaseAfterStep DEF Resume, Enter
<1>4. CASE Recheck
  BY <1>0, <1>4, PhaseAfterStep DEF Recheck, InSync
<1>5. CASE Preflight
  BY <1>0, <1>5 DEF Preflight, InSync
<1>6. CASE DetectNetwork
  BY <1>0, <1>6 DEF DetectNetwork, Save, Go
<1>7. CASE BackupConfig
  BY <1>0, <1>7 DEF BackupConfig, Save, Go
<1>8. CASE BackedUp
  BY <1>0, <1>8 DEF BackedUp, Save, Go
<1>9. CASE ClearStaging
  BY <1>0, <1>9, StagedRemoved DEF ClearStaging, Go
<1>10. CASE ImportSecp
  BY <1>0, <1>10 DEF ImportSecp, Go
<1>11. CASE ImportBls
  BY <1>0, <1>11 DEF ImportBls, Go
<1>12. CASE RecordSecp
  BY <1>0, <1>12 DEF RecordSecp, RecordSha, Save, Go
<1>13. CASE RecordBls
  BY <1>0, <1>13 DEF RecordBls, RecordSha, Save, Go
<1>14. CASE Imported
  BY <1>0, <1>14 DEF Imported, Save, Go
<1>15. CASE Configure
  BY <1>0, <1>15 DEF Configure, Go
<1>16. CASE Configured
  BY <1>0, <1>16 DEF Configured, Save, Go
<1>17. CASE SignRecord
  <2>1. staged' \in MaybeFiles
    BY <1>0, <1>17 DEF SignRecord
  <2>2. UNCHANGED <<rec, live, gen, services>>
    BY <1>17 DEF SignRecord
  <2>3. pc' \in PCs /\ checked' \in BOOLEAN /\ pending' \in BOOLEAN /\ told' \in Reports
    BY <1>17 DEF SignRecord, Go, Exit
  <2> QED BY <1>0, <2>1, <2>2, <2>3
<1>18. CASE RecordToml
  BY <1>0, <1>18 DEF RecordToml, RecordSha, Save, Go
<1>19. CASE Signed
  BY <1>0, <1>19 DEF Signed, Save, Go
<1>20. CASE SkipSwap
  BY <1>0, <1>20 DEF SkipSwap, Go
<1>21. CASE ConfirmPlan
  BY <1>0, <1>21 DEF ConfirmPlan, Go
<1>22. CASE RejectStarted
  BY <1>0, <1>22 DEF RejectStarted, Exit
<1>23. CASE RejectPlan
  BY <1>0, <1>23, StagedRemoved DEF RejectPlan, Go
<1>24. CASE DiscardRecord
  BY <1>0, <1>24, NoRecordType DEF DiscardRecord, NoRecord, NoFiles, Exit
<1>25. CASE VetPlan
  BY <1>0, <1>25 DEF VetPlan, Vetted, StagedIntact, AlreadyInPlace, Go
<1>26. ASSUME NEW f \in Files, RefusePlan(f)
      PROVE  TypeOK'
  BY <1>0, <1>26 DEF RefusePlan, Exit
<1>27. CASE MarkStarted
  BY <1>0, <1>27 DEF MarkStarted, Save, Go
<1>28. CASE ObserveMasks
  BY <1>0, <1>28 DEF ObserveMasks, Save, Go
<1>29. CASE Observed
  BY <1>0, <1>29 DEF Observed, Save, Go
<1>30. ASSUME NEW S \in SUBSET Units, MaskServices(S)
      PROVE  TypeOK'
  BY <1>0, <1>30 DEF MaskServices, Go
<1>31. CASE CheckMask
  BY <1>0, <1>31 DEF CheckMask, Go, Exit
<1>32. ASSUME NEW S \in SUBSET Units, StopServices(S)
      PROVE  TypeOK'
  BY <1>0, <1>32 DEF StopServices, Go
<1>33. CASE CheckStop
  BY <1>0, <1>33 DEF CheckStop, Go, Exit
<1>34. ASSUME NEW f \in Files, Place(f)
      PROVE  TypeOK'
  BY <1>0, <1>34 DEF Place, RenameAt, UnlinkAt, Go
<1>35. ASSUME NEW f \in Files, Unstage(f)
      PROVE  TypeOK'
  BY <1>0, <1>35 DEF Unstage, AfterPlacing, UnlinkAt, Go
<1>36. ASSUME NEW f \in Files, PlacedEarlier(f)
      PROVE  TypeOK'
  BY <1>0, <1>36 DEF PlacedEarlier, AfterPlacing, RenameAt, Go
<1>37. ASSUME NEW f \in Files, NotPlaced(f)
      PROVE  TypeOK'
  BY <1>0, <1>37 DEF NotPlaced, Exit
<1>38. ASSUME NEW f \in Files, RefusePlacement(f)
      PROVE  TypeOK'
  BY <1>0, <1>38 DEF RefusePlacement, Exit
<1>39. CASE MarkSwapped
  BY <1>0, <1>39 DEF MarkSwapped, Save, Go
<1>40. CASE CheckLive
  BY <1>0, <1>40 DEF CheckLive, Go, Exit
<1>41. ASSUME NEW S \in SUBSET Units, UnmaskServices(S)
      PROVE  TypeOK'
  BY <1>0, <1>41 DEF UnmaskServices, OwnUnits, Go
<1>42. CASE CheckUnmask
  BY <1>0, <1>42 DEF CheckUnmask, OwnUnits, Go, Exit
<1>43. ASSUME NEW S \in SUBSET Units, StartServices(S)
      PROVE  TypeOK'
  BY <1>0, <1>43 DEF StartServices, OwnUnits, Started, Go, Exit
<1>44. CASE CutoverDone
  BY <1>0, <1>44 DEF CutoverDone, Save, Go
<1>45. CASE CheckHealth
  BY <1>0, <1>45 DEF CheckHealth, Go, Exit
<1>46. ASSUME NEW seen \in BOOLEAN, WaitForSync(seen)
      PROVE  TypeOK'
  BY <1>0, <1>46 DEF WaitForSync
<1>47. CASE ExportKeys
  BY <1>0, <1>47 DEF ExportKeys, Save, Go
<1>48. CASE Cleanup
  BY <1>0, <1>48, StagedRemoved DEF Cleanup, Go
<1>49. CASE Finish
  BY <1>0, <1>49, NoRecordType DEF Finish, NoRecord, NoFiles, Exit
<1>50. CASE Stop
  BY <1>0, <1>50 DEF Stop, Exit
<1>51. ASSUME NEW S \in SUBSET Units, Reboot(S)
      PROVE  TypeOK'
  BY <1>0, <1>51 DEF Reboot, Exit
<1>52. ASSUME NEW u \in Units, UnitDies(u)
      PROVE  TypeOK'
  BY <1>0, <1>52 DEF UnitDies
<1>53. ASSUME NEW u \in Units, OperatorStart(u)
      PROVE  TypeOK'
  BY <1>0, <1>53 DEF OperatorStart
<1>54. ASSUME NEW u \in Units, OperatorUnmask(u)
      PROVE  TypeOK'
  BY <1>0, <1>54 DEF OperatorUnmask, Required
<1>55. CASE UNCHANGED vars
  BY <1>0, <1>55 DEF vars
<1>56. CASE Prepare
  BY <1>56, <1>4, <1>5, <1>6, <1>7, <1>8, <1>9, <1>10, <1>11, <1>12, <1>13, <1>14, <1>15,
         <1>16, <1>17, <1>18, <1>19 DEF Prepare
<1>57. CASE Swap
  BY <1>57, <1>20, <1>25, <1>27, <1>28, <1>29, <1>30, <1>31, <1>32, <1>33, <1>26, <1>34,
         <1>35, <1>36, <1>38, <1>39 DEF Swap
<1>58. CASE BringUp
  BY <1>58, <1>40, <1>41, <1>42, <1>43, <1>44, <1>45, <1>46, <1>47, <1>48, <1>49 DEF BringUp,
         OwnUnits
<1>59. CASE Operator
  BY <1>59, <1>1, <1>2, <1>3, <1>21, <1>22, <1>23, <1>53, <1>54 DEF Operator
<1>60. CASE Fault
  BY <1>60, <1>50, <1>51, <1>52, <1>37, <1>30, <1>32, <1>41, <1>43 DEF Fault
<1>61. ASSUME NEW f \in Files, TamperLive(f)
      PROVE  TypeOK'
  BY <1>0, <1>61 DEF TamperLive
<1>62. ASSUME NEW f \in Files, TamperStaged(f)
      PROVE  TypeOK'
  BY <1>0, <1>62 DEF TamperStaged
<1> QED
  BY <1>46, <1>24, <1>55, <1>56, <1>57, <1>58, <1>59, <1>60, <1>61, <1>62 DEF Next, Work, Tamper

(* Where the process stands, what is recorded and what is masked agree after *)
(* every step, whatever the files hold.                                       *)
LEMMA FlowNext == TypeOK /\ FlowInv /\ [Next \/ Tamper]_vars => FlowInv'
<1> SUFFICES ASSUME TypeOK, FlowInv, [Next \/ Tamper]_vars PROVE FlowInv'
  OBVIOUS
<1>0. /\ rec \in Record /\ staged \in MaybeFiles /\ live \in [Files -> Content]
      /\ gen \in 0..MaxGen /\ masked \subseteq Units /\ opmask \subseteq Units
      /\ running \in [Units -> [Files -> Content] \cup {Down}]
  BY DEF TypeOK
<1> USE RpcAssumption, MarkerAssumption, MaxGenAssumption
    DEF FlowInv, ProcessInv, RecordInv, MaskInv, Planning, Masking, Placing, Rising, Active, Record,
        Files, files, services, process
<1>1. CASE StartFresh
  BY <1>0, <1>1 DEF StartFresh, FreshAllowed, Enter, NoRecord, NoFiles
<1>2. CASE RefuseFresh
  BY <1>0, <1>2 DEF RefuseFresh, Exit
<1>3. CASE Resume
  BY <1>0, <1>3, PhaseAfterStep DEF Resume, Enter
<1>4. CASE Recheck
  BY <1>0, <1>4, PhaseAfterStep DEF Recheck, InSync
<1>5. CASE Preflight
  BY <1>0, <1>5 DEF Preflight, InSync
<1>6. CASE DetectNetwork
  BY <1>0, <1>6 DEF DetectNetwork, Save, Go
<1>7. CASE BackupConfig
  BY <1>0, <1>7 DEF BackupConfig, Save, Go
<1>8. CASE BackedUp
  BY <1>0, <1>8 DEF BackedUp, Save, Go
<1>9. CASE ClearStaging
  BY <1>0, <1>9, StagedRemoved DEF ClearStaging, Go
<1>10. CASE ImportSecp
  BY <1>0, <1>10 DEF ImportSecp, Go
<1>11. CASE ImportBls
  BY <1>0, <1>11 DEF ImportBls, Go
<1>12. CASE RecordSecp
  BY <1>0, <1>12 DEF RecordSecp, RecordSha, Save, Go
<1>13. CASE RecordBls
  BY <1>0, <1>13 DEF RecordBls, RecordSha, Save, Go
<1>14. CASE Imported
  BY <1>0, <1>14 DEF Imported, Save, Go
<1>15. CASE Configure
  BY <1>0, <1>15 DEF Configure, Go
<1>16. CASE Configured
  BY <1>0, <1>16 DEF Configured, Save, Go
<1>17. CASE SignRecord
  BY <1>0, <1>17 DEF SignRecord, Go, Exit
<1>18. CASE RecordToml
  BY <1>0, <1>18 DEF RecordToml, RecordSha, Save, Go
<1>19. CASE Signed
  BY <1>0, <1>19 DEF Signed, Save, Go
<1>20. CASE SkipSwap
  BY <1>0, <1>20 DEF SkipSwap, Go
<1>21. CASE ConfirmPlan
  BY <1>0, <1>21 DEF ConfirmPlan, Go
<1>22. CASE RejectStarted
  BY <1>0, <1>22 DEF RejectStarted, Exit
<1>23. CASE RejectPlan
  BY <1>0, <1>23, StagedRemoved DEF RejectPlan, Go
<1>24. CASE DiscardRecord
  BY <1>0, <1>24 DEF DiscardRecord, NoRecord, NoFiles, Exit
<1>25. CASE VetPlan
  BY <1>0, <1>25 DEF VetPlan, Vetted, StagedIntact, AlreadyInPlace, Go
<1>26. ASSUME NEW f \in Files, RefusePlan(f)
      PROVE  FlowInv'
  BY <1>0, <1>26 DEF RefusePlan, Exit
<1>27. CASE MarkStarted
  BY <1>0, <1>27 DEF MarkStarted, Save, Go
<1>28. CASE ObserveMasks
  BY <1>0, <1>28 DEF ObserveMasks, Save, Go
<1>29. CASE Observed
  BY <1>0, <1>29 DEF Observed, Save, Go
<1>30. ASSUME NEW S \in SUBSET Units, MaskServices(S)
      PROVE  FlowInv'
  BY <1>0, <1>30 DEF MaskServices, Go
<1>31. CASE CheckMask
  BY <1>0, <1>31 DEF CheckMask, Go, Exit
<1>32. ASSUME NEW S \in SUBSET Units, StopServices(S)
      PROVE  FlowInv'
  BY <1>0, <1>32 DEF StopServices, Go
<1>33. CASE CheckStop
  BY <1>0, <1>33 DEF CheckStop, Go, Exit
<1>34. ASSUME NEW f \in Files, Place(f)
      PROVE  FlowInv'
  BY <1>0, <1>34 DEF Place, RenameAt, UnlinkAt, Go
<1>35. ASSUME NEW f \in Files, Unstage(f)
      PROVE  FlowInv'
  BY <1>0, <1>35 DEF Unstage, AfterPlacing, UnlinkAt, Go
<1>36. ASSUME NEW f \in Files, PlacedEarlier(f)
      PROVE  FlowInv'
  BY <1>0, <1>36 DEF PlacedEarlier, AfterPlacing, RenameAt, Go
<1>37. ASSUME NEW f \in Files, NotPlaced(f)
      PROVE  FlowInv'
  BY <1>0, <1>37 DEF NotPlaced, Exit
<1>38. ASSUME NEW f \in Files, RefusePlacement(f)
      PROVE  FlowInv'
  BY <1>0, <1>38 DEF RefusePlacement, Exit
<1>39. CASE MarkSwapped
  BY <1>0, <1>39 DEF MarkSwapped, Save, Go
<1>40. CASE CheckLive
  BY <1>0, <1>40 DEF CheckLive, Go, Exit
<1>41. ASSUME NEW S \in SUBSET Units, UnmaskServices(S)
      PROVE  FlowInv'
  BY <1>0, <1>41 DEF UnmaskServices, OwnUnits, Go
<1>42. CASE CheckUnmask
  BY <1>0, <1>42 DEF CheckUnmask, OwnUnits, Go, Exit
<1>43. ASSUME NEW S \in SUBSET Units, StartServices(S)
      PROVE  FlowInv'
  BY <1>0, <1>43 DEF StartServices, OwnUnits, Started, Go, Exit
<1>44. CASE CutoverDone
  BY <1>0, <1>44 DEF CutoverDone, Save, Go
<1>45. CASE CheckHealth
  BY <1>0, <1>45 DEF CheckHealth, Go, Exit
<1>46. ASSUME NEW seen \in BOOLEAN, WaitForSync(seen)
      PROVE  FlowInv'
  BY <1>0, <1>46 DEF WaitForSync
<1>47. CASE ExportKeys
  BY <1>0, <1>47 DEF ExportKeys, Save, Go
<1>48. CASE Cleanup
  BY <1>0, <1>48, StagedRemoved DEF Cleanup, Go
<1>49. CASE Finish
  BY <1>0, <1>49 DEF Finish, NoRecord, NoFiles, Exit
<1>50. CASE Stop
  BY <1>0, <1>50 DEF Stop, Exit
<1>51. ASSUME NEW S \in SUBSET Units, Reboot(S)
      PROVE  FlowInv'
  BY <1>0, <1>51 DEF Reboot, Exit
<1>52. ASSUME NEW u \in Units, UnitDies(u)
      PROVE  FlowInv'
  BY <1>0, <1>52 DEF UnitDies
<1>53. ASSUME NEW u \in Units, OperatorStart(u)
      PROVE  FlowInv'
  BY <1>0, <1>53 DEF OperatorStart
<1>54. ASSUME NEW u \in Units, OperatorUnmask(u)
      PROVE  FlowInv'
  BY <1>0, <1>54 DEF OperatorUnmask, Required
<1>55. CASE UNCHANGED vars
  BY <1>0, <1>55 DEF vars
<1>56. CASE Prepare
  BY <1>56, <1>4, <1>5, <1>6, <1>7, <1>8, <1>9, <1>10, <1>11, <1>12, <1>13, <1>14, <1>15,
         <1>16, <1>17, <1>18, <1>19 DEF Prepare
<1>57. CASE Swap
  BY <1>57, <1>20, <1>25, <1>27, <1>28, <1>29, <1>30, <1>31, <1>32, <1>33, <1>26, <1>34,
         <1>35, <1>36, <1>38, <1>39 DEF Swap
<1>58. CASE BringUp
  BY <1>58, <1>40, <1>41, <1>42, <1>43, <1>44, <1>45, <1>46, <1>47, <1>48, <1>49 DEF BringUp,
         OwnUnits
<1>59. CASE Operator
  BY <1>59, <1>1, <1>2, <1>3, <1>21, <1>22, <1>23, <1>53, <1>54 DEF Operator
<1>60. CASE Fault
  BY <1>60, <1>50, <1>51, <1>52, <1>37, <1>30, <1>32, <1>41, <1>43 DEF Fault
<1>61. ASSUME NEW f \in Files, TamperLive(f)
      PROVE  FlowInv'
  BY <1>0, <1>61 DEF TamperLive
<1>62. ASSUME NEW f \in Files, TamperStaged(f)
      PROVE  FlowInv'
  BY <1>0, <1>62 DEF TamperStaged
<1> QED
  BY <1>46, <1>24, <1>55, <1>56, <1>57, <1>58, <1>59, <1>60, <1>61, <1>62 DEF Next, Work, Tamper

(* The record binds what the two directories hold.  Each placement relies on *)
(* the checksums that the earlier phases recorded.                            *)
LEMMA DataNext == IInv /\ [Next]_vars => DataInv'
<1> SUFFICES ASSUME IInv, [Next]_vars PROVE DataInv'
  OBVIOUS
<1>0. /\ rec \in Record /\ staged \in MaybeFiles /\ live \in [Files -> Content]
      /\ gen \in 0..MaxGen /\ masked \subseteq Units /\ opmask \subseteq Units
      /\ running \in [Units -> [Files -> Content] \cup {Down}]
  BY DEF IInv, TypeOK
<1> USE RpcAssumption, MarkerAssumption, MaxGenAssumption
    DEF IInv, FlowInv, DataInv, ProcessInv, RecordInv, StagingInv, LiveInv, MaskInv, Planning, Masking, Placing,
        Rising, Whole, Active, Record, MaybeFiles, Content, Files, files, services, process
<1>1. CASE StartFresh
  BY <1>0, <1>1 DEF StartFresh, FreshAllowed, Enter, NoRecord, NoFiles
<1>2. CASE RefuseFresh
  BY <1>0, <1>2 DEF RefuseFresh, Exit
<1>3. CASE Resume
  BY <1>0, <1>3, PhaseAfterStep DEF Resume, Enter
<1>4. CASE Recheck
  BY <1>0, <1>4, PhaseAfterStep DEF Recheck, InSync
<1>5. CASE Preflight
  BY <1>0, <1>5 DEF Preflight, InSync
<1>6. CASE DetectNetwork
  BY <1>0, <1>6 DEF DetectNetwork, Save, Go
<1>7. CASE BackupConfig
  BY <1>0, <1>7 DEF BackupConfig, Save, Go
<1>8. CASE BackedUp
  BY <1>0, <1>8 DEF BackedUp, Save, Go
<1>9. CASE ClearStaging
  BY <1>0, <1>9, StagedRemoved DEF ClearStaging, Go
<1>10. CASE ImportSecp
  BY <1>0, <1>10 DEF ImportSecp, Go
<1>11. CASE ImportBls
  BY <1>0, <1>11 DEF ImportBls, Go
<1>12. CASE RecordSecp
  BY <1>0, <1>12 DEF RecordSecp, RecordSha, Save, Go
<1>13. CASE RecordBls
  BY <1>0, <1>13 DEF RecordBls, RecordSha, Save, Go
<1>14. CASE Imported
  BY <1>0, <1>14 DEF Imported, Save, Go
<1>15. CASE Configure
  BY <1>0, <1>15 DEF Configure, Go
<1>16. CASE Configured
  BY <1>0, <1>16 DEF Configured, Save, Go
<1>17. CASE SignRecord
  BY <1>0, <1>17 DEF SignRecord, Go, Exit
<1>18. CASE RecordToml
  BY <1>0, <1>18 DEF RecordToml, RecordSha, Save, Go
<1>19. CASE Signed
  BY <1>0, <1>19 DEF Signed, Save, Go
<1>20. CASE SkipSwap
  BY <1>0, <1>20 DEF SkipSwap, Go
<1>21. CASE ConfirmPlan
  BY <1>0, <1>21 DEF ConfirmPlan, Go
<1>22. CASE RejectStarted
  BY <1>0, <1>22 DEF RejectStarted, Exit
<1>23. CASE RejectPlan
  BY <1>0, <1>23, StagedRemoved DEF RejectPlan, Go
<1>24. CASE DiscardRecord
  BY <1>0, <1>24 DEF DiscardRecord, NoRecord, NoFiles, Exit
<1>25. CASE VetPlan
  BY <1>0, <1>25 DEF VetPlan, Vetted, StagedIntact, AlreadyInPlace, Go
<1>26. ASSUME NEW f \in Files, RefusePlan(f)
      PROVE  DataInv'
  BY <1>0, <1>26 DEF RefusePlan, Exit
<1>27. CASE MarkStarted
  BY <1>0, <1>27 DEF MarkStarted, Save, Go
<1>28. CASE ObserveMasks
  BY <1>0, <1>28 DEF ObserveMasks, Save, Go
<1>29. CASE Observed
  BY <1>0, <1>29 DEF Observed, Save, Go
<1>30. ASSUME NEW S \in SUBSET Units, MaskServices(S)
      PROVE  DataInv'
  BY <1>0, <1>30 DEF MaskServices, Go
<1>31. CASE CheckMask
  BY <1>0, <1>31 DEF CheckMask, Go, Exit
<1>32. ASSUME NEW S \in SUBSET Units, StopServices(S)
      PROVE  DataInv'
  BY <1>0, <1>32 DEF StopServices, Go
<1>33. CASE CheckStop
  BY <1>0, <1>33 DEF CheckStop, Go, Exit
<1>34. ASSUME NEW f \in Files, Place(f)
      PROVE  DataInv'
  BY <1>0, <1>34 DEF Place, RenameAt, UnlinkAt, Go
<1>35. ASSUME NEW f \in Files, Unstage(f)
      PROVE  DataInv'
  BY <1>0, <1>35 DEF Unstage, AfterPlacing, UnlinkAt, Go
<1>36. ASSUME NEW f \in Files, PlacedEarlier(f)
      PROVE  DataInv'
  BY <1>0, <1>36 DEF PlacedEarlier, AfterPlacing, RenameAt, Go
<1>37. ASSUME NEW f \in Files, NotPlaced(f)
      PROVE  DataInv'
  BY <1>0, <1>37 DEF NotPlaced, Exit
<1>38. ASSUME NEW f \in Files, RefusePlacement(f)
      PROVE  DataInv'
  BY <1>0, <1>38 DEF RefusePlacement, Exit
<1>39. CASE MarkSwapped
  BY <1>0, <1>39 DEF MarkSwapped, Save, Go
<1>40. CASE CheckLive
  BY <1>0, <1>40 DEF CheckLive, Go, Exit
<1>41. ASSUME NEW S \in SUBSET Units, UnmaskServices(S)
      PROVE  DataInv'
  BY <1>0, <1>41 DEF UnmaskServices, OwnUnits, Go
<1>42. CASE CheckUnmask
  BY <1>0, <1>42 DEF CheckUnmask, OwnUnits, Go, Exit
<1>43. ASSUME NEW S \in SUBSET Units, StartServices(S)
      PROVE  DataInv'
  BY <1>0, <1>43 DEF StartServices, OwnUnits, Started, Go, Exit
<1>44. CASE CutoverDone
  BY <1>0, <1>44 DEF CutoverDone, Save, Go
<1>45. CASE CheckHealth
  BY <1>0, <1>45 DEF CheckHealth, Go, Exit
<1>46. ASSUME NEW seen \in BOOLEAN, WaitForSync(seen)
      PROVE  DataInv'
  BY <1>0, <1>46 DEF WaitForSync
<1>47. CASE ExportKeys
  BY <1>0, <1>47 DEF ExportKeys, Save, Go
<1>48. CASE Cleanup
  BY <1>0, <1>48, StagedRemoved DEF Cleanup, Go
<1>49. CASE Finish
  BY <1>0, <1>49 DEF Finish, NoRecord, NoFiles, Exit
<1>50. CASE Stop
  BY <1>0, <1>50 DEF Stop, Exit
<1>51. ASSUME NEW S \in SUBSET Units, Reboot(S)
      PROVE  DataInv'
  BY <1>0, <1>51 DEF Reboot, Exit
<1>52. ASSUME NEW u \in Units, UnitDies(u)
      PROVE  DataInv'
  BY <1>0, <1>52 DEF UnitDies
<1>53. ASSUME NEW u \in Units, OperatorStart(u)
      PROVE  DataInv'
  BY <1>0, <1>53 DEF OperatorStart
<1>54. ASSUME NEW u \in Units, OperatorUnmask(u)
      PROVE  DataInv'
  BY <1>0, <1>54 DEF OperatorUnmask, Required
<1>55. CASE UNCHANGED vars
  BY <1>0, <1>55 DEF vars
<1>56. CASE Prepare
  BY <1>56, <1>4, <1>5, <1>6, <1>7, <1>8, <1>9, <1>10, <1>11, <1>12, <1>13, <1>14, <1>15,
         <1>16, <1>17, <1>18, <1>19 DEF Prepare
<1>57. CASE Swap
  BY <1>57, <1>20, <1>25, <1>27, <1>28, <1>29, <1>30, <1>31, <1>32, <1>33, <1>26, <1>34,
         <1>35, <1>36, <1>38, <1>39 DEF Swap
<1>58. CASE BringUp
  BY <1>58, <1>40, <1>41, <1>42, <1>43, <1>44, <1>45, <1>46, <1>47, <1>48, <1>49 DEF BringUp,
         OwnUnits
<1>59. CASE Operator
  BY <1>59, <1>1, <1>2, <1>3, <1>21, <1>22, <1>23, <1>53, <1>54 DEF Operator
<1>60. CASE Fault
  BY <1>60, <1>50, <1>51, <1>52, <1>37, <1>30, <1>32, <1>41, <1>43 DEF Fault
<1> QED
  BY <1>46, <1>24, <1>55, <1>56, <1>57, <1>58, <1>59, <1>60 DEF Next, Work

(* What runs is what is on disk: the files change only while every unit is   *)
(* down, and units start with what is there.                                  *)
LEMMA ServiceNext == IInv /\ [Next]_vars => ServiceInv'
<1> SUFFICES ASSUME IInv, [Next]_vars PROVE ServiceInv'
  OBVIOUS
<1> USE DEF ServiceInv, Active
<1>0. /\ running \in [Units -> [Files -> Content] \cup {Down}]
      /\ \A u \in Units : running[u] # Down => running[u] = live
  BY DEF IInv, TypeOK
<1>1. ASSUME NEW f \in Files, Place(f)
      PROVE  ServiceInv'
  <2>1. Active = {}
    BY <1>1 DEF Place, RenameAt, IInv, FlowInv, MaskInv, Placing, Files
  <2> QED
    BY <1>0, <1>1, <2>1 DEF Place, services
<1>2. CASE UNCHANGED live
  <2>1. ASSUME NEW S \in SUBSET Units, StopServices(S) \/ StartServices(S) \/ Reboot(S)
        PROVE  ServiceInv'
    BY <1>0, <1>2, <2>1 DEF StopServices, StartServices, Started, Reboot
  <2>2. ASSUME NEW u \in Units, UnitDies(u) \/ OperatorStart(u)
        PROVE  ServiceInv'
    BY <1>0, <1>2, <2>2 DEF UnitDies, OperatorStart
  <2> QED
    BY <1>0, <1>2, <2>1, <2>2, RunningChanges
<1> QED
  BY <1>1, <1>2, LiveChanges

(* A whole identity is on disk before the swap and after it. *)
LEMMA WholeOutsideSwap ==
  ASSUME IInv, ~rec.started \/ rec.swapped
  PROVE  Whole(live)
BY DEF IInv, TypeOK, Record, FlowInv, DataInv, RecordInv, StagingInv, LiveInv, Whole

(* While the files are of two identities no step lifts a mask or starts a     *)
(* unit, and the record is kept.                                              *)
LEMMA MixedNext == IInv /\ [Next]_vars => MixedIsLocked'
<1> SUFFICES ASSUME IInv, [Next]_vars, ~Whole(live')
             PROVE  rec'.started /\ Units \subseteq masked' /\ Active' = {}
  BY DEF MixedIsLocked
<1> USE DEF Active
<1>0. /\ rec \in Record /\ masked \subseteq Units
      /\ running \in [Units -> [Files -> Content] \cup {Down}]
  BY DEF IInv, TypeOK
<1>1. ASSUME NEW f \in Files, Place(f)
      PROVE  rec'.started /\ Units \subseteq masked' /\ Active' = {}
  <2>1. pc \in Placing
    BY <1>1 DEF Place, RenameAt, Placing, Files
  <2> QED
    BY <1>1, <2>1 DEF Place, services, IInv, FlowInv, ProcessInv, MaskInv
<1>2. CASE UNCHANGED live
  <2>1. rec.started /\ Units \subseteq masked /\ Active = {} /\ ~rec.swapped
    BY <1>2, WholeOutsideSwap DEF IInv, MixedIsLocked, Whole
  <2>2. rec.step = 6
    BY <1>0, <2>1 DEF IInv, FlowInv, RecordInv, Record
  <2>3. pc \notin Rising \cup {"discard", "finish"}
    BY <2>1, <2>2 DEF IInv, FlowInv, ProcessInv
  <2>4. rec'.started
    BY <1>0, <2>1, <2>2, <2>3, BegunChanges
       DEF StartFresh, FreshAllowed, MarkStarted, Save, DiscardRecord, Finish, Record
  <2>5. Units \subseteq masked'
    BY <2>1, <2>2, <2>3, MaskChanges DEF MaskServices, UnmaskServices, OperatorUnmask, Rising
  <2>6. Active' = {}
    BY <1>0, <2>1, RunningChanges
       DEF StopServices, StartServices, Started, Reboot, UnitDies, OperatorStart, OwnUnits
  <2> QED
    BY <2>4, <2>5, <2>6
<1> QED
  BY <1>1, <1>2, LiveChanges

(* The initial states. *)
LEMMA InvInit == Init => IInv
<1> SUFFICES ASSUME Init PROVE IInv
  OBVIOUS
<1>1. Generation(0) \in [Files -> Content] /\ NoFiles \in MaybeFiles
  BY DEF Generation, NoFiles, Content, MaybeFiles
<1>2. running \in [Units -> [Files -> Content] \cup {Down}]
  BY <1>1 DEF Init
<1>3. TypeOK
  <2>1. pc \in PCs /\ told \in Reports
    BY DEF Init, PCs, Reports
  <2>2. gen \in 0..MaxGen
    BY MaxGenAssumption DEF Init
  <2> QED
    BY <1>1, <1>2, <2>1, <2>2, NoRecordType DEF Init, TypeOK
<1> USE MarkerAssumption DEF Init, Generation, NoRecord, NoFiles
<1>4. FlowInv
  BY DEF FlowInv, ProcessInv, RecordInv, MaskInv, Planning, Masking, Placing, Rising
<1>5. DataInv
  BY DEF DataInv, StagingInv, LiveInv, Whole, Files
<1>6. ServiceInv /\ MixedIsLocked
  BY DEF ServiceInv, MixedIsLocked, Whole, Active, Files
<1> QED
  BY <1>3, <1>4, <1>5, <1>6 DEF IInv

(* Every step keeps the whole inductive invariant. *)
LEMMA InvNext == IInv /\ [Next]_vars => IInv'
  BY TypeNext, FlowNext, DataNext, ServiceNext, MixedNext DEF IInv

(* The inductive invariant holds in every reachable state. *)
THEOREM Invariance == Spec => []IInv
  BY InvInit, InvNext, PTL DEF Spec

-----------------------------------------------------------------------------
(* Every reachable state is well typed. *)
THEOREM TypeCorrect == Spec => []TypeOK
<1>1. IInv => TypeOK
  BY DEF IInv
<1> QED
  BY <1>1, Invariance, PTL

(* No unit ever runs with files of two identities and no two units run with *)
(* different identities, wherever a run is interrupted (maskServices,        *)
(* stopServices, placeOne, verifyLiveIdentity).                              *)
THEOREM OneIdentityHolds == Spec => []OneIdentity
<1>1. IInv => OneIdentity
  BY DEF IInv, ServiceInv, MixedIsLocked, OneIdentity
<1> QED
  BY <1>1, Invariance, PTL

(* Mixed files on disk are always behind the mask of every unit. *)
THEOREM MixedIsLockedHolds == Spec => []MixedIsLocked
<1>1. IInv => MixedIsLocked
  BY DEF IInv
<1> QED
  BY <1>1, Invariance, PTL

(* From the mark of the cutover on, every confirmed file is staged or live, *)
(* and the backup is the whole identity the node had.                        *)
THEOREM RecoverableHolds == Spec => []Recoverable
<1>1. IInv => Recoverable
  BY DEF IInv, TypeOK, Record, FlowInv, DataInv, RecordInv, StagingInv, LiveInv, Recoverable, Whole,
         Files
<1> QED
  BY <1>1, Invariance, PTL

(* The masks of the operator are kept while a process is up to the end of    *)
(* phase 7, and the run's own are recorded before they are made.              *)
LEMMA MasksInFlow == TypeOK /\ FlowInv => MasksAccounted
  BY DEF TypeOK, Record, FlowInv, RecordInv, MaskInv, MasksAccounted

(* The operator's masks are kept and the run's own are accounted for. *)
THEOREM MasksAccountedHolds == Spec => []MasksAccounted
<1>1. IInv => MasksAccounted
  BY MasksInFlow DEF IInv
<1> QED
  BY <1>1, Invariance, PTL

-----------------------------------------------------------------------------
(* The mark of the cutover is the last step of a plan made in sync. *)
LEMMA BegunInSync == ASSUME TypeOK, FlowInv, [Next]_vars, ~rec.started, rec'.started PROVE checked
<1>1. MarkStarted
  <2>1. rec \in Record
    BY DEF TypeOK
  <2>2. ~(StartFresh \/ DiscardRecord \/ Finish)
    BY DEF StartFresh, DiscardRecord, Finish, NoRecord
  <2>3. rec'.started # rec.started
    OBVIOUS
  <2> QED
    BY <2>1, <2>2, <2>3, BegunChanges
<1> QED
  BY <1>1 DEF MarkStarted, FlowInv, ProcessInv

(* The cutover begins only in a process that saw the node in sync itself *)
(* (Run.Promote's second checkSync on a resume).                          *)
THEOREM BeginsInSyncHolds == Spec => BeginsInSync
<1>1. IInv /\ [Next]_vars => [~rec.started /\ rec'.started => checked]_vars
  BY BegunInSync DEF IInv
<1> QED
  BY <1>1, Invariance, PTL DEF Spec, BeginsInSync

(* Only Run.finish gives up the record of a begun cutover. *)
LEMMA EndedByFinish ==
  ASSUME IInv, [Next]_vars, rec.started, ~rec'.started
  PROVE  /\ live = rec.sha /\ masked = opmask
         /\ \A f \in Files : staged[f] \in {live[f], Absent}
<1>1. rec.step >= 6 /\ rec.step \in 0..8
  BY DEF IInv, TypeOK, Record, FlowInv, RecordInv
<1>2. pc # "discard"
  BY DEF IInv, FlowInv, ProcessInv
<1>3. Finish
  BY <1>2, BegunChanges DEF IInv, TypeOK, Record, StartFresh, FreshAllowed, MarkStarted, Save, DiscardRecord
<1>4. pc = "finish" /\ rec.step >= 7
  BY <1>1, <1>3 DEF Finish, IInv, FlowInv, ProcessInv
<1>5. live = rec.sha /\ masked = opmask
  BY <1>4 DEF IInv, FlowInv, RecordInv, MaskInv, DataInv, LiveInv
<1>6. \A f \in Files : staged[f] \in {rec.sha[f], Absent}
  BY <1>1 DEF IInv, DataInv, StagingInv, Files
<1> QED
  BY <1>5, <1>6

(* A begun cutover is forgotten only when it is done (Run.finish): the three *)
(* files live, the run's own masks lifted, and whatever could not be removed  *)
(* from staging a copy of what is live.                                       *)
THEOREM EndsDoneHolds == Spec => EndsDone
<1>1. IInv /\ [Next]_vars
        => [rec.started /\ ~rec'.started =>
              /\ live = rec.sha /\ masked = opmask
              /\ \A f \in Files : staged[f] \in {live[f], Absent}]_vars
  BY EndedByFinish
<1> QED
  BY <1>1, Invariance, PTL DEF Spec, EndsDone

-----------------------------------------------------------------------------
(* Files change behind the run.  The process, the record and the masks still *)
(* agree (FlowInv), and a process that has verified the live files goes on   *)
(* over those very files.                                                    *)

(* Services come back only behind verifyLiveIdentity, over the same files. *)
LEMMA UnmaskingFollowsCheck ==
  ASSUME TypeOK, [Next]_vars, pc' \in Unmasking
  PROVE  CheckLive \/ (pc \in Unmasking /\ UNCHANGED <<rec, live>>)
<1> USE DEF Unmasking, Rising, process, files, Save, Go, Exit, Enter, InSync
<1>0. rec.step \in 0..8
  BY DEF TypeOK, Record
<1>1. CASE Prepare
  BY <1>0, <1>1, PhaseAfterStep DEF Prepare, Recheck, Preflight, DetectNetwork, BackupConfig, BackedUp, ClearStaging,
     ImportSecp, ImportBls, RecordSecp, RecordBls, Imported, Configure, Configured, SignRecord,
     RecordToml, Signed, RecordSha
<1>2. CASE Swap
  BY <1>2 DEF RenameAt, UnlinkAt, AfterPlacing, Files, Swap, SkipSwap, VetPlan, MarkStarted, ObserveMasks, Observed, MaskServices,
     CheckMask, StopServices, CheckStop, RefusePlan, Place, Unstage, PlacedEarlier,
     RefusePlacement, MarkSwapped
<1>3. CASE BringUp \/ WaitForSync(TRUE) \/ DiscardRecord
  BY <1>3 DEF BringUp, UnmaskServices, CheckUnmask, StartServices, CutoverDone, CheckHealth,
     WaitForSync, ExportKeys, Cleanup, Finish, DiscardRecord
<1>4. CASE Operator
  BY <1>0, <1>4, PhaseAfterStep DEF Operator, StartFresh, RefuseFresh, Resume, ConfirmPlan, RejectStarted, RejectPlan,
     OperatorStart, OperatorUnmask
<1>5. CASE Fault
  BY <1>5 DEF Fault, Stop, Reboot, UnitDies, NotPlaced, MaskServices, StopServices,
     UnmaskServices, StartServices
<1>6. CASE UNCHANGED vars
  BY <1>6 DEF vars
<1> QED
  BY <1>1, <1>2, <1>3, <1>4, <1>5, <1>6 DEF Next, Work

(* What verifyLiveIdentity saw is still there while the process goes on. *)
LEMMA VerifiedNext == TamperInv /\ [Next \/ Tamper]_vars => VerifiedInv'
<1> SUFFICES ASSUME TamperInv, [Next \/ Tamper]_vars, pc' \in Unmasking
             PROVE  live' = rec'.sha
  BY DEF VerifiedInv
<1>0. /\ rec.sha \in [Files -> Content \cup {Absent}]
      /\ live \in [Files -> Content]
  BY DEF TamperInv, TypeOK, Record, MaybeFiles
<1>1. CASE CheckLive
  BY <1>0, <1>1 DEF CheckLive, Exit, files, Unmasking, Rising
<1>2. CASE pc \in Unmasking /\ UNCHANGED <<rec, live>>
  BY <1>2 DEF TamperInv, VerifiedInv
<1>3. ASSUME NEW f \in Files, TamperLive(f) \/ TamperStaged(f)
      PROVE  live' = rec'.sha
  BY <1>3 DEF TamperLive, TamperStaged, process, TamperInv, VerifiedInv, Unmasking, Rising
<1> QED
  BY <1>1, <1>2, <1>3, UnmaskingFollowsCheck DEF TamperInv, Tamper

(* The inductive invariant of a run whose files change behind it. *)
THEOREM TamperInvariance == TamperSpec => []TamperInv
<1>1. Init => TamperInv
  BY InvInit DEF Init, IInv, TamperInv, VerifiedInv, Unmasking, Rising
<1>2. TamperInv /\ [Next \/ Tamper]_vars => TamperInv'
  BY TypeNext, FlowNext, VerifiedNext DEF TamperInv
<1> QED
  BY <1>1, <1>2, PTL DEF TamperSpec

(* placeOne, VerifiedOwned: whatever happens to the staged files meanwhile, a *)
(* run changes a live file only to what was confirmed, after the cutover was  *)
(* marked as begun.                                                           *)
THEOREM OnlyConfirmedPlacedHolds == TamperSpec => OnlyConfirmedPlaced
<1>1. TamperInv /\ [Next \/ Tamper]_vars =>
        [\A f \in Files : live'[f] # live[f] => \/ rec.started /\ live'[f] = rec.sha[f]
                                                \/ TamperLive(f)]_vars
  <2> SUFFICES ASSUME TamperInv, [Next \/ Tamper]_vars, NEW f \in Files, live'[f] # live[f]
               PROVE  (rec.started /\ live'[f] = rec.sha[f]) \/ TamperLive(f)
    OBVIOUS
  <2>0. live \in [Files -> Content]
    BY DEF TamperInv, TypeOK
  <2>1. ASSUME NEW e \in Files, Place(e)
        PROVE  rec.started /\ live'[f] = rec.sha[f]
    <3>1. e = f /\ live'[f] = rec.sha[f]
      BY <2>0, <2>1 DEF Place
    <3>2. rec.started
      BY <2>1 DEF Place, RenameAt, Files, TamperInv, FlowInv, ProcessInv, Placing
    <3> QED
      BY <3>1, <3>2
  <2>2. ASSUME NEW e \in Files, TamperLive(e) \/ TamperStaged(e)
        PROVE  TamperLive(f)
    BY <2>0, <2>2 DEF TamperLive, TamperStaged
  <2> QED
    BY <2>1, <2>2, LiveChanges DEF Tamper
<1> QED
  BY <1>1, TamperInvariance, PTL DEF TamperSpec, OnlyConfirmedPlaced

(* verifyLiveIdentity, unmaskServices: a mask of the run is lifted only over  *)
(* the three confirmed files, also by a resume that finds one changed.        *)
THEOREM OnlyVerifiedUnmaskedHolds == TamperSpec => OnlyVerifiedUnmasked
<1>1. TamperInv /\ [Next \/ Tamper]_vars =>
        [\A u \in masked \ opmask : u \notin masked' => live = rec.sha]_vars
  <2> SUFFICES ASSUME TamperInv, [Next \/ Tamper]_vars,
                      NEW u \in masked \ opmask, u \notin masked'
               PROVE  live = rec.sha
    OBVIOUS
  <2>1. ASSUME NEW S \in SUBSET Units, UnmaskServices(S)
        PROVE  live = rec.sha
    BY <2>1 DEF UnmaskServices, TamperInv, VerifiedInv, Unmasking, Rising
  <2>2. ASSUME NEW f \in Files, TamperLive(f) \/ TamperStaged(f)
        PROVE  FALSE
    BY <2>2 DEF TamperLive, TamperStaged, services
  <2> QED
    BY <2>1, <2>2, MaskChanges DEF Tamper, MaskServices, OperatorUnmask
<1> QED
  BY <1>1, TamperInvariance, PTL DEF TamperSpec, OnlyVerifiedUnmasked

(* Masks are accounted for also when files change behind the run. *)
THEOREM MasksAccountedUnderTamper == TamperSpec => []MasksAccounted
<1>1. TamperInv => MasksAccounted
  BY MasksInFlow DEF TamperInv
<1> QED
  BY <1>1, TamperInvariance, PTL

-----------------------------------------------------------------------------
(* Failover implements IdentitySwitch.                                     *)

(* What one step of a run does to the machine, in its own variables. *)
Effect ==
  \/ UNCHANGED <<live, masked, running>>
  \/ /\ masked \subseteq masked' /\ masked' \subseteq Units
     /\ UNCHANGED <<live, running>>
  \/ /\ Whole(live) /\ masked' \subseteq masked
     /\ UNCHANGED <<live, running>>
  \/ /\ Units \subseteq masked /\ Active = {}
     /\ UNCHANGED <<masked, running>>
  \/ /\ DOMAIN running' = Units
     /\ \A u \in Units : \/ running'[u] = running[u] \/ running'[u] = Down
                         \/ u \notin masked /\ Whole(live) /\ running'[u] = live
     /\ UNCHANGED <<live, masked>>

(* Every step masks, unmasks a whole identity, changes files in the dark, or *)
(* takes units down and brings unmasked ones up.                              *)
LEMMA SwitchNext == IInv /\ [Next]_vars => Effect
<1> SUFFICES ASSUME IInv, [Next]_vars PROVE Effect
  OBVIOUS
<1>0. /\ rec \in Record /\ masked \subseteq Units
      /\ running \in [Units -> [Files -> Content] \cup {Down}]
      /\ Whole(live) \/ Units \subseteq masked
  BY DEF IInv, TypeOK, MixedIsLocked
<1>1. ASSUME NEW f \in Files, Place(f)
      PROVE  Effect
  BY <1>1 DEF Effect, Place, RenameAt, services, IInv, FlowInv, MaskInv, Placing, Files
<1>2. ASSUME NEW S \in SUBSET Units, MaskServices(S)
      PROVE  Effect
  BY <1>0, <1>2 DEF Effect, MaskServices, files
<1>3. ASSUME NEW S \in SUBSET Units, UnmaskServices(S)
      PROVE  Effect
  <2>1. Whole(live)
    BY <1>3, WholeOutsideSwap DEF UnmaskServices, IInv, FlowInv, ProcessInv, Rising
  <2> QED
    BY <1>3, <2>1 DEF Effect, UnmaskServices, files
<1>4. ASSUME NEW u \in Units, OperatorUnmask(u)
      PROVE  Effect
  <2>1. Whole(live)
    BY <1>4, WholeOutsideSwap DEF OperatorUnmask, IInv, FlowInv, RecordInv
  <2> QED
    BY <1>4, <2>1 DEF Effect, OperatorUnmask, files
<1>5. ASSUME UNCHANGED <<live, masked>>,
             NEW S \in SUBSET Units, StopServices(S) \/ StartServices(S) \/ Reboot(S)
      PROVE  Effect
  BY <1>0, <1>5 DEF Effect, StopServices, StartServices, Started, Reboot
<1>6. ASSUME UNCHANGED <<live, masked>>, NEW u \in Units, UnitDies(u) \/ OperatorStart(u)
      PROVE  Effect
  BY <1>0, <1>6 DEF Effect, UnitDies, OperatorStart
<1>7. CASE UNCHANGED <<live, masked>>
  BY <1>5, <1>6, <1>7, RunningChanges DEF Effect
<1> QED
  BY <1>1, <1>2, <1>3, <1>4, <1>7, LiveChanges, MaskChanges

(* The initial states map to initial states of the abstract machine. *)
LEMMA SwitchInitMaps == Init => Abstract!SwitchInit
<1> SUFFICES ASSUME Init PROVE Abstract!SwitchInit
  OBVIOUS
<1>1. Whole(live) /\ IdentityOf(live) = 0
  BY DEF Init, IdentityOf, Whole, Generation, Files
<1> QED
  BY <1>1 DEF Init, Abstract!SwitchInit

(* Every step maps to a step of the abstract machine, or to none. *)
LEMMA SwitchStepMaps ==
  IInv /\ [Next]_vars => [Abstract!SwitchNext]_(Abstract!switchVars)
<1> SUFFICES ASSUME IInv, [Next]_vars
             PROVE  [Abstract!SwitchNext]_(Abstract!switchVars)
  OBVIOUS
<1> DEFINE Serving(r) == [u \in Units |-> IF r[u] = Down THEN Down ELSE IdentityOf(r[u])]
<1>0. /\ masked \subseteq Units /\ opmask \subseteq masked
      /\ \A u \in Units : running[u] # Down => running[u] = live /\ Whole(live)
  BY DEF IInv, TypeOK, FlowInv, MaskInv, ServiceInv, MixedIsLocked, Active
<1>1. IdentityOf(live) \in Nat \cup {Absent} /\ IdentityOf(live') \in Nat \cup {Absent}
  BY DEF IdentityOf, Whole
<1>2. Whole(live) => IdentityOf(live) \in Nat
  BY DEF IdentityOf, Whole
<1>3. CASE UNCHANGED <<live, masked, running>>
  BY <1>3 DEF Abstract!switchVars, IdentityOf, Whole
<1>4. CASE /\ masked \subseteq masked' /\ masked' \subseteq Units
           /\ UNCHANGED <<live, running>>
  BY <1>4 DEF Abstract!SwitchNext, Abstract!Lock, IdentityOf, Whole
<1>5. CASE /\ Whole(live) /\ masked' \subseteq masked
           /\ UNCHANGED <<live, running>>
  BY <1>2, <1>5 DEF Abstract!SwitchNext, Abstract!Unlock, IdentityOf, Whole
<1>6. CASE /\ Units \subseteq masked /\ Active = {}
           /\ UNCHANGED <<masked, running>>
  <2>1. masked = Units /\ \A u \in Units : running[u] = Down
    BY <1>0, <1>6 DEF Active
  <2>2. Abstract!Dark
    BY <2>1 DEF Abstract!Dark
  <2> QED
    BY <1>1, <1>6, <2>2 DEF Abstract!SwitchNext, Abstract!Change
<1>7. CASE /\ DOMAIN running' = Units
           /\ \A u \in Units : \/ running'[u] = running[u] \/ running'[u] = Down
                               \/ u \notin masked /\ Whole(live) /\ running'[u] = live
           /\ UNCHANGED <<live, masked>>
  <2>1. ASSUME NEW u \in Units
        PROVE  Serving(running')[u] \in Abstract!MayServe(u)
    <3>1. CASE running'[u] = running[u]
      BY <3>1 DEF Abstract!MayServe
    <3>2. CASE running'[u] = Down
      BY <3>2 DEF Abstract!MayServe
    <3>3. CASE u \notin masked /\ Whole(live) /\ running'[u] = live
      BY <1>2, <3>3 DEF Abstract!MayServe
    <3> QED
      BY <1>7, <3>1, <3>2, <3>3
  <2>2. Abstract!Serve
    BY <1>7, <2>1 DEF Abstract!Serve, IdentityOf, Whole
  <2> QED
    BY <2>2 DEF Abstract!SwitchNext
<1> QED
  BY <1>3, <1>4, <1>5, <1>6, <1>7, SwitchNext DEF Effect

(* Runs, crashes, reboots and resumes together are an atomic-looking change *)
(* of identity in the dark.                                                  *)
THEOREM Implements == Spec => SwitchesIdentity
<1> QED
  BY SwitchInitMaps, SwitchStepMaps, Invariance, PTL DEF Spec, SwitchesIdentity, Abstract!Spec

=============================================================================
