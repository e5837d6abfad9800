-------------------------- MODULE StateFileProofs --------------------------
(***************************************************************************)
(* Proof that what Store.Set reported as recorded is kept through failed   *)
(* and abandoned Sets and power losses, and that no run starts afresh on a *)
(* record whose cutover has begun, for any processes, fields and values.   *)
(***************************************************************************)
EXTENDS StateFile, TLAPS

(* NoFile, the empty record, loses nothing only when nothing was reported. *)
LEMMA KeepInit == Init => KeepInv
BY MarkerAssumption DEF Init, KeepInv, TypeOK, Keeps, Texts, NoFile, Lines

(* Other than a Torn one, a file holds its lines. *)
LEMMA LinesOfText == \A f \in Texts : Lines(f) = f /\ f # Torn
BY MarkerAssumption DEF Lines, Texts

LEMMA EmptyIsText == NoFile \in Texts /\ NoFile # Torn
BY LinesOfText DEF NoFile, Texts

(* A process starts or ends: what is recorded is left alone, and who is past
   the lock is its only holder. *)
LEMMA LockKeeps ==
    ASSUME KeepInv, NEW p \in Procs,
           AcquireLock(p) \/ Resume(p) \/ AskStartFresh(p) \/ StartFresh(p) \/ Exit(p)
    PROVE  KeepInv'
<1> USE MarkerAssumption
<1>1. UNCHANGED <<key, value, temp, synced>>
    BY DEF AcquireLock, Resume, AskStartFresh, StartFresh, Exit, call
<1>2. TypeOK'
    BY <1>1 DEF KeepInv, TypeOK, AcquireLock, Resume, AskStartFresh, StartFresh, Exit, call, NoFile, Texts
<1>3. \A q \in Procs : pos'[q] # "out" => lock' = q
    <2>1. \A q \in Procs \ {p} : pos'[q] = pos[q]
        BY DEF KeepInv, TypeOK, AcquireLock, Resume, AskStartFresh, StartFresh, Exit
    <2> QED BY <2>1 DEF KeepInv, TypeOK, AcquireLock, Resume, AskStartFresh, StartFresh, Exit
<1>4. CASE StartFresh(p)
    <2>1. \A c : Keeps(c)' BY <1>4 DEF Keeps, StartFresh, NoFile
    <2>2. \A q \in Procs \ {p} : pos[q] = "out" BY <1>4 DEF KeepInv, StartFresh
    <2>3. op = "none" BY <1>4, <2>2 DEF KeepInv, StartFresh
    <2>4. op' = "none" /\ saved'[Started] = None BY <1>4, <2>3 DEF StartFresh, call, NoFile
    <2>5. Torn \notin doubt' \cup {file'} BY <1>4, EmptyIsText DEF KeepInv, StartFresh
    <2> QED BY <1>2, <1>3, <2>1, <2>4, <2>5 DEF KeepInv
<1>5. CASE AcquireLock(p) \/ Resume(p) \/ AskStartFresh(p) \/ Exit(p)
    <2>1. UNCHANGED <<file, doubt, saved>> BY <1>5 DEF AcquireLock, Resume, AskStartFresh, Exit
    <2>2. \A c : Keeps(c) => Keeps(c)' BY <2>1 DEF Keeps
    <2>3. op' = op \/ op' = "none" BY <1>5 DEF AcquireLock, Resume, AskStartFresh, Exit, call
    <2>4. op' # "none" => \E q \in Procs : pos'[q] = "run"
        BY <1>5 DEF KeepInv, TypeOK, AcquireLock, Resume, AskStartFresh, Exit, call
    <2>5. \A q \in Procs : pos'[q] = "ask" => saved[Started] = None
        <3>1. CASE AskStartFresh(p)
            <4>1. saved[Started] = None BY <3>1 DEF KeepInv, Keeps, AskStartFresh
            <4> QED BY <4>1
        <3>2. CASE AcquireLock(p) \/ Resume(p) \/ Exit(p)
            BY <3>2 DEF KeepInv, TypeOK, AcquireLock, Resume, Exit
        <3> QED BY <1>5, <3>1, <3>2
    <2> QED BY <1>1, <1>2, <1>3, <2>1, <2>2, <2>3, <2>4, <2>5 DEF KeepInv
<1> QED BY <1>4, <1>5

(* Every system call, failure and power loss keeps what was reported. *)
LEMMA KeepNext == KeepInv /\ [Next]_vars => KeepInv'
<1> SUFFICES ASSUME KeepInv, [Next]_vars PROVE KeepInv' OBVIOUS
<1> USE MarkerAssumption
<1>0. ASSUME NEW p \in Procs,
             AcquireLock(p) \/ Resume(p) \/ AskStartFresh(p) \/ StartFresh(p) \/ Exit(p)
      PROVE  KeepInv'
    BY <1>0, LockKeeps
<1>1. CASE UNCHANGED vars
    BY <1>1 DEF KeepInv, TypeOK, Keeps, vars, call
<1>2. ASSUME NEW k \in Keys, NEW v \in Values, Set(k, v) PROVE KeepInv'
    <2>1. TypeOK' BY <1>2 DEF KeepInv, TypeOK, Set, Texts, procs
    <2>2. \A j \in Keys : saved'[j] # None => saved[j] = saved'[j]
        BY <1>2 DEF KeepInv, TypeOK, Set, Texts
    <2>3. saved'[k] = None BY <1>2 DEF KeepInv, TypeOK, Set, Texts
    <2>4. ASSUME NEW c, Keeps(c) PROVE Keeps(c)'
        BY <2>2, <2>4 DEF Keeps
    <2>5. \A p \in Procs : pos[p] = "run" => \A q \in Procs : pos[q] # "ask"
        BY DEF KeepInv
    <2> QED BY <1>2, <2>1, <2>3, <2>4, <2>5 DEF KeepInv, Set, procs
<1>3. CASE Write
    <2>1. Lines(file) = file /\ file \in Texts BY LinesOfText DEF KeepInv, TypeOK
    <2>2. temp' = [file EXCEPT ![key] = value]
        BY <1>3, <2>1 DEF Write, WriteTemp
    <2>3. TypeOK'
        <3>1. temp' \in Texts BY <2>1, <2>2 DEF KeepInv, TypeOK, Texts
        <3> QED BY <1>3, <3>1 DEF KeepInv, TypeOK, Write, WriteTemp, procs
    <2>4. ASSUME NEW c, Keeps(c) PROVE Keeps(c)'
        BY <1>3, <2>4 DEF Keeps, Write, WriteTemp
    <2> QED BY <1>3, <2>2, <2>3, <2>4 DEF KeepInv, Write, WriteTemp, procs
<1>4. CASE SyncTemp
    BY <1>4 DEF KeepInv, TypeOK, Keeps, SyncTemp, procs
<1>5. CASE Rename
    <2>1. file \in Texts /\ temp = [file EXCEPT ![key] = value] /\ saved[key] = None
        BY <1>5 DEF KeepInv, TypeOK, Rename
    <2>2. Keeps(temp)
        <3>1. Lines(temp) = temp /\ Lines(file) = file
            BY <2>1, LinesOfText DEF KeepInv, TypeOK
        <3>2. \A k \in Keys \ {key} : temp[k] = file[k] BY <2>1 DEF Texts
        <3> QED BY <2>1, <3>1, <3>2 DEF KeepInv, Keeps
    <2>3. TypeOK' BY <1>5 DEF KeepInv, TypeOK, Rename, procs
    <2>4. doubt' = doubt \cup {file} BY <1>5 DEF KeepInv, Rename
    <2>5. \A c \in doubt' : Keeps(c) BY <2>4 DEF KeepInv
    <2>6. ASSUME NEW c, Keeps(c) PROVE Keeps(c)'
        BY <1>5, <2>6 DEF Keeps, Rename
    <2>7. temp[key] = value /\ temp # Torn
        BY <2>1, MarkerAssumption DEF KeepInv, TypeOK, Texts
    <2> QED BY <1>5, <2>2, <2>3, <2>4, <2>5, <2>6, <2>7 DEF KeepInv, Rename, procs
<1>6. CASE SyncDir
    <2>1. TypeOK' BY <1>6 DEF KeepInv, TypeOK, SyncDir, Texts, procs
    <2>4. \A p \in Procs : pos[p] # "ask" BY <1>6 DEF KeepInv, SyncDir
    <2>2. Lines(file)[key] = value
        BY <1>6, LinesOfText DEF KeepInv, TypeOK, SyncDir
    <2>3. Keeps(file)'
        BY <1>6, <2>2 DEF KeepInv, TypeOK, Keeps, SyncDir, Texts
    <2> QED BY <1>6, <2>1, <2>3, <2>4 DEF KeepInv, SyncDir, procs
<1>7. CASE Abandon
    BY <1>7 DEF KeepInv, TypeOK, Keeps, Abandon, procs
<1>8. CASE Clear
    <2>1. TypeOK' BY <1>8 DEF KeepInv, TypeOK, Clear, procs, call, NoFile, Texts
    <2>2. \A c : Keeps(c)' BY <1>8 DEF Keeps, Clear, NoFile
    <2>3. \A p \in Procs : pos[p] # "ask" BY <1>8 DEF KeepInv, Clear
    <2>4. Torn \notin doubt' \cup {file'} BY <1>8, EmptyIsText DEF KeepInv, Clear
    <2> QED BY <1>8, <2>1, <2>2, <2>3, <2>4 DEF KeepInv, Clear, procs, call
<1>9. CASE PowerLoss
    BY <1>9 DEF KeepInv, TypeOK, Keeps, PowerLoss
<1> QED
    BY <1>0, <1>1, <1>2, <1>3, <1>4, <1>5, <1>6, <1>7, <1>8, <1>9 DEF Next

(* Store.Set, Store.Clear: the invariant holds in every reachable state. *)
THEOREM KeepInvariance == Spec => []KeepInv
BY KeepInit, KeepNext, PTL DEF Spec

(* What each system call is to the callers: a rename changes the one field, the
   sync of the directory is the report, removing the file discards the record,
   and every other step leaves it alone. *)
LEMMA StepIsAtomic ==
    KeepInv /\ KeepInv' /\ [Next]_vars => [Promise!Next]_(Promise!vars)
<1> SUFFICES ASSUME KeepInv, KeepInv', [Next]_vars PROVE [Promise!Next]_(Promise!vars)
    OBVIOUS
<1> DEFINE Past == {Lines(c) : c \in doubt}
<1> USE MarkerAssumption
<1>0. /\ Lines(file) = file /\ Lines(file') = file'
      /\ \A c \in doubt \cup doubt' : Lines(c) = c
    BY LinesOfText DEF KeepInv, TypeOK
<1>e. Promise!Empty = NoFile BY DEF Promise!Empty, NoFile
<1>u. ASSUME UNCHANGED <<file, doubt, saved>> PROVE UNCHANGED Promise!vars
    BY <1>u DEF Promise!vars, Lines
<1>d. ASSUME file' = NoFile, doubt' = doubt \cup {file}, saved' = NoFile
      PROVE  Promise!Discard
    BY <1>d, <1>0, <1>e DEF Promise!Discard
<1>1. CASE UNCHANGED vars
    BY <1>1, <1>u DEF vars
<1>2. ASSUME NEW p \in Procs,
             AcquireLock(p) \/ Resume(p) \/ AskStartFresh(p) \/ Exit(p)
      PROVE  UNCHANGED Promise!vars
    BY <1>2, <1>u DEF AcquireLock, Resume, AskStartFresh, Exit
<1>3. ASSUME NEW p \in Procs, StartFresh(p) PROVE Promise!Discard
    BY <1>3, <1>d DEF StartFresh
<1>4. ASSUME NEW k \in Keys, NEW v \in Values, Set(k, v) PROVE Promise!Ask(k)
    BY <1>4 DEF Set, Promise!Ask, Lines
<1>5. CASE Write \/ SyncTemp \/ Abandon
    BY <1>5, <1>u DEF Write, WriteTemp, SyncTemp, Abandon
<1>6. CASE Rename
    <2>1. key \in Keys /\ value \in Values BY DEF KeepInv, TypeOK
    <2>2. file' = [file EXCEPT ![key] = value] /\ doubt' = doubt \cup {file}
          /\ saved[key] = None /\ saved' = saved
        BY <1>6 DEF KeepInv, Rename
    <2>3. Promise!Put(key, value) BY <1>0, <2>2 DEF Promise!Put
    <2> QED BY <2>1, <2>3 DEF Promise!Next
<1>7. CASE SyncDir
    <2>1. key \in Keys /\ value # None BY DEF KeepInv, TypeOK
    <2>2. file[key] = value /\ doubt' = {} /\ file' = file
          /\ saved' = [saved EXCEPT ![key] = value]
        BY <1>7 DEF KeepInv, SyncDir
    <2>3. Promise!Report(key) BY <1>0, <2>1, <2>2 DEF Promise!Report
    <2> QED BY <2>1, <2>3 DEF Promise!Next
<1>8. CASE Clear
    BY <1>8, <1>d DEF Clear, Promise!Next
<1>9. CASE PowerLoss
    BY <1>9, <1>0 DEF PowerLoss, Promise!PowerLoss, Promise!Next
<1> QED
    BY <1>1, <1>2, <1>3, <1>4, <1>5, <1>6, <1>7, <1>8, <1>9 DEF Next, Promise!Next

(* Store.Set, Store.Clear: the file implements a record whose fields change one
   at a time and whole. *)
THEOREM SetIsAlwaysAtomic == Spec => SetIsAtomic
<1>1. Init => Promise!Init
    BY MarkerAssumption, LinesOfText DEF Init, Promise!Init, Promise!Empty, NoFile, Texts
<1> QED BY <1>1, StepIsAtomic, KeepInvariance, PTL DEF Spec, SetIsAtomic, Promise!Spec

(* Store.Set: a field reported as recorded stays recorded. *)
THEOREM SavedSurvivesHolds == Spec => []SavedSurvives
<1>1. KeepInv => SavedSurvives BY DEF KeepInv, SavedSurvives, Keeps
<1> QED BY <1>1, KeepInvariance, PTL

(* Run.Prepare, AcquireLock: no run starts afresh on a record whose cutover was
   reported as begun. *)
THEOREM FreshIsAlwaysSafe == Spec => FreshIsSafe
<1>1. KeepInv /\ [Next]_vars => [\A p \in Procs : StartFresh(p) => saved[Started] = None]_vars
    BY DEF KeepInv, StartFresh
<1> QED BY <1>1, KeepInvariance, PTL DEF Spec, FreshIsSafe

=============================================================================
