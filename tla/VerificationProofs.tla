------------------------- MODULE VerificationProofs -------------------------
(***************************************************************************)
(* Proof that phase 8 loses no export, never pairs exports of two          *)
(* identities, is recorded as done only when it is done, and waits no      *)
(* longer than its window, for any names, limits and number of migrations. *)
(*                                                                         *)
(* Every change of the backup directory keeps its earlier state among the  *)
(* doubts, so what holds of each state of it holds after a power loss; the *)
(* lemmas about one state of the directory come first.                     *)
(***************************************************************************)
EXTENDS Verification, TLAPS

(* Reserving, giving back a name, putting aside and exporting lose no copy. *)
LEMMA ReserveKeeps ==
    ASSUME TypeOK, FileAssumption, NEW name \in Names, dir[name] \in {None, Reserved},
           NEW content \in {None, Reserved}
    PROVE  LET d == [dir EXCEPT ![name] = content] IN
           /\ d \in [Files -> Contents]
           /\ \A k \in Kinds : d[k] = dir[k]
           /\ exported \subseteq CopiesIn(dir) => exported \subseteq CopiesIn(d)
<1> DEFINE d == [dir EXCEPT ![name] = content]
<1>1. d \in [Files -> Contents] BY DEF TypeOK, Files, Contents
<1>2. \A f \in Files \ {name} : d[f] = dir[f] BY DEF TypeOK
<1>3. \A k \in Kinds : d[k] = dir[k] BY <1>2 DEF FileAssumption, Files
<1>4. \A f \in Files : dir[f] \in Copies => f # name BY DEF FileAssumption
<1>5. ASSUME exported \subseteq CopiesIn(dir), NEW c \in exported PROVE c \in CopiesIn(d)
    <2>1. PICK f \in Files : dir[f] = c BY <1>5 DEF CopiesIn
    <2>2. c \in Copies BY DEF TypeOK
    <2> QED BY <1>2, <1>4, <2>1, <2>2 DEF CopiesIn
<1> QED BY <1>1, <1>3, <1>5

LEMMA AsideKeeps ==
    ASSUME TypeOK, FileAssumption, NEW name \in Names, dir[name] = Reserved, NEW k \in Kinds,
           dir' = [dir EXCEPT ![name] = dir[k], ![k] = None]
    PROVE  /\ dir' \in [Files -> Contents]
           /\ dir'[k] = None
           /\ \A j \in Kinds \ {k} : dir'[j] = dir[j]
           /\ exported \subseteq CopiesIn(dir) => exported \subseteq CopiesIn(dir')
<1>0. name # k /\ name \in Files /\ k \in Files BY DEF FileAssumption, Files
<1>1. dir' \in [Files -> Contents] BY <1>0 DEF TypeOK, Contents
<1>2. dir'[k] = None /\ dir'[name] = dir[k] BY <1>0 DEF TypeOK
<1>3. \A f \in Files \ {name, k} : dir'[f] = dir[f] BY DEF TypeOK
<1>4. \A j \in Kinds \ {k} : dir'[j] = dir[j] BY <1>3 DEF FileAssumption, Files
<1>5. \A f \in Files : dir[f] \in Copies => f # name BY DEF FileAssumption
<1>6. \A f \in Files : dir[f] \in Copies => \E g \in Files : dir'[g] = dir[f]
    BY <1>0, <1>2, <1>3, <1>5
<1>7. ASSUME exported \subseteq CopiesIn(dir), NEW c \in exported PROVE c \in CopiesIn(dir')
    <2>1. PICK f \in Files : dir[f] = c BY <1>7 DEF CopiesIn
    <2>2. c \in Copies BY DEF TypeOK
    <2> QED BY <1>6, <2>1, <2>2 DEF CopiesIn
<1> QED BY <1>1, <1>2, <1>4, <1>7

LEMMA ExportKeeps ==
    ASSUME TypeOK, FileAssumption, NEW k \in Kinds, dir[k] = None
    PROVE  LET d == [dir EXCEPT ![k] = <<k, gen>>] IN
           /\ d \in [Files -> Contents]
           /\ d[k] = <<k, gen>>
           /\ \A j \in Kinds \ {k} : d[j] = dir[j]
           /\ exported \subseteq CopiesIn(dir) => exported \subseteq CopiesIn(d)
<1> DEFINE d == [dir EXCEPT ![k] = <<k, gen>>]
<1>0. k \in Files /\ <<k, gen>> \in Contents
    BY DEF TypeOK, Files, Contents, Copies, FileAssumption
<1>1. d \in [Files -> Contents] BY <1>0 DEF TypeOK
<1>2. d[k] = <<k, gen>> BY <1>0 DEF TypeOK
<1>3. \A f \in Files \ {k} : d[f] = dir[f] BY DEF TypeOK
<1>4. \A j \in Kinds \ {k} : d[j] = dir[j] BY <1>3 DEF Files
<1>5. \A f \in Files : dir[f] \in Copies => f # k BY DEF FileAssumption
<1>6. ASSUME exported \subseteq CopiesIn(dir), NEW c \in exported PROVE c \in CopiesIn(d)
    <2>1. PICK f \in Files : dir[f] = c BY <1>6 DEF CopiesIn
    <2>2. c \in Copies BY DEF TypeOK
    <2> QED BY <1>3, <1>5, <2>1, <2>2 DEF CopiesIn
<1> QED BY <1>1, <1>2, <1>4, <1>6

-----------------------------------------------------------------------------
(* Before the first run nothing is in doubt and nothing is done. *)
LEMMA VerifyInit == Init => VerifyInv
<1> SUFFICES ASSUME Init PROVE VerifyInv OBVIOUS
<1> USE TimeAssumption, FileAssumption
<1>1. dir \in [Files -> Contents]
    BY DEF Init, Files, Contents, Copies, FileAssumption
<1>2. TypeOK
    <2>1. exported \subseteq Copies BY DEF Init, CopiesIn
    <2>2. gen \in 1 .. MaxGen BY DEF Init, FileAssumption
    <2> QED BY <1>1, <2>1, <2>2 DEF Init, TypeOK, Kinds
<1>3. NoExportLost BY DEF Init, NoExportLost
<1>4. PairAgrees
    <2>1. OfOne(dir["secp"], dir["bls"])
        BY DEF Init, OfOne, Files, Kinds, Copies, FileAssumption
    <2> QED BY <2>1 DEF Init, PairAgrees
<1>5. DoneIsDone /\ WindowKept /\ WindowFacts /\ RecordFacts /\ ExportFacts
    BY DEF Init, DoneIsDone, WindowKept, WindowFacts, RecordFacts, ExportFacts, FileAssumption
<1> QED BY <1>2, <1>3, <1>4, <1>5 DEF VerifyInv
-----------------------------------------------------------------------------
(* A step that leaves the directory, the record and the identity alone. *)
LEMMA SameDisk ==
    ASSUME VerifyInv, UNCHANGED <<dir, doubt, exported, listings, step, gen>>, confirmed => confirmed'
    PROVE  NoExportLost' /\ PairAgrees' /\ DoneIsDone'
BY DEF VerifyInv, NoExportLost, PairAgrees, DoneIsDone, CopiesIn, OfOne

(* The window: a call is cut at what is left, so it ends by the end of the
   window, and a pause never runs past it. *)
LEMMA WindowSteps ==
    ASSUME VerifyInv,
           \/ Start \/ NothingToAsk \/ WindowOver \/ Sleep \/ CheckUptime
           \/ \E limit \in Limits, st \in BOOLEAN : OpenWindow(limit, st)
           \/ \E d \in 0 .. MaxDelay, inSync \in BOOLEAN : Ask(d, inSync)
    PROVE  VerifyInv'
<1> USE TimeAssumption, FileAssumption
<1>1. NoExportLost' /\ PairAgrees' /\ DoneIsDone'
    <2>1. UNCHANGED <<dir, doubt, exported, listings, step, gen>>
        BY DEF Start, NothingToAsk, WindowOver, Sleep, CheckUptime, OpenWindow, Ask, disk
    <2>2. confirmed => confirmed'
        BY Zenon DEF Start, NothingToAsk, WindowOver, Sleep, CheckUptime, OpenWindow, Ask
    <2> QED BY <2>1, <2>2, SameDisk
<1>2. CASE Start
    <2>1. TypeOK' BY <1>2 DEF VerifyInv, TypeOK, Start, At, disk, Kinds
    <2>2. WindowKept' /\ WindowFacts' /\ RecordFacts' /\ ExportFacts'
        BY <1>2 DEF VerifyInv, TypeOK, WindowKept, WindowFacts, RecordFacts, ExportFacts,
                    Start, At, disk, LastCall, WindowEnd
    <2> QED BY <1>1, <2>1, <2>2 DEF VerifyInv
<1>3. CASE NothingToAsk
    <2>1. TypeOK' BY <1>3 DEF VerifyInv, TypeOK, NothingToAsk, At, disk, Kinds
    <2>2. WindowKept' /\ WindowFacts' /\ RecordFacts' /\ ExportFacts'
        BY <1>3 DEF VerifyInv, TypeOK, WindowKept, WindowFacts, RecordFacts, ExportFacts,
                    NothingToAsk, At, disk, LastCall, WindowEnd
    <2> QED BY <1>1, <2>1, <2>2 DEF VerifyInv
<1>4. CASE WindowOver
    <2>1. TypeOK' BY <1>4 DEF VerifyInv, TypeOK, WindowOver, At, disk, Kinds
    <2>2. WindowKept' /\ WindowFacts' /\ RecordFacts' /\ ExportFacts'
        BY <1>4 DEF VerifyInv, TypeOK, WindowKept, WindowFacts, RecordFacts, ExportFacts,
                    WindowOver, At, disk, LastCall, WindowEnd
    <2> QED BY <1>1, <2>1, <2>2 DEF VerifyInv
<1>5. CASE CheckUptime
    <2>1. TypeOK' BY <1>5 DEF VerifyInv, TypeOK, CheckUptime, At, disk, Kinds
    <2>2. WindowKept' /\ WindowFacts' /\ RecordFacts' /\ ExportFacts'
        BY <1>5 DEF VerifyInv, TypeOK, WindowKept, WindowFacts, RecordFacts, ExportFacts,
                    CheckUptime, At, disk
    <2> QED BY <1>1, <2>1, <2>2 DEF VerifyInv
<1>6. ASSUME NEW limit \in Limits, NEW st \in BOOLEAN, OpenWindow(limit, st) PROVE VerifyInv'
    <2>1. wait' \in Waits /\ wait'.clock = 0 /\ wait'.limit = limit /\ wait'.status = st
        BY <1>6 DEF OpenWindow, Waits
    <2>2. TypeOK' BY <1>6, <2>1 DEF VerifyInv, TypeOK, OpenWindow, At, disk, Kinds
    <2>3. WindowKept' BY <2>1 DEF WindowKept, LastCall, WindowEnd
    <2>4. pc' = "attempt" /\ step' = 7 /\ ~pending' /\ wait' # None
        BY <1>6, <2>1 DEF OpenWindow, VerifyInv, RecordFacts, WindowFacts, At
    <2>5. WindowFacts' /\ RecordFacts' /\ ExportFacts'
        BY <2>1, <2>4 DEF WindowFacts, RecordFacts, ExportFacts
    <2> QED BY <1>1, <2>2, <2>3, <2>5 DEF VerifyInv
<1>7. CASE Sleep
    <2>1. wait \in Waits /\ wait.clock < wait.limit /\ ~pending /\ step = 7
        BY <1>7 DEF Sleep, VerifyInv, TypeOK, WindowFacts, RecordFacts
    <2>2. /\ wait' \in Waits /\ wait'.limit = wait.limit /\ wait'.status = wait.status
          /\ wait'.clock = wait.clock + PauseFor(wait)
        <3>1. wait.clock \in Nat /\ wait.limit \in Nat BY <2>1 DEF Waits
        <3>2. PauseFor(wait) \in Nat BY <2>1, <3>1 DEF PauseFor, Left
        <3> QED BY <1>7, <2>1, <3>1, <3>2 DEF Sleep, Waits
    <2>3. wait'.clock <= wait'.limit
        <3>1. wait.clock \in Nat /\ wait.limit \in Nat BY <2>1 DEF Waits
        <3>2. PauseFor(wait) <= wait.limit - wait.clock /\ PauseFor(wait) \in Nat
            BY <2>1, <3>1 DEF PauseFor, Left
        <3> QED BY <2>2, <3>1, <3>2
    <2>4. wait.limit \in Nat /\ wait.limit > 0
        <3>1. wait.clock \in Nat /\ wait.limit \in Nat BY <2>1 DEF Waits
        <3> QED BY <2>1, <3>1
    <2>5. TypeOK' BY <1>7, <2>2 DEF VerifyInv, TypeOK, Sleep, At, disk, Kinds
    <2>6. WindowKept' BY <2>1, <2>2, <2>3, <2>4 DEF WindowKept, WindowEnd, Waits
    <2>7. pc' = "attempt" /\ ~pending' /\ step' = 7 /\ wait' # None
        BY <1>7, <2>1, <2>2 DEF Sleep, At
    <2>8. WindowFacts' /\ RecordFacts' /\ ExportFacts'
        BY <2>2, <2>3, <2>4, <2>7 DEF WindowFacts, RecordFacts, ExportFacts
    <2> QED BY <1>1, <2>5, <2>6, <2>8 DEF VerifyInv
<1>8. ASSUME NEW d \in 0 .. MaxDelay, NEW inSync \in BOOLEAN, Ask(d, inSync) PROVE VerifyInv'
    <2>1. /\ wait \in Waits /\ step = 7 /\ d \in Nat
          /\ wait.clock = 0 \/ (wait.limit > 0 /\ wait.clock <= wait.limit)
        BY <1>8 DEF Ask, VerifyInv, TypeOK, WindowFacts, RecordFacts, MaxDelay
    <2>2. /\ wait' \in Waits /\ wait'.limit = wait.limit /\ wait'.status = wait.status
          /\ wait'.clock = wait.clock + d
        BY <1>8, <2>1 DEF Ask, Waits
    <2>3. wait.limit \in Nat /\ wait.clock \in Nat /\ wait.status \in BOOLEAN BY <2>1 DEF Waits
    <2>4. TypeOK' BY <1>8, <2>2 DEF VerifyInv, TypeOK, Ask, At, disk, Kinds
    <2>5. WindowKept'
        <3>1. CASE wait.status
            BY <1>8, <2>1, <2>2, <2>3, <3>1 DEF WindowKept, WindowEnd, LastCall, Ask, Timeout, Left
        <3>2. CASE ~wait.status
            <4>1. d <= CheckTime BY <1>8, <3>2 DEF Ask
            <4> QED BY <2>1, <2>2, <2>3, <3>2, <4>1 DEF WindowKept, WindowEnd, LastCall
        <3> QED BY <3>1, <3>2
    <2>6. pc' \in {"uptime", "pause"} /\ step' = 7 /\ wait' # None
        BY <1>8, <2>1, <2>2 DEF Ask, At
    <2>7. pc' = "pause" => wait'.clock < wait'.limit /\ ~pending'
        BY <1>8, <2>1, <2>2, <2>3 DEF Ask, At, Left
    <2>8. pc' = "uptime" /\ ~pending' => confirmed' BY <1>8 DEF Ask, At
    <2>9. WindowFacts' /\ RecordFacts' /\ ExportFacts'
        BY <2>6, <2>7, <2>8 DEF WindowFacts, RecordFacts, ExportFacts
    <2> QED BY <1>1, <2>4, <2>5, <2>9 DEF VerifyInv
<1> QED BY <1>2, <1>3, <1>4, <1>5, <1>6, <1>7, <1>8
-----------------------------------------------------------------------------
(* A change of the directory that loses no copy, and leaves no two exports of
   different identities, keeps that of every state that may be found. *)
LEMMA ChangeKeeps ==
    ASSUME VerifyInv, doubt' = doubt \cup {dir}, UNCHANGED <<exported, listings, gen>>,
           step = 7, step' = 7, dir' \in [Files -> Contents],
           (exported \subseteq CopiesIn(dir))  => exported \subseteq CopiesIn(dir'),
           OfOne(dir'["secp"], dir'["bls"])
    PROVE  NoExportLost' /\ PairAgrees' /\ DoneIsDone' /\ doubt' \subseteq [Files -> Contents]
<1>1. NoExportLost'
    BY DEF VerifyInv, NoExportLost, CopiesIn
<1>2. PairAgrees'
    <2>1. \A d \in doubt' \cup {dir'} : OfOne(d["secp"], d["bls"]) BY DEF VerifyInv, PairAgrees
    <2> QED BY <2>1 DEF VerifyInv, PairAgrees, OfOne
<1>3. DoneIsDone' BY FileAssumption DEF DoneIsDone
<1>4. doubt' \subseteq [Files -> Contents] BY DEF VerifyInv, TypeOK
<1> QED BY <1>1, <1>2, <1>3, <1>4

(* The exports: a name is reserved where nothing is, a copy is moved onto its
   own name, and an export is renamed onto a name that was freed. *)
LEMMA ReserveStep ==
    ASSUME VerifyInv, NEW name \in Names, Reserve(name)
    PROVE  VerifyInv'
<1> USE TimeAssumption, FileAssumption
<1>1. TypeOK /\ step = 7 /\ step' = 7 /\ pc' = "aside" /\ key' = key /\ dir[name] = None
    BY DEF VerifyInv, RecordFacts, Reserve, At
<1>2. dir' = [dir EXCEPT ![name] = Reserved] /\ doubt' = doubt \cup {dir}
    BY DEF Reserve, Change
<1>3. /\ dir' \in [Files -> Contents] /\ \A k \in Kinds : dir'[k] = dir[k]
      /\ exported \subseteq CopiesIn(dir) => exported \subseteq CopiesIn(dir')
    BY <1>1, <1>2, ReserveKeeps
<1>4. OfOne(dir'["secp"], dir'["bls"])
    BY <1>3 DEF VerifyInv, PairAgrees, OfOne, Kinds
<1>5. NoExportLost' /\ PairAgrees' /\ DoneIsDone' /\ doubt' \subseteq [Files -> Contents]
    BY <1>1, <1>2, <1>3, <1>4, ChangeKeeps DEF Reserve
<1>6. TypeOK' BY <1>1, <1>3, <1>5 DEF TypeOK, Reserve
<1>7. WindowKept' BY DEF VerifyInv, WindowKept, Reserve, WindowEnd, LastCall
<1>8. WindowFacts' BY <1>1 DEF WindowFacts
<1>9. RecordFacts' BY <1>1 DEF VerifyInv, RecordFacts, Reserve
<1>10. ExportFacts'
    <2>1. dir'[name] = Reserved /\ bak' = name BY <1>1, <1>2 DEF TypeOK, Files, Reserve
    <2>2. key = "bls" => dir["secp"] = None BY DEF VerifyInv, ExportFacts, Reserve
    <2> QED BY <1>1, <1>3, <2>1, <2>2 DEF ExportFacts, Kinds
<1> QED BY <1>5, <1>6, <1>7, <1>8, <1>9, <1>10 DEF VerifyInv

LEMMA AsideStep ==
    ASSUME VerifyInv, Aside
    PROVE  VerifyInv'
<1> USE TimeAssumption, FileAssumption
<1>1. TypeOK /\ step = 7 /\ step' = 7 /\ key \in Kinds /\ bak \in Names /\ dir[bak] = Reserved
    BY DEF VerifyInv, TypeOK, RecordFacts, ExportFacts, Aside
<1>2. dir' = [dir EXCEPT ![bak] = dir[key], ![key] = None] /\ doubt' = doubt \cup {dir}
    BY DEF Aside, Change
<1>3. /\ dir' \in [Files -> Contents] /\ dir'[key] = None
      /\ \A j \in Kinds \ {key} : dir'[j] = dir[j]
      /\ exported \subseteq CopiesIn(dir) => exported \subseteq CopiesIn(dir')
    <2>1. PICK name \in Names, k \in Kinds : name = bak /\ k = key BY <1>1
    <2>2. dir' = [dir EXCEPT ![name] = dir[k], ![k] = None] BY <1>2, <2>1
    <2>3. TypeOK /\ dir[name] = Reserved BY <1>1, <2>1
    <2> QED BY <2>1, <2>2, <2>3, AsideKeeps
<1>4. OfOne(dir'["secp"], dir'["bls"])
    <2>1. None \notin Copies BY DEF FileAssumption
    <2> QED BY <1>1, <1>3, <2>1 DEF OfOne, Kinds, Copies
<1>5. NoExportLost' /\ PairAgrees' /\ DoneIsDone' /\ doubt' \subseteq [Files -> Contents]
    BY <1>1, <1>2, <1>3, <1>4, ChangeKeeps DEF Aside
<1>6. \/ key = "secp" /\ pc' = "rotate" /\ key' = "bls"
      \/ key = "bls" /\ pc' = "export" /\ key' = "secp"
    BY <1>1 DEF Aside, Following, At, Kinds
<1>7. TypeOK' BY <1>1, <1>3, <1>5, <1>6 DEF TypeOK, Aside, Kinds
<1>8. WindowKept' BY DEF VerifyInv, WindowKept, Aside, WindowEnd, LastCall
<1>9. WindowFacts' BY <1>6 DEF WindowFacts
<1>10. RecordFacts' BY <1>1, <1>6 DEF VerifyInv, RecordFacts, Aside
<1>11. ExportFacts'
    <2>1. key = "bls" => dir["secp"] = None BY DEF VerifyInv, ExportFacts, Aside
    <2> QED BY <1>3, <1>6, <2>1 DEF ExportFacts, Kinds
<1> QED BY <1>5, <1>7, <1>8, <1>9, <1>10, <1>11 DEF VerifyInv

LEMMA AsideFailsStep ==
    ASSUME VerifyInv, AsideFails
    PROVE  VerifyInv'
<1> USE TimeAssumption, FileAssumption
<1>1. TypeOK /\ step = 7 /\ step' = 7 /\ pc' = "idle" /\ bak \in Names /\ dir[bak] = Reserved
    BY DEF VerifyInv, RecordFacts, ExportFacts, AsideFails, Ended, At
<1>2. dir' = [dir EXCEPT ![bak] = None] /\ doubt' = doubt \cup {dir}
    BY DEF AsideFails, Change
<1>3. /\ dir' \in [Files -> Contents] /\ \A k \in Kinds : dir'[k] = dir[k]
      /\ exported \subseteq CopiesIn(dir) => exported \subseteq CopiesIn(dir')
    BY <1>1, <1>2, ReserveKeeps
<1>4. OfOne(dir'["secp"], dir'["bls"])
    BY <1>3 DEF VerifyInv, PairAgrees, OfOne, Kinds
<1>5. NoExportLost' /\ PairAgrees' /\ DoneIsDone' /\ doubt' \subseteq [Files -> Contents]
    BY <1>1, <1>2, <1>3, <1>4, ChangeKeeps DEF AsideFails
<1>6. TypeOK' BY <1>1, <1>3, <1>5 DEF TypeOK, AsideFails, Ended, At, Kinds
<1>7. wait' = None /\ ~pending' BY DEF AsideFails, Ended
<1>8. WindowKept' /\ WindowFacts' /\ RecordFacts' /\ ExportFacts'
    BY <1>1, <1>7 DEF WindowKept, WindowFacts, RecordFacts, ExportFacts
<1> QED BY <1>5, <1>6, <1>8 DEF VerifyInv

LEMMA ExportStep ==
    ASSUME VerifyInv, Export
    PROVE  VerifyInv'
<1> USE TimeAssumption, FileAssumption
<1>1. TypeOK /\ step = 7 /\ step' = 7 /\ pc' = "sync" /\ key' = key /\ key \in Kinds
    BY DEF VerifyInv, TypeOK, RecordFacts, Export, At
<1>2. dir["bls"] = None /\ dir["secp"] = (IF key = "secp" THEN None ELSE <<"secp", gen>>)
    BY <1>1 DEF VerifyInv, ExportFacts, Export, Kinds
<1>3. dir' = [dir EXCEPT ![key] = <<key, gen>>] /\ doubt' = doubt \cup {dir}
    BY DEF Export, Change
<1>4. dir[key] = None BY <1>1, <1>2 DEF Kinds
<1>5. /\ dir' \in [Files -> Contents] /\ dir'[key] = <<key, gen>>
      /\ \A j \in Kinds \ {key} : dir'[j] = dir[j]
      /\ exported \subseteq CopiesIn(dir) => exported \subseteq CopiesIn(dir')
    BY <1>1, <1>3, <1>4, ExportKeeps
<1>6. \/ key = "secp" /\ dir'["secp"] = <<"secp", gen>> /\ dir'["bls"] = None
      \/ key = "bls" /\ dir'["secp"] = <<"secp", gen>> /\ dir'["bls"] = <<"bls", gen>>
    BY <1>1, <1>2, <1>5 DEF Kinds
<1>7. OfOne(dir'["secp"], dir'["bls"])
    <2>1. None \notin Copies BY DEF FileAssumption
    <2> QED BY <1>6, <2>1 DEF OfOne, Copies, Kinds
<1>8. NoExportLost' /\ PairAgrees' /\ DoneIsDone' /\ doubt' \subseteq [Files -> Contents]
    BY <1>1, <1>3, <1>5, <1>7, ChangeKeeps DEF Export
<1>9. TypeOK' BY <1>1, <1>5, <1>8 DEF TypeOK, Export
<1>10. WindowKept' BY DEF VerifyInv, WindowKept, Export, WindowEnd, LastCall
<1>11. WindowFacts' BY <1>1 DEF WindowFacts
<1>12. RecordFacts' BY <1>1 DEF VerifyInv, RecordFacts, Export
<1>13. gen' = gen BY DEF Export
<1>14. ExportFacts' BY <1>1, <1>6, <1>13 DEF ExportFacts
<1> QED BY <1>8, <1>9, <1>10, <1>11, <1>12, <1>14 DEF VerifyInv

(* The directory is synced: the export is durable, and nothing is in doubt. *)
LEMMA SyncStep ==
    ASSUME VerifyInv, SyncExport
    PROVE  VerifyInv'
<1> USE TimeAssumption, FileAssumption
<1>1. TypeOK /\ step = 7 /\ step' = 7 /\ key \in Kinds /\ gen' = gen /\ dir' = dir /\ doubt' = {}
    BY DEF VerifyInv, TypeOK, RecordFacts, SyncExport
<1>2. \/ key = "secp" /\ pc' = "export" /\ key' = "bls"
      \/ key = "bls" /\ pc' = "list" /\ key' = "bls"
    BY <1>1 DEF SyncExport, Following, At, Kinds
<1>3. /\ dir["secp"] = <<"secp", gen>>
      /\ dir["bls"] = (IF key = "secp" THEN None ELSE <<"bls", gen>>)
    BY <1>1 DEF VerifyInv, ExportFacts, SyncExport, Kinds
<1>4. <<key, gen>> \in CopiesIn(dir) /\ <<key, gen>> \in Copies
    BY <1>1, <1>3 DEF TypeOK, CopiesIn, Copies, Files, Kinds
<1>5. NoExportLost'
    <2>1. exported' \subseteq CopiesIn(dir) BY <1>4 DEF VerifyInv, NoExportLost, SyncExport
    <2> QED BY <1>1, <2>1 DEF NoExportLost, CopiesIn
<1>6. PairAgrees' BY <1>1 DEF VerifyInv, PairAgrees, OfOne, SyncExport
<1>7. DoneIsDone' BY <1>1 DEF DoneIsDone
<1>8. TypeOK' BY <1>1, <1>2, <1>4 DEF TypeOK, SyncExport, Kinds
<1>9. WindowKept' BY DEF VerifyInv, WindowKept, SyncExport, WindowEnd, LastCall
<1>10. WindowFacts' BY <1>2 DEF WindowFacts
<1>11. RecordFacts' BY <1>1, <1>2 DEF VerifyInv, RecordFacts, SyncExport
<1>12. ExportFacts' BY <1>1, <1>2, <1>3 DEF ExportFacts, Kinds
<1> QED BY <1>5, <1>6, <1>7, <1>8, <1>9, <1>10, <1>11, <1>12 DEF VerifyInv

(* A kind of which there is no copy, and the public-key listing, leave the
   directory as it is. *)
LEMMA NothingToRotateStep ==
    ASSUME VerifyInv, NothingToRotate
    PROVE  VerifyInv'
<1> USE TimeAssumption, FileAssumption
<1>1. TypeOK /\ step = 7 /\ step' = 7 /\ key \in Kinds /\ dir[key] = None
    BY DEF VerifyInv, TypeOK, RecordFacts, NothingToRotate
<1>2. UNCHANGED <<wait, pending, bak, gen, confirmed, disk>> BY DEF NothingToRotate
<1>3. NoExportLost' /\ PairAgrees' /\ DoneIsDone'
    BY <1>1, <1>2, SameDisk DEF disk
<1>4. \/ key = "secp" /\ pc' = "rotate" /\ key' = "bls"
      \/ key = "bls" /\ pc' = "export" /\ key' = "secp"
    BY <1>1 DEF NothingToRotate, Following, At, Kinds
<1>5. TypeOK' BY <1>1, <1>2, <1>4 DEF TypeOK, disk, Kinds
<1>6. WindowKept' BY <1>2 DEF VerifyInv, WindowKept, WindowEnd, LastCall
<1>7. WindowFacts' BY <1>4 DEF WindowFacts
<1>8. RecordFacts' BY <1>1, <1>2, <1>4 DEF VerifyInv, RecordFacts, NothingToRotate
<1>9. ExportFacts'
    <2>1. key = "bls" => dir["secp"] = None BY DEF VerifyInv, ExportFacts, NothingToRotate
    <2> QED BY <1>1, <1>2, <1>4, <2>1 DEF ExportFacts, disk
<1> QED BY <1>3, <1>5, <1>6, <1>7, <1>8, <1>9 DEF VerifyInv

LEMMA RefreshListStep ==
    ASSUME VerifyInv, NEW ok \in BOOLEAN, RefreshList(ok)
    PROVE  VerifyInv'
<1> USE TimeAssumption, FileAssumption
<1>1. TypeOK /\ step = 7 /\ step' = 7 /\ gen \in 0 .. MaxGen
    BY DEF VerifyInv, TypeOK, RecordFacts, RefreshList
<1>2. dir["secp"] = <<"secp", gen>> /\ dir["bls"] = <<"bls", gen>> /\ doubt = {}
    BY DEF VerifyInv, ExportFacts, RefreshList, Kinds
<1>3. UNCHANGED <<wait, pending, bak, gen, confirmed, dir, doubt, exported>> /\ pc' = "record" /\ key' = key
    BY DEF RefreshList, At
<1>4. listings' \subseteq listings \cup {<<<<"secp", gen>>, <<"bls", gen>>>>}
    BY <1>2 DEF RefreshList
<1>5. NoExportLost' /\ DoneIsDone'
    BY <1>1, <1>3 DEF VerifyInv, NoExportLost, DoneIsDone, CopiesIn
<1>6. PairAgrees'
    <2>1. \A text \in listings' : text = <<<<"secp", text[1][2]>>, <<"bls", text[1][2]>>>>
        BY <1>4 DEF VerifyInv, PairAgrees
    <2> QED BY <1>3, <2>1 DEF VerifyInv, PairAgrees, OfOne
<1>7. TypeOK'
    <2>1. <<<<"secp", gen>>, <<"bls", gen>>>> \in Contents \X Contents
        BY <1>1 DEF Contents, Copies, Kinds
    <2> QED BY <1>1, <1>3, <1>4, <2>1 DEF TypeOK
<1>8. WindowKept' BY <1>3 DEF VerifyInv, WindowKept, WindowEnd, LastCall
<1>9. WindowFacts' /\ ExportFacts' BY <1>2, <1>3 DEF WindowFacts, ExportFacts, Kinds
<1>10. RecordFacts' BY <1>1, <1>3 DEF VerifyInv, RecordFacts, RefreshList
<1> QED BY <1>5, <1>6, <1>7, <1>8, <1>9, <1>10 DEF VerifyInv

-----------------------------------------------------------------------------
(* The end of the run, of the process, of the power; another migration. *)
LEMMA EndSteps ==
    ASSUME VerifyInv, Record \/ Finish \/ Exit \/ PowerLoss \/ Migrate
    PROVE  VerifyInv'
<1> USE TimeAssumption, FileAssumption
<1>1. CASE Record
    <2>1. /\ step = 7 /\ pc' = "finish" /\ UNCHANGED <<key, wait, pending, bak, gen, confirmed, disk>>
          /\ ~pending => confirmed
        BY <1>1 DEF Record, At, VerifyInv, RecordFacts
    <2>2. step' = (IF pending THEN 7 ELSE 8) BY <1>1, <2>1 DEF Record
    <2>3. doubt = {} /\ \A k \in Kinds : dir[k] = <<k, gen>>
        BY <1>1 DEF Record, VerifyInv, ExportFacts
    <2>4. NoExportLost' /\ PairAgrees' BY <2>1 DEF VerifyInv, NoExportLost, PairAgrees, CopiesIn, OfOne, disk
    <2>5. DoneIsDone'
        <3>1. CASE pending BY <2>2, <3>1 DEF DoneIsDone
        <3>2. CASE ~pending BY <2>1, <2>3, <3>2 DEF DoneIsDone, disk
        <3> QED BY <3>1, <3>2
    <2>6. TypeOK' BY <2>1, <2>2 DEF VerifyInv, TypeOK, disk
    <2>7. WindowKept' BY <2>1 DEF VerifyInv, WindowKept, WindowEnd, LastCall
    <2>8. WindowFacts' /\ RecordFacts' /\ ExportFacts'
        BY <2>1, <2>2 DEF WindowFacts, RecordFacts, ExportFacts
    <2> QED BY <2>4, <2>5, <2>6, <2>7, <2>8 DEF VerifyInv
<1>2. CASE Finish
    <2>1. UNCHANGED <<gen, confirmed, disk>> /\ pc' = "idle" /\ key' = "secp"
          /\ wait' = None /\ ~pending' /\ bak' = None /\ pending' = FALSE
        BY <1>2 DEF Finish, Ended, At
    <2>2. step \in {7, 8} /\ (~pending => step = 8) /\ (pending => step' = step)
          /\ step' \in {step, None}
        BY <1>2 DEF Finish, VerifyInv, RecordFacts
    <2>3. step' \in {8, None} => step = 8 BY <2>2
    <2>4. NoExportLost' /\ PairAgrees' BY <2>1 DEF VerifyInv, NoExportLost, PairAgrees, CopiesIn, OfOne, disk
    <2>5. DoneIsDone' BY <2>1, <2>3 DEF VerifyInv, DoneIsDone, disk
    <2>6. TypeOK' BY <2>1, <2>2 DEF VerifyInv, TypeOK, disk, Kinds
    <2>7. WindowKept' /\ WindowFacts' /\ RecordFacts' /\ ExportFacts'
        BY <2>1 DEF WindowKept, WindowFacts, RecordFacts, ExportFacts
    <2> QED BY <2>4, <2>5, <2>6, <2>7 DEF VerifyInv
<1>3. CASE Exit
    <2>1. UNCHANGED <<step, gen, confirmed, disk>> /\ pc' = "idle" /\ key' = "secp"
          /\ wait' = None /\ ~pending' /\ bak' = None /\ pending' = FALSE
        BY <1>3 DEF Exit, Ended, At
    <2>2. NoExportLost' /\ PairAgrees' /\ DoneIsDone' BY <2>1, SameDisk DEF disk
    <2>3. TypeOK' BY <2>1 DEF VerifyInv, TypeOK, disk, Kinds
    <2>4. WindowKept' /\ WindowFacts' /\ RecordFacts' /\ ExportFacts'
        BY <2>1 DEF WindowKept, WindowFacts, RecordFacts, ExportFacts
    <2> QED BY <2>2, <2>3, <2>4 DEF VerifyInv
<1>4. CASE PowerLoss
    <2>1. UNCHANGED <<gen, confirmed, exported, listings>> /\ pc' = "idle" /\ key' = "secp"
          /\ wait' = None /\ ~pending' /\ bak' = None /\ pending' = FALSE
        BY <1>4 DEF PowerLoss, Ended, At
    <2>2. dir' \in {dir} \cup doubt /\ doubt' = {} BY <1>4 DEF PowerLoss
    <2>3. step' \in {7, 8, None} /\ (step' \in {8, None} => step \in {8, None})
        BY <1>4 DEF PowerLoss, VerifyInv, TypeOK
    <2>4. NoExportLost' BY <2>1, <2>2 DEF VerifyInv, NoExportLost, CopiesIn
    <2>5. PairAgrees' BY <2>1, <2>2 DEF VerifyInv, PairAgrees, OfOne
    <2>6. DoneIsDone' BY <2>1, <2>2, <2>3 DEF VerifyInv, DoneIsDone
    <2>7. TypeOK' BY <2>1, <2>2, <2>3 DEF VerifyInv, TypeOK, Kinds
    <2>8. WindowKept' /\ WindowFacts' /\ RecordFacts' /\ ExportFacts'
        BY <2>1 DEF WindowKept, WindowFacts, RecordFacts, ExportFacts
    <2> QED BY <2>4, <2>5, <2>6, <2>7, <2>8 DEF VerifyInv
<1>5. CASE Migrate
    <2>1. UNCHANGED <<pc, key, wait, pending, bak, disk>> /\ pc = "idle" /\ step' = 7 /\ confirmed' = FALSE
        BY <1>5 DEF Migrate
    <2>2. gen' \in 1 .. MaxGen BY <1>5 DEF Migrate, VerifyInv, TypeOK
    <2>3. NoExportLost' /\ PairAgrees' BY <2>1 DEF VerifyInv, NoExportLost, PairAgrees, CopiesIn, OfOne, disk
    <2>4. DoneIsDone' BY <2>1 DEF DoneIsDone
    <2>5. TypeOK' BY <2>1, <2>2 DEF VerifyInv, TypeOK, disk
    <2>6. WindowKept' BY <2>1 DEF VerifyInv, WindowKept, WindowEnd, LastCall
    <2>7. WindowFacts' /\ RecordFacts' /\ ExportFacts'
        BY <2>1 DEF VerifyInv, WindowFacts, RecordFacts, ExportFacts
    <2> QED BY <2>3, <2>4, <2>5, <2>6, <2>7 DEF VerifyInv
<1> QED BY <1>1, <1>2, <1>3, <1>4, <1>5

-----------------------------------------------------------------------------
(* Every step of phase 8, of what surrounds it and of what may go wrong keeps
   the invariant. *)
LEMMA VerifyNext == VerifyInv /\ [Next]_vars => VerifyInv'
<1> SUFFICES ASSUME VerifyInv, [Next]_vars PROVE VerifyInv' OBVIOUS
<1>1. CASE UNCHANGED vars
    <2>1. UNCHANGED <<pc, key, wait, pending, bak, step, gen, confirmed, disk>> BY <1>1 DEF vars, disk
    <2>2. NoExportLost' /\ PairAgrees' /\ DoneIsDone' BY <2>1, SameDisk DEF disk
    <2>3. TypeOK' BY <2>1 DEF VerifyInv, TypeOK, disk
    <2>4. WindowKept' BY <2>1 DEF VerifyInv, WindowKept, WindowEnd, LastCall
    <2>5. WindowFacts' /\ RecordFacts' /\ ExportFacts'
        BY <2>1 DEF VerifyInv, WindowFacts, RecordFacts, ExportFacts, disk
    <2> QED BY <2>2, <2>3, <2>4, <2>5 DEF VerifyInv
<1>2. CASE Next
    BY <1>2, WindowSteps, NothingToRotateStep, ReserveStep, AsideStep, AsideFailsStep, ExportStep,
       SyncStep, RefreshListStep, EndSteps DEF Next, RunStep
<1> QED BY <1>1, <1>2

(* Run.verify and Run.finish, their repetitions, power losses and later
   migrations: the invariant holds in every reachable state. *)
THEOREM VerifyInvariance == Spec => []VerifyInv
BY VerifyInit, VerifyNext, PTL DEF Spec

(* Run.refreshKeyBackups, Tools.ExportBackup: no copy of a key is ever lost. *)
THEOREM NoExportIsLost == Spec => []NoExportLost
<1>1. VerifyInv => NoExportLost BY DEF VerifyInv
<1> QED BY <1>1, VerifyInvariance, PTL

(* refreshKeyBackups, refreshPubkeyList: the two exports are of one identity. *)
THEOREM PairsAgree == Spec => []PairAgrees
<1>1. VerifyInv => PairAgrees BY DEF VerifyInv
<1> QED BY <1>1, VerifyInvariance, PTL

(* Run.verify, Run.finish: what is recorded as done is done, and durable. *)
THEOREM DoneIsReallyDone == Spec => []DoneIsDone
<1>1. VerifyInv => DoneIsDone BY DEF VerifyInv
<1> QED BY <1>1, VerifyInvariance, PTL

(* Run.postVerify: the wait for sync ends with its window, or one check over
   RPC later, for any limit and any length of calls and pauses. *)
THEOREM WindowIsKept == Spec => []WindowKept
<1>1. VerifyInv => WindowKept BY DEF VerifyInv
<1> QED BY <1>1, VerifyInvariance, PTL

=============================================================================
