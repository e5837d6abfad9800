--------------------------- MODULE RpcSyncProofs ---------------------------
(***************************************************************************)
(* Proof that the verdict of rpcsync.Verify means what it says, for any    *)
(* references, margins and word size, and however the heads move meanwhile.*)
(***************************************************************************)
EXTENDS RpcSync, TLAPS

(* In every state the type invariant covers, a reported head is one that some
   reference gave in that round. *)
LEMMA ReportedByOne ==
    ASSUME TypeOK, NEW k \in 1 .. 2, NEW h
    PROVE  /\ h \in Reported(k) <=> h # None /\ \E r \in Refs : h = heads[k][r]
           /\ h \in Reported(k) => h \in Heads
BY DEF TypeOK, Reported

(* The round that is compared is one of the two. *)
LEMMA LastIsOne == LastRound \in 1 .. 2
BY DEF LastRound

(* A sum of words is no larger than the sum of the numbers, and the same while
   it fits. *)
LEMMA SumOfWords ==
    ASSUME NEW x \in Heads, NEW y \in Heads
    PROVE  /\ Plus(x, y) \in Nat /\ Plus(x, y) <= x + y
           /\ x + y < Word => Plus(x, y) = x + y
BY WordAssumption DEF Plus, Heads

(* Before the first check nothing has been read. *)
LEMMA RpcInit == Init => RpcInv
<1> SUFFICES ASSUME Init PROVE RpcInv OBVIOUS
<1>1. TypeOK BY DEF Init, TypeOK, NoHeads, After
<1>2. ReadingsInv BY DEF Init, ReadingsInv, NoHeads
<1>3. OrderInv /\ TipInv /\ SoundVerdict /\ TipNotBehind
    BY DEF Init, OrderInv, TipInv, SoundVerdict, TipNotBehind
<1> QED BY <1>1, <1>2, <1>3 DEF RpcInv

(* Heads that move keep what was read below what there is. *)
LEMMA AdvanceKeeps == ASSUME RpcInv, NEW n \in Nodes, Advance(n) PROVE RpcInv'
<1> USE WordAssumption, NodeAssumption DEF RpcInv, Advance, readings, Nodes
<1>1. \A m \in Nodes : head[m] \in Int /\ head'[m] \in Int /\ head[m] <= head'[m]
    BY DEF TypeOK, Heads
<1>2. TypeOK'
    <2>1. head[n] + 1 \in Heads BY DEF TypeOK, Heads
    <2> QED BY <2>1 DEF TypeOK
<1>3. ReadingsInv'
    <2>1. heads[1] \in [Refs -> Heads \cup {None}] /\ heads[2] \in [Refs -> Heads \cup {None}]
        BY DEF TypeOK
    <2>2. ASSUME NEW k \in 1 .. 2, NEW r \in Refs, heads[k][r] # None
          PROVE  r \in onChain /\ heads[k][r] <= head'[r]
        <3>1. heads[k][r] \in Int BY <2>1, <2>2 DEF TypeOK, Heads
        <3> QED BY <1>1, <2>2, <3>1 DEF ReadingsInv
    <2>3. first # None => first <= head'[Local] BY <1>1 DEF ReadingsInv, TypeOK, Heads
    <2>4. second # None => second <= head'[Local] BY <1>1 DEF ReadingsInv, TypeOK, Heads
    <2> QED BY <2>2, <2>3, <2>4 DEF ReadingsInv
<1>4. OrderInv' BY DEF OrderInv
<1>5. TipInv' BY DEF TipInv, Reported
<1>6. LastRound' = LastRound /\ Reported(LastRound)' = Reported(LastRound)
    BY DEF LastRound, Reported
<1>7. SoundVerdict'
    <2> SUFFICES ASSUME verdict = "inSync" PROVE SoundVerdict' BY DEF SoundVerdict
    <2>1. second <= head'[Local]
        <3>1. second \in Heads \cup {None} /\ first \in Heads \cup {None} BY DEF TypeOK
        <3> QED BY <1>3, <3>1 DEF OrderInv, ReadingsInv
    <2>2. PICK r \in Refs \cap onChain :
            /\ heads[LastRound][r] # None /\ second <= heads[LastRound][r] + MaxAhead
            /\ heads[LastRound][r] <= head[r]
        BY DEF SoundVerdict
    <2>3. heads[LastRound][r] <= head'[r]
        BY <1>3, <2>2, LastIsOne DEF ReadingsInv
    <2> QED BY <1>6, <2>1, <2>2, <2>3 DEF SoundVerdict
<1>8. TipNotBehind' BY DEF TipNotBehind
<1> QED BY <1>2, <1>3, <1>4, <1>5, <1>7, <1>8

(* Each request and its answer keep the invariant; what they leave alone is
   covered by its own parts. *)
LEMMA RequestKeeps ==
    ASSUME RpcInv, \/ Begin \/ ReadChain \/ ReadSyncing \/ ReadFirst
                   \/ UsableReferences \/ EndRound \/ LocalSilent
    PROVE  RpcInv'
<1> USE DEF RpcInv, Go, Conclude, network, readings, After
<1>1. CASE Begin
    <2>1. TypeOK' BY <1>1 DEF Begin, TypeOK, NoHeads, AtTip
    <2>2. ReadingsInv' BY <1>1 DEF Begin, ReadingsInv, NoHeads
    <2> QED BY <1>1, <2>1, <2>2 DEF Begin, OrderInv, TipInv, AtTip, SoundVerdict, TipNotBehind
<1>2. CASE ReadChain
    <2>1. TypeOK' /\ ReadingsInv' BY <1>2 DEF ReadChain, TypeOK, ReadingsInv
    <2>2. OrderInv' BY <1>2 DEF ReadChain, OrderInv
    <2> QED BY <1>2, <2>1, <2>2 DEF ReadChain, OrderInv, TipInv, AtTip, SoundVerdict, TipNotBehind
<1>3. CASE ReadSyncing
    <2>1. TypeOK' /\ ReadingsInv' BY <1>3 DEF ReadSyncing, TypeOK, ReadingsInv
    <2>2. OrderInv' BY <1>3 DEF ReadSyncing, OrderInv
    <2> QED BY <1>3, <2>1, <2>2 DEF ReadSyncing, OrderInv, TipInv, AtTip, SoundVerdict, TipNotBehind
<1>4. CASE ReadFirst
    <2>1. head[Local] \in Heads BY DEF TypeOK, Nodes
    <2>2. TypeOK' BY <1>4, <2>1 DEF ReadFirst, TypeOK
    <2>3. ReadingsInv' BY <1>4, <2>1 DEF ReadFirst, ReadingsInv, Heads
    <2>4. OrderInv' BY <1>4, <2>1, WordAssumption DEF ReadFirst, OrderInv
    <2> QED BY <1>4, <2>2, <2>3, <2>4 DEF ReadFirst, OrderInv, TipInv, AtTip, SoundVerdict, TipNotBehind
<1>5. CASE UsableReferences
    <2>1. TypeOK' /\ ReadingsInv' BY <1>5 DEF UsableReferences, TypeOK, ReadingsInv
    <2>2. OrderInv' BY <1>5 DEF UsableReferences, OrderInv
    <2> QED BY <1>5, <2>1, <2>2 DEF UsableReferences, OrderInv, TipInv, AtTip, SoundVerdict, TipNotBehind
<1>6. CASE EndRound
    <2>1. TypeOK' /\ ReadingsInv' BY <1>6 DEF EndRound, TypeOK, ReadingsInv
    <2>2. OrderInv' BY <1>6 DEF EndRound, OrderInv
    <2> QED BY <1>6, <2>1, <2>2 DEF EndRound, OrderInv, TipInv, AtTip, SoundVerdict, TipNotBehind
<1>7. CASE LocalSilent
    <2>1. TypeOK' /\ ReadingsInv' BY <1>7 DEF LocalSilent, TypeOK, ReadingsInv
    <2>2. OrderInv' BY <1>7 DEF LocalSilent, OrderInv
    <2> QED BY <1>7, <2>1, <2>2 DEF LocalSilent, TipInv, AtTip, SoundVerdict, TipNotBehind
<1> QED BY <1>1, <1>2, <1>3, <1>4, <1>5, <1>6, <1>7

(* A reference's answer is its head at that moment. *)
LEMMA ReadHeadKeeps == ASSUME RpcInv, NEW r \in Refs, ReadHead(r) PROVE RpcInv'
<1> USE DEF RpcInv, ReadHead, network
<1>1. head[r] \in Heads /\ r \in onChain /\ Round \in 1 .. 2
    BY DEF TypeOK, ReadingsInv, Nodes, Round
<1>2. heads' = heads \/ heads' = [heads EXCEPT ![Round] = [@ EXCEPT ![r] = head[r]]]
    OBVIOUS
<1>3. TypeOK'
    <2>1. heads' \in [1 .. 2 -> [Refs -> Heads \cup {None}]] BY <1>1, <1>2 DEF TypeOK
    <2> QED BY <2>1 DEF TypeOK
<1>4. ReadingsInv'
    <2>1. ASSUME NEW k \in 1 .. 2, NEW q \in Refs
          PROVE  heads'[k][q] = heads[k][q] \/ (q = r /\ heads'[k][q] = head[r])
        BY <1>1, <1>2 DEF TypeOK
    <2>2. ASSUME NEW k \in 1 .. 2, NEW q \in Refs, heads'[k][q] # None
          PROVE  q \in onChain /\ heads'[k][q] <= head[q]
        BY <1>1, <2>1, <2>2 DEF ReadingsInv, Heads
    <2> QED BY <2>2 DEF ReadingsInv
<1>5. pc # "judge" /\ verdict = "none" BY DEF OrderInv
<1> QED BY <1>3, <1>4, <1>5 DEF OrderInv, TipInv, AtTip, SoundVerdict, TipNotBehind

(* The local head is read last: at the tip it is not behind what was heard. *)
LEMMA ReadSecondKeeps == ASSUME RpcInv, ReadSecond PROVE RpcInv'
<1> USE DEF RpcInv, ReadSecond, Go, network
<1>1. head[Local] \in Heads BY DEF TypeOK, Nodes
<1>2. TypeOK' BY <1>1 DEF TypeOK, After
<1>3. ReadingsInv' BY <1>1 DEF ReadingsInv, Heads
<1>4. OrderInv' BY <1>1, WordAssumption DEF OrderInv, After
<1>5. ASSUME tip, NEW k \in 1 .. 2, NEW h \in Reported(k) PROVE h <= head[Local]
    <2>1. PICK r \in Refs : h = heads[k][r] /\ h # None BY <1>5, ReportedByOne
    <2>2. r \in onChain /\ h <= head[r] BY <2>1 DEF ReadingsInv
    <2>3. head[r] <= head[Local] BY <1>5, <2>2 DEF TipInv, AtTip
    <2>4. h \in Heads /\ head[r] \in Heads BY <1>5, ReportedByOne DEF TypeOK, Nodes
    <2> QED BY <1>1, <2>2, <2>3, <2>4 DEF Heads
<1>6. TipInv' BY <1>5 DEF TipInv, AtTip, Reported
<1> QED BY <1>2, <1>3, <1>4, <1>6 DEF OrderInv, SoundVerdict, TipNotBehind

(* The comparison says no more than the readings show. *)
LEMMA JudgeKeeps == ASSUME RpcInv, Judge PROVE RpcInv'
<1> USE DEF RpcInv, Judge, Conclude, network, readings
<1>1. PICK net \in Reported(LastRound) :
        (\A h \in Reported(LastRound) : h <= net) /\ verdict' = Compare(net)
    OBVIOUS
<1>2. PICK r \in Refs : net = heads[LastRound][r] /\ net # None
    BY <1>1, LastIsOne, ReportedByOne
<1>3. net \in Heads /\ first \in Heads /\ second \in Heads
    BY <1>1, LastIsOne, ReportedByOne DEF TypeOK, OrderInv
<1>4. \A h \in Reported(LastRound) : h \in Heads
    BY LastIsOne, ReportedByOne
<1>5. r \in onChain /\ net <= head[r] /\ second <= head[Local] /\ Local \in onChain
    BY <1>2, <1>3, LastIsOne, WordAssumption DEF ReadingsInv, OrderInv
<1>6. LastRound' = LastRound /\ Reported(LastRound)' = Reported(LastRound)
    BY DEF LastRound, Reported
<1>7. SoundVerdict'
    <2> SUFFICES ASSUME Compare(net) = "inSync" PROVE SoundVerdict'
        BY <1>1 DEF SoundVerdict
    <2>1. first < second /\ net <= second + MaxBehind /\ second <= net + MaxAhead
        <3>1. /\ ~(second <= first) /\ ~(Plus(second, MaxBehind) < net)
              /\ ~(second > Plus(net, MaxAhead))
            BY DEF Compare
        <3> HIDE DEF Compare
        <3> QED BY <1>3, <3>1, SumOfWords, WordAssumption DEF Heads
    <2>2. \A h \in Reported(LastRound) : h <= second + MaxBehind
        BY <1>1, <1>3, <1>4, <2>1, WordAssumption DEF Heads
    <2> QED BY <1>2, <1>5, <1>6, <2>1, <2>2 DEF SoundVerdict
<1>8. TipNotBehind'
    <2> SUFFICES ASSUME Compare(net) = "behind", tip PROVE second + MaxBehind >= Word
        BY <1>1 DEF TipNotBehind
    <2>1. Plus(second, MaxBehind) < net BY DEF Compare
    <2>2. net <= second BY <1>1, LastIsOne DEF TipInv
    <2> QED BY <1>3, <2>1, <2>2, SumOfWords, WordAssumption DEF Heads
<1>9. TypeOK' /\ ReadingsInv' /\ OrderInv' /\ TipInv'
    BY DEF TypeOK, ReadingsInv, OrderInv, TipInv, AtTip
<1> QED BY <1>7, <1>8, <1>9

(* Nothing to compare with: no claim is made. *)
LEMMA NothingKeeps == ASSUME RpcInv, NothingToCompare PROVE RpcInv'
<1> USE DEF RpcInv, NothingToCompare, Conclude, network, readings
<1>1. TypeOK' /\ ReadingsInv' /\ OrderInv' /\ TipInv'
    BY DEF TypeOK, ReadingsInv, OrderInv, TipInv, AtTip
<1> QED BY <1>1 DEF SoundVerdict, TipNotBehind

(* Every step keeps the invariant. *)
LEMMA RpcNext == RpcInv /\ [Next]_vars => RpcInv'
<1> SUFFICES ASSUME RpcInv, [Next]_vars PROVE RpcInv' OBVIOUS
<1>1. CASE UNCHANGED vars
    BY <1>1 DEF vars, RpcInv, TypeOK, ReadingsInv, OrderInv, TipInv, AtTip, Reported,
                LastRound, SoundVerdict, TipNotBehind
<1>2. CASE Next
    BY <1>2, AdvanceKeeps, RequestKeeps, ReadHeadKeeps, ReadSecondKeeps, JudgeKeeps,
       NothingKeeps DEF Next
<1> QED BY <1>1, <1>2

(* Verify: the invariant holds at every point of every check. *)
THEOREM RpcInvariance == Spec => []RpcInv
BY RpcInit, RpcNext, PTL DEF Spec

(* Verify: in sync means on the chain, moved, and within the margins. *)
THEOREM SoundVerdictHolds == Spec => []SoundVerdict
<1>1. RpcInv => SoundVerdict BY DEF RpcInv
<1> QED BY <1>1, RpcInvariance, PTL

(* Verify: a node at the tip is not found behind. *)
THEOREM TipNotBehindHolds == Spec => []TipNotBehind
<1>1. RpcInv => TipNotBehind BY DEF RpcInv
<1> QED BY <1>1, RpcInvariance, PTL

=============================================================================
