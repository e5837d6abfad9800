------------------------------- MODULE RpcSync -------------------------------
(***************************************************************************)
(* rpcsync.Verify: is this node in sync, judged from its JSON-RPC endpoint *)
(* and those of public references.  Heads move while they are being read,  *)
(* any request may fail, and the comparison adds in machine words.         *)
(***************************************************************************)
EXTENDS Integers

CONSTANTS
    Refs,       \* the public endpoints
    Local,      \* this node
    MaxBehind,  \* blocks the local head may trail the references
    MaxAhead,   \* blocks it may lead them
    Word,       \* one more than the largest head, 2^64 in the code
    None        \* no head was read

Nodes == Refs \cup {Local}
Heads == 0 .. Word - 1

ASSUME NodeAssumption == Local \notin Refs
ASSUME WordAssumption ==
    /\ Word \in Nat \ {0} /\ None \notin Heads
    /\ MaxBehind \in Heads /\ MaxAhead \in Heads

VARIABLES
    pc,             \* the request Verify makes next
    head,           \* the head of every node
    onChain,        \* the nodes of the expected chain
    usable, asked,  \* references validated, and those still to read in this round
    heads,          \* what they answered in each of the two rounds
    first, second,  \* the two readings of the local head
    verdict,
    tip             \* since the check began no reference was ahead of the node

network == <<head, onChain>>
readings == <<usable, asked, heads, first, second>>
vars == <<pc, head, onChain, usable, asked, heads, first, second, verdict, tip>>

\* After each request that is answered.  Mutant: the local head is read between
\* the rounds.
AfterLocalFirst == [chain |-> "syncing", syncing |-> "first", first |-> "references",
    references |-> "round1", round1 |-> "second", second |-> "round2", round2 |-> "judge"]

After == [chain |-> "syncing", syncing |-> "first", first |-> "references",
    references |-> "round1", round1 |-> "round2", round2 |-> "second", second |-> "judge"]

NoHeads == [k \in 1 .. 2 |-> [r \in Refs |-> None]]
AtTip == \A r \in Refs \cap onChain : head[r] <= head[Local]

Init ==
    /\ pc = "done" /\ verdict = "unverified" /\ tip = FALSE
    /\ head \in [Nodes -> Heads] /\ onChain \in SUBSET Nodes
    /\ usable = {} /\ asked = {} /\ heads = NoHeads
    /\ first = None /\ second = None

Go == pc' = After[pc]
Conclude(v) == pc' = "done" /\ verdict' = v

-----------------------------------------------------------------------------
(* The network, at any time.                                               *)

Advance(n) ==
    /\ head[n] + 1 < Word
    /\ head' = [head EXCEPT ![n] = @ + 1]
    /\ UNCHANGED <<pc, onChain, readings, verdict>>
    /\ tip' = (tip /\ AtTip')

-----------------------------------------------------------------------------
(* Verify.                                                                 *)

\* A check is made, perhaps once more.
Begin ==
    /\ pc = "done" /\ pc' = "chain"
    /\ verdict' = "none" /\ tip' = AtTip
    /\ usable' = {} /\ asked' = {} /\ heads' = NoHeads
    /\ first' = None /\ second' = None
    /\ UNCHANGED network

ReadChain ==
    /\ pc = "chain"
    /\ IF Local \in onChain THEN Go /\ UNCHANGED verdict ELSE Conclude("wrongChain")
    /\ UNCHANGED <<network, readings, tip>>

\* A sync object ends the check; false, an error or anything else does not.
ReadSyncing ==
    /\ pc = "syncing"
    /\ \/ Go /\ UNCHANGED verdict
       \/ Conclude("syncing")
    /\ UNCHANGED <<network, readings, tip>>

ReadFirst ==
    /\ pc = "first" /\ Go
    /\ first' = head[Local]
    /\ UNCHANGED <<network, usable, asked, heads, second, verdict, tip>>

\* Mutant: a reference of another chain is used.
AnyReferences ==
    /\ pc = "references" /\ Go
    /\ usable' \in SUBSET Refs /\ asked' = usable'
    /\ UNCHANGED <<network, heads, first, second, verdict, tip>>

UsableReferences ==
    /\ pc = "references" /\ Go
    /\ usable' \in SUBSET (Refs \cap onChain) /\ asked' = usable'
    /\ UNCHANGED <<network, heads, first, second, verdict, tip>>

Round == IF pc = "round1" THEN 1 ELSE 2

\* A usable reference answers, or it does not.
ReadHead(r) ==
    /\ pc \in {"round1", "round2"} /\ r \in asked
    /\ asked' = asked \ {r}
    /\ \/ heads' = [heads EXCEPT ![Round] = [@ EXCEPT ![r] = head[r]]]
       \/ UNCHANGED heads
    /\ UNCHANGED <<pc, network, usable, first, second, verdict, tip>>

EndRound ==
    /\ pc \in {"round1", "round2"} /\ asked = {} /\ Go
    /\ asked' = usable
    /\ UNCHANGED <<network, usable, heads, first, second, verdict, tip>>

ReadSecond ==
    /\ pc = "second" /\ Go
    /\ second' = head[Local]
    /\ UNCHANGED <<network, usable, asked, heads, first, verdict, tip>>

\* The local endpoint does not answer one of three requests.
LocalSilent ==
    /\ pc \in {"chain", "first", "second"} /\ Conclude("unverified")
    /\ UNCHANGED <<network, readings, tip>>

-----------------------------------------------------------------------------
(* The comparison.                                                         *)

Reported(k) == {heads[k][r] : r \in Refs} \ {None}

\* The second round replaces the first, unless nobody answered it.
LastRound == IF Reported(2) # {} THEN 2 ELSE 1

\* The sum of two machine words.
Plus(x, y) == IF x + y < Word THEN x + y ELSE x + y - Word

\* Mutant: a node that has not moved is accepted.
CompareUnmoved(net) ==
    IF Plus(second, MaxBehind) < net THEN "behind"
    ELSE IF second > Plus(net, MaxAhead) THEN "ahead"
    ELSE "inSync"

Compare(net) ==
    IF second <= first THEN "stalled"
    ELSE IF Plus(second, MaxBehind) < net THEN "behind"
    ELSE IF second > Plus(net, MaxAhead) THEN "ahead"
    ELSE "inSync"

Judge ==
    /\ pc = "judge"
    /\ \E net \in Reported(LastRound) :
        /\ \A h \in Reported(LastRound) : h <= net
        /\ Conclude(Compare(net))
    /\ UNCHANGED <<network, readings, tip>>

NothingToCompare ==
    /\ pc = "judge" /\ Reported(LastRound) = {}
    /\ Conclude("unverified")
    /\ UNCHANGED <<network, readings, tip>>

-----------------------------------------------------------------------------
Next ==
    \/ \E n \in Nodes : Advance(n)
    \/ Begin \/ ReadChain \/ ReadSyncing \/ ReadFirst \/ UsableReferences
    \/ \E r \in Refs : ReadHead(r)
    \/ EndRound \/ ReadSecond \/ LocalSilent \/ Judge \/ NothingToCompare

Spec == Init /\ [][Next]_vars

-----------------------------------------------------------------------------
\* "In sync" is said only of a node of the right chain that has moved since the
\* check began, is within the margins of some reference of that chain and
\* trails none that answered last: also where the sums overflow.
SoundVerdict ==
    verdict = "inSync" =>
        /\ Local \in onChain /\ first < second /\ second <= head[Local]
        /\ \A h \in Reported(LastRound) : h <= second + MaxBehind
        /\ \E r \in Refs \cap onChain :
            LET h == heads[LastRound][r]
            IN  h # None /\ second <= h + MaxAhead /\ h <= head[r]

\* "The time the reference calls take counts in the node's favour" (package
\* comment): a node at the tip throughout is never found behind, except within
\* MaxBehind of the largest head there can be.
TipNotBehind == verdict = "behind" /\ tip => second + MaxBehind >= Word

-----------------------------------------------------------------------------
TypeOK ==
    /\ pc \in DOMAIN After \cup {"judge", "done"}
    /\ head \in [Nodes -> Heads] /\ onChain \subseteq Nodes
    /\ usable \subseteq Refs /\ asked \subseteq usable
    /\ heads \in [1 .. 2 -> [Refs -> Heads \cup {None}]]
    /\ first \in Heads \cup {None} /\ second \in Heads \cup {None}
    /\ tip \in BOOLEAN

\* What was read is what some node of the chain really had, and has not lost.
ReadingsInv ==
    /\ usable \subseteq onChain
    /\ \A k \in 1 .. 2, r \in Refs :
        heads[k][r] # None => r \in onChain /\ heads[k][r] <= head[r]
    /\ first # None => first <= head[Local]
    /\ second # None => second <= head[Local]

\* How far the check is.
OrderInv ==
    /\ pc # "done" => verdict = "none"
    /\ pc \notin {"chain", "done"} => Local \in onChain
    /\ pc \in {"references", "round1", "round2", "second", "judge"} => first # None
    /\ pc = "judge" \/ verdict = "inSync" => second # None

\* At the tip, what the references answered was not ahead of the last reading.
TipInv ==
    /\ tip => AtTip
    /\ tip /\ pc = "judge" =>
        \A k \in 1 .. 2 : \A h \in Reported(k) : h <= second

\* Strong enough to be kept by every step.
RpcInv ==
    /\ TypeOK /\ ReadingsInv /\ OrderInv /\ TipInv
    /\ SoundVerdict /\ TipNotBehind

=============================================================================
