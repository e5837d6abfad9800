---------------------------- MODULE AtomicRecord -----------------------------
(***************************************************************************)
(* What the durable record promises its callers: fields change one at a    *)
(* time and whole, a power loss may bring back an earlier record but none   *)
(* that never was, and what was reported as recorded is beyond its reach.  *)
(***************************************************************************)
CONSTANTS Keys, Values, None

VARIABLES
    record,     \* what a process reads
    past,       \* what a power loss may bring back in its place
    promised    \* what callers have been told is recorded, None: nothing

vars == <<record, past, promised>>

Empty == [k \in Keys |-> None]

Init == record = Empty /\ past = {} /\ promised = Empty

\* A caller asks for a field to be changed: no promise about it holds now.
Ask(k) ==
    /\ promised' = [promised EXCEPT ![k] = None]
    /\ UNCHANGED <<record, past>>

\* That field changes, and no other.
Put(k, v) ==
    /\ promised[k] = None
    /\ record' = [record EXCEPT ![k] = v]
    /\ past' = past \cup {record}
    /\ UNCHANGED promised

\* The change is reported: nothing from before it can come back.
Report(k) ==
    /\ record[k] # None
    /\ promised' = [promised EXCEPT ![k] = record[k]]
    /\ past' = {}
    /\ UNCHANGED record

Discard ==
    /\ record' = Empty
    /\ past' = past \cup {record}
    /\ promised' = Empty

PowerLoss ==
    /\ record' \in {record} \cup past
    /\ past' = {}
    /\ UNCHANGED promised

Next ==
    \/ \E k \in Keys : Ask(k) \/ Report(k)
    \/ \E k \in Keys, v \in Values : Put(k, v)
    \/ Discard \/ PowerLoss

Spec == Init /\ [][Next]_vars

=============================================================================
