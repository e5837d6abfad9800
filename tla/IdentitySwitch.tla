--------------------------- MODULE IdentitySwitch ---------------------------
(***************************************************************************)
(* What monad-failover promises of the machine it runs on, with no word of *)
(* records, staging or phases.  The machine holds one identity; its units  *)
(* serve that identity or nothing.  The identity changes only in the dark: *)
(* every unit locked against starting, and down.  While it is being changed*)
(* there is no identity, and then no lock is lifted and nothing starts.    *)
(***************************************************************************)
CONSTANTS Units, Identities, None, Down

VARIABLES
    identity,   \* the identity on disk, None while it is being changed
    locked,     \* units that cannot start
    serving     \* the identity each unit serves, or Down

switchVars == <<identity, locked, serving>>

SwitchInit ==
    /\ identity \in Identities
    /\ locked \subseteq Units
    /\ serving \in [Units -> {identity, Down}]

Lock ==
    /\ locked' \subseteq Units /\ locked \subseteq locked'
    /\ UNCHANGED <<identity, serving>>

Unlock ==
    /\ identity \in Identities
    /\ locked' \subseteq locked
    /\ UNCHANGED <<identity, serving>>

Dark == locked = Units /\ \A u \in Units : serving[u] = Down

Change ==
    /\ Dark
    /\ identity' \in Identities \cup {None}
    /\ UNCHANGED <<locked, serving>>

\* Units go down for any reason; units that are not locked come up with the
\* identity on disk.
MayServe(u) ==
    {serving[u], Down} \cup (IF u \in locked THEN {} ELSE {identity} \cap Identities)

Serve ==
    /\ DOMAIN serving' = Units
    /\ \A u \in Units : serving'[u] \in MayServe(u)
    /\ UNCHANGED <<identity, locked>>

SwitchNext == Lock \/ Unlock \/ Change \/ Serve

Spec == SwitchInit /\ [][SwitchNext]_switchVars

=============================================================================
