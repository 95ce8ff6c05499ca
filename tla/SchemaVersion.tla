--------------------------- MODULE SchemaVersion ---------------------------
(***************************************************************************)
(* What the migration runner promises: the schema goes from nothing to the *)
(* versions of the builds that start over it, each in one step, and the    *)
(* record of what was applied goes with it.                                *)
(***************************************************************************)
EXTENDS Naturals

CONSTANTS Builds    \* the newest migration of each build

VARIABLES
    schema,     \* the migrations in effect
    recorded    \* the migrations on record

versionVars == <<schema, recorded>>

Init == schema = {} /\ recorded = {}

\* Everything up to n takes effect and is recorded.
Upgrade(n) ==
    /\ ~(1..n \subseteq schema)
    /\ schema' = schema \cup 1..n
    /\ recorded' = recorded \cup 1..n

Next == \E n \in Builds : Upgrade(n)

Spec == Init /\ [][Next]_versionVars

=============================================================================
