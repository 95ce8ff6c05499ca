-------------------------- MODULE AuthorityLedger ---------------------------
(***************************************************************************)
(* What the token endpoint promises, with no request, no database and no   *)
(* clock: a ledger of credentials, of which some are outstanding.          *)
(*                                                                         *)
(*   - a credential enters the ledger before it becomes outstanding;       *)
(*   - it is either the root of a new task, or derived from an outstanding *)
(*     one by a hop that can only shrink what it carries;                  *)
(*   - it never leaves the ledger and never changes there.                 *)
(*                                                                         *)
(* TokenIssuance implements it; the ledger is the issued_credential table, *)
(* which a later phase revokes from.                                       *)
(***************************************************************************)
EXTENDS Delegation

CONSTANT MaxDepth    \* Settings.max_delegation_depth

VARIABLES
    ledger,         \* the credentials recorded
    outstanding     \* those a client has been given

ledgerVars == <<ledger, outstanding>>

Init == ledger = {} /\ outstanding = {}

\* c is a new credential that starts a task of its own.
Grant(c) ==
    /\ c.act = <<>> /\ c.delegation_depth = 0 /\ c.exp \in Nat
    /\ \A d \in ledger : d.jti # c.jti /\ d.task # c.task
    /\ ledger' = ledger \cup {c}
    /\ UNCHANGED outstanding

\* c is a new credential one hop below s, within the depth cap.
Delegate(s, c) ==
    /\ s \in outstanding
    /\ Derives(s, c)
    /\ c.delegation_depth <= MaxDepth /\ c.exp \in Nat
    /\ \A d \in ledger : d.jti # c.jti
    /\ ledger' = ledger \cup {c}
    /\ UNCHANGED outstanding

\* A recorded credential reaches the client it was issued to.
Deliver(c) ==
    /\ c \in ledger \ outstanding
    /\ outstanding' = outstanding \cup {c}
    /\ UNCHANGED ledger

Next ==
    \/ \E c \in ledger' \ ledger :
          Grant(c) \/ \E s \in outstanding : Delegate(s, c)
    \/ \E c \in ledger \ outstanding : Deliver(c)

Spec == Init /\ [][Next]_ledgerVars

-----------------------------------------------------------------------------
(* What follows from that alone *)

\* Every credential of the ledger is within the root of its task, which is in
\* the ledger too: through any number of hops, nobody gains a scope, a later
\* second or another account (phase 4).
WithinItsRoot == \A c \in ledger : \E d \in ledger : Within(c, d)

\* A task has one root (phase 6 revokes by task).
OneRoot ==
    \A c, d \in ledger :
        c.act = <<>> /\ d.act = <<>> /\ c.task = d.task => c = d

\* Nothing is outstanding that the ledger does not hold.
OutstandingIsHeld == outstanding \subseteq ledger

\* The inductive invariant: those are on a chain who hold a credential.
Names == {c.sub : c \in ledger}

LedgerInv ==
    /\ OutstandingIsHeld
    /\ \A c \in ledger : c.exp \in Nat /\ c.act \in Seq(Names)
    /\ WithinItsRoot
    /\ OneRoot

=============================================================================
