----------------------------- MODULE Delegation -----------------------------
(***************************************************************************)
(* Reading a delegation chain, and the scope intersection every grant uses *)
(* (src/services/delegation.py, src/services/scopes.py).                   *)
(*                                                                         *)
(* The claims of a token are a record.  Its act claim, a linked list of    *)
(* objects in the code, is the sequence of the subs of that list, the      *)
(* outermost first, and <<>> when the claim is absent.  Scopes are sets:   *)
(* the code keeps an order that only the wording of an answer depends on.  *)
(***************************************************************************)
EXTENDS Naturals, Sequences, FiniteSets

CONSTANT None   \* an absent claim, row, column or form field, as in the code

\* The structural limit on a walk of the act claim, before any policy.
MAXIMUM_CHAIN_DEPTH == 32

-----------------------------------------------------------------------------
(* src/services/delegation.py *)

\* Outermost first: who holds the token, then who authorised them.
Chain(t) == <<t.sub>> \o t.act

\* chain() refuses a walk longer than the structural limit.
Readable(t) == Len(Chain(t)) <= MAXIMUM_CHAIN_DEPTH

\* The identity the whole chain rests on.
Root(t) == Chain(t)[Len(Chain(t))]

\* Hops away from the root: a token issued to its own subject is at 0.
Depth(t) == Len(Chain(t)) - 1

\* Mutant: the previous holder is dropped from the chain.
NestWithoutHolder(t) == t.act

\* The act claim of a token derived from t: the holder of t, then t's chain.
Nest(t) == <<t.sub>> \o t.act

\* declared_depth() accepts the counter only if it agrees with the chain.
DeclaresItsDepth(t) == Readable(t) /\ t.delegation_depth = Depth(t)

\* An absent may_act leaves the actor's own registration as the only ceiling.
MayActPermits(t, actor) == t.may_act # None => actor \in t.may_act

-----------------------------------------------------------------------------
(* src/services/scopes.py *)

\* The scopes every ceiling allows.
WithinEvery(requested, ceilings) ==
    {s \in requested : \A ceiling \in ceilings : s \in ceiling}

\* A request for nothing is granted nothing; any other one is refused if a
\* ceiling is empty or nothing requested is within all of them.
AttenuationAccepts(requested, ceilings) ==
    requested # {} =>
        /\ \A ceiling \in ceilings : ceiling # {}
        /\ WithinEvery(requested, ceilings) # {}

\* attenuate() when it does not refuse.
Attenuate(requested, ceilings) == WithinEvery(requested, ceilings)

-----------------------------------------------------------------------------
(* What one hop promises: the shrink rules of phase 4, from a token to the *)
(* token derived from it.                                                  *)

Derives(parent, child) ==
    /\ child.act = Chain(parent)
    /\ child.delegation_depth = parent.delegation_depth + 1
    /\ child.scope \subseteq parent.scope
    /\ child.exp <= parent.exp
    /\ child.task = parent.task
    /\ child.tenant = parent.tenant

\* What any number of hops promise: t carries no more than the root of its
\* task.
Within(t, root) ==
    /\ root.act = <<>> /\ root.delegation_depth = 0
    /\ root.task = t.task /\ root.sub = Root(t)
    /\ t.scope \subseteq root.scope
    /\ t.exp <= root.exp
    /\ t.tenant = root.tenant

=============================================================================
