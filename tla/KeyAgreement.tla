---------------------------- MODULE KeyAgreement ----------------------------
(***************************************************************************)
(* What the key store promises the processes of the server: at most one    *)
(* key is chosen, and nobody signs with any other.  PowerSpec is what is   *)
(* left of it where the machine may lose power: a choice that had not      *)
(* reached the disk is forgotten, together with everybody who knew it.     *)
(***************************************************************************)
CONSTANTS Starters, Keys, None

VARIABLES
    chosen,     \* the signing key, once there is one
    serving     \* the key each process signs with, None while it has none

agreementVars == <<chosen, serving>>

Init == chosen = None /\ serving = [p \in Starters |-> None]

\* The key is chosen once.
Choose(k) ==
    /\ chosen = None
    /\ chosen' = k
    /\ UNCHANGED serving

\* A process starts to sign with the chosen key.
Serve(p) ==
    /\ chosen # None
    /\ serving' = [serving EXCEPT ![p] = chosen]
    /\ UNCHANGED chosen

\* A process stops.
Stop(p) ==
    /\ serving' = [serving EXCEPT ![p] = None]
    /\ UNCHANGED chosen

Next ==
    \/ \E k \in Keys : Choose(k)
    \/ \E p \in Starters : Serve(p) \/ Stop(p)

Spec == Init /\ [][Next]_agreementVars

\* Everybody stops at once, and the choice may be forgotten.
LosePower ==
    /\ serving' = [p \in Starters |-> None]
    /\ chosen' \in {chosen, None}

PowerSpec == Init /\ [][Next \/ LosePower]_agreementVars

=============================================================================
