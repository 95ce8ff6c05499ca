------------------------- MODULE AssertionRegister --------------------------
(***************************************************************************)
(* What client authentication promises of single-use assertions, with no   *)
(* handler, no key and no clock: a register of the uses that are spent.    *)
(*                                                                         *)
(*   - a request is accepted by a use that was not spent, and spends it;   *)
(*   - a use may be spent with nobody accepted, when the answer of the     *)
(*     database is lost;                                                   *)
(*   - what is spent stays spent, and nobody is accepted a second time.    *)
(***************************************************************************)
CONSTANTS Requests, Uses, None

VARIABLES
    spent,      \* the uses nobody will be accepted by any more
    accepted    \* the use each request was accepted by

registerVars == <<spent, accepted>>

Init == spent = {} /\ accepted = [r \in Requests |-> None]

Accept(r, u) ==
    /\ u \notin spent /\ accepted[r] = None
    /\ spent' = spent \cup {u}
    /\ accepted' = [accepted EXCEPT ![r] = u]

\* The use is gone, and its client has to make another assertion.
Waste(u) ==
    /\ u \notin spent
    /\ spent' = spent \cup {u}
    /\ UNCHANGED accepted

Next == \E u \in Uses : Waste(u) \/ \E r \in Requests : Accept(r, u)

Spec == Init /\ [][Next]_registerVars

=============================================================================
