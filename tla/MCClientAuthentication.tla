----------------------- MODULE MCClientAuthentication -----------------------
(***************************************************************************)
(* Small instances for TLC: two clients, each holding a key, that give     *)
(* their keys the same kid and their assertions the same jti.              *)
(***************************************************************************)
EXTENDS ClientAuthenticationProperties, TLC

CONSTANTS c1, c2, k1, k2, kid1, j1, s1

RequestSymmetry == Permutations(Requests)

MCOwner == (k1 :> c1) @@ (k2 :> c2)

Signed(c, k, exp) ==
    [sub |-> c, iss |-> c, aud |-> {"server"}, jti |-> j1, exp |-> exp,
     kid |-> kid1, signer |-> k]

Posted(a) ==
    [client_id |-> None, client_secret |-> None,
     client_assertion_type |-> "jwt-bearer", client_assertion |-> a]

Secret(c) ==
    [client_id |-> c, client_secret |-> s1, client_assertion_type |-> None,
     client_assertion |-> None]

\* A client's assertion, a second one with its jti, another client's with the
\* same jti, and one client's name over another client's key.
ReplayForms ==
    {Posted(Signed(c1, k1, 1)), Posted(Signed(c1, k1, 2)),
     Posted(Signed(c2, k2, 1)), Posted(Signed(c1, k2, 1))}

\* Every way a request is refused, and both ways it is not.
OddForms ==
    LET a == Signed(c1, k1, 1) IN
    {Secret(c1), Posted(a), [Posted(a) EXCEPT !.client_id = c1],
     [Posted(a) EXCEPT !.client_assertion_type = "other"],
     [Secret(c2) EXCEPT !.client_secret = None],
     Posted([a EXCEPT !.sub = None]), Posted([a EXCEPT !.kid = None]),
     Posted([a EXCEPT !.iss = c2]), Posted([a EXCEPT !.aud = {"resource"}]),
     Posted([a EXCEPT !.exp = 4]), Posted([a EXCEPT !.exp = 5])}

\* A race of good, doubtful and wrong credentials.
AnyForms == ReplayForms \cup OddForms

=============================================================================
