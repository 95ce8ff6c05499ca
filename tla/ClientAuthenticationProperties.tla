------------------- MODULE ClientAuthenticationProperties -------------------
(* What step 1 of the pipeline owes its clients. *)
EXTENDS ClientAuthentication

-----------------------------------------------------------------------------
(* Safety *)

\* A request that got as far as its claim, or further, by an assertion.
Asserts(r) == form[r] # None /\ PresentsAssertion(form[r])

Judged(r) == Asserts(r) /\ pc[r] \in {"claiming", "authenticated", "replayed"}

Presented(r) == form[r].client_assertion

\* "Single use, decided by the database rather than by this process"
\* (private_key_jwt.py:155): however many requests present a jti, on however
\* many servers, one is authenticated by it.
SingleUse ==
    \A r, s \in Requests :
        /\ Asserts(r) /\ pc[r] = "authenticated"
        /\ Asserts(s) /\ pc[s] = "authenticated"
        /\ Use(Presented(r)) = Use(Presented(s))
        => r = s

\* Selecting on both columns (repositories.py:160-172): whoever is
\* authenticated by an assertion holds the private half of a key of the client
\* it names, whatever names other clients give their keys and whenever a key
\* is replaced.
SignedByOwner ==
    \A r \in Requests :
        Judged(r) => Owner[Presented(r).signer] = Presented(r).sub

\* Verified first, claimed second (private_key_jwt.py:135): nobody but the
\* client can use up one of its jtis.
ClaimsAreTheClients ==
    \A u \in ClientIds \X Jtis :
        seen[u] # None =>
            \E r \in Requests :
                /\ Asserts(r) /\ Use(Presented(r)) = u
                /\ pc[r] \in {"authenticated", "failed"}
                /\ Owner[Presented(r).signer] = u[1]

\* No use is lost to a race: a request is refused for a replay only if
\* another one did get the jti, or may have when the database went away
\* (repositories.py:198-212).
ReplayHasWinner ==
    \A r \in Requests :
        pc[r] = "replayed" =>
            \E s \in Requests \ {r} :
                /\ Asserts(s) /\ Use(Presented(s)) = Use(Presented(r))
                /\ pc[s] \in {"authenticated", "failed"}

\* repositories.py:215: while an assertion that was used still passes for
\* unexpired, purging has left the row that guards it.  A database whose clock
\* is ahead forgets it by that much too early, and no earlier.
RowOutlivesAssertion ==
    [][\A r, s \in Requests :
        /\ Asserts(r) /\ pc[r] = "judging" /\ pc'[r] = "claiming"
        /\ Asserts(s) /\ pc[s] = "authenticated" /\ Presented(s) = Presented(r)
        /\ Ahead <= 0 \/ now + Ahead <= Presented(r).exp
        => seen[Use(Presented(r))] # None]_vars

\* The same assertion lets a second request in only if that one's claim came
\* after the assertion had expired by the database's clock: between the exp
\* check and the claim lies an await, and the row may be purged meanwhile.  A
\* database that runs ahead needs no wait, and gives that much away, no more
\* (private_key_jwt.py:121-154, repositories.py:214-218).
ReplayTakesAWait ==
    [][\A r, s \in Requests :
        /\ Asserts(r) /\ pc[r] = "claiming" /\ pc'[r] = "authenticated"
        /\ Asserts(s) /\ pc[s] = "authenticated" /\ Presented(s) = Presented(r)
        => Presented(r).exp < now + Ahead]_vars

\* Nobody waits for its claim until the database takes its assertion for
\* expired.
PromptClaims ==
    \A r \in Requests :
        pc[r] = "claiming" => now + Ahead <= Presented(r).exp

\* An assertion authenticates one request.
AssertionOnce ==
    \A r, s \in Requests :
        /\ Asserts(r) /\ pc[r] = "authenticated"
        /\ Asserts(s) /\ pc[s] = "authenticated"
        /\ Presented(r) = Presented(s)
        => r = s

-----------------------------------------------------------------------------
(* Liveness *)

\* Every caller is told whether it is who it says, purging or not, also when
\* the expiry it presents is no date (private_key_jwt.py:151) or the database
\* goes away.
EveryCallerAnswered == \A r \in Requests : pc[r] \in Running ~> pc[r] \notin Running

-----------------------------------------------------------------------------
(* The inductive invariant *)

\* A handler past the extraction holds a complete credential; one past the
\* client's row, an assertion that names a key.
HandlerState ==
    \A r \in Requests :
        /\ pc[r] \in Running \cup {"authenticated", "refused", "replayed"}
              => form[r] # None /\ Extracted(form[r])
        /\ pc[r] \in {"judging", "claiming", "replayed"} => Asserts(r)
        /\ pc[r] \in {"judging", "claiming", "replayed"} => Presented(r).kid # None

\* A key is registered for the client that holds it (AddKey).
KeysAreOwned ==
    \A c \in ClientIds, kid \in Kids :
        keys[<<c, kid>>] # None => Owner[keys[<<c, kid>>]] = c

\* Every request authenticated by an assertion has its row.
UsesAreSeen ==
    \A r \in Requests :
        Asserts(r) /\ pc[r] = "authenticated" => seen[Use(Presented(r))] # None

\* A row is there, and says when its assertion expires, until it has by the
\* database's clock.
RowsGuard ==
    \A r \in Requests :
        Asserts(r) /\ pc[r] = "authenticated" =>
            \/ seen[Use(Presented(r))] = Presented(r).exp
            \/ Presented(r).exp < now + Ahead

\* What holds whether or not expired rows are purged.
AuthInv ==
    /\ TypeOK
    /\ HandlerState
    /\ KeysAreOwned
    /\ SignedByOwner
    /\ RowsGuard
    /\ ClaimsAreTheClients
    /\ ReplayHasWinner

Inv == AuthInv /\ UsesAreSeen /\ SingleUse

-----------------------------------------------------------------------------
(* The abstract specification: what has a row is spent, and a request was  *)
(* accepted by the use it presented.                                       *)

Register == INSTANCE AssertionRegister WITH
    Uses <- ClientIds \X Jtis,
    spent <- {u \in ClientIds \X Jtis : seen[u] # None},
    accepted <- [r \in Requests |->
                   IF Asserts(r) /\ pc[r] = "authenticated"
                   THEN Use(Presented(r)) ELSE None]

RegisterSpec == Register!Spec

-----------------------------------------------------------------------------
(* What the repository says, and the code does not do *)

\* private_key_jwt.py:66-67: "A form client_id is allowed, and must agree".
FormClientIdAllowed ==
    \A r \in Requests :
        pc[r] = "rejected" =>
            ~ /\ AssertionExtracted(form[r])
              /\ form[r].client_secret = None
              /\ form[r].client_id = form[r].client_assertion.sub

=============================================================================
