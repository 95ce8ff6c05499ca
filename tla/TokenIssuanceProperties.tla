---------------------- MODULE TokenIssuanceProperties -----------------------
(***************************************************************************)
(* What must be true of the token endpoint, whatever order its handlers,   *)
(* its operator and its clock take.                                        *)
(***************************************************************************)
EXTENDS TokenIssuance

Signed == {r \in Requests : minted[r] # None}
Recorded == {r \in Requests : rows[r] # None}

\* A token and its row say the same thing.  The row keeps the time the token
\* rounds down, and is never the earlier of the two to expire.
Describes(row, t) ==
    /\ row.jti = t.jti /\ row.client_id = t.client_id
    /\ row.subject = t.sub /\ row.audience = t.aud /\ row.scope = t.scope
    /\ row.root_subject = Root(t) /\ row.task_id = t.task
    /\ row.delegation_depth = Depth(t)
    /\ row.issued_at >= t.iat * TicksPerSecond
    /\ row.expires_at >= t.exp * TicksPerSecond

\* Record before the token can reach anybody (pipeline.py:85): a token a
\* client was answered with has a row, and every row describes the token
\* that bears its jti, so nothing is outstanding that cannot be revoked.
RecordedBeforeIssued ==
    /\ Issued \subseteq Recorded
    /\ \A r \in Recorded : r \in Signed /\ Describes(rows[r], Jwt(r))

\* A request that is refused signs nothing and records nothing: the depth
\* cap, the ceilings and the lifetime are all judged before the signature
\* (token_exchange.py:77-82), and so is the second look at the clock.
RefusedMeansUnsigned ==
    \A r \in Requests : pc[r] \in {"refused", "elapsed"} =>
        r \notin Signed /\ r \notin Recorded

\* Whatever the chain of exchanges, a token carries no more than the root of
\* its own task: no scope, no later second, no other account (phase 4).
AuthorityFromRoot ==
    \A r \in Signed : \E q \in Signed : Within(Jwt(r), Jwt(q))

\* Phase 6 revokes by task: the one root of a task is the only token of the
\* task that nobody delegated.
OneRootPerTask ==
    \A q, r \in Signed :
        minted[q].task = minted[r].task /\ minted[q].act = <<>>
            /\ minted[r].act = <<>> => q = r

\* The ledger has no gap: the token a recorded token was derived from was
\* answered, so it is in the ledger too, and the hop between them only shrank
\* what they carry (delegation.py:112, pipeline.py:85-87).
AncestryRecorded ==
    \A r \in Recorded : minted[r].delegation_depth > 0 =>
        \E q \in Issued : q \in Recorded /\ Derives(Jwt(q), Jwt(r))

\* Nobody is put on a chain by others alone: everybody a token names, its
\* subject and all who authorised it, was once answered with a token nobody
\* delegated, having authenticated as a client of its own
\* (token_exchange.py:70-71, 88-97).
HoldersCameThemselves ==
    \A r \in Signed : \A i \in 1..Len(Chain(minted[r])) :
        \E q \in Issued \cup {r} :
            minted[q].act = <<>> /\ minted[q].sub = Chain(minted[r])[i]

\* A token is alive when it is signed, and a derived one is signed only while
\* the token it is derived from is alive, however long its handler waited
\* after it had verified that token (tokens.py:80-86).
SignedAlive ==
    \A r \in Requests : minted[r] = None /\ minted'[r] # None =>
        /\ Jwt(r)'.exp * TicksPerSecond > now
        /\ form[r].grant_type = "token_exchange" =>
              SubjectClaims(r).exp * TicksPerSecond > now

AlwaysSignedAlive == [][SignedAlive]_vars

\* Every request that arrives is answered, even when a call it awaits fails
\* (routes.py:98-118).
EveryRequestAnswered ==
    \A r \in Requests : pc[r] \in Running ~> pc[r] \in Answered

-----------------------------------------------------------------------------
(* The inductive invariant these properties rest on: what a handler has    *)
(* done at each point, and what it may still rely on.                      *)

\* What has been signed and recorded, by how far the handler has come.
Unsigned == {"idle", "authenticating", "verified", "resolved",
             "refused", "elapsed"}

HandlerProgress ==
    \A r \in Requests :
        /\ pc[r] \in Unsigned => r \notin Signed
        /\ pc[r] \in {"signed", "recorded", "issued"} => r \in Signed
        /\ pc[r] \in {"recorded", "issued"} => r \in Recorded
        /\ r \in Recorded => r \in Signed /\ pc[r] # "signed"

\* A running handler keeps its request; the tokens it presented were issued
\* and stay issued; past authentication it has its client, and past
\* verification it presented both tokens.
HandlerState ==
    \A r \in Requests :
        /\ pc[r] \in Running =>
              /\ form[r] # None
              /\ {form[r].subject_token, form[r].actor_token}
                    \subseteq Issued \cup {None}
        /\ pc[r] \in Running \ {"authenticating"} => client[r] # None
        /\ pc[r] \in {"verified", "resolved"} =>
              /\ form[r].grant_type = "token_exchange"
              /\ form[r].subject_token # None /\ form[r].actor_token # None
              /\ form[r].audience # None

\* A signed token bears its own jti, its depth counts its chain, it names its
\* task if nobody delegated it, and the root of its task was issued otherwise.
WellFormed(r) ==
    /\ minted[r].jti = r
    /\ minted[r].delegation_depth = Len(minted[r].act)
    /\ minted[r].act = <<>> => minted[r].task = r
    /\ minted[r].task \in Issued \cup {r}

\* A token waiting for its row is what its request asked for: a root, or one
\* hop below an issued token.
SignedFor(r) ==
    /\ minted[r].client_id = form[r].client_id
    /\ form[r].grant_type = "client_credentials" => minted[r].act = <<>>
    /\ form[r].grant_type = "token_exchange" =>
          /\ form[r].subject_token # None
          /\ Derives(SubjectClaims(r), Jwt(r))

Inv ==
    /\ TypeOK
    /\ HandlerProgress
    /\ HandlerState
    /\ \A r \in Signed : WellFormed(r)
    /\ \A r \in Requests : pc[r] = "signed" => SignedFor(r)
    /\ \A r \in Recorded : Describes(rows[r], Jwt(r))
    /\ AuthorityFromRoot
    /\ AncestryRecorded

-----------------------------------------------------------------------------
(* The abstract specification: what has a row is in the ledger, what has   *)
(* been answered is outstanding.                                           *)

Ledger == INSTANCE AuthorityLedger WITH
    ledger <- {Jwt(r) : r \in Recorded},
    outstanding <- {Jwt(r) : r \in Issued}

LedgerSpec == Ledger!Spec

-----------------------------------------------------------------------------
(* What the repository says of the endpoint, and the code does otherwise.  *)

\* src/services/pipeline.py:118-123: a suspended client "is refused here,
\* after authentication succeeded", whatever the grant.
SuspendedCallerRefused ==
    \A r \in Requests :
        pc[r] = "recorded" => client[r].status = "active"

\* src/grants/token_exchange.py:150: "The actor's own registration is the
\* second ceiling."  While the registry does not change, what an exchange
\* issues to a subject is within the registration of that subject's client.
WithinHoldersRegistration ==
    \A r \in Issued, c \in ClientIds :
        /\ minted[r].delegation_depth > 0
        /\ clients[c] # None /\ clients[c].subject = minted[r].sub
        => minted[r].scope \subseteq clients[c].allowed_scopes

=============================================================================
