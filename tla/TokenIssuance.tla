--------------------------- MODULE TokenIssuance ----------------------------
(***************************************************************************)
(* The token endpoint of the authorization server: concurrent requests for *)
(* the two installed grants, each handler interleaved with the others at   *)
(* its awaits (src/api/routes.py, src/services/, src/grants/,              *)
(* src/crypto/tokens.py), over a registry of clients that an operator may  *)
(* rewrite at any time and a ledger of issued credentials                  *)
(* (src/storage/repositories.py).                                          *)
(*                                                                         *)
(* A request is used once.  It names the two values its handler draws from *)
(* `secrets`: the jti of the token it mints and, for a root grant, the     *)
(* task, so both are fresh by construction.                                *)
(*                                                                         *)
(* Time is counted in ticks, TicksPerSecond to the second, because a JWT   *)
(* keeps whole seconds and the ledger keeps the time it was given.         *)
(*                                                                         *)
(* How a caller proves its identity is a flag of its request here.         *)
(***************************************************************************)
EXTENDS Delegation

CONSTANTS
    ClientIds, Subjects, ScopeNames, Audiences, Tenants,
    DefaultAudience,    \* Settings.resource_audience
    Requests,
    Registrations,      \* what the rows of each client may say
    Forms,              \* what a request may say
    MaxDepth,           \* Settings.max_delegation_depth
    TTL,                \* Settings.access_token_ttl_seconds
    TicksPerSecond,
    MaxTime             \* bound on the clock, in ticks

\* A row of the clients table (RegisteredClient), the proof it is checked
\* against left out.
Registration ==
    [subject: Subjects, allowed_scopes: SUBSET ScopeNames,
     allowed_audiences: SUBSET Audiences, tenant: Tenants,
     status: {"active", "suspended"}]

\* What a request says.  A token that no verifier accepts, a missing one
\* included, is None; so is the audience of a form that lacks a required
\* field or names an unsupported token type.
Form ==
    [grant_type: {"client_credentials", "token_exchange"},
     client_id: ClientIds, proof: BOOLEAN, scope: SUBSET ScopeNames,
     audience: Audiences \cup {None},
     subject_token: Requests \cup {None}, actor_token: Requests \cup {None}]

\* The claims of a token; the times are in ticks until it is encoded.
Claims ==
    [jti: Requests, client_id: ClientIds, sub: Subjects, aud: Audiences,
     scope: SUBSET ScopeNames, act: Seq(Subjects),
     delegation_depth: 0..MaxDepth, task: Requests,
     tenant: Tenants, may_act: (SUBSET Subjects) \cup {None},
     iat: Nat, exp: Nat]

\* A row of the issued_credentials table (IssuanceRecord).
Row ==
    [jti: Requests, client_id: ClientIds, subject: Subjects,
     audience: Audiences, scope: SUBSET ScopeNames, issued_at: Nat,
     expires_at: Nat, root_subject: Subjects, task_id: Requests,
     delegation_depth: 0..MaxDepth]

\* Settings are validated at start: src/config.py.
ASSUME SettingsAssumption ==
    /\ MaxDepth \in 1..10 /\ TTL \in Nat \ {0}
    /\ TicksPerSecond \in Nat \ {0} /\ MaxTime \in Nat
    /\ DefaultAudience \in Audiences

ASSUME RegistrationsAssumption ==
    Registrations \in [ClientIds -> SUBSET Registration]

ASSUME FormsAssumption == Forms \subseteq Form

ASSUME NoneAssumption ==
    /\ None \notin Requests /\ None \notin Audiences /\ None \notin Tenants
    /\ None \notin Registration /\ None \notin Form
    /\ None \notin Claims /\ None \notin Row

-----------------------------------------------------------------------------

VARIABLES
    clients,    \* the clients table
    rows,       \* the issued_credentials table, by jti
    now,        \* the clock, in ticks
    pc,         \* how far each handler has come
    form,       \* what the request of each running handler says
    client,     \* the row each handler authenticated its caller against
    actor,      \* the row of the actor's client each exchange has read
    minted      \* every token ever signed, by jti

vars == <<clients, rows, now, pc, form, client, actor, minted>>

Running == {"authenticating", "verified", "resolved", "signed", "recorded"}
Answered == {"issued", "refused", "failed", "elapsed"}

TypeOK ==
    /\ clients \in [ClientIds -> Registration \cup {None}]
    /\ rows \in [Requests -> Row \cup {None}]
    /\ now \in Nat
    /\ pc \in [Requests -> {"idle"} \cup Running \cup Answered]
    /\ form \in [Requests -> Form \cup {None}]
    /\ client \in [Requests -> Registration \cup {None}]
    /\ actor \in [Requests -> Registration \cup {None}]
    /\ minted \in [Requests -> Claims \cup {None}]

Init ==
    /\ clients = [c \in ClientIds |-> None]
    /\ rows = [r \in Requests |-> None]
    /\ now = 0
    /\ pc = [r \in Requests |-> "idle"]
    /\ form = [r \in Requests |-> None]
    /\ client = [r \in Requests |-> None]
    /\ actor = [r \in Requests |-> None]
    /\ minted = [r \in Requests |-> None]

-----------------------------------------------------------------------------
(* Tokens *)

\* Mutant: encoding rounds a lifetime up.
RoundedUp(t) ==
    [t EXCEPT !.iat = @ \div TicksPerSecond,
              !.exp = (@ + TicksPerSecond - 1) \div TicksPerSecond]

\* The JWT of a token: encoding keeps whole seconds.
Encoded(t) == [t EXCEPT !.iat = @ \div TicksPerSecond,
                        !.exp = @ \div TicksPerSecond]

\* The verified claims of the token with the given jti.
Jwt(j) == Encoded(minted[j])

\* Tokens a client can present: those it was answered with.
Issued == {r \in Requests : pc[r] = "issued"}

\* verify_any_audience() on a presented token: the signature is the server's
\* and the second that exp names has not begun.
Verifies(j) == j # None /\ Jwt(j).exp * TicksPerSecond > now

\* When mint() would have a token expire, in ticks: never after not_after,
\* the whole second at which the token it is derived from expires.
RootExpiry == now + TTL * TicksPerSecond

\* Mutant: not_after is left out of the min().
UncappedExpiry(s) == RootExpiry

DerivedExpiry(s) ==
    IF s.exp * TicksPerSecond < RootExpiry
    THEN s.exp * TicksPerSecond ELSE RootExpiry

\* Mutant: a lifetime of zero seconds is let through.
LastsOrEnds(expiry) == expiry + TicksPerSecond > now

\* mint() signs only what lasts at least one more whole second.
Lasts(expiry) == expiry >= now + TicksPerSecond

-----------------------------------------------------------------------------
(* How a handler ends, and what it keeps while it waits *)

\* r is answered, and its handler is gone.
Answer(r, how) ==
    /\ pc' = [pc EXCEPT ![r] = how]
    /\ form' = [form EXCEPT ![r] = None]
    /\ client' = [client EXCEPT ![r] = None]
    /\ actor' = [actor EXCEPT ![r] = None]
    /\ UNCHANGED <<clients, rows, now, minted>>

\* r has signed t and awaits the INSERT that records it.
Sign(r, t) ==
    /\ minted' = [minted EXCEPT ![r] = t]
    /\ pc' = [pc EXCEPT ![r] = "signed"]
    /\ UNCHANGED <<clients, rows, now, form, client, actor>>

-----------------------------------------------------------------------------
(* Step 1 of the pipeline: authenticate the caller *)

\* A request arrives, is read, and its handler has looked its client up.
Receive(r, f) ==
    /\ pc[r] = "idle"
    /\ {f.subject_token, f.actor_token} \subseteq Issued \cup {None}
    /\ pc' = [pc EXCEPT ![r] = "authenticating"]
    /\ form' = [form EXCEPT ![r] = f]
    /\ client' = [client EXCEPT ![r] = clients[f.client_id]]
    /\ UNCHANGED <<clients, rows, now, actor, minted>>

Authenticates(r) == client[r] # None /\ form[r].proof

\* Mutant: nobody answers an unknown client.
RefuseWrongProof(r) ==
    /\ pc[r] = "authenticating"
    /\ client[r] # None /\ ~form[r].proof
    /\ Answer(r, "refused")

RefuseCaller(r) ==
    /\ pc[r] = "authenticating"
    /\ ~Authenticates(r)
    /\ Answer(r, "refused")

Asks(r, grant_type) ==
    /\ pc[r] = "authenticating"
    /\ Authenticates(r)
    /\ form[r].grant_type = grant_type

-----------------------------------------------------------------------------
(* client_credentials: the client acts for itself, at the root of a task *)

RootGranted(r) ==
    /\ client[r].status = "active"
    /\ AttenuationAccepts(form[r].scope, {client[r].allowed_scopes})

RootToken(r) ==
    [jti |-> r, client_id |-> form[r].client_id, sub |-> client[r].subject,
     aud |-> DefaultAudience,
     scope |-> Attenuate(form[r].scope, {client[r].allowed_scopes}),
     act |-> <<>>, delegation_depth |-> 0, task |-> r,
     tenant |-> client[r].tenant, may_act |-> None,
     iat |-> now, exp |-> RootExpiry]

\* resolve() and issue() up to the INSERT, with no await between them.
IssueRoot(r) ==
    /\ Asks(r, "client_credentials")
    /\ RootGranted(r)
    /\ Sign(r, RootToken(r))

RefuseRoot(r) ==
    /\ Asks(r, "client_credentials")
    /\ ~RootGranted(r)
    /\ Answer(r, "refused")

-----------------------------------------------------------------------------
(* token_exchange: the subject token carries the authority, the actor token *)
(* the identity of whoever is about to hold it                              *)

SubjectClaims(r) == Jwt(form[r].subject_token)
ActorClaims(r) == Jwt(form[r].actor_token)

\* The audience is one the caller may reach, and both tokens verify.
ExchangeAdmitted(r) ==
    /\ form[r].audience # None
    /\ form[r].audience \in client[r].allowed_audiences
    /\ Verifies(form[r].subject_token)
    /\ Verifies(form[r].actor_token)

VerifyTokens(r) ==
    /\ Asks(r, "token_exchange")
    /\ ExchangeAdmitted(r)
    /\ pc' = [pc EXCEPT ![r] = "verified"]
    /\ UNCHANGED <<clients, rows, now, form, client, actor, minted>>

RefuseTokens(r) ==
    /\ Asks(r, "token_exchange")
    /\ ~ExchangeAdmitted(r)
    /\ Answer(r, "refused")

\* The await in the middle of resolve(): the actor's client, as it is now.
ReadActorClient(r) ==
    /\ pc[r] = "verified"
    /\ pc' = [pc EXCEPT ![r] = "resolved"]
    /\ actor' = [actor EXCEPT ![r] = clients[ActorClaims(r).client_id]]
    /\ UNCHANGED <<clients, rows, now, form, client, minted>>

\* _agreed_tenant(): the subject token's tenant, if it has one, must be the
\* actor's; if it has none, the actor's is taken.
TenantAgrees(s, a) == s.tenant # None => s.tenant = a.tenant
AgreedTenant(s, a) == IF s.tenant # None THEN s.tenant ELSE a.tenant

\* A request that names no scope asks for everything the subject token holds.
RequestedScopes(r) ==
    IF form[r].scope = {} THEN SubjectClaims(r).scope ELSE form[r].scope

\* Mutant: the subject token is no ceiling.
ActorCeiling(r) == {actor[r].allowed_scopes}

Ceilings(r) == {SubjectClaims(r).scope, actor[r].allowed_scopes}

\* Mutant: the depth cap is forgotten.
GrantedAtAnyDepth(r) ==
    /\ actor[r] # None
    /\ MayActPermits(SubjectClaims(r), ActorClaims(r).sub)
    /\ TenantAgrees(SubjectClaims(r), actor[r])
    /\ DeclaresItsDepth(SubjectClaims(r))
    /\ AttenuationAccepts(RequestedScopes(r), Ceilings(r))

DelegationGranted(r) ==
    /\ actor[r] # None
    /\ MayActPermits(SubjectClaims(r), ActorClaims(r).sub)
    /\ TenantAgrees(SubjectClaims(r), actor[r])
    /\ DeclaresItsDepth(SubjectClaims(r))
    /\ SubjectClaims(r).delegation_depth + 1 <= MaxDepth
    /\ AttenuationAccepts(RequestedScopes(r), Ceilings(r))

\* Mutant: the caller is taken for the actor.
CallerAsHolder(r) == client[r].subject

\* The actor token says who is about to hold the authority.
Holder(r) == ActorClaims(r).sub

DerivedToken(r) ==
    [jti |-> r, client_id |-> form[r].client_id, sub |-> Holder(r),
     aud |-> form[r].audience,
     scope |-> Attenuate(RequestedScopes(r), Ceilings(r)),
     act |-> Nest(SubjectClaims(r)),
     delegation_depth |-> SubjectClaims(r).delegation_depth + 1,
     task |-> SubjectClaims(r).task,
     tenant |-> AgreedTenant(SubjectClaims(r), actor[r]), may_act |-> None,
     iat |-> now, exp |-> DerivedExpiry(SubjectClaims(r))]

\* The rest of resolve() and issue() up to the INSERT.
IssueDerived(r) ==
    /\ pc[r] = "resolved"
    /\ DelegationGranted(r)
    /\ Lasts(DerivedExpiry(SubjectClaims(r)))
    /\ Sign(r, DerivedToken(r))

\* Mutant: issue, then validate.
SignThenRefuse(r) ==
    /\ pc[r] = "resolved"
    /\ actor[r] # None /\ ~DelegationGranted(r)
    /\ minted' = [minted EXCEPT ![r] = DerivedToken(r)]
    /\ pc' = [pc EXCEPT ![r] = "refused"]
    /\ UNCHANGED <<clients, rows, now, form, client, actor>>

RefuseDelegation(r) ==
    /\ pc[r] = "resolved"
    /\ ~DelegationGranted(r)
    /\ Answer(r, "refused")

\* The subject token ran out while the handler was waiting: mint() raises a
\* TokenError, which no handler turns into an OAuth error.
ElapseDelegation(r) ==
    /\ pc[r] = "resolved"
    /\ DelegationGranted(r)
    /\ ~Lasts(DerivedExpiry(SubjectClaims(r)))
    /\ Answer(r, "elapsed")

-----------------------------------------------------------------------------
(* The end of issue(): record, then answer *)

\* Mutant: the holder of the subject token is taken for its root.
HolderAsRoot(r) ==
    IF form[r].grant_type = "token_exchange"
    THEN SubjectClaims(r).sub ELSE minted[r].sub

\* act_root of an exchange is read from the chain of its subject token; a
\* root grant leaves it out, and the subject is its own root.
RootSubject(r) ==
    IF form[r].grant_type = "token_exchange"
    THEN Root(SubjectClaims(r)) ELSE minted[r].sub

IssuanceRecord(r) ==
    [jti |-> r, client_id |-> form[r].client_id, subject |-> minted[r].sub,
     audience |-> minted[r].aud, scope |-> minted[r].scope,
     issued_at |-> minted[r].iat, expires_at |-> minted[r].exp,
     root_subject |-> RootSubject(r), task_id |-> minted[r].task,
     delegation_depth |-> minted[r].delegation_depth]

RecordIssuance(r) ==
    /\ pc[r] = "signed"
    /\ rows' = [rows EXCEPT ![r] = IssuanceRecord(r)]
    /\ pc' = [pc EXCEPT ![r] = "recorded"]
    /\ UNCHANGED <<clients, now, form, client, actor, minted>>

\* Mutant: answer first, record later.
RespondAtOnce(r) ==
    /\ pc[r] \in {"signed", "recorded"}
    /\ Answer(r, "issued")

Respond(r) ==
    /\ pc[r] = "recorded"
    /\ Answer(r, "issued")

\* An awaited call fails, an acknowledgement of the INSERT is lost, or the
\* process dies: the caller gets no token from r.
Abort(r) ==
    /\ pc[r] \in Running
    /\ Answer(r, "failed")

-----------------------------------------------------------------------------
(* Around the handlers *)

\* upsert(): an operator, or the start of a server process, rewrites a row.
UpsertClient(c, registration) ==
    /\ clients' = [clients EXCEPT ![c] = registration]
    /\ UNCHANGED <<rows, now, pc, form, client, actor, minted>>

Tick ==
    /\ now < MaxTime
    /\ now' = now + 1
    /\ UNCHANGED <<clients, rows, pc, form, client, actor, minted>>

Handle(r) ==
    \/ RefuseCaller(r)
    \/ IssueRoot(r) \/ RefuseRoot(r)
    \/ VerifyTokens(r) \/ RefuseTokens(r)
    \/ ReadActorClient(r)
    \/ IssueDerived(r) \/ RefuseDelegation(r) \/ ElapseDelegation(r)
    \/ RecordIssuance(r)
    \/ Respond(r)

Next ==
    \/ \E r \in Requests : Handle(r) \/ Abort(r)
    \/ \E r \in Requests, f \in Forms : Receive(r, f)
    \/ \E c \in ClientIds : \E registration \in Registrations[c] :
          UpsertClient(c, registration)
    \/ Tick

Spec == Init /\ [][Next]_vars

\* The event loop runs every continuation, and an awaited database call does
\* not hang: it returns, which lets Handle go on, or raises, which is Abort.
FairSpec == Spec /\ \A r \in Requests : WF_vars(Handle(r))

=============================================================================
