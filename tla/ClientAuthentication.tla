------------------------ MODULE ClientAuthentication ------------------------
(***************************************************************************)
(* Step 1 of the token pipeline: who is calling.  A request is read for    *)
(* what it presents (ClientAuthRegistry.extract, src/auth/), its client is *)
(* looked up (ClientRegistry.authenticate, src/services/clients.py), and   *)
(* the method it used judges the proof: a secret (client_secret_post) or a *)
(* single-use assertion signed by one of the client's keys                 *)
(* (private_key_jwt).                                                      *)
(*                                                                         *)
(* A handler is interleaved with the others at its three awaits: reading   *)
(* the client, reading the key, claiming the jti.  Several servers may     *)
(* share the database; they keep nothing of their own.  The servers share  *)
(* a clock, and the database has one that is Ahead of it, or behind.       *)
(*                                                                         *)
(* A key is known by the client that holds its private half: only the      *)
(* holder signs with it, and a client is given no keys but its own.        *)
(***************************************************************************)
EXTENDS Integers, FiniteSets

CONSTANTS
    ClientIds, Secrets, Keys, Kids, Jtis, Requests,
    Owner,              \* the client that holds each key
    Forms,              \* what a request may present
    MaximumLifetime,    \* MAXIMUM_LIFETIME
    LastTimestamp,      \* the last that datetime.fromtimestamp() represents
    Ahead,              \* how far the database's clock is ahead of the servers'
    MaxTime,            \* bound on the clock
    None

\* The claims of an assertion and what signed it.  kid is None where the
\* header names no key or another algorithm, sub where it cannot be read.
Assertion ==
    [sub: ClientIds \cup {None}, iss: ClientIds,
     aud: SUBSET {"server", "resource"}, jti: Jtis, exp: Nat,
     kid: Kids \cup {None}, signer: Keys]

Form ==
    [client_id: ClientIds \cup {None}, client_secret: Secrets \cup {None},
     client_assertion_type: {"jwt-bearer", "other", None},
     client_assertion: Assertion \cup {None}]

Registration == [secret: Secrets \cup {None}]

ASSUME OwnerAssumption == Owner \in [Keys -> ClientIds]

ASSUME FormsAssumption == Forms \subseteq Form

ASSUME BoundsAssumption == MaximumLifetime \in Nat /\ MaxTime \in Nat

ASSUME ClockAssumption == LastTimestamp \in Nat /\ Ahead \in Int

ASSUME NoneAssumption ==
    /\ None \notin ClientIds /\ None \notin Secrets /\ None \notin Keys
    /\ None \notin Kids /\ None \notin Assertion /\ None \notin Registration
    /\ None \notin Nat /\ None \notin Form /\ None # "jwt-bearer"

VARIABLES
    clients,    \* the clients table
    keys,       \* the client_keys table, by client and kid
    seen,       \* the client_assertion_jti table: expires_at, by client and jti
    now,
    pc,         \* how far each handler has come
    form        \* what the request of each handler presents

vars == <<clients, keys, seen, now, pc, form>>

Running == {"looking", "judging", "claiming"}

TypeOK ==
    /\ clients \in [ClientIds -> Registration \cup {None}]
    /\ keys \in [ClientIds \X Kids -> Keys \cup {None}]
    /\ seen \in [ClientIds \X Jtis -> Nat \cup {None}]
    /\ now \in Nat
    /\ pc \in [Requests -> {"idle", "authenticated", "refused", "replayed",
                            "rejected", "failed", "raised"} \cup Running]
    /\ form \in [Requests -> Form \cup {None}]

Init ==
    /\ clients = [c \in ClientIds |-> None]
    /\ keys = [k \in ClientIds \X Kids |-> None]
    /\ seen = [u \in ClientIds \X Jtis |-> None]
    /\ now = 0
    /\ pc = [r \in Requests |-> "idle"]
    /\ form = [r \in Requests |-> None]

Goto(r, there) == pc' = [pc EXCEPT ![r] = there]

tables == <<clients, keys, seen>>

-----------------------------------------------------------------------------
(* What a request presents *)

PresentsSecret(f) == f.client_id # None \/ f.client_secret # None

PresentsAssertion(f) ==
    f.client_assertion # None \/ f.client_assertion_type # None

\* ClientSecretPost.extract: half a credential is an error.
SecretExtracted(f) == f.client_id # None /\ f.client_secret # None

\* PrivateKeyJwt.extract: the subject is legible, and no form client_id
\* disagrees with it.
AssertionExtracted(f) ==
    /\ f.client_assertion_type = "jwt-bearer"
    /\ f.client_assertion # None
    /\ f.client_assertion.sub # None
    /\ f.client_id \in {None, f.client_assertion.sub}

\* ClientAuthRegistry.extract: one method, and that one complete.
Extracted(f) ==
    /\ PresentsSecret(f) => SecretExtracted(f)
    /\ PresentsAssertion(f) => AssertionExtracted(f)
    /\ PresentsSecret(f) # PresentsAssertion(f)

\* PresentedCredential.client_id.
Caller(f) == IF PresentsAssertion(f) THEN f.client_assertion.sub ELSE f.client_id

Receive(r, f) ==
    /\ pc[r] = "idle"
    /\ form' = [form EXCEPT ![r] = f]
    /\ Goto(r, IF Extracted(f) THEN "looking" ELSE "rejected")
    /\ UNCHANGED <<tables, now>>

-----------------------------------------------------------------------------
(* Judging the proof *)

\* verify_secret(): a client without a secret matches none.
SecretMatches(f) ==
    /\ clients[Caller(f)] # None
    /\ clients[Caller(f)].secret = f.client_secret

JudgeSecret(r) ==
    /\ pc[r] = "looking"
    /\ ~PresentsAssertion(form[r])
    /\ Goto(r, IF SecretMatches(form[r]) THEN "authenticated" ELSE "refused")
    /\ UNCHANGED <<tables, now, form>>

\* The client exists, and the header names a key.
FindClient(r) ==
    /\ pc[r] = "looking"
    /\ PresentsAssertion(form[r])
    /\ Goto(r, IF /\ clients[Caller(form[r])] # None
                  /\ form[r].client_assertion.kid # None
               THEN "judging" ELSE "refused")
    /\ UNCHANGED <<tables, now, form>>

\* Mutant: the key is looked up by kid alone.
SignedByAnyKey(a) == \E c \in ClientIds : keys[<<c, a.kid>>] = a.signer

\* ClientKeyRepository.get() and the signature check.
SignedByKey(a) == keys[<<a.sub, a.kid>>] = a.signer

\* The exp check of jwt.decode().
Unexpired(a) == a.exp > now

\* The issuer and the audience, judged before the lifetime.
NamesThisServer(a) == a.iss = a.sub /\ "server" \in a.aud

\* _claims_are_acceptable()
ClaimsAcceptable(a) == NamesThisServer(a) /\ a.exp - now <= MaximumLifetime

\* An exp that is a good integer and no date.
ExpiryOverflows(a) ==
    SignedByKey(a) /\ Unexpired(a) /\ NamesThisServer(a) /\ a.exp > LastTimestamp

Use(a) == <<a.sub, a.jti>>

\* Mutant: the claim is made here, and once more after it.
ClaimTwice(r) ==
    LET a == form[r].client_assertion IN
    /\ pc[r] = "judging"
    /\ Goto(r, IF SignedByKey(a) /\ Unexpired(a) /\ ClaimsAcceptable(a)
               THEN "claiming" ELSE "refused")
    /\ seen' = [seen EXCEPT ![Use(a)] = IF @ = None THEN a.exp ELSE @]
    /\ UNCHANGED <<clients, keys, now, form>>

JudgeAssertion(r) ==
    LET a == form[r].client_assertion IN
    /\ pc[r] = "judging"
    /\ ~ExpiryOverflows(a)
    /\ Goto(r, IF SignedByKey(a) /\ Unexpired(a) /\ ClaimsAcceptable(a)
               THEN "claiming" ELSE "refused")
    /\ UNCHANGED <<tables, now, form>>

\* fromtimestamp() raises, and nothing catches it: the caller gets a bare 500.
RaiseOverflow(r) ==
    /\ pc[r] = "judging"
    /\ ExpiryOverflows(form[r].client_assertion)
    /\ Goto(r, "raised")
    /\ UNCHANGED <<tables, now, form>>

\* Mutant: ON CONFLICT DO UPDATE.
ClaimOverwriting(r) ==
    LET a == form[r].client_assertion IN
    /\ pc[r] = "claiming"
    /\ seen' = [seen EXCEPT ![Use(a)] = a.exp]
    /\ Goto(r, "authenticated")
    /\ UNCHANGED <<clients, keys, now, form>>

\* AssertionReplayRepository.claim(): the insert takes the row.
Claim(r) ==
    LET a == form[r].client_assertion IN
    /\ pc[r] = "claiming"
    /\ seen[Use(a)] = None
    /\ seen' = [seen EXCEPT ![Use(a)] = a.exp]
    /\ Goto(r, "authenticated")
    /\ UNCHANGED <<clients, keys, now, form>>

\* Mutant: the insert is tried again until the row goes.
InsertAgain(r) ==
    /\ pc[r] = "claiming"
    /\ seen[Use(form[r].client_assertion)] # None
    /\ UNCHANGED vars

\* ON CONFLICT DO NOTHING: another request took it.  The caller is told no
\* more than "refused" tells.
FindClaimed(r) ==
    /\ pc[r] = "claiming"
    /\ seen[Use(form[r].client_assertion)] # None
    /\ Goto(r, "replayed")
    /\ UNCHANGED <<tables, now, form>>

\* Mutant: a handler that fails gives its jti back.
LoseAndRelease(r) ==
    /\ pc[r] \in Running
    /\ Goto(r, "failed")
    /\ \/ UNCHANGED seen
       \/ /\ pc[r] = "claiming"
          /\ seen' = [seen EXCEPT ![Use(form[r].client_assertion)] = None]
    /\ UNCHANGED <<clients, keys, now, form>>

\* The database is out of reach.  A claim that is answered by an error may
\* have been committed.
LoseDatabase(r) ==
    /\ pc[r] \in Running
    /\ Goto(r, "failed")
    /\ \/ UNCHANGED seen
       \/ LET a == form[r].client_assertion IN
          /\ pc[r] = "claiming"
          /\ seen[Use(a)] = None
          /\ seen' = [seen EXCEPT ![Use(a)] = a.exp]
    /\ UNCHANGED <<clients, keys, now, form>>

-----------------------------------------------------------------------------
(* The world around the handlers *)

\* ClientRepository.upsert(), by the operator.
UpsertClient(c, registration) ==
    /\ clients' = [clients EXCEPT ![c] = registration]
    /\ UNCHANGED <<keys, seen, now, pc, form>>

\* ClientKeyRepository.add(): it may replace the key of that name, and the
\* table refuses a key of a client that is not there.
AddKey(k, kid) ==
    /\ clients[Owner[k]] # None
    /\ keys' = [keys EXCEPT ![<<Owner[k], kid>>] = k]
    /\ UNCHANGED <<clients, seen, now, pc, form>>

\* Mutant: a margin on the wrong side.
PurgeEarly ==
    /\ seen' = [u \in ClientIds \X Jtis |->
                  IF seen[u] # None /\ seen[u] < now + Ahead + 1 THEN None ELSE seen[u]]
    /\ seen' # seen
    /\ UNCHANGED <<clients, keys, now, pc, form>>

\* AssertionReplayRepository.purge_expired(), by the database's clock.
PurgeExpired ==
    /\ seen' = [u \in ClientIds \X Jtis |->
                  IF seen[u] # None /\ seen[u] < now + Ahead THEN None ELSE seen[u]]
    /\ seen' # seen
    /\ UNCHANGED <<clients, keys, now, pc, form>>

Tick ==
    /\ now < MaxTime
    /\ now' = now + 1
    /\ UNCHANGED <<tables, pc, form>>

-----------------------------------------------------------------------------

Handle(r) ==
    \/ JudgeSecret(r) \/ FindClient(r) \/ JudgeAssertion(r) \/ RaiseOverflow(r)
    \/ Claim(r) \/ FindClaimed(r)

Next ==
    \/ \E r \in Requests :
          Handle(r) \/ LoseDatabase(r) \/ \E f \in Forms : Receive(r, f)
    \/ \E c \in ClientIds, registration \in Registration :
          UpsertClient(c, registration)
    \/ \E k \in Keys, kid \in Kids : AddKey(k, kid)
    \/ Tick

Spec == Init /\ [][Next]_vars

\* Nothing in src/ calls purge_expired(); with PurgeSpec a job does.
PurgeNext == Next \/ PurgeExpired

PurgeSpec == Init /\ [][PurgeNext]_vars

\* A handler that is running gets on.
FairSpec == PurgeSpec /\ \A r \in Requests : WF_vars(Handle(r))

=============================================================================
