# Verification of the agent authorization server

TLA+ modules, TLC configurations and TLAPS proofs for the OAuth authorization
server in `src/`. Each definition follows the code; `PROJECT.json` maps it to
the lines it stands for (`map`), lists the runs, the mutants each property
must catch, the theorems, the hazards of the code and the places where the code
and what it says of itself part.

## 1. The system

A FastAPI server issues JWT access tokens to agents. Agents are clients of a
`clients` table; a token is requested directly (`client_credentials`) or derived
from another agent's token (`token_exchange`, RFC 8693), which grows a chain of
actors. Servers share one PostgreSQL database and one key directory and keep
nothing else between requests. A handler is a coroutine: everything between two
awaits is one step, everything that awaits the database interleaves.

| component | state | operations | code |
|---|---|---|---|
| token endpoint, pipeline | the handler's locals | authenticate, resolve, issue (sign, record), respond | `api/routes.py`, `services/pipeline.py`, `grants/base.py` |
| `client_credentials` | - | `resolve` | `grants/client_credentials.py` |
| `token_exchange` | - | `resolve`: verify two tokens, await the actor's client, tenant, may_act, depth, ceilings | `grants/token_exchange.py` |
| delegation, scopes | - (pure) | `chain`, `root`, `depth`, `nest`, `declared_depth`, `permitted`, `attenuate` | `services/delegation.py`, `services/scopes.py` |
| minter, verifier | - | `mint`, `verify` | `crypto/tokens.py` |
| client authentication | - | `extract` over the methods, `authenticate`, the two `verify`s | `auth/*.py`, `services/clients.py` |
| repositories | `clients`, `client_keys`, `issued_credentials`, `client_assertion_jti` | `upsert`, `get`, `add`, `record`, `claim`, `purge_expired` | `storage/repositories.py` |
| key store | files of the key directory | `load_or_create` | `crypto/keys.py` |
| server start | `schema_version`, the bootstrap row | `migrate`, `upsert` | `main.py`, `storage/database.py` |
| configuration, metadata | the settings of a process | accept or refuse the settings, merge the overlay, describe the server | `config.py`, `api/metadata.py` |
| schemas, forms | - | read only | `api/schemas.py`, `api/forms.py` |
| resource server (test fixture) | JWKS cache, shared by threads | verify, refresh by time, refresh by force | `tests/resource_server/` |
| OAuth client (test fixture) | - | calls over HTTP | `tests/oauth_client/` |

How they interact: the endpoint awaits the registry (which reads `clients`,
`client_keys` and claims the jti of an assertion), calls the installed grant
(which may await `clients` once more), calls the minter with the signing key the
key store gave it at start, awaits the INSERT into `issued_credentials`, and
answers. There are no queues and no retries in the server and no locks of its
own; whatever is atomic is atomic because it is one SQL statement, one
transaction (the migrations), one `link(2)`, or code between two awaits. The
resource server fetches the metadata document and the JWKS over HTTP and keeps
the keys in a cache its threads share under one lock.

What is hard here, and what makes each part correct:

- *Issuance.* The client's row, the actor's row, both presented tokens and the
  clock are read before awaits and used after them. Correct means: no answer
  without a row in the ledger and no row that says something else than its
  token; no token that carries more scope, time or tenant than the root of its
  task, through any number of exchanges in any roles; nothing signed for a
  request that is refused; nothing signed dead; every request answered.
- *Authentication.* Several servers race for the same jti; keys and rows change
  under a waiting handler; the purge forgets what the replay table knew. Correct
  means: one request per jti, by the client that holds the key; a loser has lost
  to somebody; nobody but a client uses up its jtis.
- *Key store.* Several processes find an empty directory at once and may die, or
  lose the machine, anywhere. Correct means: one key for everybody, whole, and
  no private key left over.
- *Server start.* Servers of different builds bring one schema up to date, each in
  a transaction that sees nothing of the others', and may fail, die, or lose the
  answer to their commit. Correct means: what is in effect is on record; nobody
  serves over less than its build needs; whoever came too late succeeds when it
  is started again; nobody waits for ever; the metadata document says what the
  server is.
- *Key cache.* Threads look at the cache's age and contents outside the lock that
  guards its refilling, answers take time, and keys change meanwhile. Correct
  means: a withdrawn key is dropped, and a new one found, within stated times;
  the servers are not asked more often than the two times say; every token is
  judged.

`hazards` in `PROJECT.json` gives each of these at the line where it bites, with
the properties that watch it.

## 2. The modules

```
Delegation ──┬─ AuthorityLedger (abstract) ── AuthorityLedgerProofs
             └─ TokenIssuance ── TokenIssuanceProperties ─┬─ MCTokenIssuance
                                                          └─ TokenIssuanceProofs
ClientAuthentication ── ClientAuthenticationProperties ─┬─ MCClientAuthentication
                        └▷ AssertionRegister (abstract)  └─ ClientAuthenticationProofs
KeyAgreement (abstract) ◁─┬─ KeyStore ─┬─ MCKeyStore
                          │            └─ KeyStoreProofs
                          └─ KeyCache ─┬─ MCKeyCache
                                       └─ KeyCacheProofs
Discovery ── ServerStart ─┬─ MCServerStart
             │            └─ ServerStartProofs
             └▷ SchemaVersion (abstract)
```

`KeyStore` implements `KeyAgreement`, and `KeyCache` takes it as its
environment: what the resource server relies on is what the key store was shown
to give.

### Delegation

The pure part: a chain of actors is a sequence (the linked `act` objects of the
code, outermost first), scopes are sets (the code keeps an order nothing depends
on). `Chain`, `Root`, `Depth`, `Nest`, `DeclaresItsDepth`, `MayActPermits`,
`AttenuationAccepts` and `Attenuate` are the functions of
`services/delegation.py` and `services/scopes.py`. `Derives(parent, child)` is
what one hop promises, `Within(t, root)` what any number of them keep.

### TokenIssuance

`clients` and `rows` are the tables; `minted` holds every token ever signed,
whether or not anybody received it; `pc`, `form`, `client` and `actor` are a
handler and its locals. A handler's steps are its await-to-await pieces:

| step | code |
|---|---|
| `Receive` | the form is read, `extract`, the client's row is fetched |
| `RefuseCaller` | `authenticate` raises `invalid_client` |
| `IssueRoot`, `RefuseRoot` | `ClientCredentialsGrant.resolve`, the status check, `mint` |
| `VerifyTokens`, `RefuseTokens` | `TokenExchangeGrant.resolve` up to its await |
| `ReadActorClient` | that await: the actor's client, as the table is by then |
| `IssueDerived`, `RefuseDelegation`, `ElapseDelegation` | the rest of `resolve`, `mint` |
| `RecordIssuance` | the INSERT has committed |
| `Respond` | the answer is sent |
| `Abort` | an awaited call raises, the acknowledgement of the INSERT is lost (a step from `recorded`), or the process dies |
| `UpsertClient` | the operator, or a starting server, rewrites any row at any time |
| `Tick` | time passes, between any two steps |

A request is named by the two values its handler draws from `secrets`: its jti
and, for a root, its task. That makes both fresh, which is what 128 random bits
are for. A request presents tokens that were *answered*; a caller that forges
one presents None, which no verifier accepts. Times are ticks,
`TicksPerSecond` to the second, because a JWT keeps whole seconds and the ledger
row does not. An exchange mints with `not_after`, which can leave less than a
second: `mint` then raises a `TokenError` that no layer turns into an OAuth
error, which is the outcome `elapsed`.

Proof of identity is a flag of the request here and a module of its own below.

### AuthorityLedger

What issuance promises with no handlers, no clock and no client registry: a
credential enters the ledger before it is outstanding, is the root of a new task
or one hop that only shrinks an outstanding one, and never leaves or changes.
`TokenIssuance` implements it under `ledger <- {Jwt(r) : r \in Recorded}` and
`outstanding <- {Jwt(r) : r \in Issued}` (`LedgerSpec`). Signing and a lost
INSERT are stuttering steps of it. What the promise is worth by itself, to any
phase that keeps it with other handlers, are `WithinItsRoot`, `OneRoot` and
`OutstandingIsHeld`; they are proved of the ledger and no run checks them there,
because its credentials range over no finite set.

### ClientAuthentication

A form presents a secret, an assertion, both or half of one; `Extracted` is the
registry's rule that exactly one method may claim it and find it complete. The
handler then awaits three times: the client (`JudgeSecret`, `FindClient`), the
key (`JudgeAssertion`: signature, exp, and the claims), and the jti (`Claim` when
the INSERT takes the row, `FindClaimed` on conflict). `LoseDatabase` fails any of
them, and a failed claim may have committed. `AddKey` writes a key under any
name, the names being shared between clients; a key is known by the client that
holds its private half, and is registered for that client. `PurgeExpired` is
`purge_expired()`. Nothing in `src/` calls it, so `Spec` does not have it and
`PurgeSpec` does. `refused` and `replayed` are one answer to the caller, kept
apart only to state `ReplayHasWinner`. `rejected` is a malformed form. The purge
goes by the database's clock, which is `Ahead` of the server's. An `exp` beyond
`LastTimestamp` passes the signature and expiry checks and then makes
`fromtimestamp()` raise (`RaiseOverflow`): the caller is answered, with a 500.

`AssertionRegister` is what single use promises, with no handler and no clock: a
use is spent by the one request it lets in, or wasted when an answer of the
database is lost, and stays spent. `ClientAuthentication` implements it while
nothing is purged, under `spent` the uses that have a row and `accepted` the use
each authenticated request presented (`RegisterSpec`).

### KeyStore and KeyAgreement

`load_or_create()` call by call: `LoadExisting` or `FindNone`, `CreateTemporary`
(mkstemp), `WriteKey`, `SyncKey` (fsync), `LinkKey` or `LoseLink` (link(2) is
atomic and refuses an existing name), `LoadWinner`, and `UnlinkTemporary`, the
`finally` clause. A start is numbered, and its file and its key have that
number; a file's content is empty, cached or synced. `CallFails` is any other
`OSError`: it ends the start through the clean-up once there is something to
clean up, and where the clean-up itself fails, the start ends `unclean`. `Die` is a process going away
anywhere. `PowerSpec` adds `PowerLoss`, which may lose any content not synced and
a name not yet written back, and `Writeback`. `KeyAgreement` is the promise: a
key is chosen once, and processes serve only with it (`Spec`); where the machine
may lose power, a choice may be forgotten, but only together with everybody who
knew it (`PowerSpec`), so that two keys are never served at once.

### Discovery, ServerStart and SchemaVersion

`Discovery` is the pure part: the settings `Settings.__post_init__` accepts, what
`authorization_server_metadata` derives from the installed grants, methods and
clients, and the document with the overlay merged last. A URL is a pair of the
issuer and a path. The keys an overlay may not touch are listed twice in the code
and here: `DerivedMetadataKeys` is what `config.py` enforces, `DERIVED_KEYS` what
`metadata.py` means and nothing reads. `Describes` judges a document by the second
list and by what there is (the routes of `create_app`, the installed grants and
methods, the clients), so that it notices when the enforced list falls behind.
Overlay keys on neither list (`OtherKeys`) are accepted, links and capabilities
such as `registration_endpoint` alike; see section 5.

`ServerStart` is one start after another of each of several servers:
`Configure` or `RefuseSettings`; `FindVersionTable`, `CreateVersionTable` or
`WaitForVersionTable` for CREATE TABLE IF NOT EXISTS, which looks before it
waits; `ReadVersions`; `RunMigration` in filename order, which waits while
another transaction holds what it makes; `TooLate` when that is there by then;
`Commit`; `UpsertBootstrap`. `ran` is what an open transaction has done, which
nobody sees and a rollback undoes; `lost` remembers what a server was ever too
late for. `Fail` is any other exception, `LoseAcknowledgement` a commit that went
through and was answered by an error, `Exit` the end of a process anywhere, and
`RewriteRow` the operator. Servers ship different numbers of migrations, as in a
rolling deployment. `SchemaVersion` is the promise: the schema and its record go
from version to version in one step each.

### KeyCache

One thread per token. `Begin` (a token that names a key, real or made up),
`CheckAge` outside the lock, `SkipRefresh` or `StartRefresh` inside it, where the
time is read again (`Due`), `Discover` and `FetchKeys` for the two requests,
`StoreKeys` or `FetchFails`, then `FindKey`, `ForceRefresh` or `RefuseKey`, which
look into the cache without the lock. An answer remembers when it was given:
that is when its keys were true. The environment is `KeyAgreement!PowerSpec`: a
server up publishes the chosen key; a power failure may make the servers forget
it and choose a new one, which is the rotation the code speaks of
(`verifier.py:77`). `chosenAt` and `withdrawnAt` only record when.

## 3. What is checked

Passing runs. Every property has a mutant in `PROJECT.json`: a plausible bug put
in the named definition, with which TLC finds the property violated under the
same configuration.

| run | instance | shows |
|---|---|---|
| `issuance_delegation` | 2 clients, 4 requests, 2 scopes, depth cap 2, no time | every token is within the root of its task, a task has one root, every row describes its token, no recorded token has an unrecorded parent, whoever a token names came for a token of its own; `AuthorityLedger` is implemented |
| `issuance_any` | 2 requests that may be wrong in every way the code tells apart, a registration widened, moved and suspended at any step, half-second ticks past the expiry of the first token | authority only shrinks, lifetime included; rows outlast tokens; nothing dead is signed, whatever the wait; nothing refused is signed; every request is answered |
| `auth_single` | 3 requests, 4 assertions sharing jti and kid, one of them under a false name | one request per jti; a use is the client's own; the whole invariant; `AssertionRegister` is implemented |
| `auth_purge` | 2 requests, 15 credentials, good and wrong, one with an expiry that is no date, time past their expiry, a purge at any step by a clock two ticks ahead, which is what it takes to forget an assertion the servers still accept | an unexpired assertion finds its row unless the distance of the clocks has taken it; a second acceptance comes only after the expiry by the database's clock (through the distance of the clocks and through a wait, both in this instance); losers lost to somebody; keys are the owner's; every caller is answered |
| `keystore_race` | 3 processes, 3 starts, death and power loss anywhere | the published key is whole, served by all, none left over by a start that succeeded or failed; every start ends; `KeyAgreement` with its power losses is implemented |
| `start_fleet` | 3 servers, one that ships 1 migration and two that ship 3, seven configurations | schema and record agree and have no gap; a server past its migrations has all of its own; too late once is not too late twice; nobody waits in a circle; every start settles; the metadata document says of its server, under the keys the code lists, what is so; `SchemaVersion` is implemented |
| `cache_rotation` | 2 tokens, 2 keys, lifetime 2, interval 1, delay up to 1, 3 ticks | withdrawn keys are dropped and new ones found in time; refills are spaced; every token is judged |

*Why the bounds are enough to see the interesting cases.* Four requests are a
root for each of two clients, an exchange, and an exchange of what that gave;
or a chain up to the cap of 2 and one more exchange, which is refused. Two scopes
make a set that an intersection can shrink twice. Ticks of half a second make
the whole seconds of a token differ from the times of its row; `issuance_any`
lets a token be derived half a second after the one it comes from was signed,
which is where a missing `not_after` shows, and runs on until the first token has
expired under a waiting handler. Replays need two requests; with three, one loses
to a winner while another loses the database. Three starts are three processes in
one race, or one that dies and comes back into a race. Three servers are one of an
older build and two of a newer that race for the same migrations; two migrations
above the older build's are the fewest whose order can be mixed up, which is what
a deadlock needs. Two threads are one that refills and one that waits for it or
looks beside it; three ticks are the lifetime of the cache and the delay of an
answer, the first moment at which a withdrawn key must be gone. What
a larger instance could add, the theorems below exclude: they hold for every
size.

*Bounds.* `MaxTime` bounds the clock in the request modules and the cache,
`MaxStarts` the starts of the key store; requests and tokens are used once, so
their sets bound the traffic. The starts of `ServerStart` need no bound.
`MaxDelay` is an assumption and no bound: an answer arrives or is lost within it
(the HTTP client of the fixture times out). `Registrations`
and `Forms` bound what the operator writes and callers send. Requests and
processes are symmetric in the runs that declare it (no definition tells them
apart); runs with a liveness property use no symmetry.

*Deadlock* is checked in every run. Since the operator can always write a row,
a server stop or the machine lose power, that check says little; the liveness
properties say more.

*Fairness* is weak fairness of each handler's own steps (`Handle(r)`), and of
each starting process (`LoadOrCreate(p)`). The event loop runs every
continuation that is ready, the pool raises when it has no connection to give
(30 s by default), and a statement returns or raises; one that hangs for ever is
outside what is claimed. In `ServerStart` it is strong fairness of a server's own
steps (`Proceed(p)`): PostgreSQL hands a lock to those who wait for it in turn, so
a start is not passed over by others that come and fail for ever (an
idealisation: those that wait for the end of a transaction, on the row of the
catalogue it wrote, are woken together and are not queued). In `KeyCache` it
is weak fairness of each thread (`Proceed(t)`), requests ending by an answer or a
timeout (httpx's is one per operation, so a server that trickles its answer for
ever is outside what is claimed); `threading.Lock` keeps no queue, and none is assumed, since the tokens
are finitely many. Failures are not in it: `Abort`, `LoseDatabase`, `CallFails`,
`Die`, `Fail`, `Exit` and the power failures may happen at any time and need never happen. Nothing is assumed of the
operator, the clock or the purge. `EveryStartEnds` counts a process that was
killed as ended, and so does `EveryStartSettles`. `FetchFails` is part of a
thread's own steps, since a request that is never answered times out.

## 4. What is proved

With tlapm, for every value of the constants that meets the named assumptions.

*Token endpoint* (`TokenIssuanceProofs`). The assumptions are those the
configuration enforces: `MaxDepth \in 1..10`, a lifetime and a second of at least
one tick, registrations and forms of the right type. `Invariance` is
`Spec => []Inv`. `AuthorityFromRoot` is not inductive by itself: a handler signs
from a token it verified some steps before, so the invariant says in
`HandlerState` that the tokens it holds were, and remain, issued; in
`HandlerProgress` what has been signed and recorded at each point of a handler;
in `WellFormed` that a signed token has its own jti, a depth that counts its
chain, and a task whose root was issued; in `SignedFor` that what waits for its
row is derived from what its request presented, which `AncestryRecorded` and the
row's `root_subject` need when the INSERT commits. The chain argument is the
lemma `RootOfDerived`: one more hop does not change the last element of the
chain. The rounding argument is `RoundsDown`, `RoundsWithin` and
`DerivedExpiryBounds`. From the invariant follow `TypeCorrect`,
`LedgerHoldsWhatIsIssued`, `RefusalLeavesNothing`, `AuthorityOnlyShrinks`,
`TaskHasOneRoot`, `LedgerHasNoGap`, the action property `NothingDeadIsSigned`, and
`ImplementsLedger`: every step is a step of `AuthorityLedger` or a stutter.
`NobodyIsNamedInAbsence` (`HoldersCameThemselves`) is an induction of its own on
top of `Inv`, along the chains: a derived token names the subject of its actor
token and whoever its subject token names (`NamesOnChain`), both tokens were
answered (`PresentedTokens`), and of an answered token everybody has come already
(`IssuedNamesCame`), which is what the proof needs when the new one is signed.

*Ledger* (`AuthorityLedgerProofs`). No assumption at all: whatever keeps the
ledger keeps every credential within the root of its task
(`LedgerStaysWithinRoots`), one root to a task, and outstanding only what is held
(`LedgerIsRevocable`). `LedgerInv` adds that expiry is a number and that whoever
is on a chain holds a credential, so that the chain is a sequence of known names,
which `SameRoot` (a new holder in front does not change the last element) and
`HopStaysWithin` need.

*Authentication* (`ClientAuthenticationProofs`). `PurgeInvariance` holds with
purging: `KeysAreOwned` gives `SignedByOwner`, `RowsGuard` (the row of a use says
when its assertion expires, until it has) gives `RowOutlivesAssertion`, and
`ClaimsAreTheClients` says who can have taken a row, which is what
`ReplayHasWinner` needs at the moment somebody finds one. `Invariance` adds, while
nothing is purged, that every use has its row (`UsesAreSeen`), from which
`AssertionIsSingleUse` follows. Theorems: `AuthenticatedByOwnKey`, `NoUseIsLost`,
`PurgeKeepsGuards`, `OnlyTheClientClaims`, with purging, and
`AssertionIsSingleUse` and `ImplementsRegister`, without.

With purging, single use cannot hold as it stands: a handler that waits long
enough between the expiry check and the claim finds the row gone. `ReplaysAreLate`
says that nothing less will do: only a claim made after the assertion has expired
by the database's clock can follow another one (`SecondClaimIsLate`, from
`RowsGuard`). `PromptClaimsAreSingle` turns that into the condition under which a
purge job is safe to add: while no handler waits that long (`PromptClaims`), an
assertion authenticates one request. `PromptClaims` is a condition of the
theorem and no property of the code, which does not bound the wait.

*Key store* (`KeyStoreProofs`). `InvarianceUnderPowerLoss` carries `OwnFiles` (no
two starts share a file) and `StartState` (what a start has done to its file by
each point; in particular that a file is flushed before it is linked), from which
`NeverHalf`, `OneKeyServes` and `NoKeyLeftBehind`, all theorems of `PowerSpec`.
`ImplementsAgreement` is one of `Spec`, without power loss, where the choice is
for good; `ImplementsPowerAgreement` is one of `PowerSpec`, by the lemma
`MachineAgrees` for the steps of the machine.

*Server start* (`ServerStartProofs`). Every server ships at least one migration;
any configurations, any number of servers. `Invariance` carries `StartState`:
what an open transaction has run is in nobody else's hands and not in effect, and
what a server knows of the record is there. `CommitStep` is the heart: a
transaction with nothing pending brings schema and record to its build's version,
because what it did not run it had read as recorded, and the record has no gap.
From it `NothingUnrecorded`, `SchemaIsThere`, `TooLateOnce` and
`ImplementsVersions`. `NobodyWaitsInACircle` is the safety half of the absence of
deadlock. The invariant carries `RunsInOrder` for it: what a transaction has run
comes before all it still has to run. So who waits for a migration waits for one
that has run it and is therefore further on (`WaitsGoUp`, `NextIsOne`), who waits
for the version table waits for its creator, and the creator waits for nobody
(`CreatorGoesOn`); in a finite group the one that is furthest on waits for none of
the group.

*Key cache* (`KeyCacheProofs`). Any number of tokens, keys and servers, a lifetime
and an interval of at least 1, any delay. The properties about outcomes are not
inductive: `KeysAsOf` says of an answer, on its way or stored, that its keys were
there when it was given; `CacheState` ties both times of the cache to that moment,
at most a delay apart; `ThreadState` says what a thread that looks into the cache
may conclude (it began before the cache's expiry; if it was rate limited, within
the interval), and that one inside the lock is the only one and still due. From
these `WithdrawnKeysExpire`, `NewKeysAreFound` and `OneRefillAtATime`.

*Only model-checked*: the five liveness properties, which need fairness and
ENABLED; `AdvertisesWhatItIs`, which compares fixed lists and would be no more
than their evaluation as a theorem; and the five runs of the next section, which
are counterexamples.

## 5. Where the code and what it says of itself part

Each is a run that TLC ends with a counterexample.

| run | what happens | what the repository says |
|---|---|---|
| `issuance_suspended` | `TokenExchangeGrant.resolve` leaves `principal_status` at its default, so a suspended client still exchanges tokens | `pipeline.py:120`: a suspended client is refused after authentication |
| `issuance_holder` | a derived token has the caller's `client_id` and the actor's `sub`; presented as an actor token it brings the caller's registration as the ceiling | `token_exchange.py:150`: "The actor's own registration is the second ceiling." |
| `auth_form` | an assertion with an agreeing form `client_id` is taken for half a `client_secret_post` | `private_key_jwt.py:66`: "A form client_id is allowed, and must agree" |
| `start_bootstrap` | a restart writes the bootstrap client over a row the operator suspended or narrowed | `main.py:34`: "The stored row is the source of truth. These variables only decide what to write the first time" |
| `cache_outage` | while fetches fail, every token with an unknown key name forces a fetch of its own: the rate limit counts from the last success | `verifier.py:79`: "The forced fetch is rate limited, so a caller that sends random kid values cannot drive one JWKS request per token at the AS." |

`issuance_holder` is judged while no registration changes: `FixedRegistrations`
gives each client one row. The tenant an exchange agrees on is read from the
same row as that ceiling.

More places where the code falls short of itself are in the models without a run
of their own:

- `metadata.py:8` says "the server advertises only capabilities it implements",
  and line 12 that the overlay "may never declare a capability", but the check at
  `config.py:57` knows eleven keys: an overlay with `registration_endpoint` is
  accepted, and the document advertises an endpoint nobody has written.
  `start_fleet` serves with that very overlay; `AdvertisesWhatItIs` is about the
  keys of the lists and claims nothing of it.
- A subject token with under a second left makes `mint` raise a `TokenError`, which
  no layer turns into an OAuth error (`ElapseDelegation`), and an `exp` that is no
  date raises in the same way (`RaiseOverflow`); both end in a 500.
- A handler that stalls between the expiry check and the claim until its assertion
  has expired and been purged claims it a second time; `RowOutlivesAssertion` is
  about the state at the check, `ReplayTakesAWait` about that wait.

## 6. Abstractions

- Cryptography is perfect: a signature verifies only under the key that made it,
  a secret matches only itself, random values do not repeat. Hash parameters and
  the dummy comparison that evens out timing are left out.
- The servers share a clock; the database's is a constant `Ahead` of it, and only
  the purge reads it.
- A migration's statements and the row that records it are one step: nobody sees
  between them, the transaction that runs them commits both or neither, and a
  death before or after is `Exit`. The locks a migration takes on tables that are
  there already, and the wait of an upsert for them, are left out: they delay
  starts and end with the transaction that holds them.
- Of the keys a JWKS answer holds, those the verifier would not use are left out;
  an answer of no use is `FetchFails`. The metadata document is fetched from one
  server and the keys maybe from another.
- Formatting, wording, status codes and headers are left out; a refusal is
  "refused", whatever its OAuth error code. The optional `iat` and `nbf` of an
  assertion are left out: they only refuse more.
- An audience of None stands for a missing field or an unsupported token type,
  a token of None for one that is missing or no verifier accepts: each is
  refused at the same point.
- Isolation: a repository call borrows a connection, runs one statement and
  commits when it gives the connection back, so a call is a step.
- `MAXIMUM_CHAIN_DEPTH` (32) is kept in `DeclaresItsDepth`; with the depth cap at
  most 10 it is never the reason of a refusal.
- After a power loss the temporary names left in the directory matter to no later
  start, so `PowerLoss` keeps them; their content is lost or not.
- The directory that gains the key's name is not flushed after `link`, so
  `PowerLoss` may take the name of a key that has already signed, and the next
  start then creates another. What is left is `KeyAgreement!PowerSpec`, and that
  rotation is what `KeyCache` has to live with.

## 7. What is not modelled

| part | reason |
|---|---|
| OpenAPI description, response models | wording of what the grants and the endpoint do |
| `reset()` of the database | for tests only, never called by the server |
| claim checks and routes of the resource server | they hold no state; the server's own verifier is modelled in `TokenIssuance` |
| refusals of the form reader (content type, duplicate fields) | they end a request before any state exists |
| the example client | a caller that keeps no state; `Receive` is any caller |

## 8. Plan

Done, in this order because the ledger and the chain are what the program is
for: `Delegation`, `TokenIssuance` with `AuthorityLedger`, `KeyStore` with
`KeyAgreement`, `ClientAuthentication` with `AssertionRegister`, `ServerStart`
with `Discovery` and `SchemaVersion`, `KeyCache` over `KeyAgreement`, and their
proofs.

Left, in the order of what it would add:

1. `Authenticates` of `TokenIssuance` replaced by the outcome of
   `ClientAuthentication`, for one request end to end.
2. The token a resource server judges taken from `TokenIssuance`, signed with the
   key a server of `KeyStore` had: how long a token outlives its signer's key.
