------------------------------ MODULE KeyCache ------------------------------
(***************************************************************************)
(* A resource server's cache of the authorization server's signing keys    *)
(* (tests/resource_server/verifier.py).  Each token is validated on a      *)
(* thread of its own; the threads share the cache, and a lock for those    *)
(* that refill it.  The servers they ask are what the key store promises   *)
(* (KeyAgreement): they sign with one chosen key, and a power failure may  *)
(* make them forget it and choose another.                                 *)
(***************************************************************************)
EXTENDS Integers

CONSTANTS
    Tokens,     \* the tokens to validate, one thread each
    Keys,
    Servers,
    None,
    Ttl,        \* _cache_ttl_seconds
    Interval,   \* _forced_refresh_interval_seconds
    MaxDelay,   \* the longest an answer is under way
    MaxTime     \* the bound of the clock

ASSUME TimesAssumption ==
    /\ Ttl \in Nat \ {0} /\ Interval \in Nat \ {0}
    /\ MaxDelay \in Nat /\ MaxTime \in Nat

ASSUME NoneAssumption == None \notin Keys /\ None \notin Tokens /\ None \notin Nat

VARIABLES
    now,        \* time.monotonic()
    cache,      \* _keys_by_kid, and when it was answered
    expires,    \* _cache_expires_at
    earliest,   \* _earliest_next_refresh_at
    lock,       \* the thread that holds _lock
    pc,         \* how far each thread has come
    kid,        \* the key each token names
    begun,      \* when its validation began
    forced,     \* the thread is past its first look at the cache
    answer,     \* the JWKS response of the lock's holder
    chosen, serving,    \* the authorization servers, see KeyAgreement
    chosenAt,   \* when the chosen key came
    withdrawnAt \* when each key went that was chosen before

verifier == <<cache, expires, earliest, lock>>
threads == <<pc, kid, begun, forced, answer>>
servers == <<chosen, serving, chosenAt, withdrawnAt>>
vars == <<now, verifier, threads, servers>>

Fleet == INSTANCE KeyAgreement WITH Starters <- Servers

\* What a GET of the JWKS returns, and when.
Answers == [keys: SUBSET Keys, at: Nat]

NoAnswer == [keys |-> {}, at |-> 0]

\* Inside the lock.
Fetching == {"fetching", "discovered", "answered"}

Judged == {"found", "refused", "failed"}

TypeOK ==
    /\ now \in Nat /\ expires \in Nat /\ earliest \in Nat
    /\ cache \in Answers /\ answer \in Answers
    /\ lock \in Tokens \cup {None}
    /\ pc \in [Tokens -> {"new", "checking", "waiting", "looking"}
                            \cup Fetching \cup Judged]
    /\ kid \in [Tokens -> Keys \cup {None}]
    /\ begun \in [Tokens -> Nat]
    /\ forced \in [Tokens -> BOOLEAN]
    /\ chosen \in Keys \cup {None}
    /\ serving \in [Servers -> Keys \cup {None}]
    /\ chosenAt \in Nat
    /\ withdrawnAt \in [Keys -> Nat \cup {None}]

Init ==
    /\ now = 0
    /\ cache = NoAnswer /\ expires = 0 /\ earliest = 0
    /\ lock = None
    /\ pc = [t \in Tokens |-> "new"]
    /\ kid = [t \in Tokens |-> None]
    /\ begun = [t \in Tokens |-> 0]
    /\ forced = [t \in Tokens |-> FALSE]
    /\ answer = NoAnswer
    /\ Fleet!Init
    /\ chosenAt = 0
    /\ withdrawnAt = [k \in Keys |-> None]

Goto(t, there) == pc' = [pc EXCEPT ![t] = there]

-----------------------------------------------------------------------------
(* One validation *)

\* validate(): a token that names a key, published or made up.
Begin(t, k) ==
    /\ pc[t] = "new"
    /\ kid' = [kid EXCEPT ![t] = k]
    /\ begun' = [begun EXCEPT ![t] = now]
    /\ Goto(t, "checking")
    /\ UNCHANGED <<now, verifier, forced, answer, servers>>

\* _refresh_if_needed() looks at the cache's age before it asks for the lock.
CheckAge(t) ==
    /\ pc[t] = "checking"
    /\ Goto(t, IF now >= expires THEN "waiting" ELSE "looking")
    /\ UNCHANGED <<now, verifier, kid, begun, forced, answer, servers>>

\* Mutant: who waited for the lock does not look again.
AlwaysDue(t) == TRUE

\* Inside the lock the time is read again: another thread may have been here.
Due(t) == IF forced[t] THEN now >= earliest ELSE now >= expires

SkipRefresh(t) ==
    /\ pc[t] = "waiting" /\ lock = None
    /\ ~Due(t)
    /\ Goto(t, "looking")
    /\ UNCHANGED <<now, verifier, kid, begun, forced, answer, servers>>

StartRefresh(t) ==
    /\ pc[t] = "waiting" /\ lock = None
    /\ Due(t)
    /\ lock' = t
    /\ Goto(t, "fetching")
    /\ UNCHANGED <<now, cache, expires, earliest, kid, begun, forced, answer, servers>>

\* GET of the metadata: of any server that is up.
Discover(t) ==
    /\ pc[t] = "fetching"
    /\ \E p \in Servers : serving[p] # None
    /\ Goto(t, "discovered")
    /\ UNCHANGED <<now, verifier, kid, begun, forced, answer, servers>>

\* GET of the JWKS: the server's one key.
FetchKeys(t) ==
    /\ pc[t] = "discovered"
    /\ \E p \in Servers :
          /\ serving[p] # None
          /\ answer' = [keys |-> {serving[p]}, at |-> now]
    /\ Goto(t, "answered")
    /\ UNCHANGED <<now, verifier, kid, begun, forced, servers>>

\* Mutant: the new keys are added to the old.
MergeKeys(t) ==
    /\ pc[t] = "answered"
    /\ cache' = [answer EXCEPT !.keys = @ \cup cache.keys]
    /\ expires' = now + Ttl /\ earliest' = now + Interval
    /\ lock' = None /\ answer' = NoAnswer
    /\ Goto(t, "looking")
    /\ UNCHANGED <<now, kid, begun, forced, servers>>

\* Mutant: the interval is counted from the expiry.
StoreLate(t) ==
    /\ pc[t] = "answered"
    /\ cache' = answer
    /\ expires' = now + Ttl /\ earliest' = now + Ttl + Interval
    /\ lock' = None /\ answer' = NoAnswer
    /\ Goto(t, "looking")
    /\ UNCHANGED <<now, kid, begun, forced, servers>>

\* The answer replaces the cache; both times count from now.
StoreKeys(t) ==
    /\ pc[t] = "answered"
    /\ cache' = answer
    /\ expires' = now + Ttl /\ earliest' = now + Interval
    /\ lock' = None /\ answer' = NoAnswer
    /\ Goto(t, "looking")
    /\ UNCHANGED <<now, kid, begun, forced, servers>>

\* Mutant: the lock is not released on the way out.
FailLocked(t) ==
    /\ pc[t] \in Fetching
    /\ answer' = NoAnswer
    /\ Goto(t, "failed")
    /\ UNCHANGED <<now, verifier, kid, begun, forced, servers>>

\* A request fails or times out, or its answer is of no use: the token is
\* refused, and neither time moves.
FetchFails(t) ==
    /\ pc[t] \in Fetching
    /\ lock' = None /\ answer' = NoAnswer
    /\ Goto(t, "failed")
    /\ UNCHANGED <<now, cache, expires, earliest, kid, begun, forced, servers>>

\* _keys_by_kid.get(kid), without the lock: whatever the cache is by now.
FindKey(t) ==
    /\ pc[t] = "looking"
    /\ kid[t] \in cache.keys
    /\ Goto(t, "found")
    /\ UNCHANGED <<now, verifier, kid, begun, forced, answer, servers>>

ForceRefresh(t) ==
    /\ pc[t] = "looking"
    /\ kid[t] \notin cache.keys /\ ~forced[t]
    /\ forced' = [forced EXCEPT ![t] = TRUE]
    /\ Goto(t, "waiting")
    /\ UNCHANGED <<now, verifier, kid, begun, answer, servers>>

RefuseKey(t) ==
    /\ pc[t] = "looking"
    /\ kid[t] \notin cache.keys /\ forced[t]
    /\ Goto(t, "refused")
    /\ UNCHANGED <<now, verifier, kid, begun, forced, answer, servers>>

-----------------------------------------------------------------------------
(* The authorization servers and the clock *)

\* A new key every time: it is generated.
ChooseKey(k) ==
    /\ withdrawnAt[k] = None
    /\ Fleet!Choose(k)
    /\ chosenAt' = now
    /\ UNCHANGED <<now, verifier, threads, withdrawnAt>>

StartServer(p) ==
    /\ Fleet!Serve(p)
    /\ UNCHANGED <<now, verifier, threads, chosenAt, withdrawnAt>>

StopServer(p) ==
    /\ Fleet!Stop(p)
    /\ UNCHANGED <<now, verifier, threads, chosenAt, withdrawnAt>>

LosePower ==
    /\ Fleet!LosePower
    /\ withdrawnAt' = [k \in Keys |-> IF k = chosen /\ chosen' = None
                                      THEN now ELSE withdrawnAt[k]]
    /\ UNCHANGED <<now, verifier, threads, chosenAt>>

\* Time passes; an answer arrives or is lost within MaxDelay.
Tick ==
    /\ now < MaxTime
    /\ \A t \in Tokens : pc[t] = "answered" => now < answer.at + MaxDelay
    /\ now' = now + 1
    /\ UNCHANGED <<verifier, threads, servers>>

-----------------------------------------------------------------------------

\* What the code of a validation does next.
Proceed(t) ==
    \/ CheckAge(t)
    \/ SkipRefresh(t) \/ StartRefresh(t)
    \/ Discover(t) \/ FetchKeys(t) \/ StoreKeys(t) \/ FetchFails(t)
    \/ FindKey(t) \/ ForceRefresh(t) \/ RefuseKey(t)

Next ==
    \/ \E t \in Tokens : (\E k \in Keys : Begin(t, k)) \/ Proceed(t)
    \/ \E k \in Keys : ChooseKey(k)
    \/ \E p \in Servers : StartServer(p) \/ StopServer(p)
    \/ LosePower
    \/ Tick

Spec == Init /\ [][Next]_vars

\* Every thread gets on.  The tokens are finitely many, so the lock, which
\* keeps no queue, is there for each of them in the end.
FairSpec == Spec /\ \A t \in Tokens : WF_vars(Proceed(t))

-----------------------------------------------------------------------------
(* Properties *)

\* cache_ttl_seconds: once a key is withdrawn, no token that comes more than
\* a lifetime of the cache later is validated with it, whatever the threads
\* that refill the cache do meanwhile (verifier.py:87-97, 136-139).
AcceptedKeysAreRecent ==
    \A t \in Tokens :
        pc[t] = "found" /\ withdrawnAt[kid[t]] # None
            => begun[t] < withdrawnAt[kid[t]] + Ttl + MaxDelay

\* verifier.py:77-78: "A missing kid can mean key rotation".  The rate limit
\* refuses tokens of a new key for no longer than its interval.
RefusedKeysAreNew ==
    \A t \in Tokens :
        pc[t] = "refused" /\ kid[t] = chosen
            => begun[t] < chosenAt + Interval + MaxDelay

\* Threads that find the cache too old, or lacking, at the same time refill it
\* once: between two refills lies the lifetime or the interval
\* (verifier.py:92-97).
RefillsAreSpaced ==
    [][(\E t \in Tokens : pc[t] = "answered" /\ pc'[t] = "looking") =>
          \/ cache = NoAnswer
          \/ earliest' >= earliest + Ttl \/ earliest' >= earliest + Interval]_vars

\* The keys of an answer are those that were there then.
KeysAsOf(a) ==
    /\ \A k \in a.keys : withdrawnAt[k] = None \/ withdrawnAt[k] >= a.at
    /\ chosen \in a.keys \cup {None} \/ chosenAt >= a.at

\* The servers, and when their keys came and went.
FleetState ==
    /\ \A p \in Servers : serving[p] \in {None, chosen}
    /\ chosenAt <= now
    /\ \A k \in Keys :
          withdrawnAt[k] # None => k # chosen /\ withdrawnAt[k] <= now

\* The cache, and what its two times stand for.
CacheState ==
    \/ cache = NoAnswer /\ expires = 0 /\ earliest = 0
    \/ /\ KeysAsOf(cache)
       /\ expires - Ttl = earliest - Interval
       /\ expires - Ttl \in cache.at .. cache.at + MaxDelay
       /\ expires - Ttl <= now

\* What a thread knows by the time it gets somewhere.
ThreadState(t) ==
    /\ begun[t] <= now
    /\ lock = t <=> pc[t] \in Fetching
    /\ pc[t] # "new" => kid[t] \in Keys
    /\ pc[t] \in {"new", "checking"} => ~forced[t]
    /\ pc[t] \in Fetching => Due(t)
    /\ pc[t] = "answered" =>
          /\ KeysAsOf(answer)
          /\ begun[t] <= answer.at /\ cache.at <= answer.at
          /\ now \in answer.at .. answer.at + MaxDelay
    /\ pc[t] = "looking" => begun[t] < expires
    /\ pc[t] = "looking" /\ forced[t] => begun[t] < cache.at + Interval + MaxDelay
    /\ pc[t] = "waiting" /\ forced[t] => begun[t] < expires

\* The inductive invariant of the cache.
Inv ==
    /\ TypeOK
    /\ FleetState
    /\ CacheState
    /\ \A t \in Tokens : ThreadState(t)
    /\ AcceptedKeysAreRecent
    /\ RefusedKeysAreNew

\* Every validation that begins ends, though the authorization servers be down
\* and whoever fails holds the lock (verifier.py:92, 115-116).
EveryTokenJudged == <>[](\A t \in Tokens : pc[t] \in {"new"} \cup Judged)

\* verifier.py:79-80: "The forced fetch is rate limited, so a caller that sends
\* random kid values cannot drive one JWKS request per token at the AS".
ForcedFetchesAreSpaced ==
    [][\A t, u \in Tokens :
          /\ lock' = u /\ lock # u /\ forced[u]
          /\ pc[t] = "failed" /\ forced[t]
          => now >= begun[t] + Interval]_vars

=============================================================================
