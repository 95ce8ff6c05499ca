--------------------------- MODULE KeyCacheProofs ---------------------------
(***************************************************************************)
(* Whatever the number of threads, the two times of the cache and the      *)
(* delay of an answer: which keys a resource server accepts and refuses,   *)
(* and how often it asks.                                                  *)
(***************************************************************************)
EXTENDS KeyCache, TLAPS

\* Nobody has asked for anything.
LEMMA InitInv == Init => Inv
<1> SUFFICES ASSUME Init
             PROVE  Inv
  OBVIOUS
<1> USE TimesAssumption, NoneAssumption DEF Init, Fleet!Init
<1>1. TypeOK
  <2>1. NoAnswer \in Answers
    BY DEF NoAnswer, Answers
  <2>2. forced \in [Tokens -> BOOLEAN]
    BY Zenon
  <2> QED
    BY <2>1, <2>2 DEF TypeOK
<1>2. FleetState /\ CacheState
  BY DEF FleetState, CacheState
<1>3. (\A t \in Tokens : ThreadState(t)) /\ AcceptedKeysAreRecent /\ RefusedKeysAreNew
  BY DEF ThreadState, Fetching, AcceptedKeysAreRecent, RefusedKeysAreNew
<1> QED
  BY <1>1, <1>2, <1>3 DEF Inv

\* No thread looks into a cache that was never filled, and what is in it was
\* there when it was answered, at most MaxDelay before it was stored.
LEMMA CacheAge ==
    ASSUME Inv
    PROVE  /\ cache.at \in Nat /\ cache.at <= now /\ expires <= now + Ttl
           /\ \A t \in Tokens :
                 begun[t] < expires =>
                    /\ KeysAsOf(cache)
                    /\ expires <= cache.at + MaxDelay + Ttl
                    /\ earliest <= cache.at + MaxDelay + Interval
<1> USE TimesAssumption
<1>1. CASE cache = NoAnswer /\ expires = 0 /\ earliest = 0
  BY <1>1 DEF Inv, TypeOK, NoAnswer
<1>2. CASE ~(cache = NoAnswer /\ expires = 0 /\ earliest = 0)
  BY <1>2 DEF Inv, TypeOK, Answers, CacheState
<1> QED
  BY <1>1, <1>2

\* Steps of a thread outside the lock, and the request for the metadata.
LEMMA ThreadStep ==
    ASSUME Inv, NEW t \in Tokens,
           \/ \E k \in Keys : Begin(t, k)
           \/ CheckAge(t) \/ SkipRefresh(t) \/ Discover(t)
           \/ FindKey(t) \/ ForceRefresh(t) \/ RefuseKey(t)
    PROVE  Inv'
<1> USE TimesAssumption
    DEF Begin, CheckAge, SkipRefresh, Discover, FindKey, ForceRefresh, RefuseKey,
        Goto, verifier, servers
<1>1. UNCHANGED <<now, verifier, answer, servers>>
  OBVIOUS
<1>2. TypeOK'
  <2>1. pc' \in [Tokens -> {"new", "checking", "waiting", "looking"}
                              \cup Fetching \cup Judged]
    BY DEF Inv, TypeOK, Fetching, Judged
  <2>2. kid' \in [Tokens -> Keys \cup {None}] /\ begun' \in [Tokens -> Nat]
    BY DEF Inv, TypeOK
  <2>3. forced' \in [Tokens -> BOOLEAN]
    BY DEF Inv, TypeOK
  <2> QED
    BY <1>1, <2>1, <2>2, <2>3 DEF Inv, TypeOK
<1>3. FleetState' /\ CacheState'
  BY <1>1 DEF Inv, FleetState, CacheState, KeysAsOf
<1>4. \A u \in Tokens \ {t} :
         /\ pc'[u] = pc[u] /\ kid'[u] = kid[u]
         /\ begun'[u] = begun[u] /\ forced'[u] = forced[u]
  BY DEF Inv, TypeOK
<1>5. \A u \in Tokens \ {t} : ThreadState(u)'
  BY <1>1, <1>4 DEF Inv, ThreadState, KeysAsOf, Due
<1>6. ThreadState(t)'
  <2>1. CASE \E k \in Keys : Begin(t, k)
    BY <2>1 DEF Inv, TypeOK, ThreadState, Fetching
  <2>2. CASE CheckAge(t)
    BY <2>2 DEF Inv, TypeOK, ThreadState, Fetching
  <2>3. CASE SkipRefresh(t)
    BY <2>3, CacheAge DEF Inv, TypeOK, ThreadState, Fetching, Due
  <2>4. CASE Discover(t)
    BY <2>4 DEF Inv, TypeOK, ThreadState, Fetching, Due
  <2>5. CASE FindKey(t) \/ ForceRefresh(t) \/ RefuseKey(t)
    BY <2>5 DEF Inv, TypeOK, ThreadState, Fetching
  <2> QED
    BY <2>1, <2>2, <2>3, <2>4, <2>5
<1>7. pc'[t] \in {"found", "refused"} =>
         /\ pc[t] = "looking" /\ begun'[t] = begun[t] /\ kid'[t] = kid[t]
         /\ pc'[t] = "found" => kid[t] \in cache.keys
         /\ pc'[t] = "refused" => forced[t] /\ kid[t] \notin cache.keys
  BY DEF Inv, TypeOK
<1>8. pc[t] = "looking" =>
         /\ kid[t] \in Keys /\ KeysAsOf(cache)
         /\ begun[t] < cache.at + MaxDelay + Ttl
         /\ forced[t] => begun[t] < cache.at + Interval + MaxDelay
  BY CacheAge DEF Inv, TypeOK, ThreadState
<1> HIDE DEF Begin, CheckAge, SkipRefresh, Discover, FindKey, ForceRefresh, RefuseKey
<1>9. AcceptedKeysAreRecent'
  <2> SUFFICES ASSUME NEW u \in Tokens, pc'[u] = "found", withdrawnAt[kid'[u]] # None
               PROVE  begun'[u] < withdrawnAt[kid'[u]] + Ttl + MaxDelay
    BY <1>1 DEF AcceptedKeysAreRecent
  <2>1. CASE u # t
    BY <1>4, <2>1 DEF Inv, AcceptedKeysAreRecent
  <2>2. CASE u = t
    BY <1>7, <1>8, <2>2, CacheAge, NoneAssumption DEF Inv, TypeOK, KeysAsOf
  <2> QED
    BY <2>1, <2>2
<1>10. RefusedKeysAreNew'
  <2> SUFFICES ASSUME NEW u \in Tokens, pc'[u] = "refused", kid'[u] = chosen
               PROVE  begun'[u] < chosenAt + Interval + MaxDelay
    BY <1>1 DEF RefusedKeysAreNew
  <2>1. CASE u # t
    BY <1>4, <2>1 DEF Inv, RefusedKeysAreNew
  <2>2. CASE u = t
    BY <1>7, <1>8, <2>2, CacheAge, NoneAssumption DEF Inv, TypeOK, KeysAsOf
  <2> QED
    BY <2>1, <2>2
<1> QED
  BY <1>2, <1>3, <1>5, <1>6, <1>9, <1>10 DEF Inv

\* A thread enters the lock, or gets its answer: the cache is as it was, and
\* nobody is judged.
LEMMA AskStep ==
    ASSUME Inv, NEW t \in Tokens, StartRefresh(t) \/ FetchKeys(t)
    PROVE  Inv'
<1> USE TimesAssumption, NoneAssumption
    DEF StartRefresh, FetchKeys, Goto, verifier, servers
<1>1. UNCHANGED <<now, cache, expires, earliest, kid, begun, forced, servers>>
  OBVIOUS
<1>2. /\ pc[t] \notin Judged /\ pc'[t] \in Fetching /\ lock' = t
      /\ pc' = [pc EXCEPT ![t] = pc'[t]]
      /\ lock = None \/ lock = t
  BY DEF Inv, TypeOK, ThreadState, Fetching, Judged
<1>3. TypeOK'
  <2>1. answer' \in Answers /\ lock' \in Tokens \cup {None}
    BY DEF Inv, TypeOK, Answers
  <2>2. pc' \in [Tokens -> {"new", "checking", "waiting", "looking"}
                              \cup Fetching \cup Judged]
    BY <1>2 DEF Inv, TypeOK
  <2> QED
    BY <1>1, <2>1, <2>2 DEF Inv, TypeOK
<1>4. FleetState' /\ CacheState'
  BY <1>1 DEF Inv, FleetState, CacheState, KeysAsOf
<1>5. \A u \in Tokens \ {t} : ThreadState(u)'
  BY <1>1, <1>2 DEF Inv, TypeOK, ThreadState, KeysAsOf, Due
<1>6. ThreadState(t)'
  <2>1. CASE StartRefresh(t)
    BY <2>1 DEF Inv, TypeOK, ThreadState, Fetching, Due
  <2>2. CASE FetchKeys(t)
    <3>1. PICK p \in Servers :
             serving[p] # None /\ answer' = [keys |-> {serving[p]}, at |-> now]
      BY <2>2
    <3>2. serving[p] = chosen /\ chosen \in Keys /\ withdrawnAt[chosen] = None
      BY <3>1 DEF Inv, TypeOK, FleetState
    <3>3. KeysAsOf(answer)'
      BY <1>1, <3>1, <3>2 DEF KeysAsOf
    <3> QED
      BY <1>1, <1>2, <2>2, <3>1, <3>3, CacheAge DEF Inv, TypeOK, ThreadState, Fetching, Due
  <2> QED
    BY <2>1, <2>2
<1>7. AcceptedKeysAreRecent' /\ RefusedKeysAreNew'
  BY <1>1, <1>2 DEF Inv, TypeOK, AcceptedKeysAreRecent, RefusedKeysAreNew, Fetching
<1> QED
  BY <1>3, <1>4, <1>5, <1>6, <1>7 DEF Inv

\* A thread leaves the lock, with an answer or without.
LEMMA LeaveStep ==
    ASSUME Inv, NEW t \in Tokens, StoreKeys(t) \/ FetchFails(t)
    PROVE  Inv'
<1> USE TimesAssumption, NoneAssumption
    DEF StoreKeys, FetchFails, Goto, servers
<1>1. /\ UNCHANGED <<now, kid, begun, forced, servers>>
      /\ lock' = None /\ answer' = NoAnswer
      /\ \/ pc'[t] = "looking" /\ StoreKeys(t)
         \/ pc'[t] = "failed" /\ UNCHANGED <<cache, expires, earliest>>
      /\ pc' = [pc EXCEPT ![t] = pc'[t]]
  BY DEF Inv, TypeOK
<1>2. lock = t /\ \A u \in Tokens \ {t} : lock # u /\ pc[u] \notin Fetching
  BY DEF Inv, ThreadState, Fetching
<1>3. TypeOK'
  <2>1. cache' \in Answers /\ answer' \in Answers
    BY DEF Inv, TypeOK, Answers, NoAnswer
  <2>2. expires' \in Nat /\ earliest' \in Nat
    BY DEF Inv, TypeOK
  <2>3. pc' \in [Tokens -> {"new", "checking", "waiting", "looking"}
                              \cup Fetching \cup Judged]
    BY <1>1 DEF Inv, TypeOK, Judged
  <2> QED
    BY <1>1, <2>1, <2>2, <2>3 DEF Inv, TypeOK
<1>4. FleetState'
  BY <1>1 DEF Inv, FleetState
<1>5. CASE FetchFails(t)
  <2>1. CacheState'
    BY <1>1, <1>5 DEF Inv, CacheState, KeysAsOf
  <2>2. \A u \in Tokens : ThreadState(u)'
    BY <1>1, <1>2, <1>5 DEF Inv, TypeOK, ThreadState, Fetching
  <2>3. AcceptedKeysAreRecent' /\ RefusedKeysAreNew'
    BY <1>1, <1>5 DEF Inv, TypeOK, AcceptedKeysAreRecent, RefusedKeysAreNew
  <2> QED
    BY <1>3, <1>4, <2>1, <2>2, <2>3 DEF Inv
<1>6. CASE StoreKeys(t)
  <2>1. /\ cache' = answer /\ expires' = now + Ttl /\ earliest' = now + Interval
        /\ begun[t] <= answer.at /\ cache.at <= answer.at
        /\ now \in answer.at .. answer.at + MaxDelay
    BY <1>1, <1>6 DEF Inv, ThreadState
  <2>2. KeysAsOf(cache)'
    BY <1>1, <1>6, <2>1 DEF Inv, ThreadState, KeysAsOf
  <2>3. CacheState'
    BY <1>1, <2>1, <2>2 DEF Inv, TypeOK, Answers, CacheState
  <2>4. \A u \in Tokens \ {t} : ThreadState(u)'
    <3> TAKE u \in Tokens \ {t}
    <3>1. /\ pc'[u] = pc[u] /\ pc[u] \notin Fetching /\ lock' # u
          /\ kid'[u] = kid[u] /\ begun'[u] = begun[u] /\ forced'[u] = forced[u]
      BY <1>1, <1>2, NoneAssumption DEF Inv, TypeOK
    <3>2. expires <= expires' /\ cache.at <= cache'.at
      BY <2>1, CacheAge
    <3> QED
      BY <1>1, <2>1, <3>1, <3>2 DEF Inv, TypeOK, Answers, ThreadState, Fetching
  <2>5. ThreadState(t)'
    BY <1>1, <1>6, <2>1 DEF Inv, TypeOK, Answers, ThreadState, Fetching
  <2>6. AcceptedKeysAreRecent' /\ RefusedKeysAreNew'
    BY <1>1, <1>6 DEF Inv, TypeOK, AcceptedKeysAreRecent, RefusedKeysAreNew
  <2> QED
    BY <1>3, <1>4, <2>3, <2>4, <2>5, <2>6 DEF Inv
<1> QED
  BY <1>5, <1>6

\* A key that comes or goes now does so after all that was answered before.
LEMMA FleetStep ==
    ASSUME Inv,
           \/ \E k \in Keys : ChooseKey(k)
           \/ \E p \in Servers : StartServer(p) \/ StopServer(p)
           \/ LosePower
    PROVE  Inv'
<1> USE TimesAssumption, NoneAssumption
    DEF ChooseKey, StartServer, StopServer, LosePower, verifier, threads,
        Fleet!Choose, Fleet!Serve, Fleet!Stop, Fleet!LosePower
<1>1. UNCHANGED <<now, verifier, threads>>
  OBVIOUS
<1>2. /\ chosen' \in Keys \cup {None} /\ serving' \in [Servers -> Keys \cup {None}]
      /\ \A p \in Servers : serving'[p] \in {None, chosen'}
  BY DEF Inv, TypeOK, FleetState
<1>3. /\ chosenAt' \in Nat /\ withdrawnAt' \in [Keys -> Nat \cup {None}]
      /\ chosenAt' <= now
      /\ \/ UNCHANGED <<chosen, chosenAt>>
         \/ chosenAt' = now
         \/ chosen' = None
      /\ \A k \in Keys : \/ withdrawnAt'[k] = withdrawnAt[k]
                          \/ withdrawnAt'[k] = now
      /\ \A k \in Keys : withdrawnAt'[k] # None => k # chosen' /\ withdrawnAt'[k] <= now
  BY DEF Inv, TypeOK, FleetState
<1> HIDE DEF ChooseKey, StartServer, StopServer, LosePower
<1>4. TypeOK' /\ FleetState'
  BY <1>1, <1>2, <1>3 DEF Inv, TypeOK, FleetState
<1>5. ASSUME NEW a \in Answers, a.at <= now, KeysAsOf(a)
      PROVE  KeysAsOf(a)'
  BY <1>3, <1>5 DEF Inv, TypeOK, Answers, KeysAsOf
<1>6. CacheState'
  <2>1. KeysAsOf(cache) => KeysAsOf(cache)'
    BY <1>1, <1>5, CacheAge DEF Inv, TypeOK
  <2> QED
    BY <1>1, <2>1 DEF Inv, CacheState
<1>7. \A t \in Tokens : ThreadState(t)'
  <2>1. KeysAsOf(answer) /\ answer.at <= now => KeysAsOf(answer)'
    BY <1>1, <1>5 DEF Inv, TypeOK
  <2> QED
    BY <1>1, <2>1 DEF Inv, TypeOK, Answers, ThreadState, Due
<1>8. AcceptedKeysAreRecent'
  BY <1>1, <1>3 DEF Inv, TypeOK, ThreadState, AcceptedKeysAreRecent
<1>9. RefusedKeysAreNew'
  BY <1>1, <1>3 DEF Inv, TypeOK, ThreadState, RefusedKeysAreNew
<1> QED
  BY <1>4, <1>6, <1>7, <1>8, <1>9 DEF Inv

\* Time makes nothing undone.
LEMMA TickStep == ASSUME Inv, Tick \/ UNCHANGED vars PROVE Inv'
<1> USE TimesAssumption, NoneAssumption DEF Tick, vars, verifier, threads, servers
<1>1. /\ UNCHANGED <<verifier, threads, servers>>
      /\ now' \in Nat /\ now <= now' /\ now' <= now + 1
      /\ \A t \in Tokens : pc[t] = "answered" => now' = now \/ now < answer.at + MaxDelay
  BY DEF Inv, TypeOK
<1> HIDE DEF Tick, vars
<1>2. TypeOK' /\ FleetState' /\ AcceptedKeysAreRecent' /\ RefusedKeysAreNew'
  BY <1>1 DEF Inv, TypeOK, FleetState, AcceptedKeysAreRecent, RefusedKeysAreNew
<1>3. CacheState'
  BY <1>1 DEF Inv, TypeOK, CacheState, KeysAsOf
<1>4. \A t \in Tokens : ThreadState(t)'
  BY <1>1 DEF Inv, TypeOK, Answers, ThreadState, KeysAsOf, Due
<1> QED
  BY <1>2, <1>3, <1>4 DEF Inv

\* Every step preserves the invariant.
LEMMA NextInv == Inv /\ [Next]_vars => Inv'
BY ThreadStep, AskStep, LeaveStep, FleetStep, TickStep DEF Next, Proceed

-----------------------------------------------------------------------------

\* The invariant of the cache, whatever its times and its threads.
THEOREM Invariance == Spec => []Inv
<1> QED
  BY InitInv, NextInv, PTL DEF Spec

\* A withdrawn key is trusted for no longer than the cache lives, and an answer
\* is under way (verifier.py:87-97, 136-139).
THEOREM WithdrawnKeysExpire == Spec => []AcceptedKeysAreRecent
<1>1. Inv => AcceptedKeysAreRecent
  BY DEF Inv
<1> QED
  BY <1>1, Invariance, PTL

\* The rate limit hides a new key for no longer than its interval, and an
\* answer is under way (verifier.py:77-83).
THEOREM NewKeysAreFound == Spec => []RefusedKeysAreNew
<1>1. Inv => RefusedKeysAreNew
  BY DEF Inv
<1> QED
  BY <1>1, Invariance, PTL

\* However many threads wait for the lock, the cache is refilled at most once in
\* its lifetime or interval, whichever is shorter (verifier.py:92-97).
THEOREM OneRefillAtATime == Spec => RefillsAreSpaced
<1> DEFINE Spaced == \/ cache = NoAnswer
                     \/ earliest' >= earliest + Ttl \/ earliest' >= earliest + Interval
<1>1. ASSUME Inv, [Next]_vars, NEW t \in Tokens, pc[t] = "answered", pc'[t] = "looking"
      PROVE  Spaced
  <2>1. StoreKeys(t)
    <3>1. ASSUME NEW u \in Tokens, (\E k \in Keys : Begin(u, k)) \/ Proceed(u)
          PROVE  u = t
      BY <1>1, <3>1
         DEF Inv, TypeOK, Proceed, Begin, CheckAge, SkipRefresh, StartRefresh, Discover,
             FetchKeys, StoreKeys, FetchFails, FindKey, ForceRefresh, RefuseKey, Goto
    <3>2. ~ \E k \in Keys : Begin(t, k)
      BY <1>1 DEF Begin
    <3>3. Proceed(t) => StoreKeys(t)
      BY <1>1 DEF Inv, TypeOK, Proceed, CheckAge, SkipRefresh, StartRefresh, Discover,
                  FetchKeys, FetchFails, FindKey, ForceRefresh, RefuseKey, Goto
    <3>4. pc' # pc
      BY <1>1
    <3> QED
      BY <1>1, <3>1, <3>2, <3>3, <3>4
         DEF Next, ChooseKey, StartServer, StopServer, LosePower, Tick, threads, vars
  <2>2. Due(t) /\ earliest' = now + Interval
    BY <1>1, <2>1 DEF Inv, ThreadState, Fetching, StoreKeys
  <2>3. cache = NoAnswer \/ expires - Ttl = earliest - Interval
    BY <1>1 DEF Inv, CacheState
  <2> QED
    BY <1>1, <2>2, <2>3, TimesAssumption DEF Inv, TypeOK, Due
<1>2. Inv /\ [Next]_vars
        => [(\E t \in Tokens : pc[t] = "answered" /\ pc'[t] = "looking") => Spaced]_vars
  BY <1>1
<1> QED
  BY <1>2, Invariance, PTL DEF Spec, RefillsAreSpaced

=============================================================================
