--------------------- MODULE ClientAuthenticationProofs ---------------------
(***************************************************************************)
(* An assertion authenticates its client, and once: proved for every       *)
(* number of clients, keys and requests.                                   *)
(***************************************************************************)
EXTENDS ClientAuthenticationProperties, TLAPS

\* Nothing is claimed before anybody asks.
LEMMA InitInv == Init => Inv
<1> SUFFICES ASSUME Init
             PROVE  Inv
  OBVIOUS
<1> USE NoneAssumption DEF Init
<1>1. TypeOK
  BY DEF TypeOK
<1>2. HandlerState /\ KeysAreOwned /\ SignedByOwner
  BY DEF HandlerState, KeysAreOwned, SignedByOwner, Judged, Asserts, Running
<1>3. RowsGuard /\ UsesAreSeen /\ SingleUse /\ ReplayHasWinner /\ ClaimsAreTheClients
  BY DEF RowsGuard, UsesAreSeen, SingleUse, ReplayHasWinner, ClaimsAreTheClients
<1> QED
  BY <1>1, <1>2, <1>3 DEF Inv, AuthInv

\* An assertion that was extracted names a client.
LEMMA UseTyped ==
    ASSUME TypeOK, NEW r \in Requests, Asserts(r), Extracted(form[r])
    PROVE  /\ Presented(r) \in Assertion
           /\ Presented(r).sub \in ClientIds
           /\ Use(Presented(r)) \in ClientIds \X Jtis
<1>1. form[r] \in Form
  BY DEF TypeOK, Asserts
<1>2. form[r].client_assertion # None /\ form[r].client_assertion.sub # None
  BY DEF Asserts, Extracted, AssertionExtracted
<1> QED
  BY <1>1, <1>2 DEF Form, Assertion, Presented, Use

\* Who receives a request claims nothing by it.
LEMMA ReceiveStep ==
    ASSUME AuthInv, NEW r \in Requests, NEW f \in Forms, Receive(r, f)
    PROVE  AuthInv'
<1> USE NoneAssumption, FormsAssumption DEF AuthInv, Receive, Goto, tables
<1>1. TypeOK'
  <2>1. pc' \in [Requests -> {"idle", "authenticated", "refused", "replayed",
                              "rejected", "failed", "raised"} \cup Running]
    BY DEF TypeOK, Running
  <2>2. form' \in [Requests -> Form \cup {None}]
    BY DEF TypeOK
  <2> QED
    BY <2>1, <2>2 DEF TypeOK
<1>2. \A s \in Requests \ {r} : pc'[s] = pc[s] /\ form'[s] = form[s]
  BY DEF TypeOK
<1>3. pc'[r] \in {"looking", "rejected"} /\ form'[r] = f /\ pc[r] = "idle"
  BY DEF TypeOK
<1>4. pc'[r] = "looking" => Extracted(f)
  BY DEF TypeOK
<1>5. f # None
  OBVIOUS
<1>6. HandlerState'
  BY <1>2, <1>3, <1>4, <1>5 DEF HandlerState, Asserts, Presented, Running
<1>7. SignedByOwner' /\ RowsGuard' /\ KeysAreOwned'
  BY <1>2, <1>3 DEF SignedByOwner, Judged, RowsGuard, KeysAreOwned, Asserts, Presented
<1>8. ClaimsAreTheClients'
  BY <1>2, <1>3 DEF ClaimsAreTheClients, Asserts, Presented
<1>9. ReplayHasWinner'
  BY <1>2, <1>3 DEF ReplayHasWinner, Asserts, Presented
<1> QED
  BY <1>1, <1>6, <1>7, <1>8, <1>9

\* Judging touches no table: what it decides is in the handler alone.
LEMMA JudgeStep ==
    ASSUME AuthInv, NEW r \in Requests,
           \/ JudgeSecret(r) \/ FindClient(r) \/ JudgeAssertion(r)
           \/ RaiseOverflow(r) \/ FindClaimed(r)
    PROVE  AuthInv'
<1> USE DEF AuthInv
<1>1. /\ UNCHANGED <<clients, keys, seen, now, form>>
      /\ \A s \in Requests \ {r} : pc'[s] = pc[s]
  BY DEF TypeOK, JudgeSecret, FindClient, JudgeAssertion, RaiseOverflow, FindClaimed, Goto, tables
<1>2. /\ pc[r] \in Running
      /\ pc'[r] \in {"authenticated", "refused", "judging", "claiming", "replayed",
                   "raised"}
      /\ pc' \in [Requests -> {"idle", "authenticated", "refused", "replayed",
                               "rejected", "failed", "raised"} \cup Running]
  BY DEF TypeOK, JudgeSecret, FindClient, JudgeAssertion, RaiseOverflow, FindClaimed, Goto, Running
<1>3. pc'[r] = "authenticated" => ~Asserts(r)
  BY DEF TypeOK, JudgeSecret, FindClient, JudgeAssertion, RaiseOverflow, FindClaimed, Goto, Asserts
<1>4. /\ pc'[r] \in {"judging", "claiming", "replayed"} => Asserts(r)
      /\ pc'[r] \in {"judging", "claiming", "replayed"} => Presented(r).kid # None
  BY DEF TypeOK, HandlerState, JudgeSecret, FindClient, JudgeAssertion, RaiseOverflow, FindClaimed,
         Goto, Asserts, Presented, Running
<1>5. TypeOK'
  BY <1>1, <1>2 DEF TypeOK
<1>6. HandlerState' /\ KeysAreOwned'
  BY <1>1, <1>2, <1>4 DEF HandlerState, KeysAreOwned, Asserts, Presented, Running
<1>7. Judged(r)' => Owner[Presented(r).signer] = Presented(r).sub
  <2>1. CASE JudgeAssertion(r) /\ pc'[r] = "claiming"
    <3>1. SignedByKey(Presented(r))
      BY <2>1 DEF JudgeAssertion, Goto, TypeOK, Presented
    <3>2. /\ Presented(r).sub \in ClientIds /\ Presented(r).kid \in Kids
          /\ Presented(r).signer \in Keys
      BY <2>1, UseTyped
         DEF JudgeAssertion, HandlerState, Running, Assertion
    <3> QED
      BY <3>1, <3>2, NoneAssumption DEF SignedByKey, KeysAreOwned
  <2>2. CASE FindClaimed(r)
    BY <2>2 DEF FindClaimed, SignedByOwner, Judged, HandlerState
  <2> QED
    BY <1>1, <1>3, <2>1, <2>2
       DEF JudgeSecret, FindClient, JudgeAssertion, RaiseOverflow, FindClaimed, Goto, TypeOK,
           Judged, Asserts
<1>8. SignedByOwner' /\ RowsGuard'
  BY <1>1, <1>2, <1>3, <1>7 DEF SignedByOwner, RowsGuard, Judged, Asserts, Presented
<1>9. ClaimsAreTheClients'
  BY <1>1, <1>2 DEF ClaimsAreTheClients, Asserts, Presented, Running
<1>10. ReplayHasWinner'
  <2>1. CASE pc'[r] = "replayed"
    <3>1. FindClaimed(r)
      BY <2>1 DEF JudgeSecret, FindClient, JudgeAssertion, RaiseOverflow, FindClaimed, Goto, TypeOK
    <3>2. Use(Presented(r)) \in ClientIds \X Jtis
      BY <3>1, UseTyped DEF FindClaimed, HandlerState, Running
    <3>3. PICK s \in Requests : /\ Asserts(s) /\ Use(Presented(s)) = Use(Presented(r))
                                /\ pc[s] \in {"authenticated", "failed"}
      BY <3>1, <3>2 DEF FindClaimed, ClaimsAreTheClients, Presented
    <3>4. s # r
      BY <3>1, <3>3 DEF FindClaimed
    <3> QED
      BY <1>1, <1>2, <3>3, <3>4 DEF ReplayHasWinner, Asserts, Presented, Running
  <2> QED
    BY <1>1, <1>2, <2>1 DEF ReplayHasWinner, Asserts, Presented, Running
<1> QED
  BY <1>5, <1>6, <1>8, <1>9, <1>10

\* A claim takes the row for the client that signed the assertion.
LEMMA ClaimStep ==
    ASSUME AuthInv, NEW r \in Requests, Claim(r) \/ LoseDatabase(r)
    PROVE  AuthInv'
<1> USE DEF AuthInv
<1>1. /\ UNCHANGED <<clients, keys, now, form>>
      /\ \A s \in Requests \ {r} : pc'[s] = pc[s]
  BY DEF TypeOK, Claim, LoseDatabase, Goto
<1>2. /\ pc[r] \in Running
      /\ pc'[r] \in {"authenticated", "failed"}
      /\ pc' \in [Requests -> {"idle", "authenticated", "refused", "replayed",
                               "rejected", "failed", "raised"} \cup Running]
  BY DEF TypeOK, Claim, LoseDatabase, Goto, Running
<1>3. CASE UNCHANGED seen
  <2>1. pc'[r] = "failed"
    <3>1. ASSUME Claim(r)
          PROVE  FALSE
      <4>1. Presented(r) \in Assertion /\ Use(Presented(r)) \in ClientIds \X Jtis
        BY <3>1, UseTyped DEF Claim, HandlerState, Running
      <4>2. seen'[Use(Presented(r))] = Presented(r).exp
        BY <3>1, <4>1 DEF Claim, TypeOK, Presented
      <4>3. seen[Use(Presented(r))] = None /\ None \notin Nat
        BY <3>1, NoneAssumption DEF Claim, Presented
      <4> QED
        BY <1>3, <4>1, <4>2, <4>3 DEF Assertion
    <3> QED
      BY <3>1 DEF LoseDatabase, Goto, TypeOK
  <2>2. TypeOK' /\ KeysAreOwned'
    BY <1>1, <1>2, <1>3 DEF TypeOK, KeysAreOwned
  <2>3. HandlerState' /\ SignedByOwner' /\ RowsGuard'
    BY <1>1, <1>3, <2>1
       DEF HandlerState, SignedByOwner, RowsGuard, Judged, Asserts, Presented, Running
  <2>4. ClaimsAreTheClients' /\ ReplayHasWinner'
    BY <1>1, <1>2, <1>3, <2>1
       DEF ClaimsAreTheClients, ReplayHasWinner, Asserts, Presented, Running
  <2> QED
    BY <2>2, <2>3, <2>4
<1>4. CASE ~UNCHANGED seen
  <2>1. /\ pc[r] = "claiming"
        /\ seen[Use(Presented(r))] = None
        /\ seen' = [seen EXCEPT ![Use(Presented(r))] = Presented(r).exp]
    BY <1>4 DEF Claim, LoseDatabase, Presented
  <2>2. Asserts(r) /\ Extracted(form[r])
    BY <2>1 DEF HandlerState, Running
  <2>3. Presented(r) \in Assertion /\ Use(Presented(r)) \in ClientIds \X Jtis
    BY <2>2, UseTyped
  <2>4. Owner[Presented(r).signer] = Presented(r).sub
    BY <2>1, <2>2 DEF SignedByOwner, Judged
  <2>5. TypeOK'
    <3>1. seen' \in [ClientIds \X Jtis -> Nat \cup {None}]
      BY <2>1, <2>3 DEF TypeOK, Assertion
    <3> QED
      BY <1>1, <1>2, <3>1 DEF TypeOK
  <2>6. HandlerState' /\ KeysAreOwned' /\ SignedByOwner'
    BY <1>1, <1>2, <2>2, <2>4
       DEF HandlerState, KeysAreOwned, SignedByOwner, Judged, Asserts, Presented, Running
  <2>7. RowsGuard'
    <3>1. seen'[Use(Presented(r))] = Presented(r).exp
      BY <2>1, <2>3 DEF TypeOK
    <3>2. ASSUME NEW s \in Requests \ {r}, Asserts(s), pc[s] = "authenticated"
          PROVE  seen'[Use(Presented(s))] = Presented(s).exp \/ Presented(s).exp < now + Ahead
      <4>1. Presented(s) \in Assertion /\ Use(Presented(s)) \in ClientIds \X Jtis
        BY <3>2, UseTyped DEF HandlerState
      <4>2. seen[Use(Presented(s))] = Presented(s).exp \/ Presented(s).exp < now + Ahead
        BY <3>2 DEF RowsGuard
      <4>3. Presented(s).exp # None
        BY <4>1, NoneAssumption DEF Assertion
      <4> QED
        BY <2>1, <4>1, <4>2, <4>3 DEF TypeOK
    <3> QED
      BY <1>1, <3>1, <3>2 DEF RowsGuard, Asserts, Presented
  <2>8. ClaimsAreTheClients'
    <3>1. ASSUME NEW u \in ClientIds \X Jtis, seen'[u] # None, u # Use(Presented(r))
          PROVE  \E s \in Requests :
                    /\ Asserts(s) /\ Use(Presented(s)) = u
                    /\ pc'[s] \in {"authenticated", "failed"}
                    /\ Owner[Presented(s).signer] = u[1]
      <4>1. seen[u] # None
        BY <2>1, <3>1 DEF TypeOK
      <4>2. PICK s \in Requests : /\ Asserts(s) /\ Use(Presented(s)) = u
                                  /\ pc[s] \in {"authenticated", "failed"}
                                  /\ Owner[Presented(s).signer] = u[1]
        BY <3>1, <4>1 DEF ClaimsAreTheClients
      <4> QED
        BY <1>1, <1>2, <4>2
    <3>2. Use(Presented(r))[1] = Presented(r).sub
      BY DEF Use
    <3> QED
      BY <1>1, <1>2, <2>2, <2>4, <3>1, <3>2 DEF ClaimsAreTheClients, Asserts, Presented
  <2>9. ReplayHasWinner'
    BY <1>1, <1>2 DEF ReplayHasWinner, Asserts, Presented, Running
  <2> QED
    BY <2>5, <2>6, <2>7, <2>8, <2>9
<1> QED
  BY <1>3, <1>4

\* The operator, the clock and the purge move no handler.
LEMMA WorldStep ==
    ASSUME AuthInv,
           \/ \E c \in ClientIds, registration \in Registration :
                 UpsertClient(c, registration)
           \/ \E k \in Keys, kid \in Kids : AddKey(k, kid)
           \/ Tick
           \/ PurgeExpired
           \/ UNCHANGED vars
    PROVE  AuthInv'
<1> USE ClockAssumption DEF AuthInv
<1>1. UNCHANGED <<pc, form>>
  BY DEF UpsertClient, AddKey, Tick, PurgeExpired, vars
<1>2. now' \in Nat /\ now <= now'
  <2>1. now \in Nat /\ (now' = now \/ now' = now + 1)
    BY DEF UpsertClient, AddKey, Tick, PurgeExpired, vars, TypeOK
  <2> QED
    BY <2>1
<1>3. /\ keys' \in [ClientIds \X Kids -> Keys \cup {None}]
      /\ KeysAreOwned'
  <2>1. CASE \E k \in Keys, kid \in Kids : AddKey(k, kid)
    <3> PICK k \in Keys, kid \in Kids : AddKey(k, kid)
      BY <2>1
    <3>1. Owner[k] \in ClientIds
      BY OwnerAssumption
    <3> QED
      BY <3>1, NoneAssumption DEF AddKey, TypeOK, KeysAreOwned
  <2> QED
    BY <2>1 DEF UpsertClient, Tick, PurgeExpired, vars, tables, TypeOK, KeysAreOwned
<1>4. clients' \in [ClientIds -> Registration \cup {None}]
  BY DEF UpsertClient, AddKey, Tick, PurgeExpired, vars, tables, TypeOK
<1>5. /\ seen' \in [ClientIds \X Jtis -> Nat \cup {None}]
      /\ \A u \in ClientIds \X Jtis :
            seen'[u] = seen[u] \/ (seen[u] < now + Ahead /\ seen'[u] = None)
  <2> HIDE DEF AuthInv
  <2>0. seen \in [ClientIds \X Jtis -> Nat \cup {None}]
    BY DEF AuthInv, TypeOK
  <2>1. CASE PurgeExpired
    <3>1. seen' = [u \in ClientIds \X Jtis |->
                    IF seen[u] # None /\ seen[u] < now + Ahead THEN None ELSE seen[u]]
      BY <2>1 DEF PurgeExpired
    <3>2. \A u \in ClientIds \X Jtis :
            /\ seen'[u] = seen[u] \/ (seen[u] < now + Ahead /\ seen'[u] = None)
            /\ seen[u] \in Nat \cup {None}
      BY <2>0, <3>1
    <3>3. \A u \in ClientIds \X Jtis : seen'[u] \in Nat \cup {None}
      BY <3>2
    <3>4. seen' \in [ClientIds \X Jtis -> Nat \cup {None}]
      BY <3>1, <3>3
    <3> QED
      BY <3>2, <3>4
  <2>2. CASE seen' = seen
    BY <2>0, <2>2
  <2> QED
    BY <2>1, <2>2 DEF UpsertClient, AddKey, Tick, vars, tables
<1>6. TypeOK'
  BY <1>1, <1>2, <1>3, <1>4, <1>5 DEF TypeOK
<1>7. HandlerState' /\ SignedByOwner' /\ ReplayHasWinner'
  BY <1>1 DEF HandlerState, SignedByOwner, ReplayHasWinner, Judged, Asserts, Presented
<1>8. ClaimsAreTheClients'
  BY <1>1, <1>5 DEF ClaimsAreTheClients, Asserts, Presented
<1>9. RowsGuard'
  <2>1. ASSUME NEW r \in Requests, Asserts(r), pc[r] = "authenticated"
        PROVE  seen'[Use(Presented(r))] = Presented(r).exp \/ Presented(r).exp < (now + Ahead)'
    <3>1. Presented(r).exp \in Nat /\ Use(Presented(r)) \in ClientIds \X Jtis
      BY <2>1, UseTyped DEF HandlerState, Assertion
    <3>2. seen[Use(Presented(r))] = Presented(r).exp \/ Presented(r).exp < now + Ahead
      BY <2>1 DEF RowsGuard
    <3> QED
      BY <1>2, <1>5, <3>1, <3>2 DEF TypeOK
  <2> QED
    BY <1>1, <2>1 DEF RowsGuard, Asserts, Presented
<1> QED
  BY <1>3, <1>6, <1>7, <1>8, <1>9

\* Every step preserves the invariant, a purge included.
LEMMA NextAuthInv == AuthInv /\ [PurgeNext]_vars => AuthInv'
<1> SUFFICES ASSUME AuthInv, [PurgeNext]_vars
             PROVE  AuthInv'
  OBVIOUS
<1>1. CASE \E r \in Requests : Handle(r) \/ LoseDatabase(r)
  BY <1>1, JudgeStep, ClaimStep DEF Handle
<1>2. CASE \E r \in Requests, f \in Forms : Receive(r, f)
  BY <1>2, ReceiveStep
<1> QED
  BY <1>1, <1>2, WorldStep DEF PurgeNext, Next

\* Without a purge, a row that was written stays.
LEMMA NextInv == Inv /\ [Next]_vars => Inv'
<1> SUFFICES ASSUME Inv, [Next]_vars
             PROVE  Inv'
  OBVIOUS
<1> USE DEF Inv
<1>1. AuthInv'
  BY NextAuthInv DEF PurgeNext
<1>2. \A u \in ClientIds \X Jtis : seen[u] # None => seen'[u] # None
  <2>1. CASE \E r \in Requests : Claim(r) \/ LoseDatabase(r)
    <3>1. PICK r \in Requests : Claim(r) \/ LoseDatabase(r)
      BY <2>1
    <3>2. CASE UNCHANGED seen
      BY <3>2
    <3>3. CASE seen' = [seen EXCEPT ![Use(Presented(r))] = Presented(r).exp]
               /\ seen[Use(Presented(r))] = None
      BY <3>3 DEF AuthInv, TypeOK
    <3> QED
      BY <3>1, <3>2, <3>3 DEF Claim, LoseDatabase, Presented
  <2> QED
    BY <2>1 DEF Next, Handle, JudgeSecret, FindClient, JudgeAssertion, RaiseOverflow, FindClaimed,
                Receive, UpsertClient, AddKey, Tick, vars, tables
<1>3. CASE \E r \in Requests : Claim(r)
  <2>1. PICK r \in Requests : Claim(r)
    BY <1>3
  <2>2. /\ form' = form
        /\ \A s \in Requests \ {r} : pc'[s] = pc[s]
        /\ seen[Use(Presented(r))] = None
    BY <2>1 DEF Claim, Goto, Presented, AuthInv, TypeOK
  <2>3. Presented(r) \in Assertion /\ Use(Presented(r)) \in ClientIds \X Jtis
    BY <2>1, UseTyped DEF Claim, AuthInv, HandlerState, Running
  <2>4. seen'[Use(Presented(r))] # None
    BY <2>1, <2>3, NoneAssumption DEF Claim, Presented, AuthInv, TypeOK, Assertion
  <2>5. ASSUME NEW s \in Requests \ {r}, Asserts(s), pc[s] = "authenticated"
        PROVE  /\ seen[Use(Presented(s))] # None
               /\ seen'[Use(Presented(s))] # None
    <3>1. Use(Presented(s)) \in ClientIds \X Jtis
      BY <2>5, UseTyped DEF AuthInv, HandlerState
    <3>2. seen[Use(Presented(s))] # None
      BY <2>5 DEF UsesAreSeen
    <3> QED
      BY <1>2, <3>1, <3>2
  <2>6. UsesAreSeen'
    BY <2>2, <2>4, <2>5 DEF UsesAreSeen, Asserts, Presented
  <2>7. SingleUse'
    BY <2>2, <2>5 DEF SingleUse, Asserts, Presented
  <2> QED
    BY <1>1, <2>6, <2>7
<1>4. CASE ~ \E r \in Requests : Claim(r)
  <2>1. ASSUME NEW s \in Requests, Asserts(s)', pc'[s] = "authenticated"
        PROVE  Asserts(s) /\ pc[s] = "authenticated" /\ form'[s] = form[s]
    <3>1. CASE UNCHANGED <<pc, form>>
      BY <2>1, <3>1 DEF Asserts
    <3>2. CASE \E r \in Requests, f \in Forms : Receive(r, f)
      BY <2>1, <3>2 DEF Receive, Goto, AuthInv, TypeOK, Asserts
    <3>3. CASE \E r \in Requests : \/ JudgeSecret(r) \/ FindClient(r)
                                   \/ JudgeAssertion(r) \/ RaiseOverflow(r)
                                   \/ FindClaimed(r) \/ LoseDatabase(r)
      BY <2>1, <3>3 DEF JudgeSecret, FindClient, JudgeAssertion, RaiseOverflow, FindClaimed,
                        LoseDatabase, Goto, AuthInv, TypeOK, Asserts
    <3> QED
      BY <1>4, <3>1, <3>2, <3>3 DEF Next, Handle, UpsertClient, AddKey, Tick, vars
  <2>2. UsesAreSeen'
    <3>1. ASSUME NEW s \in Requests, Asserts(s)', pc'[s] = "authenticated"
          PROVE  seen'[Use(Presented(s))]  # None /\ Presented(s)' = Presented(s)
      <4>1. Asserts(s) /\ pc[s] = "authenticated" /\ Presented(s)' = Presented(s)
        BY <2>1, <3>1 DEF Presented
      <4>2. Use(Presented(s)) \in ClientIds \X Jtis
        BY <4>1, UseTyped DEF AuthInv, HandlerState
      <4> QED
        BY <1>2, <4>1, <4>2 DEF UsesAreSeen
    <3> QED
      BY <3>1 DEF UsesAreSeen
  <2>3. SingleUse'
    BY <2>1 DEF SingleUse, Presented
  <2> QED
    BY <1>1, <2>2, <2>3
<1> QED
  BY <1>3, <1>4

-----------------------------------------------------------------------------

\* The invariant that holds with expired rows purged at any time.
THEOREM PurgeInvariance == PurgeSpec => []AuthInv
<1>1. Init => AuthInv
  BY InitInv DEF Inv
<1> QED
  BY <1>1, NextAuthInv, PTL DEF PurgeSpec

\* Whoever is authenticated by an assertion holds a key of the client it
\* names (repositories.py:160-172), however keys are named and replaced.
THEOREM AuthenticatedByOwnKey == PurgeSpec => []SignedByOwner
<1>1. AuthInv => SignedByOwner
  BY DEF AuthInv
<1> QED
  BY <1>1, PurgeInvariance, PTL

\* A request refused for a replay lost to one that had the jti
\* (repositories.py:198-212).
THEOREM NoUseIsLost == PurgeSpec => []ReplayHasWinner
<1>1. AuthInv => ReplayHasWinner
  BY DEF AuthInv
<1> QED
  BY <1>1, PurgeInvariance, PTL

\* An assertion that still passes for unexpired finds the row of its first
\* use (repositories.py:214-218).
THEOREM PurgeKeepsGuards == PurgeSpec => RowOutlivesAssertion
<1>1. AuthInv /\ [PurgeNext]_vars =>
        [\A r, s \in Requests :
            /\ Asserts(r) /\ pc[r] = "judging" /\ pc'[r] = "claiming"
            /\ Asserts(s) /\ pc[s] = "authenticated" /\ Presented(s) = Presented(r)
            /\ Ahead <= 0 \/ now + Ahead <= Presented(r).exp
            => seen[Use(Presented(r))] # None]_vars
  <2> SUFFICES ASSUME AuthInv, [PurgeNext]_vars,
                      NEW r \in Requests, NEW s \in Requests,
                      Asserts(r), pc[r] = "judging", pc'[r] = "claiming",
                      Asserts(s), pc[s] = "authenticated",
                      Presented(s) = Presented(r),
                      Ahead <= 0 \/ now + Ahead <= Presented(r).exp
               PROVE  seen[Use(Presented(r))] # None
    OBVIOUS
  <2> USE DEF AuthInv
  <2>1. JudgeAssertion(r)
    BY DEF PurgeNext, Next, Handle, Receive, JudgeSecret, FindClient,
           JudgeAssertion, RaiseOverflow, Claim, FindClaimed, LoseDatabase,
           UpsertClient, AddKey, Tick, PurgeExpired, vars, Goto, TypeOK
  <2>2. Presented(r).exp > now
    BY <2>1 DEF JudgeAssertion, Unexpired, Goto, TypeOK, Presented
  <2>3. Presented(r) \in Assertion
    BY UseTyped DEF HandlerState, Running
  <2>4. now + Ahead <= Presented(r).exp
    BY <2>2, <2>3, ClockAssumption DEF TypeOK, Assertion
  <2>5. seen[Use(Presented(s))] = Presented(s).exp
    BY <2>3, <2>4, ClockAssumption DEF RowsGuard, TypeOK, Assertion
  <2> QED
    BY <2>3, <2>5, NoneAssumption DEF Assertion
<1> QED
  BY <1>1, PurgeInvariance, PTL DEF PurgeSpec, RowOutlivesAssertion

\* Whoever comes to be authenticated by an assertion has just claimed it.
LEMMA OnlyAClaimAuthenticates ==
    ASSUME AuthInv, [PurgeNext]_vars, NEW r \in Requests,
           Asserts(r)', pc'[r] = "authenticated",
           ~(Asserts(r) /\ pc[r] = "authenticated")
    PROVE  Claim(r)
<1> USE DEF AuthInv
<1>1. ASSUME NEW q \in Requests, Handle(q) \/ LoseDatabase(q)
      PROVE  Claim(r)
  <2>1. form' = form /\ q = r
    BY <1>1 DEF Handle, JudgeSecret, FindClient, JudgeAssertion, RaiseOverflow,
                Claim, FindClaimed, LoseDatabase, Goto, TypeOK, Asserts
  <2>2. Asserts(r)
    BY <2>1 DEF Asserts
  <2> QED
    BY <1>1, <2>1, <2>2
       DEF Handle, JudgeSecret, FindClient, JudgeAssertion, RaiseOverflow,
           FindClaimed, LoseDatabase, Goto, TypeOK, Asserts
<1>2. ASSUME NEW q \in Requests, NEW f \in Forms, Receive(q, f)
      PROVE  FALSE
  BY <1>2 DEF Receive, Goto, TypeOK, Asserts
<1>3. CASE UNCHANGED <<pc, form>>
  BY <1>3 DEF Asserts
<1> QED
  BY <1>1, <1>2, <1>3
     DEF PurgeNext, Next, UpsertClient, AddKey, Tick, PurgeExpired, vars

\* A claim by an assertion that another request got in by finds its row gone,
\* and a row goes only after its assertion has expired.
LEMMA SecondClaimIsLate ==
    ASSUME AuthInv, NEW r \in Requests, NEW s \in Requests, Claim(r),
           Asserts(s), pc[s] = "authenticated", Presented(s) = Presented(r)
    PROVE  Presented(r).exp < now + Ahead
<1>1. seen[Use(Presented(s))] = None
  BY DEF Claim, Presented
<1>2. Presented(s).exp # None
  BY UseTyped, NoneAssumption DEF AuthInv, HandlerState, Assertion
<1> QED
  BY <1>1, <1>2 DEF AuthInv, RowsGuard

\* With expired rows purged, an assertion is accepted twice only by a handler
\* that claims it after it has expired (repositories.py:214-218).
THEOREM ReplaysAreLate == PurgeSpec => ReplayTakesAWait
<1>1. AuthInv /\ [PurgeNext]_vars =>
        [\A r, s \in Requests :
            /\ Asserts(r) /\ pc[r] = "claiming" /\ pc'[r] = "authenticated"
            /\ Asserts(s) /\ pc[s] = "authenticated" /\ Presented(s) = Presented(r)
            => Presented(r).exp < now + Ahead]_vars
  <2> SUFFICES ASSUME AuthInv, [PurgeNext]_vars,
                      NEW r \in Requests, NEW s \in Requests,
                      Asserts(r), pc[r] = "claiming", pc'[r] = "authenticated",
                      Asserts(s), pc[s] = "authenticated",
                      Presented(s) = Presented(r)
               PROVE  Presented(r).exp < now + Ahead
    OBVIOUS
  <2>1. Asserts(r)'
    BY DEF PurgeNext, Next, Handle, Receive, JudgeSecret, FindClient,
           JudgeAssertion, RaiseOverflow, Claim, FindClaimed, LoseDatabase,
           UpsertClient, AddKey, Tick, PurgeExpired, vars, Goto, AuthInv,
           TypeOK, Asserts
  <2> QED
    BY <2>1, OnlyAClaimAuthenticates, SecondClaimIsLate
<1> QED
  BY <1>1, PurgeInvariance, PTL DEF PurgeSpec, ReplayTakesAWait

\* So purging is safe as long as no handler waits for its claim until its
\* assertion has expired by the database's clock: each assertion is accepted
\* once (private_key_jwt.py:154-160).
THEOREM PromptClaimsAreSingle == PurgeSpec /\ []PromptClaims => []AssertionOnce
<1>1. Init => AssertionOnce
  BY DEF Init, AssertionOnce
<1>2. AuthInv /\ PromptClaims /\ AssertionOnce /\ [PurgeNext]_vars
        => AssertionOnce'
  <2> SUFFICES ASSUME AuthInv, PromptClaims, AssertionOnce, [PurgeNext]_vars
               PROVE  AssertionOnce'
    OBVIOUS
  <2> DEFINE In(r) == Asserts(r) /\ pc[r] = "authenticated"
  <2>1. \A r \in Requests : In(r)' /\ ~In(r) => Claim(r)
    BY OnlyAClaimAuthenticates
  <2>2. \A r \in Requests : In(r) => Presented(r)' = Presented(r)
    BY DEF PurgeNext, Next, Handle, Receive, JudgeSecret, FindClient,
           JudgeAssertion, RaiseOverflow, Claim, FindClaimed, LoseDatabase,
           UpsertClient, AddKey, Tick, PurgeExpired, vars, Goto, AuthInv,
           TypeOK, Presented
  <2>3. ASSUME NEW r \in Requests, NEW s \in Requests, Claim(r), In(s)
        PROVE  Presented(s) # Presented(r)
    <3>1. SUFFICES ASSUME Presented(s) = Presented(r) PROVE FALSE
      OBVIOUS
    <3>2. Presented(r).exp < now + Ahead /\ now + Ahead <= Presented(r).exp
      BY <2>3, <3>1, SecondClaimIsLate DEF Claim, PromptClaims
    <3>3. Presented(r).exp \in Nat
      BY <2>3, UseTyped DEF Claim, AuthInv, HandlerState, Running, Assertion
    <3> QED
      BY <3>2, <3>3, ClockAssumption DEF AuthInv, TypeOK
  <2>4. ASSUME NEW r \in Requests, Claim(r)
        PROVE  /\ Presented(r)' = Presented(r)
               /\ \A s \in Requests \ {r} : In(s)' => In(s)
    <3>1. form' = form /\ \A s \in Requests \ {r} : pc'[s] = pc[s]
      BY <2>4 DEF Claim, Goto, AuthInv, TypeOK
    <3> QED
      BY <3>1 DEF Presented, Asserts
  <2>5. ASSUME NEW r \in Requests, NEW s \in Requests, In(r)', In(s)', r # s,
               Presented(r)' = Presented(s)'
        PROVE  FALSE
    <3>1. CASE In(r) /\ In(s)
      BY <2>2, <2>5, <3>1 DEF AssertionOnce
    <3>2. CASE ~In(r)
      <4>1. Claim(r) /\ In(s)
        BY <2>1, <2>4, <2>5, <3>2
      <4> QED
        BY <2>2, <2>3, <2>4, <2>5, <4>1
    <3>3. CASE ~In(s)
      <4>1. Claim(s) /\ In(r)
        BY <2>1, <2>4, <2>5, <3>3
      <4> QED
        BY <2>2, <2>3, <2>4, <2>5, <4>1
    <3> QED
      BY <3>1, <3>2, <3>3
  <2> QED
    BY <2>5 DEF AssertionOnce
<1> QED
  BY <1>1, <1>2, PurgeInvariance, PTL DEF PurgeSpec

\* The invariant of the server as it is deployed, that purges nothing.
THEOREM Invariance == Spec => []Inv
<1> QED
  BY InitInv, NextInv, PTL DEF Spec

\* A jti authenticates one request, however many servers it is sent to
\* (private_key_jwt.py:154-160).
THEOREM AssertionIsSingleUse == Spec => []SingleUse
<1>1. Inv => SingleUse
  BY DEF Inv
<1> QED
  BY <1>1, Invariance, PTL

\* Nobody but the client uses up its jtis (private_key_jwt.py:135).
THEOREM OnlyTheClientClaims == PurgeSpec => []ClaimsAreTheClients
<1>1. AuthInv => ClaimsAreTheClients
  BY DEF AuthInv
<1> QED
  BY <1>1, PurgeInvariance, PTL

-----------------------------------------------------------------------------
(* Client authentication implements the register of single uses *)

\* What the register knows of the handlers, once and for all.
SpentUses == {u \in ClientIds \X Jtis : seen[u] # None}

AcceptedBy ==
    [r \in Requests |->
       IF Asserts(r) /\ pc[r] = "authenticated" THEN Use(Presented(r)) ELSE None]

\* A row that is written spends its use, and no other.
LEMMA RowSpends ==
    ASSUME Inv, NEW r \in Requests, pc[r] = "claiming",
           seen[Use(Presented(r))] = None,
           seen' = [seen EXCEPT ![Use(Presented(r))] = Presented(r).exp]
    PROVE  /\ Use(Presented(r)) \in (ClientIds \X Jtis) \ SpentUses
           /\ SpentUses' = SpentUses \cup {Use(Presented(r))}
<1>1. /\ Use(Presented(r)) \in ClientIds \X Jtis
      /\ Presented(r).exp \in Nat
  BY UseTyped DEF Inv, AuthInv, HandlerState, Running, Assertion
<1>2. seen'[Use(Presented(r))] # None
  BY <1>1, NoneAssumption DEF Inv, AuthInv, TypeOK
<1>3. \A u \in ClientIds \X Jtis :
        u # Use(Presented(r)) => seen'[u] = seen[u]
  BY <1>1 DEF Inv, AuthInv, TypeOK
<1> QED
  BY <1>1, <1>2, <1>3 DEF SpentUses

\* A claim that takes its row is an acceptance.
LEMMA ClaimAccepts ==
    ASSUME Inv, NEW r \in Requests, Claim(r)
    PROVE  /\ Use(Presented(r)) \in (ClientIds \X Jtis) \ SpentUses
           /\ AcceptedBy[r] = None
           /\ SpentUses' = SpentUses \cup {Use(Presented(r))}
           /\ AcceptedBy' = [AcceptedBy EXCEPT ![r] = Use(Presented(r))]
<1>1. /\ pc[r] = "claiming" /\ seen[Use(Presented(r))] = None
      /\ seen' = [seen EXCEPT ![Use(Presented(r))] = Presented(r).exp]
      /\ form' = form /\ pc'[r] = "authenticated"
      /\ \A q \in Requests \ {r} : pc'[q] = pc[q]
  BY DEF Claim, Goto, Presented, Inv, AuthInv, TypeOK
<1>2. AcceptedBy[r] = None /\ Asserts(r)
  BY <1>1 DEF AcceptedBy, Inv, AuthInv, HandlerState
<1>3. AcceptedBy'
        = [q \in Requests |-> IF q = r THEN Use(Presented(r)) ELSE AcceptedBy[q]]
  BY <1>1, <1>2 DEF AcceptedBy, Asserts, Presented
<1> QED
  BY <1>1, <1>2, <1>3, RowSpends DEF AcceptedBy

\* Every other step leaves who was accepted as it is.
LEMMA OthersAcceptNobody ==
    ASSUME Inv, [Next]_vars, ~ \E r \in Requests : Claim(r)
    PROVE  AcceptedBy' = AcceptedBy
<1>1. ASSUME NEW r \in Requests, Asserts(r), pc[r] = "authenticated"
      PROVE  /\ Asserts(r)' /\ pc'[r] = "authenticated"
             /\ Presented(r)' = Presented(r)
  BY <1>1 DEF Next, Handle, Receive, JudgeSecret, FindClient, JudgeAssertion,
              RaiseOverflow, Claim, FindClaimed, LoseDatabase, UpsertClient,
              AddKey, Tick, vars, Goto, Inv, AuthInv, TypeOK, Asserts,
              Presented, Running
<1>2. \A r \in Requests :
        Asserts(r)' /\ pc'[r] = "authenticated"
            => Asserts(r) /\ pc[r] = "authenticated"
  BY OnlyAClaimAuthenticates DEF Inv, PurgeNext
<1>3. \A r \in Requests :
        (IF Asserts(r)' /\ pc'[r] = "authenticated"
         THEN Use(Presented(r)') ELSE None) = AcceptedBy[r]
  BY <1>1, <1>2 DEF AcceptedBy
<1> QED
  BY <1>3 DEF AcceptedBy, Use

\* The server as it is deployed keeps the register: a use that is spent stays
\* spent, whoever spent it, and no request is accepted by it any more
\* (repositories.py:198-212).
THEOREM ImplementsRegister == Spec => RegisterSpec
<1>1. Init => Register!Init
  BY DEF Init, Register!Init, Asserts
<1>2. Inv /\ [Next]_vars => [Register!Next]_(Register!registerVars)
  <2> SUFFICES ASSUME Inv, [Next]_vars
               PROVE  Register!Next \/ UNCHANGED <<SpentUses, AcceptedBy>>
    BY DEF Register!registerVars, SpentUses, AcceptedBy
  <2>1. CASE \E r \in Requests : Claim(r)
    <3>1. PICK r \in Requests : Claim(r)
      BY <2>1
    <3>2. PICK u \in ClientIds \X Jtis : u = Use(Presented(r))
      BY <3>1, ClaimAccepts
    <3>3. Register!Accept(r, u)
      BY <3>1, <3>2, ClaimAccepts DEF Register!Accept, SpentUses, AcceptedBy
    <3> QED
      BY <3>3 DEF Register!Next
  <2>2. CASE ~ \E r \in Requests : Claim(r)
    <3>1. AcceptedBy' = AcceptedBy
      BY <2>2, OthersAcceptNobody
    <3>2. CASE UNCHANGED seen
      BY <3>1, <3>2 DEF SpentUses
    <3>3. CASE ~UNCHANGED seen
      <4>1. PICK r \in Requests : LoseDatabase(r)
        BY <2>2, <3>3
           DEF Next, Handle, Receive, JudgeSecret, FindClient, JudgeAssertion,
               RaiseOverflow, FindClaimed, UpsertClient, AddKey, Tick, vars,
               tables
      <4>2. /\ pc[r] = "claiming" /\ seen[Use(Presented(r))] = None
            /\ seen' = [seen EXCEPT ![Use(Presented(r))] = Presented(r).exp]
        BY <3>3, <4>1 DEF LoseDatabase, Presented
      <4>3. PICK u \in ClientIds \X Jtis : u = Use(Presented(r))
        BY <4>2, RowSpends
      <4>4. Register!Waste(u)
        BY <3>1, <4>2, <4>3, RowSpends DEF Register!Waste, SpentUses, AcceptedBy
      <4> QED
        BY <4>4 DEF Register!Next
    <3> QED
      BY <3>2, <3>3
  <2> QED
    BY <2>1, <2>2
<1> QED
  BY <1>1, <1>2, Invariance, PTL DEF Spec, RegisterSpec, Register!Spec

=============================================================================
