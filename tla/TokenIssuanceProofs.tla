------------------------ MODULE TokenIssuanceProofs -------------------------
(***************************************************************************)
(* Theorems about the token endpoint, for every set of clients, requests   *)
(* and registrations, every lifetime, every depth cap and every clock.     *)
(***************************************************************************)
EXTENDS TokenIssuanceProperties, TLAPS

-----------------------------------------------------------------------------
(* Lemmas about the operators *)

\* A time in whole seconds is a natural number.
LEMMA WholeSeconds ==
    ASSUME NEW n \in Nat
    PROVE  n \div TicksPerSecond \in Nat
  BY SettingsAssumption

\* Encoding keeps every claim but the two times, which it rounds down to a
\* second that has begun.
LEMMA EncodedClaims ==
    ASSUME NEW t \in Claims
    PROVE  /\ Encoded(t) \in Claims
           /\ Encoded(t).jti = t.jti /\ Encoded(t).client_id = t.client_id
           /\ Encoded(t).sub = t.sub /\ Encoded(t).aud = t.aud
           /\ Encoded(t).scope = t.scope /\ Encoded(t).act = t.act
           /\ Encoded(t).delegation_depth = t.delegation_depth
           /\ Encoded(t).task = t.task /\ Encoded(t).tenant = t.tenant
           /\ Encoded(t).may_act = t.may_act
           /\ Encoded(t).iat = t.iat \div TicksPerSecond
           /\ Encoded(t).exp = t.exp \div TicksPerSecond
  <1>1. /\ t.iat \div TicksPerSecond \in Nat
        /\ t.exp \div TicksPerSecond \in Nat
    <2>1. t.iat \in Nat /\ t.exp \in Nat
      BY DEF Claims
    <2>. QED
      BY <2>1, WholeSeconds
  <1>. QED
    BY <1>1 DEF Encoded, Claims

\* A whole second does not end after the time it was rounded down from.
LEMMA RoundsDown ==
    ASSUME NEW n \in Nat
    PROVE  (n \div TicksPerSecond) * TicksPerSecond <= n
  BY SettingsAssumption

\* What expires by a whole second still does once it is rounded down.
LEMMA RoundsWithin ==
    ASSUME NEW n \in Nat, NEW s \in Nat, n <= s * TicksPerSecond
    PROVE  n \div TicksPerSecond <= s
  <1>1. n \div TicksPerSecond \in Nat
    BY WholeSeconds
  <1>2. SUFFICES ASSUME n \div TicksPerSecond >= s + 1 PROVE FALSE
    BY <1>1
  <1>. DEFINE q == n \div TicksPerSecond
  <1>3. q * TicksPerSecond >= (s + 1) * TicksPerSecond
    <2>. HIDE DEF q
    <2>. QED BY <1>1, <1>2, SettingsAssumption DEF q
  <1>. QED
    BY <1>3, RoundsDown, SettingsAssumption

\* A root token is given at least one second.
LEMMA RootExpiryBounds ==
    ASSUME now \in Nat
    PROVE  RootExpiry \in Nat /\ RootExpiry >= now + TicksPerSecond
  <1>1. TTL * TicksPerSecond \in Nat /\ TTL * TicksPerSecond >= TicksPerSecond
    BY SettingsAssumption
  <1>. QED
    BY <1>1, SettingsAssumption DEF RootExpiry

\* A derived token expires when the token it is derived from does, or earlier.
LEMMA DerivedExpiryBounds ==
    ASSUME now \in Nat, NEW s, s.exp \in Nat
    PROVE  /\ DerivedExpiry(s) \in Nat
           /\ DerivedExpiry(s) <= s.exp * TicksPerSecond
  <1>1. s.exp * TicksPerSecond \in Nat
    BY SettingsAssumption
  <1>. QED
    BY <1>1, RootExpiryBounds DEF DerivedExpiry

\* One more holder on a chain does not change whom it rests on.
LEMMA RootOfDerived ==
    ASSUME NEW p \in Claims, NEW c \in Claims, c.act = Chain(p)
    PROVE  Root(c) = Root(p) /\ Len(c.act) = Len(p.act) + 1
  <1>1. /\ p.sub \in Subjects /\ p.act \in Seq(Subjects)
        /\ c.sub \in Subjects
    BY DEF Claims
  <1>2. /\ Chain(p) \in Seq(Subjects) /\ Len(Chain(p)) = Len(p.act) + 1
    BY <1>1 DEF Chain
  <1>3. /\ Len(Chain(c)) = Len(Chain(p)) + 1
        /\ \A i \in 1..Len(Chain(p)) : Chain(c)[i + 1] = Chain(p)[i]
    <2>. DEFINE s == Chain(p)
    <2>1. s \in Seq(Subjects) /\ Chain(c) = <<c.sub>> \o s
      BY <1>2 DEF Chain
    <2>. HIDE DEF s
    <2>2. /\ Len(<<c.sub>> \o s) = Len(s) + 1
          /\ \A i \in 1..Len(s) : (<<c.sub>> \o s)[i + 1] = s[i]
      BY <1>1, <2>1
    <2>. QED
      BY <2>1, <2>2 DEF s
  <1>4. Len(p.act) \in Nat
    BY <1>1
  <1>. QED
    BY <1>2, <1>3, <1>4 DEF Root

\* A token nobody delegated rests on its own subject.
LEMMA RootOfRoot ==
    ASSUME NEW t \in Claims, t.act = <<>>
    PROVE  Root(t) = t.sub /\ Depth(t) = 0
  BY DEF Root, Chain, Depth

\* A chain is its holder and then its act claim.
LEMMA DepthIsLength ==
    ASSUME NEW t \in Claims
    PROVE  Depth(t) = Len(t.act) /\ Len(t.act) \in Nat
  <1>1. t.sub \in Subjects /\ t.act \in Seq(Subjects)
    BY DEF Claims
  <1>. QED
    BY <1>1 DEF Depth, Chain

-----------------------------------------------------------------------------
(* Type correctness *)

LEMMA RootTokenType ==
    ASSUME TypeOK, NEW r \in Requests, form[r] # None, client[r] # None
    PROVE  RootToken(r) \in Claims
  <1>1. form[r] \in Form /\ client[r] \in Registration
    BY DEF TypeOK
  <1>2. RootExpiry \in Nat /\ now \in Nat
    BY RootExpiryBounds DEF TypeOK
  <1>3. Attenuate(form[r].scope, {client[r].allowed_scopes})
          \in SUBSET ScopeNames
    BY <1>1 DEF Form, Attenuate, WithinEvery
  <1>4. /\ <<>> \in Seq(Subjects) /\ 0 \in 0..MaxDepth
        /\ DefaultAudience \in Audiences
    BY SettingsAssumption
  <1>. QED
    BY <1>1, <1>2, <1>3, <1>4 DEF RootToken, Claims, Form, Registration

LEMMA DerivedTokenType ==
    ASSUME TypeOK, NEW r \in Requests, form[r] # None, actor[r] # None,
           form[r].audience # None,
           SubjectClaims(r) \in Claims, ActorClaims(r) \in Claims,
           SubjectClaims(r).delegation_depth + 1 <= MaxDepth
    PROVE  DerivedToken(r) \in Claims
  <1>. DEFINE s == SubjectClaims(r)
              a == ActorClaims(r)
  <1>1. form[r] \in Form /\ actor[r] \in Registration
    BY DEF TypeOK
  <1>2. now \in Nat /\ DerivedExpiry(s) \in Nat
    BY DerivedExpiryBounds DEF TypeOK, Claims
  <1>3. RequestedScopes(r) \in SUBSET ScopeNames
    BY <1>1 DEF Form, Claims, RequestedScopes
  <1>4. Attenuate(RequestedScopes(r), Ceilings(r)) \in SUBSET ScopeNames
    BY <1>3 DEF Attenuate, WithinEvery
  <1>5. s \in Claims /\ a \in Claims /\ s.delegation_depth + 1 <= MaxDepth
    OBVIOUS
  <1>. HIDE DEF s, a
  <1>6. Nest(s) \in Seq(Subjects)
    <2>1. s.sub \in Subjects /\ s.act \in Seq(Subjects)
      BY <1>5 DEF Claims
    <2>. QED
      BY <2>1 DEF Nest
  <1>7. s.delegation_depth + 1 \in 0..MaxDepth
    <2>1. s.delegation_depth \in 0..MaxDepth /\ MaxDepth \in Nat
      BY <1>5, SettingsAssumption DEF Claims
    <2>. DEFINE d == s.delegation_depth
    <2>2. d \in 0..MaxDepth /\ d + 1 <= MaxDepth
      BY <1>5, <2>1
    <2>. HIDE DEF d
    <2>3. d + 1 \in 0..MaxDepth
      BY <2>1, <2>2
    <2>. QED
      BY <2>3 DEF d
  <1>8. AgreedTenant(s, actor[r]) \in Tenants
    BY <1>1, <1>5 DEF Claims, AgreedTenant, Registration
  <1>9. /\ s.task \in Requests /\ a.sub \in Subjects
        /\ form[r].audience \in Audiences /\ form[r].client_id \in ClientIds
    BY <1>1, <1>5 DEF Claims, Form
  <1>. QED
    BY <1>2, <1>4, <1>6, <1>7, <1>8, <1>9
       DEF DerivedToken, Holder, Claims, s, a

\* What the verified claims of a signed token are typed as.
LEMMA JwtType ==
    ASSUME TypeOK, NEW j \in Requests, minted[j] # None
    PROVE  minted[j] \in Claims /\ Jwt(j) \in Claims
  BY EncodedClaims DEF TypeOK, Jwt

\* What an exchange past verification may rely on.
LEMMA PresentedTokens ==
    ASSUME Inv, NEW r \in Requests, pc[r] \in {"verified", "resolved"}
    PROVE  /\ form[r] \in Form /\ form[r].audience # None
           /\ form[r].subject_token \in Issued /\ form[r].actor_token \in Issued
           /\ SubjectClaims(r) \in Claims /\ ActorClaims(r) \in Claims
  <1>1. form[r] \in Form /\ form[r].audience # None
    BY DEF Inv, TypeOK, HandlerState, Running
  <1>2. form[r].subject_token \in Issued /\ form[r].actor_token \in Issued
    BY DEF Inv, HandlerState, Running
  <1>3. /\ minted[form[r].subject_token] # None
        /\ minted[form[r].actor_token] # None
    BY <1>2 DEF Inv, HandlerProgress, Issued, Signed
  <1>. QED
    BY <1>1, <1>2, <1>3, JwtType
       DEF Inv, Issued, SubjectClaims, ActorClaims

-----------------------------------------------------------------------------
(* The invariant: one lemma per effect a step can have *)

\* What depends on the signed tokens and the rows alone.
Ledgered ==
    /\ \A r \in Signed : WellFormed(r)
    /\ \A r \in Recorded : Describes(rows[r], Jwt(r))
    /\ AuthorityFromRoot
    /\ AncestryRecorded

\* A step that neither signs nor records, and takes no answer back, keeps it.
LEMMA LedgerKept ==
    ASSUME Inv, minted' = minted, rows' = rows,
           \A r \in Requests : pc[r] = "issued" => pc'[r] = "issued"
    PROVE  Ledgered'
  <1>1. /\ Signed' = Signed /\ Recorded' = Recorded /\ Issued \subseteq Issued'
        /\ \A r \in Requests : Jwt(r)' = Jwt(r)
    BY DEF Signed, Recorded, Issued, Jwt
  <1>2. (\A r \in Signed : WellFormed(r))'
    BY <1>1 DEF Inv, WellFormed
  <1>3. (\A r \in Recorded : Describes(rows[r], Jwt(r)))'
    BY <1>1 DEF Inv, Recorded
  <1>4. AuthorityFromRoot'
    BY <1>1 DEF Inv, AuthorityFromRoot, Signed
  <1>5. AncestryRecorded'
    BY <1>1 DEF Inv, AncestryRecorded, Recorded, Issued
  <1>. QED
    BY <1>2, <1>3, <1>4, <1>5 DEF Ledgered

\* A handler ends: it was refused before it signed, it aborted, or it answers
\* with the token it has recorded.
LEMMA AnswerStep ==
    ASSUME Inv, NEW r \in Requests, NEW how \in Answered, Answer(r, how),
           pc[r] \in Running,
           how \in {"refused", "elapsed"} => pc[r] \in Unsigned,
           how = "issued" => pc[r] = "recorded"
    PROVE  Inv'
  <1>1. TypeOK'
    BY DEF Inv, TypeOK, Answer
  <1>2. /\ pc'[r] = how
        /\ \A q \in Requests \ {r} : pc'[q] = pc[q]
        /\ Signed' = Signed /\ Recorded' = Recorded
    BY DEF Inv, TypeOK, Answer, Signed, Recorded
  <1>3. \A q \in Requests : pc[q] = "issued" => pc'[q] = "issued"
    BY <1>2 DEF Running
  <1>4. HandlerProgress'
    BY <1>2 DEF Inv, HandlerProgress, Answered, Unsigned, Running
  <1>5. HandlerState'
    <2>1. Issued \subseteq Issued'
      BY <1>3 DEF Issued
    <2>. QED
      BY <1>2, <2>1 DEF Inv, TypeOK, HandlerState, Answer, Answered, Running
  <1>6. (\A q \in Requests : pc[q] = "signed" => SignedFor(q))'
    <2>. SUFFICES ASSUME NEW q \in Requests, pc'[q] = "signed"
                  PROVE  SignedFor(q)'
      OBVIOUS
    <2>1. q # r /\ pc[q] = "signed"
      BY <1>2 DEF Answered
    <2>2. form'[q] = form[q] /\ minted' = minted
      BY <2>1 DEF Inv, TypeOK, Answer
    <2>. QED
      BY <2>1, <2>2 DEF Inv, SignedFor, SubjectClaims, Jwt
  <1>7. Ledgered'
    BY <1>3, LedgerKept DEF Answer
  <1>. QED
    BY <1>1, <1>4, <1>5, <1>6, <1>7 DEF Inv, Ledgered

\* A request is received, or an exchange moves on towards its signature.
LEMMA WaitStep ==
    ASSUME Inv, NEW r \in Requests, NEW f \in Form \cup {None},
           NEW c \in Registration \cup {None},
           NEW a \in Registration \cup {None},
           NEW next \in {"authenticating", "verified", "resolved"},
           pc[r] \in Unsigned, pc[r] # "refused", pc[r] # "elapsed",
           pc' = [pc EXCEPT ![r] = next],
           form' = [form EXCEPT ![r] = f],
           client' = [client EXCEPT ![r] = c],
           actor' = [actor EXCEPT ![r] = a],
           UNCHANGED <<clients, rows, now, minted>>,
           f # None,
           {f.subject_token, f.actor_token} \subseteq Issued \cup {None},
           next # "authenticating" =>
               /\ c # None /\ f.grant_type = "token_exchange"
               /\ f.subject_token # None /\ f.actor_token # None
               /\ f.audience # None
    PROVE  Inv'
  <1>1. TypeOK'
    BY DEF Inv, TypeOK, Running
  <1>2. /\ pc'[r] = next /\ form'[r] = f /\ client'[r] = c
        /\ \A q \in Requests \ {r} :
              pc'[q] = pc[q] /\ form'[q] = form[q] /\ client'[q] = client[q]
        /\ Signed' = Signed /\ Recorded' = Recorded
    BY DEF Inv, TypeOK, Signed, Recorded
  <1>3. \A q \in Requests : pc[q] = "issued" => pc'[q] = "issued"
    BY <1>2 DEF Unsigned
  <1>4. HandlerProgress'
    BY <1>2 DEF Inv, HandlerProgress, Unsigned
  <1>5. HandlerState'
    <2>1. Issued \subseteq Issued'
      BY <1>3 DEF Issued
    <2>. QED
      BY <1>2, <2>1 DEF Inv, HandlerState, Running
  <1>6. (\A q \in Requests : pc[q] = "signed" => SignedFor(q))'
    <2>. SUFFICES ASSUME NEW q \in Requests, pc'[q] = "signed"
                  PROVE  SignedFor(q)'
      OBVIOUS
    <2>1. q # r /\ pc[q] = "signed"
      BY <1>2
    <2>. QED
      BY <1>2, <2>1 DEF Inv, SignedFor, SubjectClaims, Jwt
  <1>7. Ledgered'
    BY <1>3, LedgerKept
  <1>. QED
    BY <1>1, <1>4, <1>5, <1>6, <1>7 DEF Inv, Ledgered

\* The operator and the clock touch no handler, no token and no row.
LEMMA OtherStep ==
    ASSUME Inv, TypeOK', UNCHANGED <<rows, pc, form, client, actor, minted>>
    PROVE  Inv'
  <1>1. Signed' = Signed /\ Recorded' = Recorded /\ Issued' = Issued
    BY DEF Signed, Recorded, Issued
  <1>2. HandlerProgress' /\ HandlerState'
    BY <1>1 DEF Inv, HandlerProgress, HandlerState
  <1>3. (\A q \in Requests : pc[q] = "signed" => SignedFor(q))'
    BY DEF Inv, SignedFor, SubjectClaims, Jwt
  <1>4. Ledgered'
    BY LedgerKept
  <1>. QED
    BY <1>2, <1>3, <1>4 DEF Inv, Ledgered

\* A handler signs a root, or a token one hop below one that was issued.
LEMMA SignStep ==
    ASSUME Inv, NEW r \in Requests, NEW t \in Claims, Sign(r, t),
           pc[r] \in {"authenticating", "resolved"},
           t.jti = r, t.client_id = form[r].client_id,
           t.delegation_depth = Len(t.act),
           t.act = <<>> => t.task = r,
           form[r].grant_type = "client_credentials" => t.act = <<>>,
           form[r].grant_type = "token_exchange" =>
               form[r].subject_token \in Issued
                   /\ Derives(SubjectClaims(r), Encoded(t)),
           client[r] # None
    PROVE  Inv'
  <1>1. TypeOK'
    BY DEF Inv, TypeOK, Sign, Running
  <1>2. /\ pc'[r] = "signed" /\ minted'[r] = t /\ minted[r] = None
        /\ \A q \in Requests \ {r} : pc'[q] = pc[q] /\ minted'[q] = minted[q]
        /\ r \notin Recorded
    BY DEF Inv, TypeOK, Sign, HandlerProgress, Unsigned, Signed
  <1>3. t # None
    BY NoneAssumption
  <1>4. /\ Signed' = Signed \cup {r} /\ Recorded' = Recorded
        /\ Issued' = Issued /\ r \notin Signed /\ r \notin Issued
        /\ \A q \in Signed : q # r /\ Jwt(q)' = Jwt(q)
        /\ Jwt(r)' = Encoded(t)
    BY <1>2, <1>3 DEF Signed, Recorded, Issued, Jwt, Sign
  <1>5. HandlerProgress'
    BY <1>2, <1>4 DEF Inv, HandlerProgress, Unsigned
  <1>6. HandlerState'
    BY <1>2, <1>4 DEF Inv, HandlerState, Running, Sign
  <1>7. (\A q \in Signed : WellFormed(q))'
    <2>1. \A q \in Signed : WellFormed(q)'
      BY <1>2, <1>4 DEF Inv, WellFormed, Signed
    <2>2. t.task \in Issued \cup {r}
      <3>1. CASE form[r].grant_type = "client_credentials"
        BY <3>1
      <3>2. CASE form[r].grant_type = "token_exchange"
        <4>. DEFINE j == form[r].subject_token
        <4>1. j \in Issued /\ j \in Signed
          BY <3>2 DEF Inv, HandlerProgress, Issued
        <4>2. Jwt(j).task = minted[j].task /\ Encoded(t).task = t.task
          BY <4>1, JwtType, EncodedClaims DEF Inv, Signed, Jwt
        <4>3. minted[j].task \in Issued
          BY <4>1 DEF Inv, WellFormed
        <4>. QED
          BY <3>2, <4>2, <4>3 DEF Derives, SubjectClaims
      <3>. QED
        BY <3>1, <3>2 DEF Inv, TypeOK, HandlerState, Running, Form
    <2>3. WellFormed(r)'
      BY <1>2, <1>4, <2>2 DEF WellFormed
    <2>. QED
      BY <1>4, <2>1, <2>3
  <1>8. (\A q \in Requests : pc[q] = "signed" => SignedFor(q))'
    <2>. SUFFICES ASSUME NEW q \in Requests, pc'[q] = "signed"
                  PROVE  SignedFor(q)'
      OBVIOUS
    <2>1. CASE q = r
      <3>1. form' = form
        BY DEF Sign
      <3>2. form[r].grant_type = "token_exchange" =>
                /\ form[r].subject_token # None
                /\ Derives(SubjectClaims(r), Jwt(r))'
        <4>. SUFFICES ASSUME form[r].grant_type = "token_exchange"
                      PROVE  /\ form[r].subject_token # None
                             /\ Derives(SubjectClaims(r), Jwt(r))'
          OBVIOUS
        <4>1. form[r].subject_token \in Signed
          BY DEF Inv, HandlerProgress, Issued
        <4>2. SubjectClaims(r)' = SubjectClaims(r)
          BY <1>4, <3>1, <4>1 DEF SubjectClaims
        <4>3. form[r].subject_token # None
          BY NoneAssumption DEF Issued
        <4>. QED
          BY <1>4, <4>2, <4>3 DEF Derives
      <3>. QED
        BY <1>2, <2>1, <3>1, <3>2 DEF SignedFor
    <2>2. CASE q # r
      <3>1. pc[q] = "signed" /\ form' = form /\ minted'[q] = minted[q]
        BY <1>2, <2>2 DEF Sign
      <3>2. q \in Signed /\ Jwt(q)' = Jwt(q)
        BY <1>4, <3>1 DEF Inv, HandlerProgress
      <3>3. form[q].grant_type = "token_exchange" =>
                SubjectClaims(q)' = SubjectClaims(q)
        <4>. SUFFICES ASSUME form[q].grant_type = "token_exchange"
                      PROVE  form[q].subject_token \in Signed
          BY <1>4, <3>1 DEF SubjectClaims
        <4>1. form[q].subject_token \in Issued
          BY <3>1 DEF Inv, HandlerState, SignedFor, Running
        <4>. QED
          BY <4>1 DEF Inv, HandlerProgress, Issued
      <3>. QED
        BY <3>1, <3>2, <3>3 DEF Inv, SignedFor
    <2>. QED
      BY <2>1, <2>2
  <1>9. (\A q \in Recorded : Describes(rows[q], Jwt(q)))'
    <2>1. \A q \in Recorded : q \in Signed
      BY DEF Inv, HandlerProgress, Recorded
    <2>. QED
      BY <1>4, <2>1 DEF Inv, Sign
  <1>10. AuthorityFromRoot'
    <2>. SUFFICES ASSUME NEW q \in Signed'
                  PROVE  \E w \in Signed' : Within(Jwt(q)', Jwt(w)')
      BY DEF AuthorityFromRoot
    <2>1. CASE q \in Signed
      <3>1. PICK w \in Signed : Within(Jwt(q), Jwt(w))
        BY <2>1 DEF Inv, AuthorityFromRoot
      <3>. QED
        BY <1>4, <2>1, <3>1
    <2>2. CASE q = r /\ form[r].grant_type = "client_credentials"
      <3>1. Encoded(t) \in Claims /\ Encoded(t).act = <<>>
            /\ Encoded(t).delegation_depth = 0
        BY <2>2, EncodedClaims
      <3>2. Within(Encoded(t), Encoded(t))
        BY <3>1, RootOfRoot DEF Within, Claims
      <3>. QED
        BY <1>4, <2>2, <3>2
    <2>3. CASE q = r /\ form[r].grant_type = "token_exchange"
      <3>. DEFINE j == form[r].subject_token
      <3>1. j \in Signed /\ Derives(Jwt(j), Encoded(t))
        BY <2>3 DEF Inv, HandlerProgress, Issued, SubjectClaims
      <3>2. PICK w \in Signed : Within(Jwt(j), Jwt(w))
        BY <3>1 DEF Inv, AuthorityFromRoot
      <3>3. Jwt(j) \in Claims /\ Jwt(w) \in Claims /\ Encoded(t) \in Claims
        BY <3>1, <3>2, JwtType, EncodedClaims DEF Inv, Signed
      <3>4. Root(Encoded(t)) = Root(Jwt(j))
        BY <3>1, <3>3, RootOfDerived DEF Derives
      <3>5. Encoded(t).exp <= Jwt(w).exp
        <4>1. /\ Encoded(t).exp \in Nat /\ Jwt(j).exp \in Nat
              /\ Jwt(w).exp \in Nat
          BY <3>3 DEF Claims
        <4>2. Encoded(t).exp <= Jwt(j).exp /\ Jwt(j).exp <= Jwt(w).exp
          BY <3>1, <3>2 DEF Within, Derives
        <4>. QED
          BY <4>1, <4>2
      <3>6. Within(Encoded(t), Jwt(w))
        BY <3>1, <3>2, <3>4, <3>5 DEF Within, Derives
      <3>. QED
        BY <1>4, <2>3, <3>2, <3>6
    <2>4. form[r].grant_type \in {"client_credentials", "token_exchange"}
      BY DEF Inv, TypeOK, HandlerState, Running, Form
    <2>. QED
      BY <1>4, <2>1, <2>2, <2>3, <2>4
  <1>11. AncestryRecorded'
    <2>. SUFFICES ASSUME NEW q \in Recorded, minted'[q].delegation_depth > 0
                  PROVE  \E p \in Issued : p \in Recorded
                             /\ Derives(Jwt(p)', Jwt(q)')
      BY <1>4 DEF AncestryRecorded
    <2>1. q \in Signed /\ q # r /\ minted'[q] = minted[q]
      BY <1>2, <1>4 DEF Inv, HandlerProgress, Recorded
    <2>2. PICK p \in Issued : p \in Recorded /\ Derives(Jwt(p), Jwt(q))
      BY <2>1 DEF Inv, AncestryRecorded
    <2>3. p \in Signed
      BY <2>2 DEF Inv, HandlerProgress, Issued
    <2>. QED
      BY <1>4, <2>1, <2>2, <2>3
  <1>. QED
    BY <1>1, <1>5, <1>6, <1>7, <1>8, <1>9, <1>10, <1>11 DEF Inv

\* The row of a token says what the token says.
LEMMA RecordDescribes ==
    ASSUME Inv, NEW r \in Requests, pc[r] = "signed"
    PROVE  IssuanceRecord(r) \in Row /\ Describes(IssuanceRecord(r), Jwt(r))
  <1>. DEFINE t == minted[r]
              u == Jwt(r)
  <1>1. r \in Signed /\ WellFormed(r) /\ SignedFor(r)
    BY DEF Inv, HandlerProgress
  <1>2. form[r] \in Form
    BY DEF Inv, TypeOK, HandlerState, Running
  <1>3. t \in Claims /\ u \in Claims
    BY <1>1, JwtType DEF Inv, Signed
  <1>4. /\ u.jti = r /\ u.client_id = form[r].client_id /\ u.sub = t.sub
        /\ u.aud = t.aud /\ u.scope = t.scope /\ u.task = t.task
        /\ u.act = t.act /\ Depth(u) = t.delegation_depth
    BY <1>1, <1>3, EncodedClaims, DepthIsLength
       DEF WellFormed, SignedFor, Jwt
  <1>5. RootSubject(r) = Root(u)
    <2>1. CASE form[r].grant_type = "token_exchange"
      <3>1. form[r].subject_token \in Issued
        BY <1>1, <2>1 DEF Inv, HandlerState, SignedFor, Running
      <3>2. SubjectClaims(r) \in Claims
        BY <3>1, JwtType
           DEF Inv, HandlerProgress, Issued, Signed, SubjectClaims
      <3>3. u.act = Chain(SubjectClaims(r))
        BY <1>1, <2>1 DEF SignedFor, Derives
      <3>. QED
        BY <1>3, <2>1, <3>2, <3>3, RootOfDerived DEF RootSubject
    <2>2. CASE form[r].grant_type # "token_exchange"
      <3>1. u.act = <<>>
        BY <1>1, <1>2, <1>4, <2>2 DEF SignedFor, Form
      <3>. QED
        BY <1>3, <1>4, <2>2, <3>1, RootOfRoot DEF RootSubject
    <2>. QED
      BY <2>1, <2>2
  <1>6. t.iat >= u.iat * TicksPerSecond /\ t.exp >= u.exp * TicksPerSecond
    <2>1. t.iat \in Nat /\ t.exp \in Nat
      BY <1>3 DEF Claims
    <2>. QED
      BY <1>3, <2>1, EncodedClaims, RoundsDown DEF Jwt
  <1>7. Root(u) \in Subjects
    <2>1. u.sub \in Subjects /\ u.act \in Seq(Subjects)
      BY <1>3 DEF Claims
    <2>2. Chain(u) \in Seq(Subjects) /\ Len(Chain(u)) > 0
      BY <2>1 DEF Chain
    <2>. QED
      BY <2>2 DEF Root
  <1>8. /\ t.sub \in Subjects /\ t.aud \in Audiences
        /\ t.scope \in SUBSET ScopeNames /\ t.iat \in Nat /\ t.exp \in Nat
        /\ t.task \in Requests /\ t.delegation_depth \in 0..MaxDepth
        /\ form[r].client_id \in ClientIds
    BY <1>2, <1>3 DEF Claims, Form
  <1>9. IssuanceRecord(r) \in Row
    BY <1>5, <1>7, <1>8 DEF IssuanceRecord, Row
  <1>. HIDE DEF t, u
  <1>10. Describes(IssuanceRecord(r), u)
    BY <1>4, <1>5, <1>6 DEF IssuanceRecord, Describes, t
  <1>. QED
    BY <1>9, <1>10 DEF u

\* The row of a token is written: it describes the token, and the token it is
\* derived from has its own.
LEMMA RecordStep ==
    ASSUME Inv, NEW r \in Requests, RecordIssuance(r)
    PROVE  Inv'
  <1>1. pc[r] = "signed" /\ r \in Signed /\ SignedFor(r)
    BY DEF RecordIssuance, Inv, HandlerProgress
  <1>2. /\ IssuanceRecord(r) \in Row /\ IssuanceRecord(r) # None
        /\ Describes(IssuanceRecord(r), Jwt(r))
    BY <1>1, RecordDescribes, NoneAssumption
  <1>3. TypeOK'
    BY <1>2 DEF Inv, TypeOK, RecordIssuance, Running
  <1>4. /\ pc'[r] = "recorded" /\ rows'[r] = IssuanceRecord(r)
        /\ \A q \in Requests \ {r} : pc'[q] = pc[q] /\ rows'[q] = rows[q]
        /\ UNCHANGED <<form, client, minted>>
    BY DEF Inv, TypeOK, RecordIssuance
  <1>5. /\ Signed' = Signed /\ Recorded' = Recorded \cup {r}
        /\ Issued' = Issued /\ \A q \in Requests : Jwt(q)' = Jwt(q)
    BY <1>1, <1>2, <1>4 DEF Signed, Recorded, Issued, Jwt
  <1>6. HandlerProgress'
    BY <1>1, <1>4, <1>5 DEF Inv, HandlerProgress, Unsigned
  <1>7. HandlerState'
    BY <1>1, <1>4, <1>5 DEF Inv, HandlerState, Running
  <1>8. (\A q \in Signed : WellFormed(q))'
    BY <1>4, <1>5 DEF Inv, WellFormed
  <1>9. (\A q \in Requests : pc[q] = "signed" => SignedFor(q))'
    <2>. SUFFICES ASSUME NEW q \in Requests, pc'[q] = "signed"
                  PROVE  SignedFor(q)'
      OBVIOUS
    <2>1. SignedFor(q)
      BY <1>4 DEF Inv
    <2>. QED
      BY <1>4, <2>1 DEF SignedFor, SubjectClaims, Jwt
  <1>10. (\A q \in Recorded : Describes(rows[q], Jwt(q)))'
    <2>. SUFFICES ASSUME NEW q \in Recorded'
                  PROVE  Describes(rows'[q], Jwt(q)')
      OBVIOUS
    <2>. QED
      BY <1>2, <1>4, <1>5 DEF Inv, Recorded
  <1>11. AuthorityFromRoot'
    BY <1>5 DEF Inv, AuthorityFromRoot, Signed
  <1>12. AncestryRecorded'
    <2>. SUFFICES ASSUME NEW q \in Recorded', minted[q].delegation_depth > 0
                  PROVE  \E p \in Issued : p \in Recorded'
                             /\ Derives(Jwt(p), Jwt(q))
      BY <1>4, <1>5 DEF AncestryRecorded, Issued, Recorded
    <2>1. CASE q \in Recorded
      BY <1>5, <2>1 DEF Inv, AncestryRecorded
    <2>2. CASE q = r
      <3>1. minted[r] \in Claims
        BY <1>1, JwtType DEF Inv, Signed
      <3>2. minted[r].act # <<>>
        BY <1>1, <2>2, <3>1 DEF Inv, WellFormed
      <3>3. form[r].grant_type = "token_exchange"
        BY <1>1, <3>2 DEF Inv, TypeOK, HandlerState, Running, SignedFor, Form
      <3>4. form[r].subject_token \in Issued
        BY <1>1, <3>3 DEF Inv, HandlerState, SignedFor, Running
      <3>5. form[r].subject_token \in Recorded
        BY <3>4 DEF Inv, HandlerProgress, Issued
      <3>. QED
        BY <1>1, <1>5, <2>2, <3>3, <3>4, <3>5 DEF SignedFor, SubjectClaims
    <2>. QED
      BY <1>5, <2>1, <2>2
  <1>. QED
    BY <1>3, <1>6, <1>7, <1>8, <1>9, <1>10, <1>11, <1>12 DEF Inv

-----------------------------------------------------------------------------
(* The theorems *)

\* Nothing has been asked, signed or recorded at the start.
LEMMA InitInv == Init => Inv
  <1>. SUFFICES ASSUME Init PROVE Inv
    OBVIOUS
  <1>1. TypeOK
    BY DEF Init, TypeOK
  <1>2. Signed = {} /\ Recorded = {} /\ Issued = {}
    BY DEF Init, Signed, Recorded, Issued
  <1>3. HandlerProgress /\ HandlerState
    BY <1>2 DEF Init, HandlerProgress, HandlerState, Running
  <1>. QED
    BY <1>1, <1>2, <1>3
       DEF Init, Inv, AuthorityFromRoot, AncestryRecorded

\* What an exchange that goes through asks for is one hop from its subject
\* token, and within everything that token carries.
LEMMA DerivedTokenDerives ==
    ASSUME Inv, NEW r \in Requests, pc[r] = "resolved",
           DelegationGranted(r)
    PROVE  /\ DerivedToken(r) \in Claims
           /\ Derives(SubjectClaims(r), Encoded(DerivedToken(r)))
           /\ DerivedToken(r).delegation_depth = Len(DerivedToken(r).act)
           /\ DerivedToken(r).act # <<>>
  <1>. DEFINE s == SubjectClaims(r)
              t == DerivedToken(r)
              u == Encoded(t)
  <1>1. /\ form[r] \in Form /\ form[r].audience # None
        /\ s \in Claims /\ ActorClaims(r) \in Claims
    BY PresentedTokens
  <1>2. t \in Claims
    BY <1>1, DerivedTokenType
       DEF Inv, HandlerState, Running, DelegationGranted
  <1>3. /\ u.act = t.act /\ u.delegation_depth = t.delegation_depth
        /\ u.scope = t.scope /\ u.task = t.task /\ u.tenant = t.tenant
        /\ u.exp = t.exp \div TicksPerSecond
    BY <1>2, EncodedClaims
  <1>4. /\ t.act = Chain(s) /\ t.delegation_depth = s.delegation_depth + 1
        /\ t.task = s.task /\ t.tenant = AgreedTenant(s, actor[r])
        /\ t.exp = DerivedExpiry(s)
        /\ t.scope = WithinEvery(RequestedScopes(r), Ceilings(r))
    BY DEF DerivedToken, Nest, Chain, Attenuate
  <1>5. t.scope \subseteq s.scope
    BY <1>4 DEF WithinEvery, Ceilings
  <1>6. u.exp <= s.exp
    <2>1. now \in Nat /\ s.exp \in Nat
      BY <1>1 DEF Inv, TypeOK, Claims
    <2>2. DerivedExpiry(s) \in Nat /\ DerivedExpiry(s) <= s.exp * TicksPerSecond
      BY <2>1, DerivedExpiryBounds
    <2>. HIDE DEF s, t, u
    <2>. QED
      BY <1>3, <1>4, <2>1, <2>2, RoundsWithin
  <1>7. t.tenant = s.tenant
    BY <1>1, <1>4, NoneAssumption DEF AgreedTenant, Claims
  <1>8. t.delegation_depth = Len(t.act) /\ t.act # <<>>
    <2>1. s.delegation_depth = Len(s.act)
      BY <1>1, DepthIsLength DEF DelegationGranted, DeclaresItsDepth
    <2>2. Len(t.act) = Len(s.act) + 1 /\ Len(s.act) \in Nat
      BY <1>1, <1>2, <1>4, RootOfDerived, DepthIsLength
    <2>. HIDE DEF s, t, u
    <2>3. Len(t.act) # Len(<<>>)
      BY <2>2
    <2>. QED
      BY <1>4, <2>1, <2>2, <2>3
  <1>. HIDE DEF s, t, u
  <1>9. Derives(s, u)
    BY <1>3, <1>4, <1>5, <1>6, <1>7 DEF Derives
  <1>. QED
    BY <1>2, <1>8, <1>9 DEF s, t, u

\* Every step of every handler keeps the invariant, and so do the operator
\* and the clock.
LEMMA NextInv == Inv /\ [Next]_vars => Inv'
  <1>. SUFFICES ASSUME Inv, [Next]_vars PROVE Inv'
    OBVIOUS
  <1>1. ASSUME NEW r \in Requests, Handle(r) PROVE Inv'
    <2>1. CASE RefuseCaller(r)
      BY <2>1, AnswerStep DEF RefuseCaller, Running, Answered, Unsigned
    <2>2. CASE IssueRoot(r)
      <3>1. /\ pc[r] = "authenticating" /\ client[r] # None
            /\ form[r].grant_type = "client_credentials"
            /\ Sign(r, RootToken(r))
        BY <2>2 DEF IssueRoot, Asks, Authenticates
      <3>2. RootToken(r) \in Claims
        BY <3>1, RootTokenType DEF Inv, HandlerState, Running
      <3>3. /\ RootToken(r).jti = r /\ RootToken(r).task = r
            /\ RootToken(r).client_id = form[r].client_id
            /\ RootToken(r).act = <<>> /\ RootToken(r).delegation_depth = 0
        BY DEF RootToken
      <3>. QED
        BY <3>1, <3>2, <3>3, SignStep
    <2>3. CASE RefuseRoot(r)
      BY <2>3, AnswerStep DEF RefuseRoot, Asks, Running, Answered, Unsigned
    <2>4. CASE VerifyTokens(r)
      <3>1. /\ pc[r] = "authenticating" /\ client[r] # None
            /\ form[r] # None /\ form[r].grant_type = "token_exchange"
            /\ form[r].subject_token # None /\ form[r].actor_token # None
            /\ form[r].audience # None
            /\ {form[r].subject_token, form[r].actor_token}
                  \subseteq Issued \cup {None}
        BY <2>4 DEF VerifyTokens, Asks, Authenticates, ExchangeAdmitted,
                    Verifies, Inv, HandlerState, Running
      <3>2. /\ form' = [form EXCEPT ![r] = form[r]]
            /\ client' = [client EXCEPT ![r] = client[r]]
            /\ actor' = [actor EXCEPT ![r] = actor[r]]
            /\ form[r] \in Form \cup {None}
            /\ client[r] \in Registration \cup {None}
            /\ actor[r] \in Registration \cup {None}
        BY <2>4 DEF VerifyTokens, Inv, TypeOK
      <3>. QED
        <4>1. /\ pc' = [pc EXCEPT ![r] = "verified"]
              /\ UNCHANGED <<clients, rows, now, minted>>
              /\ pc[r] \in Unsigned
          BY <2>4, <3>1 DEF VerifyTokens, Unsigned
        <4>. QED
          BY <3>1, <3>2, <4>1, WaitStep
    <2>5. CASE RefuseTokens(r)
      BY <2>5, AnswerStep DEF RefuseTokens, Asks, Running, Answered, Unsigned
    <2>6. CASE ReadActorClient(r)
      <3>1. /\ pc[r] = "verified" /\ client[r] # None
            /\ form[r] # None /\ form[r].grant_type = "token_exchange"
            /\ form[r].subject_token # None /\ form[r].actor_token # None
            /\ form[r].audience # None
            /\ {form[r].subject_token, form[r].actor_token}
                  \subseteq Issued \cup {None}
        BY <2>6 DEF ReadActorClient, Inv, HandlerState, Running
      <3>2. clients[ActorClaims(r).client_id] \in Registration \cup {None}
        BY <3>1, PresentedTokens DEF Inv, TypeOK, Claims
      <3>3. /\ form' = [form EXCEPT ![r] = form[r]]
            /\ client' = [client EXCEPT ![r] = client[r]]
            /\ form[r] \in Form \cup {None}
            /\ client[r] \in Registration \cup {None}
        BY <2>6 DEF ReadActorClient, Inv, TypeOK
      <3>. QED
        <4>1. /\ pc' = [pc EXCEPT ![r] = "resolved"]
              /\ actor' = [actor EXCEPT
                              ![r] = clients[ActorClaims(r).client_id]]
              /\ UNCHANGED <<clients, rows, now, minted>>
              /\ pc[r] \in Unsigned
          BY <2>6, <3>1 DEF ReadActorClient, Unsigned
        <4>. QED
          BY <3>1, <3>2, <3>3, <4>1, WaitStep
    <2>7. CASE IssueDerived(r)
      <3>1. /\ pc[r] = "resolved" /\ DelegationGranted(r)
            /\ Sign(r, DerivedToken(r))
        BY <2>7 DEF IssueDerived
      <3>2. /\ client[r] # None /\ form[r].grant_type = "token_exchange"
            /\ form[r].subject_token \in Issued
        BY <3>1, PresentedTokens DEF Inv, HandlerState, Running
      <3>3. /\ DerivedToken(r).jti = r
            /\ DerivedToken(r).client_id = form[r].client_id
        BY DEF DerivedToken
      <3>. QED
        BY <3>1, <3>2, <3>3, DerivedTokenDerives, SignStep
    <2>8. CASE RefuseDelegation(r)
      BY <2>8, AnswerStep DEF RefuseDelegation, Running, Answered, Unsigned
    <2>9. CASE ElapseDelegation(r)
      BY <2>9, AnswerStep DEF ElapseDelegation, Running, Answered, Unsigned
    <2>10. CASE RecordIssuance(r)
      BY <2>10, RecordStep
    <2>11. CASE Respond(r)
      BY <2>11, AnswerStep DEF Respond, Running, Answered
    <2>. QED
      BY <1>1, <2>1, <2>2, <2>3, <2>4, <2>5, <2>6, <2>7, <2>8, <2>9, <2>10,
         <2>11 DEF Handle
  <1>2. ASSUME NEW r \in Requests, Abort(r) PROVE Inv'
    BY <1>2, AnswerStep DEF Abort, Answered
  <1>3. ASSUME NEW r \in Requests, NEW f \in Forms, Receive(r, f) PROVE Inv'
    <2>1. f \in Form /\ f # None
      BY FormsAssumption, NoneAssumption
    <2>2. clients[f.client_id] \in Registration \cup {None}
      BY <2>1 DEF Inv, TypeOK, Form
    <2>3. actor' = [actor EXCEPT ![r] = actor[r]]
            /\ actor[r] \in Registration \cup {None}
      BY <1>3 DEF Receive, Inv, TypeOK
    <2>. QED
      BY <1>3, <2>1, <2>2, <2>3, WaitStep DEF Receive, Unsigned
  <1>4. ASSUME NEW c \in ClientIds, NEW registration \in Registrations[c],
               UpsertClient(c, registration)
        PROVE  Inv'
    <2>1. TypeOK'
      BY <1>4, RegistrationsAssumption DEF UpsertClient, Inv, TypeOK
    <2>. QED
      BY <1>4, <2>1, OtherStep DEF UpsertClient
  <1>5. CASE Tick
    <2>1. TypeOK'
      BY <1>5 DEF Tick, Inv, TypeOK
    <2>. QED
      BY <1>5, <2>1, OtherStep DEF Tick
  <1>6. CASE UNCHANGED vars
    <2>1. TypeOK'
      BY <1>6 DEF vars, Inv, TypeOK
    <2>. QED
      BY <1>6, <2>1, OtherStep DEF vars
  <1>. QED
    BY <1>1, <1>2, <1>3, <1>4, <1>5, <1>6 DEF Next

\* The invariant holds of every reachable state.
THEOREM Invariance == Spec => []Inv
  BY InitInv, NextInv, PTL DEF Spec

\* Every variable keeps its type: what is signed is a token within the depth
\* cap, what is recorded is a row.
THEOREM TypeCorrect == Spec => []TypeOK
  <1>1. Inv => TypeOK
    BY DEF Inv
  <1>. QED
    BY <1>1, Invariance, PTL

\* A token is in the ledger, rightly described, before a client has it.
THEOREM LedgerHoldsWhatIsIssued == Spec => []RecordedBeforeIssued
  <1>1. Inv => RecordedBeforeIssued
    <2>. SUFFICES ASSUME Inv PROVE RecordedBeforeIssued
      OBVIOUS
    <2>1. Issued \subseteq Recorded
      BY DEF Inv, HandlerProgress, Issued
    <2>2. \A r \in Recorded : r \in Signed
      BY DEF Inv, HandlerProgress, Recorded
    <2>. QED
      BY <2>1, <2>2 DEF Inv, RecordedBeforeIssued
  <1>. QED
    BY <1>1, Invariance, PTL

\* A refusal leaves nothing signed and nothing recorded.
THEOREM RefusalLeavesNothing == Spec => []RefusedMeansUnsigned
  <1>1. Inv => RefusedMeansUnsigned
    BY DEF Inv, HandlerProgress, RefusedMeansUnsigned, Unsigned
  <1>. QED
    BY <1>1, Invariance, PTL

\* No chain of exchanges carries more than the root of its task, whatever the
\* registry and the clock do meanwhile.
THEOREM AuthorityOnlyShrinks == Spec => []AuthorityFromRoot
  <1>1. Inv => AuthorityFromRoot
    BY DEF Inv
  <1>. QED
    BY <1>1, Invariance, PTL

\* A task has one root.
THEOREM TaskHasOneRoot == Spec => []OneRootPerTask
  <1>1. Inv => OneRootPerTask
    BY DEF Inv, WellFormed, OneRootPerTask
  <1>. QED
    BY <1>1, Invariance, PTL

\* The parent of every recorded hop is recorded.
THEOREM LedgerHasNoGap == Spec => []AncestryRecorded
  <1>1. Inv => AncestryRecorded
    BY DEF Inv
  <1>. QED
    BY <1>1, Invariance, PTL

\* Nothing is signed that has expired, nor below a token that has.
THEOREM NothingDeadIsSigned == Spec => AlwaysSignedAlive
  <1>1. Inv /\ [Next]_vars => [SignedAlive]_vars
    <2>. SUFFICES ASSUME Inv, Next,
                         NEW r \in Requests, minted[r] = None,
                         minted'[r] # None
                  PROVE  /\ Jwt(r)'.exp * TicksPerSecond > now
                         /\ form[r].grant_type = "token_exchange" =>
                               SubjectClaims(r).exp * TicksPerSecond > now
      BY DEF SignedAlive
    <2>1. IssueRoot(r) \/ IssueDerived(r)
      BY DEF Next, Handle, RefuseCaller, RefuseRoot, VerifyTokens,
             RefuseTokens, ReadActorClient, RefuseDelegation,
             ElapseDelegation, RecordIssuance, Respond, Abort, Receive,
             UpsertClient, Tick, Answer, IssueRoot, IssueDerived, Sign,
             Inv, TypeOK
    <2>2. now \in Nat
      BY DEF Inv, TypeOK
    <2>3. ASSUME NEW e \in Nat, e >= now + TicksPerSecond
          PROVE  (e \div TicksPerSecond) * TicksPerSecond > now
      BY <2>2, <2>3, SettingsAssumption
    <2>4. CASE IssueRoot(r)
      <3>1. /\ RootToken(r) \in Claims /\ minted'[r] = RootToken(r)
            /\ form[r].grant_type = "client_credentials"
        BY <2>4, RootTokenType
           DEF IssueRoot, Asks, Authenticates, Sign, Inv, TypeOK,
               HandlerState, Running
      <3>2. Jwt(r)'.exp = RootExpiry \div TicksPerSecond
        BY <3>1, EncodedClaims DEF Jwt, RootToken
      <3>. QED
        BY <2>2, <2>3, <3>1, <3>2, RootExpiryBounds
    <2>5. CASE IssueDerived(r)
      <3>. DEFINE s == SubjectClaims(r)
      <3>1. /\ pc[r] = "resolved" /\ DelegationGranted(r)
            /\ minted'[r] = DerivedToken(r) /\ Lasts(DerivedExpiry(s))
        BY <2>5 DEF IssueDerived, Sign, Inv, TypeOK
      <3>2. s \in Claims /\ s.exp \in Nat
        BY <3>1, PresentedTokens DEF Claims
      <3>3. /\ DerivedExpiry(s) \in Nat
            /\ DerivedExpiry(s) <= s.exp * TicksPerSecond
            /\ DerivedExpiry(s) >= now + TicksPerSecond
        BY <2>2, <3>1, <3>2, DerivedExpiryBounds DEF Lasts
      <3>4. Jwt(r)'.exp = DerivedExpiry(s) \div TicksPerSecond
        BY <3>1, DerivedTokenDerives, EncodedClaims DEF Jwt, DerivedToken
      <3>5. s.exp * TicksPerSecond > now
        <4>1. s.exp * TicksPerSecond \in Nat
          BY <3>2, SettingsAssumption
        <4>. HIDE DEF s
        <4>. QED
          BY <2>2, <3>3, <4>1, SettingsAssumption
      <3>. QED
        BY <2>3, <3>3, <3>4, <3>5
    <2>. QED
      BY <2>1, <2>4, <2>5
  <1>. QED
    BY <1>1, Invariance, PTL DEF Spec, AlwaysSignedAlive

-----------------------------------------------------------------------------
(* Who may be named on a chain *)

\* Everybody the token j names came for himself.
CameThemselves(j) ==
    \A i \in 1..Len(Chain(minted[j])) : \E q \in Issued :
        minted[q].act = <<>> /\ minted[q].sub = Chain(minted[j])[i]

\* Of an issued token the witnesses are all issued, and its claims name those
\* the token named when it was signed.
LEMMA IssuedNamesCame ==
    ASSUME Inv, HoldersCameThemselves, NEW j \in Issued
    PROVE  /\ j \in Signed /\ Chain(Jwt(j)) = Chain(minted[j])
           /\ minted[j] \in Claims /\ CameThemselves(j)
  <1>1. j \in Signed
    BY DEF Inv, HandlerProgress, Issued
  <1>2. minted[j] \in Claims /\ Jwt(j) = Encoded(minted[j])
    BY <1>1, JwtType DEF Inv, Signed, Jwt
  <1>3. Chain(Jwt(j)) = Chain(minted[j])
    BY <1>2, EncodedClaims DEF Chain
  <1>4. Issued \cup {j} = Issued
    OBVIOUS
  <1>5. CameThemselves(j)
    BY <1>1, <1>4 DEF HoldersCameThemselves, CameThemselves
  <1>. QED
    BY <1>1, <1>2, <1>3, <1>5

\* A step that signs nothing and takes no answer back leaves them as they are.
LEMMA HoldersKept ==
    ASSUME HoldersCameThemselves, minted' = minted,
           \A r \in Requests : pc[r] = "issued" => pc'[r] = "issued"
    PROVE  HoldersCameThemselves'
  <1>1. Signed' = Signed /\ Issued \subseteq Issued'
    BY DEF Signed, Issued
  <1>. SUFFICES ASSUME NEW r \in Signed, NEW i \in 1..Len(Chain(minted[r]))
                PROVE  \E q \in Issued' \cup {r} :
                           minted[q].act = <<>>
                               /\ minted[q].sub = Chain(minted[r])[i]
    BY <1>1 DEF HoldersCameThemselves
  <1>2. PICK q \in Issued \cup {r} :
            minted[q].act = <<>> /\ minted[q].sub = Chain(minted[r])[i]
    BY DEF HoldersCameThemselves
  <1>. QED
    BY <1>1, <1>2

\* A chain with nobody but its holder, and one with a holder put before it.
LEMMA NamesOnChain ==
    ASSUME NEW p \in Claims, NEW t \in Claims
    PROVE  /\ t.act = <<>> => Chain(t) = <<t.sub>>
           /\ t.act = Chain(p) =>
                \A i \in 1..Len(Chain(t)) :
                    \/ Chain(t)[i] = t.sub
                    \/ \E k \in 1..Len(Chain(p)) : Chain(t)[i] = Chain(p)[k]
  <1>1. /\ p.sub \in Subjects /\ p.act \in Seq(Subjects)
        /\ t.sub \in Subjects /\ t.act \in Seq(Subjects)
    BY DEF Claims
  <1>2. ASSUME t.act = <<>> PROVE Chain(t) = <<t.sub>>
    BY <1>1, <1>2 DEF Chain
  <1>3. ASSUME t.act = Chain(p), NEW i \in 1..Len(Chain(t))
        PROVE  \/ Chain(t)[i] = t.sub
               \/ \E k \in 1..Len(Chain(p)) : Chain(t)[i] = Chain(p)[k]
    <2>. DEFINE c == Chain(p)
    <2>1. c \in Seq(Subjects) /\ Chain(t) = <<t.sub>> \o c
      BY <1>1, <1>3 DEF Chain
    <2>. HIDE DEF c
    <2>2. /\ Len(<<t.sub>> \o c) = Len(c) + 1 /\ Len(c) \in Nat
          /\ (<<t.sub>> \o c)[1] = t.sub
          /\ \A k \in 1..Len(c) : (<<t.sub>> \o c)[k + 1] = c[k]
      BY <1>1, <2>1
    <2>3. i \in 1..(Len(c) + 1)
      BY <2>1, <2>2
    <2>4. CASE i = 1
      BY <2>1, <2>2, <2>4
    <2>5. CASE i # 1
      <3>1. i - 1 \in 1..Len(c) /\ (i - 1) + 1 = i
        BY <2>2, <2>3, <2>5
      <3>2. Chain(t)[i] = c[i - 1]
        BY <2>1, <2>2, <3>1
      <3>. QED
        BY <3>1, <3>2 DEF c
    <2>. QED
      BY <2>4, <2>5
  <1>. QED
    BY <1>2, <1>3

\* A handler signs a token that names its own subject, or one that names the
\* subject of an issued actor token and whoever an issued subject token names.
LEMMA HoldersSigned ==
    ASSUME Inv, HoldersCameThemselves, NEW r \in Requests, NEW t \in Claims,
           Sign(r, t), pc[r] \in {"authenticating", "resolved"},
           \/ t.act = <<>>
           \/ /\ form[r].subject_token \in Issued
              /\ form[r].actor_token \in Issued
              /\ t.sub = ActorClaims(r).sub /\ t.act = Chain(SubjectClaims(r))
    PROVE  HoldersCameThemselves'
  <1>1. /\ minted'[r] = t /\ r \notin Issued
        /\ \A q \in Requests \ {r} : minted'[q] = minted[q]
    BY DEF Inv, TypeOK, Sign, Issued
  <1>2. Issued' = Issued /\ Issued \subseteq Requests \ {r}
    BY <1>1 DEF Inv, TypeOK, Sign, Issued
  <1>3. \A q \in Issued : minted'[q] = minted[q]
    BY <1>1, <1>2
  <1>4. Signed' \subseteq Signed \cup {r}
    BY <1>1 DEF Signed
  <1>. SUFFICES ASSUME NEW w \in Signed',
                       NEW i \in 1..Len(Chain(minted'[w]))
                PROVE  \E q \in Issued \cup {w} :
                           minted'[q].act = <<>>
                               /\ minted'[q].sub = Chain(minted'[w])[i]
    BY <1>2 DEF HoldersCameThemselves
  <1>5. CASE w # r
    <2>1. w \in Signed /\ minted'[w] = minted[w]
      BY <1>1, <1>4, <1>5 DEF Signed
    <2>2. PICK q \in Issued \cup {w} :
              minted[q].act = <<>> /\ minted[q].sub = Chain(minted[w])[i]
      BY <2>1 DEF HoldersCameThemselves
    <2>. QED
      BY <1>3, <2>1, <2>2
  <1>6. CASE w = r /\ t.act = <<>>
    <2>1. Chain(t) = <<t.sub>> /\ i \in 1..Len(Chain(t))
      BY <1>1, <1>6, NamesOnChain
    <2>2. Chain(t)[i] = t.sub
      BY <2>1
    <2>. QED
      BY <1>1, <1>6, <2>2
  <1>7. CASE w = r /\ t.act # <<>>
    <2>. DEFINE s == form[r].subject_token
                a == form[r].actor_token
    <2>1. /\ s \in Issued /\ a \in Issued /\ t.sub = Jwt(a).sub
          /\ t.act = Chain(Jwt(s))
      BY <1>7 DEF SubjectClaims, ActorClaims
    <2>. HIDE DEF s, a
    <2>2. /\ minted[s] \in Claims /\ CameThemselves(s)
          /\ t.act = Chain(minted[s])
      BY <2>1, IssuedNamesCame
    <2>3. /\ minted[a] \in Claims /\ CameThemselves(a)
          /\ Chain(Jwt(a)) = Chain(minted[a]) /\ a \in Requests
      BY <2>1, IssuedNamesCame DEF Issued
    <2>4. CASE Chain(t)[i] = t.sub
      <3>1. t.sub = minted[a].sub
        BY <2>1, <2>3, EncodedClaims DEF Jwt
      <3>2. /\ 1 \in 1..Len(Chain(minted[a]))
            /\ Chain(minted[a])[1] = minted[a].sub
        <4>1. minted[a].sub \in Subjects /\ minted[a].act \in Seq(Subjects)
          BY <2>3 DEF Claims
        <4>. QED
          BY <4>1 DEF Chain
      <3>3. PICK q \in Issued :
                minted[q].act = <<>> /\ minted[q].sub = minted[a].sub
        BY <2>3, <3>2 DEF CameThemselves
      <3>. QED
        BY <1>1, <1>3, <1>7, <2>4, <3>1, <3>3
    <2>5. CASE \E k \in 1..Len(Chain(minted[s])) :
                   Chain(t)[i] = Chain(minted[s])[k]
      <3>1. PICK k \in 1..Len(Chain(minted[s])) :
                     Chain(t)[i] = Chain(minted[s])[k]
        BY <2>5
      <3>2. PICK q \in Issued :
                minted[q].act = <<>> /\ minted[q].sub = Chain(minted[s])[k]
        BY <2>2 DEF CameThemselves
      <3>. QED
        BY <1>1, <1>3, <1>7, <3>1, <3>2
    <2>6. i \in 1..Len(Chain(t))
      BY <1>1, <1>7
    <2>. QED
      BY <2>2, <2>4, <2>5, <2>6, NamesOnChain
  <1>. QED
    BY <1>5, <1>6, <1>7

\* Nobody is put on a chain by others alone: whoever a token names has been
\* answered with a root token of his own, or is the subject of this one.
THEOREM NobodyIsNamedInAbsence == Spec => []HoldersCameThemselves
  <1>1. Init => HoldersCameThemselves
    BY DEF Init, HoldersCameThemselves, Signed
  <1>2. Inv /\ HoldersCameThemselves /\ [Next]_vars => HoldersCameThemselves'
    <2>. SUFFICES ASSUME Inv, HoldersCameThemselves, [Next]_vars
                  PROVE  HoldersCameThemselves'
      OBVIOUS
    <2>1. ASSUME NEW r \in Requests, IssueRoot(r)
          PROVE  HoldersCameThemselves'
      <3>1. /\ pc[r] = "authenticating" /\ Sign(r, RootToken(r))
            /\ client[r] # None
        BY <2>1 DEF IssueRoot, Asks, Authenticates
      <3>2. RootToken(r) \in Claims
        BY <3>1, RootTokenType DEF Inv, HandlerState, Running
      <3>3. RootToken(r).act = <<>>
        BY DEF RootToken
      <3>. QED
        BY <3>1, <3>2, <3>3, HoldersSigned
    <2>2. ASSUME NEW r \in Requests, IssueDerived(r)
          PROVE  HoldersCameThemselves'
      <3>1. /\ pc[r] = "resolved" /\ Sign(r, DerivedToken(r))
            /\ DelegationGranted(r)
        BY <2>2 DEF IssueDerived
      <3>2. /\ DerivedToken(r) \in Claims
            /\ form[r].subject_token \in Issued
            /\ form[r].actor_token \in Issued
        BY <3>1, DerivedTokenDerives, PresentedTokens
      <3>3. /\ DerivedToken(r).sub = ActorClaims(r).sub
            /\ DerivedToken(r).act = Chain(SubjectClaims(r))
        BY DEF DerivedToken, Holder, Nest, Chain
      <3>. QED
        BY <3>1, <3>2, <3>3, HoldersSigned
    <2>3. ASSUME NEW r \in Requests, NEW how \in Answered, Answer(r, how),
                 pc[r] \in Running
          PROVE  HoldersCameThemselves'
      BY <2>3, HoldersKept DEF Answer, Running, Inv, TypeOK
    <2>4. ASSUME NEW r \in Requests, Handle(r) \/ Abort(r)
          PROVE  HoldersCameThemselves'
      <3>1. CASE RefuseCaller(r) \/ RefuseRoot(r) \/ RefuseTokens(r)
                   \/ RefuseDelegation(r) \/ ElapseDelegation(r)
                   \/ Respond(r) \/ Abort(r)
        BY <2>3, <3>1
           DEF RefuseCaller, RefuseRoot, RefuseTokens, RefuseDelegation,
               ElapseDelegation, Respond, Abort, Asks, Running, Answered
      <3>2. CASE VerifyTokens(r) \/ ReadActorClient(r) \/ RecordIssuance(r)
        BY <3>2, HoldersKept
           DEF VerifyTokens, ReadActorClient, RecordIssuance, Asks, Inv,
               TypeOK
      <3>. QED
        BY <2>1, <2>2, <2>4, <3>1, <3>2 DEF Handle
    <2>5. ASSUME NEW r \in Requests, NEW f \in Forms, Receive(r, f)
          PROVE  HoldersCameThemselves'
      BY <2>5, HoldersKept DEF Receive, Inv, TypeOK
    <2>6. ASSUME NEW c \in ClientIds, NEW registration \in Registrations[c],
                 UpsertClient(c, registration)
          PROVE  HoldersCameThemselves'
      BY <2>6, HoldersKept DEF UpsertClient
    <2>7. CASE Tick \/ UNCHANGED vars
      BY <2>7, HoldersKept DEF Tick, vars
    <2>. QED
      BY <2>4, <2>5, <2>6, <2>7 DEF Next
  <1>. QED
    BY <1>1, <1>2, Invariance, PTL DEF Spec

-----------------------------------------------------------------------------
(* The token endpoint implements the abstract ledger *)

\* The jti of a token tells it from every other one.
LEMMA JwtNamesItself ==
    ASSUME Inv, NEW r \in Signed
    PROVE  /\ minted[r] \in Claims /\ Jwt(r) \in Claims
           /\ Jwt(r).jti = r /\ Jwt(r).task = minted[r].task
           /\ Jwt(r).act = minted[r].act
           /\ Jwt(r).delegation_depth = minted[r].delegation_depth
  <1>1. minted[r] \in Claims /\ Jwt(r) \in Claims /\ minted[r].jti = r
    BY JwtType DEF Inv, Signed, WellFormed
  <1>. QED
    BY <1>1, EncodedClaims DEF Jwt

\* A step that records nothing and answers nobody with a token is none of
\* the ledger's.
LEMMA LedgerUnmoved ==
    ASSUME Inv, rows' = rows, Issued' = Issued,
           \A q \in Signed : minted'[q] = minted[q]
    PROVE  UNCHANGED Ledger!ledgerVars
  <1>1. Recorded' = Recorded /\ Recorded \subseteq Signed
        /\ Issued \subseteq Signed
    BY DEF Recorded, Issued, Inv, HandlerProgress
  <1>2. \A q \in Signed : Jwt(q)' = Jwt(q)
    BY DEF Jwt
  <1>3. {Jwt(r) : r \in Recorded}' = {Jwt(r) : r \in Recorded}
    BY <1>1, <1>2
  <1>4. {Jwt(r) : r \in Issued}' = {Jwt(r) : r \in Issued}
    BY <1>1, <1>2
  <1>. QED
    BY <1>3, <1>4 DEF Ledger!ledgerVars

\* Writing a row grants a root, or delegates from an outstanding credential.
LEMMA RecordGrows ==
    ASSUME Inv, NEW r \in Requests, RecordIssuance(r)
    PROVE  Ledger!Next
  <1>. DEFINE c == Jwt(r)
              ledger == {Jwt(q) : q \in Recorded}
              outstanding == {Jwt(q) : q \in Issued}
  <1>1. /\ pc[r] = "signed" /\ r \in Signed /\ r \notin Recorded
        /\ SignedFor(r) /\ WellFormed(r) /\ r \notin Issued
        /\ Recorded \subseteq Signed
    BY DEF RecordIssuance, Inv, HandlerProgress, Recorded, Issued
  <1>2. /\ Recorded' = Recorded \cup {r} /\ Issued' = Issued
        /\ \A q \in Requests : Jwt(q)' = Jwt(q)
    <2>1. IssuanceRecord(r) # None
      BY <1>1, RecordDescribes, NoneAssumption
    <2>. QED
      BY <2>1 DEF Inv, TypeOK, RecordIssuance, Recorded, Issued, Jwt
  <1>3. /\ {Jwt(q) : q \in Recorded}' = ledger \cup {c}
        /\ {Jwt(q) : q \in Issued}' = outstanding
    <2>1. Recorded \subseteq Requests /\ Issued \subseteq Requests
      BY DEF Recorded, Issued
    <2>. QED
      BY <1>2, <2>1
  <1>4. /\ c.jti = r /\ c.task = minted[r].task /\ c.act = minted[r].act
        /\ c.delegation_depth = minted[r].delegation_depth /\ c \in Claims
    BY <1>1, JwtNamesItself
  <1>4a. c.exp \in Nat
    BY <1>4 DEF Claims
  <1>5. \A d \in ledger : d.jti # c.jti
    BY <1>1, <1>4, JwtNamesItself
  <1>6. c \in (ledger \cup {c}) \ ledger
    BY <1>5
  <1>7. CASE form[r].grant_type = "client_credentials"
    <2>1. c.act = <<>> /\ c.delegation_depth = 0 /\ c.task = r
      BY <1>1, <1>4, <1>7 DEF SignedFor, WellFormed
    <2>2. \A d \in ledger : d.task # r
      <3>. SUFFICES ASSUME NEW q \in Recorded PROVE Jwt(q).task # r
        OBVIOUS
      <3>1. q \in Signed /\ q # r
        BY <1>1
      <3>2. Jwt(q).task \in Issued \cup {q}
        BY <3>1, JwtNamesItself DEF Inv, WellFormed
      <3>. QED
        BY <1>1, <3>1, <3>2
    <2>3. Ledger!Grant(c)
      BY <1>3, <1>4a, <1>5, <2>1, <2>2 DEF Ledger!Grant
    <2>. QED
      BY <1>3, <1>6, <2>3 DEF Ledger!Next
  <1>8. CASE form[r].grant_type = "token_exchange"
    <2>. DEFINE j == form[r].subject_token
    <2>1. j \in Issued /\ Derives(Jwt(j), c)
      BY <1>1, <1>8 DEF Inv, HandlerState, Running, SignedFor, SubjectClaims
    <2>2. c.delegation_depth <= MaxDepth
      BY <1>4, SettingsAssumption DEF Claims
    <2>3. Ledger!Delegate(Jwt(j), c)
      BY <1>3, <1>4a, <1>5, <2>1, <2>2
         DEF Ledger!Delegate, Ledger!Derives, Ledger!Chain, Derives, Chain
    <2>. QED
      BY <1>3, <1>6, <2>1, <2>3 DEF Ledger!Next
  <1>. QED
    BY <1>7, <1>8 DEF Inv, TypeOK, HandlerState, Running, RecordIssuance, Form

\* Answering with a token delivers a credential of the ledger.
LEMMA RespondDelivers ==
    ASSUME Inv, NEW r \in Requests, Respond(r)
    PROVE  Ledger!Next
  <1>. DEFINE c == Jwt(r)
              ledger == {Jwt(q) : q \in Recorded}
              outstanding == {Jwt(q) : q \in Issued}
  <1>1. /\ pc[r] = "recorded" /\ r \in Recorded /\ r \in Signed
        /\ r \notin Issued /\ Issued \subseteq Signed
    BY DEF Respond, Inv, HandlerProgress, Issued
  <1>2. /\ Recorded' = Recorded /\ Issued' = Issued \cup {r}
        /\ \A q \in Requests : Jwt(q)' = Jwt(q)
    BY DEF Respond, Answer, Inv, TypeOK, Recorded, Issued, Jwt
  <1>3. /\ {Jwt(q) : q \in Recorded}' = ledger
        /\ {Jwt(q) : q \in Issued}' = outstanding \cup {c}
    <2>1. Recorded \subseteq Requests /\ Issued \subseteq Requests
      BY DEF Recorded, Issued
    <2>. QED
      BY <1>2, <2>1
  <1>4. c \notin outstanding
    BY <1>1, JwtNamesItself
  <1>5. c \in ledger \ outstanding
    BY <1>1, <1>4
  <1>. QED
    BY <1>3, <1>5 DEF Ledger!Next, Ledger!Deliver

\* Every behaviour of the endpoint is one of the ledger.
THEOREM ImplementsLedger == Spec => LedgerSpec
  <1>1. Init => Ledger!Init
    BY DEF Init, Ledger!Init, Recorded, Issued
  <1>2. Inv /\ [Next]_vars => [Ledger!Next]_(Ledger!ledgerVars)
    <2>. SUFFICES ASSUME Inv, [Next]_vars
                  PROVE  Ledger!Next \/ UNCHANGED Ledger!ledgerVars
      OBVIOUS
    <2>1. ASSUME NEW r \in Requests, NEW how \in Answered \ {"issued"},
                 pc[r] \in Running, Answer(r, how)
          PROVE  UNCHANGED Ledger!ledgerVars
      BY <2>1, LedgerUnmoved
         DEF Answer, Inv, TypeOK, Issued, Running
    <2>2. ASSUME NEW r \in Requests, NEW t, Sign(r, t), pc[r] \in Unsigned
          PROVE  UNCHANGED Ledger!ledgerVars
      BY <2>2, LedgerUnmoved
         DEF Sign, Inv, TypeOK, HandlerProgress, Signed, Issued, Unsigned
    <2>3. ASSUME NEW r \in Requests, Handle(r)
          PROVE  Ledger!Next \/ UNCHANGED Ledger!ledgerVars
      <3>1. CASE RefuseCaller(r) \/ RefuseRoot(r) \/ RefuseTokens(r)
                   \/ RefuseDelegation(r) \/ ElapseDelegation(r)
        BY <2>1, <3>1
           DEF RefuseCaller, RefuseRoot, RefuseTokens, RefuseDelegation,
               ElapseDelegation, Asks, Running, Answered
      <3>2. CASE IssueRoot(r) \/ IssueDerived(r)
        BY <2>2, <3>2 DEF IssueRoot, IssueDerived, Asks, Unsigned
      <3>3. CASE VerifyTokens(r) \/ ReadActorClient(r)
        BY <3>3, LedgerUnmoved
           DEF VerifyTokens, ReadActorClient, Asks, Inv, TypeOK, Issued
      <3>4. CASE RecordIssuance(r)
        BY <3>4, RecordGrows
      <3>5. CASE Respond(r)
        BY <3>5, RespondDelivers
      <3>. QED
        BY <2>3, <3>1, <3>2, <3>3, <3>4, <3>5 DEF Handle
    <2>4. ASSUME NEW r \in Requests, Abort(r)
          PROVE  UNCHANGED Ledger!ledgerVars
      BY <2>1, <2>4 DEF Abort, Answered
    <2>5. ASSUME NEW r \in Requests, NEW f \in Forms, Receive(r, f)
          PROVE  UNCHANGED Ledger!ledgerVars
      BY <2>5, LedgerUnmoved DEF Receive, Inv, TypeOK, Issued
    <2>6. ASSUME NEW c \in ClientIds, NEW registration \in Registrations[c],
                 UpsertClient(c, registration)
          PROVE  UNCHANGED Ledger!ledgerVars
      BY <2>6, LedgerUnmoved DEF UpsertClient, Issued
    <2>7. CASE Tick
      BY <2>7, LedgerUnmoved DEF Tick, Issued
    <2>8. CASE UNCHANGED vars
      BY <2>8, LedgerUnmoved DEF vars, Issued
    <2>. QED
      BY <2>3, <2>4, <2>5, <2>6, <2>7, <2>8 DEF Next
  <1>. QED
    BY <1>1, <1>2, Invariance, PTL DEF Spec, LedgerSpec, Ledger!Spec

=============================================================================
