----------------------- MODULE AuthorityLedgerProofs ------------------------
(***************************************************************************)
(* What the promise of the token endpoint is worth: theorems about every   *)
(* system that implements the ledger, with whatever handlers.              *)
(***************************************************************************)
EXTENDS AuthorityLedger, TLAPS

\* A new holder before a chain does not change whom the chain rests on.
LEMMA SameRoot ==
    ASSUME NEW S, NEW p, NEW c, p.sub \in S, p.act \in Seq(S),
           c.sub \in S, c.act = Chain(p)
    PROVE  Root(c) = Root(p) /\ Chain(p) \in Seq(S) /\ Chain(p) # <<>>
  <1>. DEFINE s == Chain(p)
  <1>1. s \in Seq(S) /\ Len(s) = Len(p.act) + 1 /\ Len(p.act) \in Nat
    BY DEF Chain
  <1>2. Chain(c) = <<c.sub>> \o s
    BY DEF Chain
  <1>. HIDE DEF s
  <1>3. Len(s) \in Nat \ {0}
    BY <1>1
  <1>4. /\ Len(<<c.sub>> \o s) = Len(s) + 1
        /\ (<<c.sub>> \o s)[Len(s) + 1] = s[Len(s)]
    BY <1>1, <1>3
  <1>5. s # <<>>
    BY <1>3
  <1>. QED
    BY <1>1, <1>2, <1>4, <1>5 DEF Root, s

\* A credential nobody delegated is within itself.
LEMMA RootWithinItself ==
    ASSUME NEW c, c.act = <<>>, c.delegation_depth = 0, c.exp \in Nat
    PROVE  Within(c, c)
  <1>1. Root(c) = c.sub
    BY DEF Root, Chain
  <1>. QED
    BY <1>1 DEF Within

\* What is derived from a credential within a root is within that root.
LEMMA HopStaysWithin ==
    ASSUME NEW S, NEW s, NEW c, NEW d, Derives(s, c), Within(s, d),
           s.sub \in S, s.act \in Seq(S), c.sub \in S,
           s.exp \in Nat, c.exp \in Nat, d.exp \in Nat
    PROVE  Within(c, d)
  <1>1. Root(c) = Root(s)
    BY SameRoot DEF Derives
  <1>2. c.exp <= d.exp
    BY DEF Derives, Within
  <1>. QED
    BY <1>1, <1>2 DEF Derives, Within

\* Who is on a chain stays one who holds a credential.
LEMMA MoreNames ==
    ASSUME NEW S, NEW T, S \subseteq T, NEW s \in Seq(S)
    PROVE  s \in Seq(T)
  OBVIOUS

\* A credential is added: a root of a new task, or one hop below an
\* outstanding one.
LEMMA GrowStep ==
    ASSUME LedgerInv, NEW c, Grant(c) \/ \E s \in outstanding : Delegate(s, c)
    PROVE  LedgerInv'
  <1>1. /\ ledger' = ledger \cup {c} /\ outstanding' = outstanding
        /\ c.exp \in Nat /\ \A d \in ledger : d.jti # c.jti
    BY DEF Grant, Delegate
  <1>2. Names' = Names \cup {c.sub} /\ c.sub \in Names'
    BY <1>1 DEF Names
  <1>3. \A d \in ledger : d.exp \in Nat /\ d.act \in Seq(Names')
    BY <1>2, MoreNames DEF LedgerInv
  <1>4. OutstandingIsHeld'
    BY <1>1 DEF LedgerInv, OutstandingIsHeld
  <1>5. CASE Grant(c)
    <2>1. c.act = <<>> /\ c.delegation_depth = 0
      BY <1>5 DEF Grant
    <2>2. c.act \in Seq(Names')
      BY <2>1
    <2>3. Within(c, c)
      BY <1>1, <2>1, RootWithinItself
    <2>4. WithinItsRoot'
      BY <1>1, <2>3 DEF LedgerInv, WithinItsRoot
    <2>5. OneRoot'
      BY <1>1, <1>5 DEF LedgerInv, OneRoot, Grant
    <2>. QED
      BY <1>1, <1>3, <1>4, <2>2, <2>4, <2>5 DEF LedgerInv
  <1>6. CASE \E s \in outstanding : Delegate(s, c)
    <2>1. PICK s \in outstanding : Delegate(s, c)
      BY <1>6
    <2>2. s \in ledger /\ Derives(s, c) /\ s.sub \in Names'
      BY <1>1, <2>1 DEF LedgerInv, OutstandingIsHeld, Delegate, Names
    <2>3. PICK d \in ledger : Within(s, d)
      BY <2>2 DEF LedgerInv, WithinItsRoot
    <2>4. s.act \in Seq(Names') /\ s.exp \in Nat /\ d.exp \in Nat
      BY <1>3, <2>2, <2>3
    <2>5. c.act \in Seq(Names') /\ c.act # <<>>
      BY <1>2, <2>2, <2>4, SameRoot DEF Derives
    <2>6. Within(c, d)
      BY <1>1, <1>2, <2>2, <2>3, <2>4, HopStaysWithin
    <2>7. WithinItsRoot'
      BY <1>1, <2>3, <2>6 DEF LedgerInv, WithinItsRoot
    <2>8. OneRoot'
      BY <1>1, <2>5 DEF LedgerInv, OneRoot
    <2>. QED
      BY <1>1, <1>3, <1>4, <2>5, <2>7, <2>8 DEF LedgerInv
  <1>. QED
    BY <1>5, <1>6

\* The invariant of the ledger.
THEOREM LedgerInvariance == Spec => []LedgerInv
  <1>1. Init => LedgerInv
    BY DEF Init, LedgerInv, OutstandingIsHeld, WithinItsRoot, OneRoot
  <1>2. LedgerInv /\ [Next]_ledgerVars => LedgerInv'
    <2>. SUFFICES ASSUME LedgerInv, [Next]_ledgerVars PROVE LedgerInv'
      OBVIOUS
    <2>1. ASSUME NEW c, Grant(c) \/ \E s \in outstanding : Delegate(s, c)
          PROVE  LedgerInv'
      BY <2>1, GrowStep
    <2>2. ASSUME NEW c \in ledger \ outstanding, Deliver(c)
          PROVE  LedgerInv'
      BY <2>2 DEF Deliver, LedgerInv, OutstandingIsHeld, WithinItsRoot,
                  OneRoot, Names
    <2>3. CASE UNCHANGED ledgerVars
      BY <2>3 DEF ledgerVars, LedgerInv, OutstandingIsHeld, WithinItsRoot,
                  OneRoot, Names
    <2>. QED
      BY <2>1, <2>2, <2>3 DEF Next
  <1>. QED
    BY <1>1, <1>2, PTL DEF Spec

\* Whoever keeps the ledger keeps every chain of credentials within the root
\* of its task, for any depth (delegation.py:109-125, scopes.py:20-41).
THEOREM LedgerStaysWithinRoots == Spec => []WithinItsRoot
  <1>1. LedgerInv => WithinItsRoot
    BY DEF LedgerInv
  <1>. QED
    BY <1>1, LedgerInvariance, PTL

\* Whoever keeps the ledger can revoke by task, and misses nothing that is
\* outstanding (pipeline.py:85-87).
THEOREM LedgerIsRevocable == Spec => [](OneRoot /\ OutstandingIsHeld)
  <1>1. LedgerInv => OneRoot /\ OutstandingIsHeld
    BY DEF LedgerInv
  <1>. QED
    BY <1>1, LedgerInvariance, PTL

=============================================================================
