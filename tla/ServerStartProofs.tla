------------------------- MODULE ServerStartProofs -------------------------
(***************************************************************************)
(* However many servers of whichever builds start over one database, and   *)
(* wherever they fail: the schema only ever stands at a version, on        *)
(* record, and the servers that serve find what they need.                 *)
(***************************************************************************)
EXTENDS ServerStart, TLAPS, FiniteSetTheorems, WellFoundedInduction

\* Nothing is there before the first start.
LEMMA InitInv == Init => Inv
<1> SUFFICES ASSUME Init
             PROVE  Inv
  OBVIOUS
<1> USE RowsAssumption DEF Init
<1>1. TypeOK
  <2>1. versioned \in BOOLEAN
    BY Zenon
  <2>2. /\ pc \in [Servers -> {"down", "failed", "serving"} \cup Starting]
        /\ settings \in [Servers -> Configurations \cup {None}]
        /\ schema \in SUBSET Migrations /\ recorded \in SUBSET Migrations
        /\ creator \in Servers \cup {None}
        /\ applied \in [Servers -> SUBSET Migrations]
        /\ ran \in [Servers -> SUBSET Migrations]
        /\ lost \in [Servers -> SUBSET Nat]
        /\ row \in Registration \cup {None}
    OBVIOUS
  <2> QED
    BY <2>1, <2>2 DEF TypeOK
<1>2. \A p \in Servers : StartState(p)
  BY DEF StartState, Starting
<1>3. (\A p, q \in Servers : p # q => ran[p] \cap ran[q] = {})
      /\ RunsInOrder /\ SchemaOnRecord /\ ServesItsSchema
  BY DEF RunsInOrder, SchemaOnRecord, ServesItsSchema
<1> QED
  BY <1>1, <1>2, <1>3 DEF Inv

\* What all steps of one server have in common: the others are left alone.
LEMMA OthersStay ==
    ASSUME Inv, NEW p \in Servers,
           \/ \E s \in Configurations : Configure(p, s) \/ RefuseSettings(p, s)
           \/ Proceed(p) \/ Fail(p) \/ LoseAcknowledgement(p) \/ Exit(p)
    PROVE  \A q \in Servers \ {p} :
              /\ pc'[q] = pc[q] /\ settings'[q] = settings[q]
              /\ applied'[q] = applied[q] /\ ran'[q] = ran[q] /\ lost'[q] = lost[q]
              /\ (creator' = q) <=> (creator = q)
<1> USE RowsAssumption
    DEF Inv, TypeOK, Goto, End, EndTransaction, Write, database, work
<1>1. CASE Proceed(p)
  <2>1. CASE \E m \in 0..Ships[p] : RunMigration(p, m) \/ TooLate(p, m)
    BY <2>1 DEF RunMigration, TooLate
  <2>2. CASE CreateVersionTable(p)
    BY <2>2 DEF CreateVersionTable
  <2> QED
    BY <1>1, <2>1, <2>2
       DEF Proceed, FindVersionTable, WaitForVersionTable, ReadVersions, Commit,
           UpsertBootstrap
<1> QED
  BY <1>1 DEF Configure, RefuseSettings, Fail, LoseAcknowledgement, Exit


\* A server another one leaves alone stays as it was, as long as the database
\* only grows, and not by what this server has in hand.
LEMMA OthersKeep ==
    ASSUME Inv, NEW p \in Servers, NEW q \in Servers \ {p},
           /\ pc'[q] = pc[q] /\ settings'[q] = settings[q]
           /\ applied'[q] = applied[q] /\ ran'[q] = ran[q] /\ lost'[q] = lost[q]
           /\ (creator' = q) <=> (creator = q),
           recorded \subseteq recorded',
           versioned => versioned', creator = q => versioned' = versioned,
           row # None => row' # None,
           ran[q] \cap schema' = {}
    PROVE  StartState(q)'
BY DEF Inv, StartState

\* A step that leaves the tables alone and gives its server no more to run.
LEMMA TablesStay ==
    ASSUME Inv, UNCHANGED <<schema, recorded>>,
           \A p \in Servers : /\ ran'[p] \subseteq ran[p]
                              /\ pc'[p] \in {"migrated", "serving"} =>
                                    pc[p] \in {"migrated", "serving"}
    PROVE  /\ (\A p, q \in Servers : p # q => ran[p] \cap ran[q] = {})'
           /\ SchemaOnRecord' /\ ServesItsSchema'
BY DEF Inv, SchemaOnRecord, ServesItsSchema

\* A transaction that begins, ends, or stays where it is keeps its order.
LEMMA OrderStays ==
    ASSUME Inv,
           \A p \in Servers :
              ran'[p] = {} \/ (ran'[p] = ran[p] /\ applied'[p] = applied[p])
    PROVE  RunsInOrder'
BY DEF Inv, RunsInOrder, Pending

\* Up to the first migration, a start looks and touches nothing.
LEMMA OpenStep ==
    ASSUME Inv, NEW p \in Servers,
           \/ \E s \in Configurations : Configure(p, s) \/ RefuseSettings(p, s)
           \/ FindVersionTable(p) \/ CreateVersionTable(p)
           \/ WaitForVersionTable(p) \/ ReadVersions(p)
    PROVE  Inv'
<1> USE RowsAssumption, ShipsAssumption
    DEF Configure, RefuseSettings, FindVersionTable, CreateVersionTable,
        WaitForVersionTable, ReadVersions, Goto, database, work
<1>1. UNCHANGED <<database, ran, lost>>
  OBVIOUS
<1>2. TypeOK'
  <2>1. /\ pc' \in [Servers -> {"down", "failed", "serving"} \cup Starting]
        /\ settings' \in [Servers -> Configurations \cup {None}]
    BY DEF Inv, TypeOK, Starting
  <2>2. creator' \in Servers \cup {None} /\ applied' \in [Servers -> SUBSET Migrations]
    BY DEF Inv, TypeOK
  <2> QED
    BY <1>1, <2>1, <2>2 DEF Inv, TypeOK
<1>3. \A q \in Servers \ {p} : StartState(q)'
  BY <1>1, OthersStay, OthersKeep DEF Proceed, Inv, StartState
<1>4. StartState(p)'
  BY <1>1 DEF Inv, TypeOK, StartState, Starting
<1>5. \A q \in Servers : pc'[q] \in {"migrated", "serving"} => pc[q] = pc'[q]
  BY DEF Inv, TypeOK
<1>6. RunsInOrder'
  <2>1. applied' = applied \/ (ReadVersions(p) /\ ran[p] = {})
    BY DEF Inv, StartState
  <2>2. \A q \in Servers :
          ran'[q] = {} \/ (ran'[q] = ran[q] /\ applied'[q] = applied[q])
    BY <1>1, <2>1 DEF Inv, TypeOK
  <2> QED
    BY <2>2, OrderStays, Zenon
<1> QED
  BY <1>1, <1>2, <1>3, <1>4, <1>5, <1>6, TablesStay DEF Inv, database

\* A migration is run where nobody has it, committed or not.
LEMMA RunStep ==
    ASSUME Inv, NEW p \in Servers, NEW m \in 0..Ships[p], RunMigration(p, m)
    PROVE  Inv'
<1> USE ShipsAssumption DEF RunMigration, IsNext, Pending, Held, database
<1>1. /\ m \in (1..Ships[p]) \ schema /\ m \in Migrations
      /\ ran' = [ran EXCEPT ![p] = @ \cup {m}]
      /\ UNCHANGED <<pc, settings, database, creator, applied, lost>>
  BY DEF Migrations
<1>2. TypeOK'
  BY <1>1 DEF Inv, TypeOK
<1>3. \A q \in Servers \ {p} : StartState(q)'
  BY <1>1 DEF Inv, TypeOK, StartState
<1>4. StartState(p)'
  BY <1>1 DEF Inv, TypeOK, StartState
<1>5. (\A r, q \in Servers : r # q => ran[r] \cap ran[q] = {})'
  BY <1>1 DEF Inv, TypeOK
<1>6. RunsInOrder'
  <2>1. /\ \A n \in Pending(p)' : n \in Pending(p) /\ n # m /\ m <= n
        /\ \A k \in ran'[p] : k \in ran[p] \/ k = m
        /\ m \in Nat /\ \A n \in Pending(p) : n \in Nat
    BY <1>1 DEF Inv, TypeOK
  <2>2. \A k \in ran'[p], n \in Pending(p)' : k < n
    BY <2>1 DEF Inv, RunsInOrder
  <2>3. \A q \in Servers \ {p} : ran'[q] = ran[q] /\ Pending(q)' = Pending(q)
    BY <1>1 DEF Inv, TypeOK
  <2>4. RunsInOrder
    BY DEF Inv
  <2> HIDE DEF Pending, RunMigration, IsNext, Held, database
  <2> QED
    BY <2>2, <2>3, <2>4, Zenon DEF RunsInOrder
<1> QED
  BY <1>1, <1>2, <1>3, <1>4, <1>5, <1>6 DEF Inv, SchemaOnRecord, ServesItsSchema

\* A start that ends without a commit leaves nothing behind but what it was too
\* late for, and that is on record.
LEMMA EndStep ==
    ASSUME Inv, NEW p \in Servers,
           \/ \E m \in 0..Ships[p] : TooLate(p, m)
           \/ Fail(p) \/ Exit(p)
    PROVE  Inv'
<1>1. /\ UNCHANGED database
      /\ \E there \in {"down", "failed"} : End(p, there)
  BY DEF TooLate, Fail, Exit
<1>2. /\ pc'[p] \in {"down", "failed"} /\ settings'[p] = None
      /\ applied'[p] = {} /\ ran'[p] = {} /\ creator' # p
  BY <1>1, RowsAssumption DEF End, EndTransaction, Goto, Inv, TypeOK
<1>3. /\ lost' \in [Servers -> SUBSET Nat]
      /\ 0 \in lost'[p] => versioned
      /\ lost'[p] \ {0} \subseteq recorded
  <2>1. CASE lost' = lost
    BY <2>1 DEF Inv, TypeOK, StartState
  <2>2. ASSUME NEW m \in 0..Ships[p], TooLate(p, m)
        PROVE  <1>3
    BY <2>2, ShipsAssumption
       DEF TooLate, IsNext, Pending, Inv, TypeOK, StartState, SchemaOnRecord, Migrations
  <2> QED
    BY <2>1, <2>2 DEF Fail, Exit
<1>4. TypeOK'
  <2>1. /\ pc' \in [Servers -> {"down", "failed", "serving"} \cup Starting]
        /\ settings' \in [Servers -> Configurations \cup {None}]
        /\ creator' \in Servers \cup {None}
        /\ applied' \in [Servers -> SUBSET Migrations]
        /\ ran' \in [Servers -> SUBSET Migrations]
    BY <1>1 DEF End, EndTransaction, Goto, Inv, TypeOK
  <2> QED
    BY <1>1, <1>3, <2>1 DEF Inv, TypeOK, database
<1>5. /\ \A q \in Servers \ {p} : /\ pc'[q] = pc[q] /\ ran'[q] = ran[q]
                                   /\ StartState(q)'
  BY <1>1, OthersStay, OthersKeep DEF Proceed, Inv, StartState, database
<1>6. StartState(p)'
  BY <1>1, <1>2, <1>3 DEF StartState, Starting, database
<1>7. RunsInOrder'
  BY <1>2, OthersStay, OrderStays DEF Proceed
<1> QED
  BY <1>1, <1>2, <1>4, <1>5, <1>6, <1>7, TablesStay DEF Inv, database

\* A commit completes a version: what this build ships and was not there, this
\* transaction has run, and nobody else.
LEMMA CommitStep ==
    ASSUME Inv, NEW p \in Servers, Commit(p) \/ LoseAcknowledgement(p)
    PROVE  /\ Inv'
           /\ schema' = schema \cup 1..Ships[p]
           /\ recorded' = recorded \cup 1..Ships[p]
<1>1. /\ pc[p] = "migrating" /\ Pending(p) = {}
      /\ Write(p) /\ EndTransaction(p)
      /\ pc'[p] \in {"migrated", "failed"}
      /\ pc' \in [Servers -> {"down", "failed", "serving"} \cup Starting]
      /\ settings' \in [Servers -> Configurations \cup {None}]
      /\ pc'[p] = "migrated" => settings' = settings
  BY DEF Commit, LoseAcknowledgement, End, Goto, Inv, TypeOK, Starting
<1>2. 1..Ships[p] \subseteq applied[p] \cup ran[p]
  BY <1>1 DEF Pending
<1>3. applied[p] \subseteq recorded /\ ran[p] \subseteq 1..Ships[p] /\ schema = recorded
  BY <1>1 DEF Inv, StartState, SchemaOnRecord
<1>4. /\ schema' = schema \cup 1..Ships[p]
      /\ recorded' = recorded \cup 1..Ships[p]
      /\ schema' = schema \cup ran[p]
      /\ versioned' = TRUE /\ UNCHANGED <<row, lost>>
  BY <1>1, <1>2, <1>3 DEF Write
<1>5. /\ applied'[p] = {} /\ ran'[p] = {} /\ creator' # p
      /\ creator' \in Servers \cup {None}
      /\ applied' \in [Servers -> SUBSET Migrations]
      /\ ran' \in [Servers -> SUBSET Migrations]
  BY <1>1, RowsAssumption DEF EndTransaction, Inv, TypeOK
<1>6. TypeOK'
  <2>1. versioned' \in BOOLEAN
    BY <1>4, Zenon
  <2>2. 1..Ships[p] \subseteq Migrations
    BY ShipsAssumption DEF Migrations
  <2>3. /\ schema' \in SUBSET Migrations /\ recorded' \in SUBSET Migrations
        /\ lost' \in [Servers -> SUBSET Nat] /\ row' \in Registration \cup {None}
    BY <1>4, <2>2 DEF Inv, TypeOK
  <2> QED
    BY <1>1, <1>5, <2>1, <2>3, Zenon DEF TypeOK
<1>7. \A q \in Servers \ {p} : /\ pc'[q] = pc[q] /\ ran'[q] = ran[q]
                               /\ StartState(q)'
  <2> TAKE q \in Servers \ {p}
  <2>1. /\ pc'[q] = pc[q] /\ settings'[q] = settings[q]
        /\ applied'[q] = applied[q] /\ ran'[q] = ran[q] /\ lost'[q] = lost[q]
        /\ (creator' = q) <=> (creator = q)
    BY OthersStay DEF Proceed
  <2>2. creator # q
    BY <1>1, RowsAssumption DEF Inv, StartState
  <2>3. ran[q] \cap schema' = {}
    BY <1>4 DEF Inv, StartState
  <2> QED
    BY <1>4, <2>1, <2>2, <2>3, OthersKeep
<1>8. StartState(p)'
  BY <1>1, <1>4, <1>5 DEF Inv, StartState, Starting
<1>9. (\A r, q \in Servers : r # q => ran[r] \cap ran[q] = {})'
  BY <1>5, <1>7 DEF Inv
<1>10. SchemaOnRecord'
  <2>1. \A m \in 1..Ships[p] : 1..m \subseteq 1..Ships[p]
    BY ShipsAssumption DEF Migrations
  <2> QED
    BY <1>4, <2>1 DEF Inv, SchemaOnRecord
<1>11. ServesItsSchema'
  BY <1>1, <1>4, <1>7 DEF Inv, ServesItsSchema
<1>12. RunsInOrder'
  BY <1>5, OthersStay, OrderStays DEF Proceed
<1> QED
  BY <1>4, <1>6, <1>7, <1>8, <1>9, <1>10, <1>11, <1>12 DEF Inv

\* The bootstrap client's row matters to no migration.
LEMMA RowStep ==
    ASSUME Inv,
           \/ \E p \in Servers : UpsertBootstrap(p)
           \/ \E registration \in Rewrites : RewriteRow(registration)
           \/ UNCHANGED vars
    PROVE  Inv'
<1> USE DEF work, database, vars
<1>0. row' \in Registration \cup {None} /\ (row # None => row' # None)
  BY RowsAssumption DEF UpsertBootstrap, RewriteRow, Inv, TypeOK
<1>1. UNCHANGED <<settings, schema, recorded, versioned, work>>
  BY DEF UpsertBootstrap, RewriteRow
<1>2. /\ pc' \in [Servers -> {"down", "failed", "serving"} \cup Starting]
      /\ \A q \in Servers : \/ pc'[q] = pc[q]
                            \/ /\ pc[q] = "migrated" /\ pc'[q] = "serving"
                               /\ row' # None
  BY RowsAssumption DEF UpsertBootstrap, RewriteRow, Goto, Inv, TypeOK
<1>3. TypeOK'
  <2>1. versioned' \in BOOLEAN
    BY <1>1, Zenon DEF Inv, TypeOK
  <2>2. /\ settings' \in [Servers -> Configurations \cup {None}]
        /\ schema' \in SUBSET Migrations /\ recorded' \in SUBSET Migrations
        /\ creator' \in Servers \cup {None}
        /\ applied' \in [Servers -> SUBSET Migrations]
        /\ ran' \in [Servers -> SUBSET Migrations]
        /\ lost' \in [Servers -> SUBSET Nat]
    BY <1>1 DEF Inv, TypeOK
  <2>3. row' \in Registration \cup {None}
    BY <1>0
  <2>4. pc' \in [Servers -> {"down", "failed", "serving"} \cup Starting]
    BY <1>2, Zenon
  <2> QED
    BY <2>1, <2>2, <2>3, <2>4, Zenon DEF TypeOK
<1>4. \A q \in Servers : StartState(q)'
  BY <1>0, <1>1, <1>2 DEF Inv, StartState, Starting
<1>5. RunsInOrder'
  BY <1>1, OrderStays
<1> QED
  BY <1>1, <1>2, <1>3, <1>4, <1>5, TablesStay DEF Inv

\* Every step preserves the invariant.
LEMMA NextInv == Inv /\ [Next]_vars => Inv'
<1> SUFFICES ASSUME Inv, [Next]_vars
             PROVE  Inv'
  OBVIOUS
<1>1. CASE \E p \in Servers : Proceed(p)
  BY <1>1, OpenStep, RunStep, EndStep, CommitStep, RowStep DEF Proceed
<1>2. CASE \E p \in Servers : \/ \E s \in Configurations :
                                    Configure(p, s) \/ RefuseSettings(p, s)
                              \/ Fail(p) \/ LoseAcknowledgement(p) \/ Exit(p)
  BY <1>2, OpenStep, EndStep, CommitStep
<1> QED
  BY <1>1, <1>2, RowStep DEF Next

-----------------------------------------------------------------------------

\* The invariant of the starts, wherever any of them fails.
THEOREM Invariance == Spec => []Inv
<1> QED
  BY InitInv, NextInv, PTL DEF Spec

\* What is in effect is on record, without a gap (database.py:3-5).
THEOREM NothingUnrecorded == Spec => []SchemaOnRecord
<1>1. Inv => SchemaOnRecord
  BY DEF Inv
<1> QED
  BY <1>1, Invariance, PTL

\* A server past its migrations has the schema its build ships, and keeps it
\* (main.py:53-56).
THEOREM SchemaIsThere == Spec => []ServesItsSchema
<1>1. Inv => ServesItsSchema
  BY DEF Inv
<1> QED
  BY <1>1, Invariance, PTL

\* A server that was too late for something never is again (database.py:34-44).
THEOREM TooLateOnce == Spec => []RetrySucceeds
<1>1. Inv => RetrySucceeds
  <2> SUFFICES ASSUME Inv, NEW p \in Servers
               PROVE  /\ pc[p] = "queued" => 0 \notin lost[p]
                      /\ pc[p] = "migrating" => lost[p] \cap Pending(p) = {}
    BY DEF RetrySucceeds
  <2>1. ASSUME pc[p] = "migrating"
        PROVE  lost[p] \cap Pending(p) = {}
    BY <2>1 DEF Inv, StartState, Pending
  <2>2. pc[p] = "queued" => 0 \notin lost[p]
    BY DEF Inv, StartState
  <2> QED
    BY <2>1, <2>2
<1> QED
  BY <1>1, Invariance, PTL

\* A server that waits for another of the group to end a transaction has its
\* next migration before that one's: what a transaction has run comes first.
LEMMA WaitsGoUp ==
    ASSUME Inv, NEW p \in Servers, NEW q \in Servers,
           NEW m \in ran[q], IsNext(p, m), NEW n, IsNext(q, n)
    PROVE  m < n
BY DEF Inv, RunsInOrder, IsNext

\* The next migration of a server is one migration.
LEMMA NextIsOne ==
    ASSUME NEW p \in Servers, NEW m, NEW n, IsNext(p, m), IsNext(p, n)
    PROVE  m = n /\ m \in Nat
BY ShipsAssumption DEF IsNext, Pending, Migrations

\* Nobody waits while it makes the version table: nobody else has got as far
\* as a migration.
LEMMA CreatorGoesOn ==
    ASSUME Inv, NEW c \in Servers, creator = c, NEW q \in Servers
    PROVE  ~WaitsFor(c, q)
<1>1. pc[c] \in {"reading", "migrating"} /\ ~versioned
  BY DEF Inv, StartState
<1>2. q # c => ran[q] = {}
  BY <1>1 DEF Inv, StartState
<1>3. \A m \in ran[c] : ~IsNext(c, m)
  BY DEF IsNext, Pending
<1> QED
  BY <1>1, <1>2, <1>3 DEF WaitsFor

\* Starts never wait in a circle (database.py:32, 38-44).  Of the servers of a
\* group take one whose set of servers with a later next migration is as small
\* as can be: whoever it waits for has a smaller one.
THEOREM NobodyWaitsInACircle == Spec => []NoCircularWait
<1>1. Inv => NoCircularWait
  <2> SUFFICES ASSUME Inv, NEW group \in SUBSET Servers,
                      group # {}, IsFiniteSet(group),
                      \A p \in group : \E q \in group : WaitsFor(p, q)
               PROVE  FALSE
    BY DEF NoCircularWait
  <2>1. \A p \in group : \E q \in group : \E m \in ran[q] : IsNext(p, m)
    <3>1. \A p, q \in group : creator # q
      BY CreatorGoesOn
    <3> QED
      BY <3>1 DEF WaitsFor
  <2> DEFINE Later(p) == {q \in group : \E m, n : /\ IsNext(p, m) /\ IsNext(q, n)
                                                /\ m < n}
             sizes == {Later(p) : p \in group}
  <2>2. sizes \subseteq FiniteSubsetsOf(group) /\ sizes # {}
    <3>1. \A p \in group : Later(p) \in SUBSET group
      OBVIOUS
    <3> HIDE DEF Later
    <3> QED
      BY <3>1, FS_FiniteSubsetsOfFinite
  <2> HIDE DEF sizes
  <2>3. PICK s \in sizes :
           \A t \in sizes : ~(<<t, s>> \in StrictSubsetOrdering(group))
    <3>1. IsWellFoundedOn(StrictSubsetOrdering(group), FiniteSubsetsOf(group))
      BY FS_StrictSubsetOrderingWellFounded
    <3> QED
      BY <2>2, <3>1, WFMin
  <2>4. PICK p \in group : s = Later(p)
    BY DEF sizes
  <2>5. PICK q \in group : \E m \in ran[q] : IsNext(p, m)
    BY <2>1
  <2>6. PICK m \in ran[q] : IsNext(p, m)
    BY <2>5
  <2>7. PICK n : IsNext(q, n)
    BY <2>1
  <2>8. m < n /\ m \in Nat /\ n \in Nat
    BY <2>6, <2>7, WaitsGoUp, NextIsOne
  <2>9. q \in Later(p)
    BY <2>6, <2>7, <2>8
  <2>10. q \notin Later(q)
    BY NextIsOne
  <2>11. Later(q) \subseteq Later(p)
    <3> SUFFICES ASSUME NEW r \in Later(q)
                 PROVE  r \in Later(p)
      OBVIOUS
    <3>1. PICK k, o : IsNext(q, k) /\ IsNext(r, o) /\ k < o
      OBVIOUS
    <3>2. k = n /\ o \in Nat
      BY <2>7, <3>1, NextIsOne
    <3>3. m < o
      BY <2>8, <3>1, <3>2
    <3> QED
      BY <2>6, <3>1, <3>3
  <2> HIDE DEF Later
  <2>12. <<Later(q), Later(p)>> \in StrictSubsetOrdering(group)
    <3>1. Later(p) \in SUBSET group /\ Later(q) \in SUBSET group
      BY DEF Later
    <3> QED
      BY <2>9, <2>10, <2>11, <3>1 DEF StrictSubsetOrdering
  <2> QED
    BY <2>3, <2>4, <2>12 DEF sizes
<1> QED
  BY <1>1, Invariance, PTL

\* To everybody else the schema goes from version to version in single steps:
\* a commit brings it to the version of the build that made it, and nothing
\* else touches it (database.py:30-46).
THEOREM ImplementsVersions == Spec => VersionSpec
<1>1. Init => Version!Init
  BY DEF Init, Version!Init
<1>2. Inv /\ [Next]_vars => [Version!Next]_(Version!versionVars)
  <2> SUFFICES ASSUME Inv, [Next]_vars
               PROVE  Version!Next \/ UNCHANGED <<schema, recorded>>
    BY DEF Version!versionVars
  <2>1. CASE \E p \in Servers : Commit(p) \/ LoseAcknowledgement(p)
    <3>1. PICK p \in Servers : Commit(p) \/ LoseAcknowledgement(p)
      BY <2>1
    <3>2. /\ schema' = schema \cup 1..Ships[p]
          /\ recorded' = recorded \cup 1..Ships[p]
          /\ schema = recorded
      BY <3>1, CommitStep DEF Inv, SchemaOnRecord
    <3>3. CASE 1..Ships[p] \subseteq schema
      BY <3>2, <3>3
    <3>4. CASE ~(1..Ships[p] \subseteq schema)
      BY <3>2, <3>4 DEF Version!Next, Version!Upgrade
    <3> QED
      BY <3>3, <3>4
  <2>2. CASE ~ \E p \in Servers : Commit(p) \/ LoseAcknowledgement(p)
    BY <2>2
       DEF Next, Configure, RefuseSettings, Proceed, FindVersionTable,
           CreateVersionTable, WaitForVersionTable, ReadVersions, RunMigration,
           TooLate, UpsertBootstrap, Fail, Exit, RewriteRow, database, vars
  <2> QED
    BY <2>1, <2>2
<1> QED
  BY <1>1, <1>2, Invariance, PTL DEF Spec, VersionSpec, Version!Spec

=============================================================================
