---------------------------- MODULE ServerStart ----------------------------
(***************************************************************************)
(* Servers start over one database (src/main.py, src/storage/database.py). *)
(* Each reads its settings, loads its signing key (see KeyStore), brings   *)
(* the schema to the version its build ships, in one transaction, writes   *)
(* the bootstrap client, and serves.                                       *)
(*                                                                         *)
(* Builds differ in how many migrations they ship, as in a rolling         *)
(* deployment: Ships[p] is the newest, and file names sort as numbers do.  *)
(* What a transaction has run is seen by nobody before it commits; a       *)
(* statement that makes what another transaction is making waits for the   *)
(* end of that one, and fails if it is there by then.                      *)
(***************************************************************************)
EXTENDS Discovery, FiniteSets

CONSTANTS
    Servers,
    Ships,              \* the newest migration of each server's build
    Configurations,     \* the settings a server may be started with
    Bootstrap,          \* the client the environment describes
    Rewrites,           \* what the operator may make of it
    None

Migrations == Nat \ {0}

Registration == [status: {"active", "suspended"}, allowed_scopes: SUBSET Scopes]

ASSUME ShipsAssumption == Ships \in [Servers -> Migrations]

ASSUME ConfigurationsAssumption == Configurations \subseteq Settings

ASSUME RowsAssumption ==
    /\ Bootstrap \in Registration /\ Rewrites \subseteq Registration
    /\ None \notin Registration /\ None \notin Configurations
    /\ None \notin Servers

VARIABLES
    pc,         \* how far each server has come
    settings,   \* what each server runs with
    schema,     \* the migrations whose statements have taken effect
    recorded,   \* the rows of schema_version
    versioned,  \* the table schema_version is there
    creator,    \* the server whose transaction is making that table
    applied,    \* what each start has read of schema_version
    ran,        \* what the transaction of each server has run
    lost,       \* what each server was ever too late for, 0 for that table
    row         \* the bootstrap client's row in the clients table

database == <<schema, recorded, versioned, row>>
work == <<creator, applied, ran, lost>>
vars == <<pc, settings, database, work>>

Starting == {"connecting", "queued", "reading", "migrating", "migrated"}

TypeOK ==
    /\ pc \in [Servers -> {"down", "failed", "serving"} \cup Starting]
    /\ settings \in [Servers -> Configurations \cup {None}]
    /\ schema \in SUBSET Migrations
    /\ recorded \in SUBSET Migrations
    /\ versioned \in BOOLEAN
    /\ creator \in Servers \cup {None}
    /\ applied \in [Servers -> SUBSET Migrations]
    /\ ran \in [Servers -> SUBSET Migrations]
    /\ lost \in [Servers -> SUBSET Nat]
    /\ row \in Registration \cup {None}

Init ==
    /\ pc = [p \in Servers |-> "down"]
    /\ settings = [p \in Servers |-> None]
    /\ schema = {} /\ recorded = {} /\ versioned = FALSE
    /\ creator = None
    /\ applied = [p \in Servers |-> {}]
    /\ ran = [p \in Servers |-> {}]
    /\ lost = [p \in Servers |-> {}]
    /\ row = None

Goto(p, there) == pc' = [pc EXCEPT ![p] = there]

\* The end of a transaction, one way or the other.
EndTransaction(p) ==
    /\ creator' = IF creator = p THEN None ELSE creator
    /\ applied' = [applied EXCEPT ![p] = {}]
    /\ ran' = [ran EXCEPT ![p] = {}]

\* A process is gone, and its transaction rolled back.
End(p, there) ==
    /\ Goto(p, there)
    /\ settings' = [settings EXCEPT ![p] = None]
    /\ EndTransaction(p)

-----------------------------------------------------------------------------
(* One start *)

\* settings_from_environment() and build_application(): a process comes up,
\* unless its settings are refused.
Configure(p, s) ==
    /\ pc[p] \in {"down", "failed"}
    /\ Accepted(s)
    /\ Goto(p, "connecting")
    /\ settings' = [settings EXCEPT ![p] = s]
    /\ UNCHANGED <<database, work>>

RefuseSettings(p, s) ==
    /\ pc[p] \in {"down", "failed"}
    /\ ~Accepted(s)
    /\ Goto(p, "failed")
    /\ UNCHANGED <<settings, database, work>>

\* CREATE TABLE IF NOT EXISTS schema_version, where it exists ...
FindVersionTable(p) ==
    /\ pc[p] = "connecting"
    /\ versioned
    /\ Goto(p, "reading")
    /\ UNCHANGED <<settings, database, work>>

\* ... where it does not, and nobody is making it, or no longer ...
CreateVersionTable(p) ==
    /\ pc[p] \in {"connecting", "queued"}
    /\ ~versioned /\ creator = None
    /\ creator' = p
    /\ Goto(p, "reading")
    /\ UNCHANGED <<settings, database, applied, ran, lost>>

\* ... and where somebody is: IF NOT EXISTS looks before it waits.
WaitForVersionTable(p) ==
    /\ pc[p] = "connecting"
    /\ ~versioned /\ creator # None
    /\ Goto(p, "queued")
    /\ UNCHANGED <<settings, database, work>>

\* SELECT name FROM schema_version: what other servers have committed.
ReadVersions(p) ==
    /\ pc[p] = "reading"
    /\ applied' = [applied EXCEPT ![p] = recorded]
    /\ Goto(p, "migrating")
    /\ UNCHANGED <<settings, database, creator, ran, lost>>

\* What this start still has to run.
Pending(p) == (1..Ships[p]) \ (applied[p] \cup ran[p])

\* Mutant: glob() in the order of the directory.
AnyPending(p, m) == m \in Pending(p)

\* sorted(): in filename order.
IsNext(p, m) == m \in Pending(p) /\ \A n \in Pending(p) : m <= n

\* Another transaction holds what migration m makes.
Held(p, m) == \E q \in Servers \ {p} : m \in ran[q]

\* Mutant: each file in a transaction of its own, and its row in another.
RunCommitting(p, m) ==
    /\ pc[p] = "migrating"
    /\ IsNext(p, m) /\ ~Held(p, m) /\ m \notin schema
    /\ ran' = [ran EXCEPT ![p] = @ \cup {m}]
    /\ schema' = schema \cup {m}
    /\ UNCHANGED <<pc, settings, recorded, versioned, row, creator, applied, lost>>

\* The statements of a file, and the row that records it.
RunMigration(p, m) ==
    /\ pc[p] = "migrating"
    /\ IsNext(p, m) /\ ~Held(p, m) /\ m \notin schema
    /\ ran' = [ran EXCEPT ![p] = @ \cup {m}]
    /\ UNCHANGED <<pc, settings, database, creator, applied, lost>>

\* Another server was first: "already exists" ends the start.
TooLate(p, m) ==
    /\ \/ pc[p] = "queued" /\ versioned /\ m = 0
       \/ /\ pc[p] = "migrating"
          /\ IsNext(p, m) /\ ~Held(p, m) /\ m \in schema
    /\ lost' = [lost EXCEPT ![p] = @ \cup {m}]
    /\ End(p, "failed")
    /\ UNCHANGED database

\* Mutant: the rows go in when the server is up.
WriteStatements(p) ==
    /\ schema' = schema \cup ran[p]
    /\ versioned' = TRUE
    /\ UNCHANGED <<recorded, row, lost>>

\* Mutant: nothing is committed before the connection goes back to the pool.
WriteNothing(p) == UNCHANGED <<database, lost>>

\* connection.commit(): the statements and the rows, or neither.
Write(p) ==
    /\ schema' = schema \cup ran[p]
    /\ recorded' = recorded \cup ran[p]
    /\ versioned' = TRUE
    /\ UNCHANGED <<row, lost>>

Commit(p) ==
    /\ pc[p] = "migrating" /\ Pending(p) = {}
    /\ Write(p)
    /\ EndTransaction(p)
    /\ Goto(p, "migrated")
    /\ UNCHANGED settings

\* clients.upsert(_bootstrap_client()), whatever the row was.
UpsertBootstrap(p) ==
    /\ pc[p] = "migrated"
    /\ row' = Bootstrap
    /\ Goto(p, "serving")
    /\ UNCHANGED <<settings, schema, recorded, versioned, work>>

\* Any other exception ends the start: the key store's, the database's, a
\* variable the environment lacks.
Fail(p) ==
    /\ pc[p] \in Starting
    /\ End(p, "failed")
    /\ UNCHANGED <<database, lost>>

\* The commit went through, and its acknowledgement did not.
LoseAcknowledgement(p) ==
    /\ pc[p] = "migrating" /\ Pending(p) = {}
    /\ Write(p)
    /\ End(p, "failed")

\* A process exits, or dies wherever it is.
Exit(p) ==
    /\ pc[p] \in Starting \cup {"serving"}
    /\ End(p, "down")
    /\ UNCHANGED <<database, lost>>

\* The operator suspends or narrows the client, while servers run.
RewriteRow(registration) ==
    /\ row # None
    /\ row' = registration
    /\ UNCHANGED <<pc, settings, schema, recorded, versioned, work>>

-----------------------------------------------------------------------------

\* What the code of a start does next.
Proceed(p) ==
    \/ FindVersionTable(p) \/ CreateVersionTable(p) \/ WaitForVersionTable(p)
    \/ ReadVersions(p)
    \/ \E m \in 0..Ships[p] : RunMigration(p, m) \/ TooLate(p, m)
    \/ Commit(p)
    \/ UpsertBootstrap(p)

Next ==
    \/ \E p \in Servers :
          \/ \E s \in Configurations : Configure(p, s) \/ RefuseSettings(p, s)
          \/ Proceed(p)
          \/ Fail(p) \/ LoseAcknowledgement(p) \/ Exit(p)
    \/ \E registration \in Rewrites : RewriteRow(registration)

Spec == Init /\ [][Next]_vars

\* A start gets on; the database hands a lock to those who wait for it in turn.
FairSpec == Spec /\ \A p \in Servers : SF_vars(Proceed(p))

-----------------------------------------------------------------------------
(* Properties *)

\* database.py:3-5: "applying one records its name", and migrations go in
\* filename order: whoever dies, fails or comes second, what is in effect is
\* on record, and the record has no gap.
SchemaOnRecord ==
    /\ schema = recorded
    /\ \A m \in recorded : 1..m \subseteq recorded

\* A server past its migrations finds every table and column its build was
\* written for, whichever server made them (main.py:53-56).
ServesItsSchema ==
    \A p \in Servers :
        pc[p] \in {"migrated", "serving"} => 1..Ships[p] \subseteq schema

\* Of servers that start together over a database that lacks a migration, all
\* but one fail on it (database.py:34-44).  Started again, a server never
\* comes to what it was too late for before.
RetrySucceeds ==
    \A p \in Servers :
        /\ pc[p] = "queued" => 0 \notin lost[p]
        /\ pc[p] = "migrating" => lost[p] \cap Pending(p) = {}

\* p can go on only when q's transaction has ended: q is making the version
\* table, or has run the migration p is about to run.
WaitsFor(p, q) ==
    \/ pc[p] = "queued" /\ creator = q
    \/ pc[p] = "migrating" /\ \E m \in ran[q] : IsNext(p, m)

\* Servers that start together do wait for one another (database.py:32, 38-44),
\* but never in a circle: in every group there is one that waits for nobody of
\* the group, whatever their builds and whoever has failed before.
NoCircularWait ==
    \A group \in SUBSET Servers :
        group # {} /\ IsFiniteSet(group) =>
            \E p \in group : \A q \in group : ~WaitsFor(p, q)

\* Whoever discovers a server is led to routes it has and told of what is
\* installed, whatever overlay its start accepted and whatever became of its
\* clients: the list config.py enforces covers what metadata.py means and
\* derives (config.py:57-61, metadata.py:8-12 and 49-68).  Of capabilities
\* that are on neither list the code checks nothing, and this says nothing.
AdvertisesWhatItIs ==
    \A p \in Servers :
        pc[p] = "serving" =>
            Describes(Document(settings[p], {row}), settings[p], {row})

\* A transaction that is open, and what its server knows by then.
StartState(p) ==
    /\ pc[p] \in Starting \cup {"serving"} =>
          settings[p] # None /\ Accepted(settings[p])
    /\ pc[p] \in {"reading", "migrating"} => versioned \/ creator = p
    /\ creator = p => pc[p] \in {"reading", "migrating"} /\ ~versioned
    /\ ran[p] # {} => pc[p] = "migrating"
    /\ ran[p] \subseteq (1..Ships[p]) \ schema
    /\ 0 \in lost[p] => versioned /\ pc[p] # "queued"
    /\ lost[p] \ {0} \subseteq recorded
    /\ pc[p] = "migrating" =>
          applied[p] \subseteq recorded /\ lost[p] \ {0} \subseteq applied[p]
    /\ pc[p] = "serving" => row # None

\* What a transaction has run comes before all it has still to run.
RunsInOrder ==
    \A p \in Servers : \A m \in ran[p], n \in Pending(p) : m < n

\* The inductive invariant of the starts.
Inv ==
    /\ TypeOK
    /\ \A p \in Servers : StartState(p)
    /\ \A p, q \in Servers : p # q => ran[p] \cap ran[q] = {}
    /\ RunsInOrder
    /\ SchemaOnRecord
    /\ ServesItsSchema

\* No start waits for ever, not even for another that waits as well: all take
\* the migrations in one order (database.py:38).
EveryStartSettles ==
    \A p \in Servers : pc[p] \in Starting ~> pc[p] \notin Starting

\* What other clients of the database see of all this.
Version == INSTANCE SchemaVersion WITH Builds <- {Ships[p] : p \in Servers}

VersionSpec == Version!Spec

\* main.py:34-35: "The stored row is the source of truth. These variables only
\* decide what to write the first time".
BootstrapOnlySeeds ==
    [][row # None /\ row' # row
        => \E registration \in Rewrites : RewriteRow(registration)]_vars

=============================================================================
