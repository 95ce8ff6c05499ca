------------------------------ MODULE KeyStore ------------------------------
(***************************************************************************)
(* KeyStore.load_or_create (src/crypto/keys.py): several server processes  *)
(* start over one key directory, and the one that finds no key creates it. *)
(*                                                                         *)
(* Each start generates, if it has to, a key nobody else has; the key is   *)
(* named by the start.  It writes the key to a temporary file and links    *)
(* that file, atomically and only if the name is free, to the name every   *)
(* process loads from.  A file is known by the key it was written for, and *)
(* what matters of its content is whether the PEM is all there and whether *)
(* it has reached the disk.                                                *)
(*                                                                         *)
(* A process may die between any two calls.  PowerSpec adds the machine    *)
(* losing power: what was not flushed may be lost, the content of a file   *)
(* and the name of a file alike.                                           *)
(***************************************************************************)
EXTENDS Naturals, FiniteSets

CONSTANTS
    Starters,
    MaxStarts,  \* bound on the starts of all processes together
    None

ASSUME StartsAssumption == MaxStarts \in Nat /\ None \notin 1..MaxStarts

Keys == 1..MaxStarts

VARIABLES
    starts,     \* how many times a process was started
    pc,         \* how far each process has come
    run,        \* the start each process is in
    key,        \* the key each process holds
    content,    \* the content of the file written for each key
    temporary,  \* the keys whose file still has its temporary name
    published,  \* the key whose file has the name everybody loads from
    durable     \* that name has reached the disk

vars == <<starts, pc, run, key, content, temporary, published, durable>>

TypeOK ==
    /\ starts \in 0..MaxStarts
    /\ pc \in [Starters -> {"stopped", "starting", "absent", "temporary",
                            "written", "synced", "lost", "done", "broken",
                            "serving", "failed", "unclean"}]
    /\ run \in [Starters -> 0..MaxStarts]
    /\ key \in [Starters -> Keys \cup {None}]
    /\ content \in [Keys -> {"empty", "cached", "synced"}]
    /\ temporary \in SUBSET Keys
    /\ published \in Keys \cup {None}
    /\ durable \in BOOLEAN

Init ==
    /\ starts = 0
    /\ pc = [p \in Starters |-> "stopped"]
    /\ run = [p \in Starters |-> 0]
    /\ key = [p \in Starters |-> None]
    /\ content = [k \in Keys |-> "empty"]
    /\ temporary = {}
    /\ published = None
    /\ durable = FALSE

files == <<content, temporary, published, durable>>

Goto(p, there) == pc' = [pc EXCEPT ![p] = there]

-----------------------------------------------------------------------------

\* A process comes up over the key directory.
Start(p) ==
    /\ pc[p] = "stopped"
    /\ starts < MaxStarts
    /\ starts' = starts + 1
    /\ run' = [run EXCEPT ![p] = starts + 1]
    /\ Goto(p, "starting")
    /\ UNCHANGED <<key, files>>

\* _load_private_key(): the published file holds a key if all of its PEM is
\* there, and nothing parses otherwise.
Load(p, found, otherwise) ==
    /\ published # None
    /\ IF content[published] = "empty"
       THEN Goto(p, otherwise) /\ UNCHANGED key
       ELSE Goto(p, found) /\ key' = [key EXCEPT ![p] = published]
    /\ UNCHANGED <<starts, run, files>>

LoadExisting(p) == pc[p] = "starting" /\ Load(p, "serving", "failed")

\* FileNotFoundError: this may be the first start.
FindNone(p) ==
    /\ pc[p] = "starting"
    /\ published = None
    /\ Goto(p, "absent")
    /\ UNCHANGED <<starts, run, key, files>>

\* A key is generated and mkstemp() makes the file that is to hold it.
CreateTemporary(p) ==
    /\ pc[p] = "absent"
    /\ temporary' = temporary \cup {run[p]}
    /\ Goto(p, "temporary")
    /\ UNCHANGED <<starts, run, key, content, published, durable>>

WriteKey(p) ==
    /\ pc[p] = "temporary"
    /\ content' = [content EXCEPT ![run[p]] = "cached"]
    /\ Goto(p, "written")
    /\ UNCHANGED <<starts, run, key, temporary, published, durable>>

\* os.fsync()
SyncKey(p) ==
    /\ pc[p] = "written"
    /\ content' = [content EXCEPT ![run[p]] = "synced"]
    /\ Goto(p, "synced")
    /\ UNCHANGED <<starts, run, key, temporary, published, durable>>

\* Mutant: the file is renamed over whatever has the name.
ReplaceKey(p) ==
    /\ pc[p] = "synced"
    /\ published' = run[p] /\ durable' = FALSE
    /\ key' = [key EXCEPT ![p] = run[p]]
    /\ Goto(p, "done")
    /\ UNCHANGED <<starts, run, content, temporary>>

\* Mutant: the key is published before it is flushed.
LinkUnsynced(p) ==
    /\ pc[p] \in {"written", "synced"}
    /\ published = None
    /\ published' = run[p] /\ durable' = FALSE
    /\ key' = [key EXCEPT ![p] = run[p]]
    /\ Goto(p, "done")
    /\ UNCHANGED <<starts, run, content, temporary>>

\* os.link(): publish if absent.
LinkKey(p) ==
    /\ pc[p] = "synced"
    /\ published = None
    /\ published' = run[p] /\ durable' = FALSE
    /\ key' = [key EXCEPT ![p] = run[p]]
    /\ Goto(p, "done")
    /\ UNCHANGED <<starts, run, content, temporary>>

\* Mutant: the loser tries to link again.
RetryLink(p) == pc[p] = "synced" /\ published # None /\ UNCHANGED vars

\* FileExistsError: another process was first.
LoseLink(p) ==
    /\ pc[p] = "synced"
    /\ published # None
    /\ Goto(p, "lost")
    /\ UNCHANGED <<starts, run, key, files>>

\* Mutant: the loser keeps the key it generated.
KeepOwnKey(p) ==
    /\ pc[p] = "lost"
    /\ key' = [key EXCEPT ![p] = run[p]]
    /\ Goto(p, "done")
    /\ UNCHANGED <<starts, run, files>>

LoadWinner(p) == pc[p] = "lost" /\ Load(p, "done", "broken")

\* Any other OSError ends the start; once the temporary file is there, only
\* after the clean-up, unless it is the clean-up that fails.
CallFails(p) ==
    /\ \/ pc[p] \in {"starting", "absent"} /\ Goto(p, "failed")
       \/ /\ pc[p] \in {"temporary", "written", "synced", "lost"}
          /\ Goto(p, "broken")
       \/ pc[p] \in {"done", "broken"} /\ Goto(p, "unclean")
    /\ key' = [key EXCEPT ![p] = None]
    /\ UNCHANGED <<starts, run, files>>

\* Mutant: the clean-up is the last statement, not the finally clause.
UnlinkAtTheEnd(p) ==
    /\ pc[p] \in {"done", "broken"}
    /\ temporary' = IF pc[p] = "done" THEN temporary \ {run[p]} ELSE temporary
    /\ Goto(p, IF pc[p] = "done" THEN "serving" ELSE "failed")
    /\ UNCHANGED <<starts, run, key, content, published, durable>>

\* The finally clause, whatever happened.
UnlinkTemporary(p) ==
    /\ pc[p] \in {"done", "broken"}
    /\ temporary' = temporary \ {run[p]}
    /\ Goto(p, IF pc[p] = "done" THEN "serving" ELSE "failed")
    /\ UNCHANGED <<starts, run, key, content, published, durable>>

\* A process exits or dies, wherever it is.
Die(p) ==
    /\ pc[p] # "stopped"
    /\ Goto(p, "stopped")
    /\ key' = [key EXCEPT ![p] = None]
    /\ UNCHANGED <<starts, run, files>>

-----------------------------------------------------------------------------

LoadOrCreate(p) ==
    \/ LoadExisting(p) \/ FindNone(p)
    \/ CreateTemporary(p) \/ WriteKey(p) \/ SyncKey(p)
    \/ LinkKey(p) \/ LoseLink(p) \/ LoadWinner(p)
    \/ UnlinkTemporary(p)

Next == \E p \in Starters : Start(p) \/ LoadOrCreate(p) \/ CallFails(p) \/ Die(p)

Spec == Init /\ [][Next]_vars

\* The system writes the directory back in its own time.
Writeback ==
    /\ published # None /\ ~durable
    /\ durable' = TRUE
    /\ UNCHANGED <<starts, pc, run, key, content, temporary, published>>

\* Every process is gone; what was not flushed may be, too.  The temporary
\* names left matter to no later start: mkstemp() takes a new one.
PowerLoss ==
    /\ pc' = [p \in Starters |-> "stopped"]
    /\ key' = [p \in Starters |-> None]
    /\ \E lost \in SUBSET {k \in Keys : content[k] = "cached"} :
          content' = [k \in Keys |->
                        IF k \in lost THEN "empty" ELSE content[k]]
    /\ published' \in IF durable THEN {published} ELSE {published, None}
    /\ durable' = (published' # None)
    /\ UNCHANGED <<starts, run, temporary>>

PowerSpec == Init /\ [][Next \/ Writeback \/ PowerLoss]_vars

\* A process that is running gets on with its start.
FairSpec == PowerSpec /\ \A p \in Starters : WF_vars(LoadOrCreate(p))

-----------------------------------------------------------------------------
(* Properties *)

\* Whoever serves, serves with the key every later start will load
\* (keys.py:134-137): two processes never publish different keys.
ServesPublishedKey ==
    \A p \in Starters : pc[p] = "serving" => key[p] = published /\ key[p] # None

\* keys.py:75-77: a starter "can never observe a half-written key", not even
\* after the machine lost power in the middle of the first start.
NeverHalfWritten == published # None => content[published] = "synced"

\* A start that won the race, lost it, or failed anywhere on the way has left no
\* private key behind under a temporary name, unless it was cut off or the
\* removal itself failed (keys.py:126-141).
CleansUp ==
    \A p \in Starters :
        pc[p] \in {"serving", "failed"} => run[p] \notin temporary

\* Two starts never write the same file, no file is there before its start.
OwnFiles ==
    /\ \A p \in Starters : run[p] \in 0..starts
    /\ \A p \in Starters : pc[p] # "stopped" => run[p] # 0
    /\ \A p, q \in Starters : p # q /\ run[p] = run[q] => run[p] = 0
    /\ \A k \in temporary : k <= starts
    /\ published # None => published <= starts

\* What a start has done to its file by the time it gets somewhere.
StartState ==
    \A p \in Starters :
        /\ pc[p] \in {"starting", "absent"} => run[p] \notin temporary
        /\ pc[p] \in {"starting", "absent", "temporary", "written", "synced"}
              => published # run[p]
        /\ pc[p] = "synced" => content[run[p]] = "synced"
        /\ pc[p] = "lost" => published # None
        /\ pc[p] = "done" => published # None /\ key[p] = published

\* The inductive invariant: what a start relies on while it creates a key
\* (keys.py:112-143) and what the directory holds meanwhile.
Inv ==
    /\ TypeOK
    /\ OwnFiles
    /\ StartState
    /\ ServesPublishedKey
    /\ NeverHalfWritten
    /\ CleansUp

\* A start that is not cut off ends.
EveryStartEnds ==
    \A p \in Starters :
        pc[p] = "starting" ~>
            pc[p] \in {"serving", "failed", "unclean", "stopped"}

\* The published key is chosen, the key of a serving process is the one it
\* serves with.
Agreement == INSTANCE KeyAgreement WITH
    chosen <- published,
    serving <- [p \in Starters |-> IF pc[p] = "serving" THEN key[p] ELSE None]

AgreementSpec == Agreement!Spec

PowerAgreementSpec == Agreement!PowerSpec

=============================================================================
