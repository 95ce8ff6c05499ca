--------------------------- MODULE KeyStoreProofs ---------------------------
(***************************************************************************)
(* The key store keeps its promises for every number of processes and      *)
(* starts, whether or not the machine loses power, and implements          *)
(* KeyAgreement in both cases.                                             *)
(***************************************************************************)
EXTENDS KeyStore, TLAPS

\* A step of the processes or of the machine they run on.
PowerNext == Next \/ Writeback \/ PowerLoss

\* An empty directory satisfies the invariant.
LEMMA InitInv == Init => Inv
<1> SUFFICES ASSUME Init
             PROVE  Inv
  OBVIOUS
<1> USE StartsAssumption DEF Init, Keys
<1>1. TypeOK
  <2>1. durable \in BOOLEAN
    BY Zenon
  <2>2. /\ starts \in 0..MaxStarts
        /\ pc \in [Starters -> {"stopped", "starting", "absent", "temporary",
                                "written", "synced", "lost", "done", "broken",
                                "serving", "failed", "unclean"}]
        /\ run \in [Starters -> 0..MaxStarts]
        /\ key \in [Starters -> Keys \cup {None}]
    OBVIOUS
  <2>3. /\ content \in [Keys -> {"empty", "cached", "synced"}]
        /\ temporary \in SUBSET Keys
        /\ published \in Keys \cup {None}
    OBVIOUS
  <2> QED
    BY <2>1, <2>2, <2>3 DEF TypeOK
<1>2. OwnFiles /\ StartState
  BY DEF OwnFiles, StartState
<1>3. ServesPublishedKey /\ NeverHalfWritten /\ CleansUp
  BY DEF ServesPublishedKey, NeverHalfWritten, CleansUp
<1> QED
  BY <1>1, <1>2, <1>3 DEF Inv

\* A process that is running has a file name of its own.
LEMMA OwnName ==
    ASSUME Inv, NEW p \in Starters, pc[p] # "stopped"
    PROVE  run[p] \in Keys
BY StartsAssumption DEF Inv, TypeOK, OwnFiles, Keys

\* A start gets a number, and so a file, that no start had before it.
LEMMA StartStep ==
    ASSUME Inv, NEW p \in Starters, Start(p)
    PROVE  Inv'
<1> USE StartsAssumption DEF Inv, Start, Goto, Keys, files
<1>1. TypeOK'
  BY DEF TypeOK
<1>2. OwnFiles'
  BY DEF TypeOK, OwnFiles
<1>3. StartState'
  BY DEF TypeOK, OwnFiles, StartState
<1>4. ServesPublishedKey' /\ NeverHalfWritten' /\ CleansUp'
  BY DEF TypeOK, ServesPublishedKey, NeverHalfWritten, CleansUp
<1> QED
  BY <1>1, <1>2, <1>3, <1>4

\* A process that loads takes the key that is published, or nothing.
LEMMA LoadStep ==
    ASSUME Inv, NEW p \in Starters, LoadExisting(p) \/ LoadWinner(p)
    PROVE  Inv'
<1> USE StartsAssumption DEF Inv, LoadExisting, LoadWinner, Load, Goto, Keys, files
<1>1. TypeOK'
  BY DEF TypeOK
<1>2. OwnFiles'
  BY DEF TypeOK, OwnFiles
<1>3. StartState'
  BY DEF TypeOK, OwnFiles, StartState
<1>4. ServesPublishedKey' /\ NeverHalfWritten' /\ CleansUp'
  BY DEF TypeOK, StartState, ServesPublishedKey, NeverHalfWritten, CleansUp
<1> QED
  BY <1>1, <1>2, <1>3, <1>4

\* Until a process publishes its file, nobody else knows of it.
LEMMA PrepareStep ==
    ASSUME Inv, NEW p \in Starters,
           \/ FindNone(p) \/ CreateTemporary(p) \/ WriteKey(p) \/ SyncKey(p)
           \/ LoseLink(p) \/ CallFails(p)
    PROVE  Inv'
<1> USE StartsAssumption
    DEF Inv, FindNone, CreateTemporary, WriteKey, SyncKey, LoseLink, CallFails,
        Goto, Keys, files
<1>1. TypeOK'
  <2>1. run[p] \in Keys
    BY OwnName
  <2>2. /\ content' \in [Keys -> {"empty", "cached", "synced"}]
        /\ temporary' \in SUBSET Keys
    BY <2>1 DEF TypeOK
  <2>3. /\ pc' \in [Starters -> {"stopped", "starting", "absent", "temporary",
                                 "written", "synced", "lost", "done", "broken",
                                 "serving", "failed", "unclean"}]
        /\ key' \in [Starters -> Keys \cup {None}]
    BY DEF TypeOK
  <2>4. UNCHANGED <<starts, run, published, durable>>
    OBVIOUS
  <2> QED
    BY <2>2, <2>3, <2>4 DEF TypeOK
<1>2. OwnFiles'
  <2>1. \A k \in temporary' : k <= starts
    <3>1. pc[p] # "stopped" /\ run[p] \in 0..starts
      BY DEF OwnFiles
    <3>2. run[p] <= starts
      BY <3>1 DEF TypeOK
    <3>3. temporary' = temporary \/ temporary' = temporary \cup {run[p]}
      OBVIOUS
    <3> QED
      BY <3>2, <3>3 DEF OwnFiles
  <2>2. pc'[p] # "stopped" => run[p] # 0
    BY DEF OwnFiles
  <2>3. \A q \in Starters \ {p} : pc'[q] = pc[q]
    BY DEF TypeOK
  <2>4. UNCHANGED <<starts, run, published>>
    OBVIOUS
  <2> QED
    BY <2>1, <2>2, <2>3, <2>4 DEF OwnFiles
<1>3. StartState'
  BY DEF TypeOK, OwnFiles, StartState
<1>4. ServesPublishedKey' /\ NeverHalfWritten' /\ CleansUp'
  BY DEF TypeOK, OwnFiles, StartState, ServesPublishedKey, NeverHalfWritten, CleansUp
<1> QED
  BY <1>1, <1>2, <1>3, <1>4

\* A link names a file that is all there, and only where there was no name:
\* nobody serves yet.
LEMMA LinkStep ==
    ASSUME Inv, NEW p \in Starters, LinkKey(p)
    PROVE  Inv'
<1> USE StartsAssumption DEF Inv, LinkKey, Goto, Keys, files
<1>1. TypeOK'
  <2>1. run[p] \in Keys
    BY OwnName
  <2> QED
    BY <2>1 DEF TypeOK
<1>2. OwnFiles'
  BY DEF TypeOK, OwnFiles
<1>3. StartState'
  BY DEF TypeOK, OwnFiles, StartState
<1>4. ServesPublishedKey' /\ NeverHalfWritten' /\ CleansUp'
  BY DEF TypeOK, StartState, ServesPublishedKey, NeverHalfWritten, CleansUp
<1> QED
  BY <1>1, <1>2, <1>3, <1>4

\* Cleaning up removes no other start's file, and dying keeps no key.
LEMMA EndStep ==
    ASSUME Inv, NEW p \in Starters, UnlinkTemporary(p) \/ Die(p)
    PROVE  Inv'
<1> USE StartsAssumption DEF Inv, UnlinkTemporary, Die, Goto, Keys, files
<1>1. TypeOK'
  BY DEF TypeOK
<1>2. OwnFiles'
  BY DEF TypeOK, OwnFiles
<1>3. StartState'
  BY DEF TypeOK, OwnFiles, StartState
<1>4. ServesPublishedKey' /\ NeverHalfWritten' /\ CleansUp'
  BY DEF TypeOK, StartState, ServesPublishedKey, NeverHalfWritten, CleansUp
<1> QED
  BY <1>1, <1>2, <1>3, <1>4

\* What a power loss takes was never published, or not by that name.
LEMMA MachineStep ==
    ASSUME Inv, Writeback \/ PowerLoss
    PROVE  Inv'
<1> USE StartsAssumption DEF Inv, Writeback, PowerLoss, Keys
<1>1. TypeOK'
  <2>1. durable' \in BOOLEAN
    BY Zenon
  <2>2. /\ content' \in [Keys -> {"empty", "cached", "synced"}]
        /\ published' \in Keys \cup {None}
    BY DEF TypeOK
  <2>3. /\ pc' \in [Starters -> {"stopped", "starting", "absent", "temporary",
                                 "written", "synced", "lost", "done", "broken",
                                 "serving", "failed", "unclean"}]
        /\ key' \in [Starters -> Keys \cup {None}]
    BY DEF TypeOK
  <2>4. UNCHANGED <<starts, run, temporary>>
    OBVIOUS
  <2> QED
    BY <2>1, <2>2, <2>3, <2>4, Zenon DEF TypeOK
<1>2. OwnFiles'
  <2>1. /\ UNCHANGED <<starts, run, temporary>>
        /\ published' \in {published, None}
        /\ \A p \in Starters : pc'[p] # "stopped" => pc[p] # "stopped"
    OBVIOUS
  <2>2. OwnFiles
    OBVIOUS
  <2> HIDE DEF Inv, Writeback, PowerLoss
  <2> QED
    BY <2>1, <2>2 DEF OwnFiles
<1>3. StartState'
  BY DEF TypeOK, StartState
<1>4. ServesPublishedKey' /\ NeverHalfWritten' /\ CleansUp'
  BY DEF TypeOK, ServesPublishedKey, NeverHalfWritten, CleansUp
<1> QED
  BY <1>1, <1>2, <1>3, <1>4

\* Each step keeps the invariant, the machine's and the processes' alike.
LEMMA NextInv == Inv /\ [PowerNext]_vars => Inv'
<1> SUFFICES ASSUME Inv, [PowerNext]_vars
             PROVE  Inv'
  OBVIOUS
<1>1. CASE Next
  <2>1. PICK p \in Starters : Start(p) \/ LoadOrCreate(p) \/ CallFails(p) \/ Die(p)
    BY <1>1 DEF Next
  <2> QED
    BY <2>1, StartStep, LoadStep, PrepareStep, LinkStep, EndStep DEF LoadOrCreate
<1>2. CASE Writeback \/ PowerLoss
  BY <1>2, MachineStep
<1>3. CASE UNCHANGED vars
  BY <1>3 DEF vars, Inv, TypeOK, OwnFiles, StartState, ServesPublishedKey,
              NeverHalfWritten, CleansUp
<1> QED
  BY <1>1, <1>2, <1>3 DEF PowerNext

-----------------------------------------------------------------------------

\* The invariant of key creation holds however often the processes die and
\* the machine loses power (keys.py:72-143).
THEOREM InvarianceUnderPowerLoss == PowerSpec => []Inv
<1>1. Init /\ [][Next \/ Writeback \/ PowerLoss]_vars => []Inv
  BY InitInv, NextInv, PTL DEF PowerNext
<1> QED
  BY <1>1 DEF PowerSpec

\* A starter never loads half a key, power loss or not (keys.py:75-77).
THEOREM NeverHalf == PowerSpec => []NeverHalfWritten
<1>1. Inv => NeverHalfWritten
  BY DEF Inv
<1> QED
  BY <1>1, InvarianceUnderPowerLoss, PTL

\* The same invariant while the machine stays up.
THEOREM Invariance == Spec => []Inv
<1>1. Inv /\ [Next]_vars => Inv'
  BY NextInv DEF PowerNext
<1> QED
  BY <1>1, InitInv, PTL DEF Spec

\* Every process that serves, serves with the key every later start will load,
\* whatever power losses came before (keys.py:134-137).
THEOREM OneKeyServes == PowerSpec => []ServesPublishedKey
<1>1. Inv => ServesPublishedKey
  BY DEF Inv
<1> QED
  BY <1>1, InvarianceUnderPowerLoss, PTL

\* A start that succeeded, and one that failed and could clean up, left no
\* temporary key file, also after a power loss that brought the directory back
\* without its key (keys.py:126-141).
THEOREM NoKeyLeftBehind == PowerSpec => []CleansUp
<1>1. Inv => CleansUp
  BY DEF Inv
<1> QED
  BY <1>1, InvarianceUnderPowerLoss, PTL

\* What the agreement knows of the processes, once and for all.
Serving == [p \in Starters |-> IF pc[p] = "serving" THEN key[p] ELSE None]

\* A process that moves on without serving or publishing does not move the
\* agreement.
LEMMA QuietStep ==
    ASSUME Inv, NEW p \in Starters, NEW there, Goto(p, there),
           pc[p] # "serving", there # "serving",
           \A q \in Starters \ {p} : key'[q] = key[q],
           published' = published
    PROVE  UNCHANGED <<published, Serving>>
<1>1. \A q \in Starters :
        (IF pc'[q] = "serving" THEN key'[q] ELSE None)
          = (IF pc[q] = "serving" THEN key[q] ELSE None)
  BY DEF Inv, TypeOK, Goto
<1> QED
  BY <1>1 DEF Serving

\* A process that starts to serve takes up the chosen key.
LEMMA ServeStep ==
    ASSUME Inv, NEW p \in Starters, Goto(p, "serving"),
           key' = [key EXCEPT ![p] = published],
           published # None, published' = published
    PROVE  /\ published # None
           /\ Serving' = [Serving EXCEPT ![p] = published]
           /\ published' = published
<1>1. Serving' = [q \in Starters |-> IF q = p THEN published ELSE Serving[q]]
  BY DEF Inv, TypeOK, Goto, Serving
<1> QED
  BY <1>1 DEF Serving

\* A process that stops no longer serves.
LEMMA StopStep ==
    ASSUME Inv, NEW p \in Starters, NEW there, Goto(p, there),
           there # "serving",
           \A q \in Starters \ {p} : key'[q] = key[q],
           published' = published
    PROVE  Serving' = [Serving EXCEPT ![p] = None] /\ published' = published
<1>1. Serving' = [q \in Starters |-> IF q = p THEN None ELSE Serving[q]]
  BY DEF Inv, TypeOK, Goto, Serving
<1> QED
  BY <1>1 DEF Serving

\* A link chooses: nobody served before, and nobody serves by it.
LEMMA ChooseStep ==
    ASSUME Inv, NEW p \in Starters, LinkKey(p)
    PROVE  \E k \in Keys :
              /\ published = None
              /\ published' = k
              /\ Serving' = Serving
<1>1. run[p] \in Keys
  BY StartsAssumption DEF Inv, TypeOK, OwnFiles, LinkKey, Keys
<1>2. \A q \in Starters :
        (IF pc'[q] = "serving" THEN key'[q] ELSE None)
          = (IF pc[q] = "serving" THEN key[q] ELSE None)
  BY DEF Inv, TypeOK, LinkKey, Goto
<1> QED
  BY <1>1, <1>2 DEF LinkKey, Serving

\* A step of the store is a step of the agreement, or none.
LEMMA StepAgrees ==
    Inv /\ [Next]_vars => [Agreement!Next]_(Agreement!agreementVars)
<1> SUFFICES ASSUME Inv, [Next]_vars
             PROVE  Agreement!Next \/ UNCHANGED <<published, Serving>>
  BY DEF Agreement!agreementVars, Serving
<1>1. CASE UNCHANGED vars
  BY <1>1 DEF vars, Serving
<1>2. CASE Next
  <2>1. PICK p \in Starters : Start(p) \/ LoadOrCreate(p) \/ CallFails(p) \/ Die(p)
    BY <1>2 DEF Next
  <2>2. CASE LinkKey(p)
    BY <2>2, ChooseStep DEF Agreement!Next, Agreement!Choose, Serving
  <2>3. CASE LoadExisting(p) /\ content[published] # "empty"
    <3>1. Agreement!Serve(p)
      BY <2>3, ServeStep DEF LoadExisting, Load, files, Agreement!Serve, Serving
    <3> QED
      BY <3>1 DEF Agreement!Next
  <2>4. CASE UnlinkTemporary(p) /\ pc[p] = "done"
    <3>1. key[p] = published /\ published # None
      BY <2>4 DEF Inv, StartState
    <3>2. key' = [key EXCEPT ![p] = published]
      BY <2>4, <3>1 DEF UnlinkTemporary, Inv, TypeOK
    <3>3. Agreement!Serve(p)
      BY <2>4, <3>1, <3>2, ServeStep DEF UnlinkTemporary, Agreement!Serve, Serving
    <3> QED
      BY <3>3 DEF Agreement!Next
  <2>5. CASE Die(p)
    <3>1. Agreement!Stop(p)
      <4>1. \A q \in Starters \ {p} : key'[q] = key[q]
        BY <2>5 DEF Die, Inv, TypeOK
      <4> QED
        BY <2>5, <4>1, StopStep DEF Die, files, Agreement!Stop, Serving
    <3> QED
      BY <3>1 DEF Agreement!Next
  <2>6. CASE \/ Start(p) \/ FindNone(p) \/ CreateTemporary(p) \/ WriteKey(p)
             \/ SyncKey(p) \/ LoseLink(p) \/ LoadWinner(p) \/ CallFails(p)
             \/ LoadExisting(p) /\ content[published] = "empty"
             \/ UnlinkTemporary(p) /\ pc[p] = "broken"
    <3>1. \E there : Goto(p, there) /\ there # "serving"
      BY <2>6 DEF Start, FindNone, CreateTemporary, WriteKey, SyncKey, LoseLink,
                  LoadWinner, Load, CallFails, LoadExisting, UnlinkTemporary
    <3>2. pc[p] # "serving" /\ published' = published
      BY <2>6 DEF Start, FindNone, CreateTemporary, WriteKey, SyncKey, LoseLink,
                  LoadWinner, Load, CallFails, LoadExisting, UnlinkTemporary, files
    <3>3. \A q \in Starters \ {p} : key'[q] = key[q]
      BY <2>6 DEF Start, FindNone, CreateTemporary, WriteKey, SyncKey, LoseLink,
                  LoadWinner, Load, CallFails, LoadExisting, UnlinkTemporary,
                  Inv, TypeOK
    <3> QED
      BY <3>1, <3>2, <3>3, QuietStep
  <2> QED
    BY <2>1, <2>2, <2>3, <2>4, <2>5, <2>6 DEF LoadOrCreate, UnlinkTemporary
<1> QED
  BY <1>1, <1>2

\* The race over the key directory is an agreement on one key: it is chosen
\* once, and a process serves with the chosen key or not at all
\* (keys.py:132-137), as long as the machine keeps its directory.
THEOREM ImplementsAgreement == Spec => AgreementSpec
<1>1. Init => Agreement!Init
  BY DEF Init, Agreement!Init
<1> QED
  BY <1>1, StepAgrees, Invariance, PTL DEF Spec, AgreementSpec, Agreement!Spec

\* A power loss ends every service, and takes the choice with it or leaves
\* it; writing the directory back changes neither.
LEMMA MachineAgrees ==
    ASSUME Inv, Writeback \/ PowerLoss
    PROVE  Agreement!LosePower \/ UNCHANGED <<published, Serving>>
<1>1. CASE Writeback
  BY <1>1 DEF Writeback, Serving
<1>2. CASE PowerLoss
  <2>1. Serving' = [p \in Starters |-> None]
    BY <1>2 DEF PowerLoss, Serving
  <2>2. published' \in {published, None}
    BY <1>2 DEF PowerLoss
  <2> QED
    BY <2>1, <2>2 DEF Agreement!LosePower, Serving
<1> QED
  BY <1>1, <1>2

\* Across power losses the race is still an agreement: a key is replaced only
\* after nobody signs with it any more (keys.py:112-143).
THEOREM ImplementsPowerAgreement == PowerSpec => PowerAgreementSpec
<1>1. Init => Agreement!Init
  BY DEF Init, Agreement!Init
<1>2. Inv /\ [PowerNext]_vars
        => [Agreement!Next \/ Agreement!LosePower]_(Agreement!agreementVars)
  <2> SUFFICES ASSUME Inv, [PowerNext]_vars
               PROVE  \/ Agreement!Next \/ Agreement!LosePower
                      \/ UNCHANGED <<published, Serving>>
    BY DEF Agreement!agreementVars, Serving
  <2>1. CASE [Next]_vars
    BY <2>1, StepAgrees DEF Agreement!agreementVars, Serving
  <2>2. CASE Writeback \/ PowerLoss
    BY <2>2, MachineAgrees
  <2> QED
    BY <2>1, <2>2 DEF PowerNext
<1>3. Init /\ [][Next \/ Writeback \/ PowerLoss]_vars
        => Agreement!Init
           /\ [][Agreement!Next \/ Agreement!LosePower]_(Agreement!agreementVars)
  BY <1>1, <1>2, InitInv, NextInv, PTL DEF PowerNext
<1> QED
  BY <1>3 DEF PowerSpec, PowerAgreementSpec, Agreement!PowerSpec

=============================================================================
