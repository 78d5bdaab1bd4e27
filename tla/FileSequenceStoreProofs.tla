----------------------- MODULE FileSequenceStoreProofs -----------------------
(***************************************************************************)
(* Proofs about FileSequenceStore: for every number of processes and calls *)
(* and for every limit, update_file loses no update, keeps what was        *)
(* acknowledged on the disk, and implements SequenceStore.                 *)
(***************************************************************************)
EXTENDS FileSequenceStore, SequenceStateProofs, TLAPS

(* A call that is inside the directory lock, that has read the state and    *)
(* not yet renamed, and that has renamed.                                   *)
Inside == {"locked", "staged", "written", "synced", "renamed", "durable"}
Prepared == {"staged", "written", "synced"}
Renamed == {"renamed", "durable"}

(* The data of both files is always complete.                               *)
Intact ==
  /\ file \in SequenceStates
  /\ disk \in SequenceStates
  /\ fileSynced = TRUE

(* The lock on the lock file excludes all other calls.                      *)
OneWriter == \A c \in Callers : pc[c] \in Inside => flock = c

(* What a call knows of the file in each of its phases.                     *)
CallerKnows(c) ==
  /\ pc[c] # "idle" => op[c] \in Ops
  /\ pc[c] \in Prepared => base[c] = file /\ Commits(file, op[c])
  /\ pc[c] \in Renamed =>
       /\ base[c] \in recent
       /\ Commits(base[c], op[c])
       /\ file = Staged(c)
  /\ pc[c] = "durable" => disk = file

(* Every state that a crash may lead to is sound for what was acknowledged, *)
(* and the file is one of them, unless its rename is still in flight.       *)
HistoryInv ==
  /\ accepted \in SUBSET Observation
  /\ allocated \in SUBSET HandedOut
  /\ \A v \in recent : Sound(v, accepted, allocated)
  /\ InFlight = {} => file \in recent
  /\ disk \in recent \cup {file}

FInv ==
  /\ TypeOK
  /\ Intact
  /\ OneWriter
  /\ \A c \in Callers : CallerKnows(c)
  /\ HistoryInv

-----------------------------------------------------------------------------
(* At most one rename is in flight, by the owner of the lock.               *)
LEMMA FlightIsUnique ==
  ASSUME FInv, NEW c \in Callers, pc[c] \in Inside
  PROVE  /\ \A d \in Callers : pc[d] \in Inside => d = c
         /\ InFlight = IF pc[c] \in Renamed THEN {c} ELSE {}
<1>1. \A d \in Callers : pc[d] \in Inside => d = c
  BY DEF FInv, OneWriter
<1>2. QED
  BY <1>1 DEF InFlight, Inside, Renamed

(* The state that the promise speaks of.                                    *)
LEMMA ValuesOfFlight ==
  ASSUME FInv, NEW c \in Callers, pc[c] \in Renamed
  PROVE  InFlight = {c} /\ StoreValues = base[c]
<1>1. InFlight = {c}
  BY FlightIsUnique DEF Inside, Renamed
<1>2. QED
  BY <1>1 DEF StoreValues

(* The file is sound, also while its rename is in flight.                   *)
LEMMA FileSound ==
  ASSUME FInv
  PROVE  Sound(file, accepted, allocated) /\ Sound(disk, accepted, allocated)
<1>1. Sound(file, accepted, allocated)
  <2>1. CASE InFlight = {}
    BY <2>1 DEF FInv, HistoryInv
  <2>2. ASSUME NEW c \in InFlight
        PROVE  Sound(file, accepted, allocated)
    <3>1. /\ op[c] \in Ops /\ base[c] \in recent /\ Commits(base[c], op[c])
          /\ file = Update(base[c], op[c])
      BY DEF FInv, CallerKnows, InFlight, Renamed, Staged
    <3>2. QED
      BY <3>1, UpdateSound DEF FInv, HistoryInv
  <2>3. QED
    BY <2>1, <2>2
<1>2. QED
  BY <1>1 DEF FInv, HistoryInv

(* The store starts with nothing.                                           *)
LEMMA InitFInv == Init => FInv
<1> SUFFICES ASSUME Init PROVE FInv
  OBVIOUS
<1>1. EmptyState \in SequenceStates
  BY EmptySound DEF Sound
<1>2. TypeOK /\ Intact
  BY <1>1 DEF Init, TypeOK, Intact
<1>3. OneWriter /\ \A c \in Callers : CallerKnows(c)
  BY DEF Init, OneWriter, CallerKnows, Inside, Prepared, Renamed
<1>4. HistoryInv
  BY EmptySound DEF Init, HistoryInv
<1>5. QED
  BY <1>2, <1>3, <1>4 DEF FInv

-----------------------------------------------------------------------------
(* A step of one call that changes neither the files nor the history, and   *)
(* neither begins nor ends a rename.                                        *)
LEMMA QuietStep ==
  ASSUME FInv, NEW c \in Callers, TypeOK', OneWriter', CallerKnows(c)',
         UNCHANGED <<fileVars, history>>,
         \A d \in Callers \ {c} :
           pc'[d] = pc[d] /\ op'[d] = op[d] /\ base'[d] = base[d],
         pc'[c] \in Renamed <=> pc[c] \in Renamed
  PROVE  FInv'
<1>1. UNCHANGED <<file, fileSynced, disk, recent, accepted, allocated>>
  BY DEF fileVars, history
<1>2. Intact'
  BY <1>1 DEF FInv, Intact
<1>3. ASSUME NEW d \in Callers PROVE CallerKnows(d)'
  <2>1. CASE d = c
    BY <2>1
  <2>2. CASE d # c
    BY <1>1, <2>2 DEF FInv, CallerKnows, Staged
  <2>3. QED
    BY <2>1, <2>2
<1>4. InFlight' = InFlight
  BY DEF InFlight, Renamed
<1>5. HistoryInv'
  BY <1>1, <1>4 DEF FInv, HistoryInv
<1>6. QED
  BY <1>2, <1>3, <1>5 DEF FInv

(* A call is made.                                                          *)
LEMMA CallFInv ==
  ASSUME FInv, NEW c \in Callers, NEW o \in Requests[c], Call(c, o)
  PROVE  FInv'
<1>1. o \in Ops
  BY FileAssumption
<1>2. TypeOK'
  BY <1>1 DEF FInv, Call, TypeOK, fileVars
<1>3. OneWriter' /\ CallerKnows(c)'
  BY <1>1 DEF FInv, Call, TypeOK, OneWriter, CallerKnows, Inside, Prepared, Renamed
<1>4. QED
  BY <1>2, <1>3, QuietStep DEF FInv, Call, TypeOK, Renamed

(* A call gets the mutex of its instance.                                   *)
LEMMA TakeMutexFInv ==
  ASSUME FInv, NEW c \in Callers, TakeMutex(c)
  PROVE  FInv'
<1>1. TypeOK'
  BY FileAssumption DEF FInv, TakeMutex, TypeOK, fileVars
<1>2. OneWriter' /\ CallerKnows(c)'
  BY DEF FInv, TakeMutex, TypeOK, OneWriter, CallerKnows, Inside, Prepared, Renamed
<1>3. QED
  BY <1>1, <1>2, QuietStep DEF FInv, TakeMutex, TypeOK, Renamed

(* A caller drops its future, whatever its blocking thread is doing.        *)
LEMMA DropFutureFInv ==
  ASSUME FInv, NEW c \in Callers, DropFuture(c)
  PROVE  FInv'
<1>1. TypeOK'
  BY FileAssumption DEF FInv, DropFuture, TypeOK, fileVars
<1>2. OneWriter' /\ CallerKnows(c)'
  BY DEF FInv, DropFuture, TypeOK, OneWriter, CallerKnows, Inside, Prepared,
         Renamed, fileVars, history, Staged
<1>3. QED
  BY <1>1, <1>2, QuietStep DEF FInv, DropFuture, TypeOK, Renamed

(* A call gets the lock of the directory: nobody else is inside.            *)
LEMMA LockFileFInv ==
  ASSUME FInv, NEW c \in Callers, LockFile(c)
  PROVE  FInv'
<1>1. TypeOK'
  BY DEF FInv, LockFile, TypeOK, fileVars
<1>2. OneWriter'
  BY FileAssumption DEF FInv, LockFile, TypeOK, OneWriter, Inside
<1>3. CallerKnows(c)'
  BY DEF FInv, LockFile, TypeOK, CallerKnows, Prepared, Renamed
<1>4. QED
  BY <1>1, <1>2, <1>3, QuietStep DEF FInv, LockFile, TypeOK, Renamed

(* A call reads the state and updates its copy.                             *)
LEMMA ReadAndUpdateFInv ==
  ASSUME FInv, NEW c \in Callers, ReadAndUpdate(c)
  PROVE  FInv'
<1>1. TypeOK'
  BY DEF FInv, ReadAndUpdate, TypeOK, Intact, fileVars
<1>2. OneWriter'
  BY DEF FInv, ReadAndUpdate, TypeOK, OneWriter, Inside
<1>3. CallerKnows(c)'
  BY DEF FInv, ReadAndUpdate, TypeOK, CallerKnows, Prepared, Renamed, fileVars
<1>4. QED
  BY <1>1, <1>2, <1>3, QuietStep DEF FInv, ReadAndUpdate, TypeOK, Renamed

(* A call writes and syncs its temporary file.                              *)
LEMMA WriteTemporaryFInv ==
  ASSUME FInv, NEW c \in Callers, WriteTemporary(c) \/ SyncTemporary(c)
  PROVE  FInv'
<1>1. TypeOK'
  BY DEF FInv, WriteTemporary, SyncTemporary, Step, TypeOK, fileVars
<1>2. OneWriter'
  BY DEF FInv, WriteTemporary, SyncTemporary, Step, TypeOK, OneWriter, Inside
<1>3. CallerKnows(c)'
  BY DEF FInv, WriteTemporary, SyncTemporary, Step, TypeOK, CallerKnows, Prepared,
         Renamed, fileVars
<1>4. QED
  BY <1>1, <1>2, <1>3, QuietStep
  DEF FInv, WriteTemporary, SyncTemporary, Step, TypeOK, Renamed

(* A call fails before its rename.                                          *)
LEMMA FailBeforeRenameFInv ==
  ASSUME FInv, NEW c \in Callers, FailBeforeRename(c)
  PROVE  FInv'
<1>1. TypeOK'
  BY FileAssumption, EmptySound
  DEF FInv, FailBeforeRename, Return, TypeOK, fileVars, Sound
<1>2. OneWriter'
  BY DEF FInv, FailBeforeRename, Return, TypeOK, OneWriter, Inside
<1>3. CallerKnows(c)'
  BY DEF FInv, FailBeforeRename, Return, TypeOK, CallerKnows, Prepared, Renamed
<1>4. QED
  BY <1>1, <1>2, <1>3, QuietStep
  DEF FInv, FailBeforeRename, Return, TypeOK, Renamed

-----------------------------------------------------------------------------
(* The rename: the file becomes the staged state, and the state it replaces *)
(* is one that a crash may return to.                                       *)
LEMMA RenameFInv ==
  ASSUME FInv, NEW c \in Callers, Rename(c)
  PROVE  FInv'
<1>1. /\ pc[c] = "synced" /\ pc' = [pc EXCEPT ![c] = "renamed"]
      /\ file' = Staged(c) /\ fileSynced' = TRUE
      /\ UNCHANGED <<disk, flock, mutex, op, base, recent, accepted, allocated>>
  BY DEF Rename, Step, history
<1>2. /\ op[c] \in Ops /\ base[c] = file /\ Commits(file, op[c])
      /\ base[c] \in SequenceStates
  BY <1>1 DEF FInv, CallerKnows, Prepared, TypeOK
<1>3. /\ \A d \in Callers : pc[d] \in Inside => d = c
      /\ InFlight = {}
  BY <1>1, FlightIsUnique DEF Inside, Renamed
<1>4. file \in recent
  BY <1>3 DEF FInv, HistoryInv
<1>5. file' \in SequenceStates
  BY <1>1, <1>2, UpdateType DEF Staged, Commits
<1>6. TypeOK' /\ Intact'
  BY <1>1, <1>5 DEF FInv, TypeOK, Intact
<1>7. OneWriter'
  BY <1>1 DEF FInv, OneWriter, TypeOK, Inside
<1>8. ASSUME NEW d \in Callers PROVE CallerKnows(d)'
  <2>1. CASE d = c
    BY <1>1, <1>2, <1>4, <2>1
    DEF CallerKnows, Staged, Prepared, Renamed, FInv, TypeOK
  <2>2. CASE d # c
    BY <1>1, <1>3, <2>2
    DEF CallerKnows, Inside, Prepared, Renamed, FInv, TypeOK
  <2>3. QED
    BY <2>1, <2>2
<1>9. InFlight' # {}
  BY <1>1 DEF InFlight, FInv, TypeOK
<1>10. HistoryInv'
  BY <1>1, <1>4, <1>9 DEF FInv, HistoryInv
<1>11. QED
  BY <1>6, <1>7, <1>8, <1>10 DEF FInv

(* The directory is synced: the disk holds what the file holds.             *)
LEMMA SyncDirectoryFInv ==
  ASSUME FInv, NEW c \in Callers, SyncDirectory(c)
  PROVE  FInv'
<1>1. /\ pc[c] = "renamed" /\ pc' = [pc EXCEPT ![c] = "durable"]
      /\ disk' = file
      /\ UNCHANGED <<file, fileSynced, flock, mutex, op, base, recent, accepted,
                     allocated>>
  BY DEF SyncDirectory, Step, history, FInv, Intact
<1>2. TypeOK' /\ Intact'
  BY <1>1 DEF FInv, TypeOK, Intact
<1>3. OneWriter'
  BY <1>1 DEF FInv, OneWriter, TypeOK, Inside
<1>4. ASSUME NEW d \in Callers PROVE CallerKnows(d)'
  BY <1>1 DEF FInv, CallerKnows, Staged, Prepared, Renamed, TypeOK
<1>5. InFlight' = InFlight
  BY <1>1 DEF InFlight, FInv, TypeOK
<1>6. HistoryInv'
  BY <1>1, <1>5 DEF FInv, HistoryInv
<1>7. QED
  BY <1>2, <1>3, <1>4, <1>6 DEF FInv

(* The kernel writes the rename back on its own.                            *)
LEMMA WritebackFInv ==
  ASSUME FInv, Writeback
  PROVE  FInv'
<1>1. /\ disk' = file
      /\ UNCHANGED <<file, fileSynced, flock, mutex, pc, op, base, recent,
                     accepted, allocated>>
  BY DEF Writeback, history, FInv, Intact
<1>2. TypeOK' /\ Intact' /\ OneWriter'
  BY <1>1 DEF FInv, TypeOK, Intact, OneWriter
<1>3. \A c \in Callers : CallerKnows(c)'
  BY <1>1 DEF FInv, CallerKnows, Staged
<1>4. HistoryInv'
  BY <1>1 DEF FInv, HistoryInv, InFlight
<1>5. QED
  BY <1>2, <1>3, <1>4 DEF FInv

(* A call that renamed leaves update_file: it was alone inside, so nothing  *)
(* is in flight, and what the others know is still true.                    *)
LEMMA LeaveInside ==
  ASSUME FInv, NEW c \in Callers, pc[c] \in Renamed, Return(c),
         UNCHANGED fileVars, HistoryInv'
  PROVE  FInv'
<1>1. UNCHANGED <<file, fileSynced, disk>>
  BY DEF fileVars
<1>2. \A d \in Callers : pc[d] \in Inside => d = c
  BY FlightIsUnique DEF Inside, Renamed
<1>3. TypeOK' /\ Intact'
  BY <1>1, FileAssumption, EmptySound DEF FInv, Return, TypeOK, Intact, Sound
<1>4. OneWriter'
  BY <1>2 DEF FInv, Return, TypeOK, OneWriter, Inside
<1>5. ASSUME NEW d \in Callers PROVE CallerKnows(d)'
  BY <1>1, <1>2 DEF FInv, Return, TypeOK, CallerKnows, Inside, Prepared, Renamed
<1>6. QED
  BY <1>3, <1>4, <1>5 DEF FInv

(* What an acknowledged call adds to the history, by its operation.         *)
LEMMA AcknowledgedSound ==
  ASSUME FInv, NEW c \in Callers, ReturnOk(c)
  PROVE  /\ accepted' \in SUBSET Observation
         /\ allocated' \in SUBSET HandedOut
         /\ Sound(Staged(c), accepted', allocated')
         /\ op[c].type = "next" =>
              Staged(c)[op[c].key].counter = base[c][op[c].key].counter + 1
<1>1. /\ op[c] \in Ops /\ Commits(base[c], op[c])
      /\ Sound(base[c], accepted, allocated)
      /\ accepted \in SUBSET Observation /\ allocated \in SUBSET HandedOut
  BY DEF FInv, ReturnOk, CallerKnows, Renamed, HistoryInv
<1>2. CASE op[c].type = "record"
  <2>1. accepted' = accepted \cup op[c].batch /\ allocated' = allocated
    BY <1>2 DEF ReturnOk
  <2>2. QED
    BY <1>1, <1>2, <2>1, RecordSound DEF Staged
<1>3. CASE op[c].type = "initialize"
  <2>1. accepted' = accepted /\ allocated' = allocated
    BY <1>3 DEF ReturnOk
  <2>2. QED
    BY <1>1, <1>3, <2>1, UpdateSound DEF Staged
<1>4. CASE op[c].type = "next"
  <2> DEFINE a == [key |-> op[c].key, seq |-> base[c][op[c].key].counter + 1]
  <2>1. /\ a \in HandedOut
        /\ Staged(c)[op[c].key].counter = base[c][op[c].key].counter + 1
        /\ Sound(Staged(c), accepted, allocated \cup {a})
    BY <1>1, <1>4, NextSound, Zenon DEF Staged
  <2>2. accepted' = accepted /\ allocated' = allocated \cup {a}
    BY <1>4, <2>1 DEF ReturnOk
  <2>3. QED
    BY <1>1, <2>1, <2>2
<1>5. QED
  BY <1>1, <1>2, <1>3, <1>4 DEF Ops

(* update_file returns Ok: from now on only the new state may be found.     *)
LEMMA ReturnOkFInv ==
  ASSUME FInv, NEW c \in Callers, ReturnOk(c)
  PROVE  FInv'
<1>1. /\ pc[c] = "durable" /\ Return(c) /\ recent' = {Staged(c)}
      /\ UNCHANGED fileVars /\ file' = file /\ disk' = disk
  BY DEF ReturnOk, fileVars
<1>2. file = Staged(c) /\ disk = file
  BY <1>1 DEF FInv, CallerKnows, Renamed
<1>3. HistoryInv'
  BY <1>1, <1>2, AcknowledgedSound DEF HistoryInv
<1>4. QED
  BY <1>1, <1>3, LeaveInside DEF Renamed

(* The call fails after the rename: the new state may be found or not.      *)
LEMMA FailAfterRenameFInv ==
  ASSUME FInv, NEW c \in Callers, FailAfterRename(c)
  PROVE  FInv'
<1>1. /\ pc[c] \in Renamed /\ Return(c) /\ recent' = recent \cup {Staged(c)}
      /\ UNCHANGED fileVars /\ file' = file /\ disk' = disk
      /\ accepted' = accepted /\ allocated' = allocated
  BY DEF FailAfterRename, fileVars, Renamed
<1>2. file = Staged(c)
  BY <1>1 DEF FInv, CallerKnows
<1>3. HistoryInv'
  BY <1>1, <1>2, FileSound DEF HistoryInv, FInv
<1>4. QED
  BY <1>1, <1>3, LeaveInside

(* A process is killed: what its calls renamed may be found or not.         *)
LEMMA KillProcessFInv ==
  ASSUME FInv, NEW i \in Instances, KillProcess(i)
  PROVE  FInv'
<1> DEFINE dead == {c \in Callers : InstanceOf[c] = i}
<1>1. /\ Vanish(dead)
      /\ recent' = recent \cup {Staged(c) : c \in dead \cap InFlight}
      /\ UNCHANGED <<file, fileSynced, disk, accepted, allocated>>
  BY DEF KillProcess, fileVars
<1>2. \A c \in InFlight : Staged(c) = file
  BY DEF FInv, CallerKnows, InFlight, Renamed
<1>3. TypeOK' /\ Intact'
  BY <1>1, EmptySound DEF FInv, Vanish, TypeOK, Intact, Sound
<1>4. OneWriter'
  BY <1>1 DEF FInv, Vanish, TypeOK, OneWriter, Inside
<1>5. ASSUME NEW c \in Callers PROVE CallerKnows(c)'
  BY <1>1 DEF FInv, Vanish, TypeOK, CallerKnows, Staged, Prepared, Renamed
<1>6. HistoryInv'
  <2>1. \A v \in recent' : Sound(v, accepted, allocated)
    BY <1>1, <1>2, FileSound DEF FInv, HistoryInv
  <2>2. InFlight' = {} => file \in recent'
    <3>1. InFlight' = InFlight \ dead
      BY <1>1 DEF InFlight, Vanish, FInv, TypeOK
    <3>2. CASE InFlight = {}
      BY <1>1, <3>2 DEF FInv, HistoryInv
    <3>3. CASE InFlight # {} /\ InFlight' = {}
      <4>1. PICK c \in InFlight : c \in dead
        BY <3>1, <3>3
      <4>2. QED
        BY <1>1, <1>2, <4>1
    <3>4. QED
      BY <3>2, <3>3
  <2>3. QED
    BY <1>1, <2>1, <2>2 DEF FInv, HistoryInv
<1>7. QED
  BY <1>3, <1>4, <1>5, <1>6 DEF FInv

(* A power loss: everything starts again from the disk.                     *)
LEMMA PowerLossFInv ==
  ASSUME FInv, PowerLoss
  PROVE  FInv'
<1>1. /\ Vanish(Callers) /\ file' = disk /\ fileSynced' = TRUE
      /\ recent' = {disk}
      /\ UNCHANGED <<disk, accepted, allocated>>
  BY DEF PowerLoss
<1>2. TypeOK' /\ Intact'
  BY <1>1, EmptySound, FileAssumption DEF FInv, Vanish, TypeOK, Intact, Sound
<1>3. OneWriter' /\ \A c \in Callers : CallerKnows(c)'
  BY <1>1 DEF Vanish, OneWriter, CallerKnows, Inside, Prepared, Renamed
<1>4. HistoryInv'
  BY <1>1, FileSound DEF FInv, HistoryInv
<1>5. QED
  BY <1>2, <1>3, <1>4 DEF FInv

(* Every step preserves the inductive invariant.                            *)
LEMMA NextFInv == FInv /\ [Next]_vars => FInv'
<1> SUFFICES ASSUME FInv, [Next]_vars PROVE FInv'
  OBVIOUS
<1>1. ASSUME NEW c \in Callers, CallStep(c) PROVE FInv'
  BY <1>1, TakeMutexFInv, LockFileFInv, ReadAndUpdateFInv, WriteTemporaryFInv,
     RenameFInv, SyncDirectoryFInv, ReturnOkFInv, FailBeforeRenameFInv,
     FailAfterRenameFInv
  DEF CallStep
<1>2. CASE UNCHANGED vars
  BY <1>2
  DEF vars, FInv, TypeOK, Intact, OneWriter, CallerKnows, Staged, HistoryInv,
      InFlight
<1>3. QED
  BY <1>1, <1>2, CallFInv, DropFutureFInv, KillProcessFInv, WritebackFInv,
     PowerLossFInv
  DEF Next

-----------------------------------------------------------------------------
(* The invariant holds in every reachable state.                            *)
THEOREM FileInvariance == Spec => []FInv
<1>1. QED
  BY InitFInv, NextFInv, PTL DEF Spec

(* The variables keep their types: no reachable file is ever corrupt.       *)
THEOREM FileTypeCorrectness == Spec => [](TypeOK /\ file # Corrupt)
<1>1. FInv => TypeOK /\ file # Corrupt
  BY FileAssumption DEF FInv, Intact
<1>2. QED
  BY <1>1, FileInvariance, PTL

(* No call of update_file overwrites an update that it did not read,        *)
(* whatever other processes and dropped futures do.                         *)
THEOREM NoUpdateIsLost == Spec => []NoLostUpdate
<1>1. FInv => NoLostUpdate
  BY DEF FInv, CallerKnows, NoLostUpdate, Prepared
<1>2. QED
  BY <1>1, FileInvariance, PTL

(* At every moment the disk holds every floor and every counter that        *)
(* update_file has acknowledged: a power loss now loses none of them.       *)
THEOREM DiskIsDurable == Spec => []DiskHoldsAcknowledged
<1>1. FInv => DiskHoldsAcknowledged
  BY FileSound, FileAssumption
  DEF FInv, Intact, Sound, DiskHoldsAcknowledged
<1>2. QED
  BY <1>1, FileInvariance, PTL

-----------------------------------------------------------------------------
(***************************************************************************)
(* The refinement.  The names of SequenceState mean the same inside the    *)
(* instance of SequenceStore; the promise's state is the file, or the      *)
(* state before the rename that is in flight.                              *)
(***************************************************************************)

(* The operations and updates of the promise are those of the file store.   *)
LEMMA SameOperations ==
  /\ Promise!Ops = Ops
  /\ Promise!Observation = Observation
  /\ Promise!EmptyState = EmptyState
  /\ \A v, o : Promise!Update(v, o) = Update(v, o)
  /\ \A v, o : Promise!Commits(v, o) <=> Commits(v, o)
<1>1. Promise!Observation = Observation /\ Promise!Ops = Ops
  BY DEF Promise!Observation, Observation, Promise!Ops, Ops
<1>2. Promise!Missing = Missing /\ Promise!Keys = Keys
  BY DEF Promise!Missing, Missing, Promise!Keys, Keys
<1>3. Promise!EmptyState = EmptyState
  BY <1>2 DEF Promise!EmptyState, EmptyState
<1>4. ASSUME NEW v, NEW o
      PROVE  Promise!Update(v, o) = Update(v, o)
  <2>1. Promise!RecordBatch(v, o.batch) = RecordBatch(v, o.batch)
    BY <1>2 DEF Promise!RecordBatch, RecordBatch, Promise!BatchKeys, BatchKeys,
                Promise!Authenticated, Authenticated
  <2>2. Promise!InitializePublisher(v, o.key) = InitializePublisher(v, o.key)
    BY DEF Promise!InitializePublisher, InitializePublisher, Promise!Publisher,
           Publisher
  <2>3. Promise!NextPublisherValue(v, o.key) = NextPublisherValue(v, o.key)
    BY DEF Promise!NextPublisherValue, NextPublisherValue, Promise!Publisher,
           Publisher
  <2>4. QED
    BY <2>1, <2>2, <2>3 DEF Promise!Update, Update
<1>5. ASSUME NEW v
      PROVE  Promise!Entries(v) = Entries(v)
  BY <1>2 DEF Promise!Entries, Entries
<1>6. ASSUME NEW S
      PROVE  Promise!Cardinality(S) = Cardinality(S)
  BY DEF Promise!Cardinality, Cardinality
<1>7. ASSUME NEW v, NEW o
      PROVE  Promise!UpdateOk(v, o) <=> UpdateOk(v, o)
  <2>1. Promise!PrepareBatchOk(o.batch) <=> PrepareBatchOk(o.batch)
    BY Zenon DEF Promise!PrepareBatchOk, PrepareBatchOk
  <2>2. Promise!BatchKeys(o.batch) = BatchKeys(o.batch)
    BY DEF Promise!BatchKeys, BatchKeys
  <2>3. ASSUME NEW x
        PROVE  Promise!RecordValueOk(v, x) <=> RecordValueOk(v, x)
    BY Zenon DEF Promise!RecordValueOk, RecordValueOk
  <2>4. Promise!RecordBatchOk(v, o.batch) <=> RecordBatchOk(v, o.batch)
    BY <1>5, <1>6, <2>2, <2>3, Zenon DEF Promise!RecordBatchOk, RecordBatchOk
  <2>5. Promise!InitializePublisherOk(v, o.key) <=> InitializePublisherOk(v, o.key)
    BY <1>2, <1>5, <1>6, Zenon DEF Promise!InitializePublisherOk, InitializePublisherOk
  <2>6. Promise!NextPublisherOk(v, o.key) <=> NextPublisherOk(v, o.key)
    BY Zenon DEF Promise!NextPublisherOk, NextPublisherOk
  <2>7. QED
    BY <2>1, <2>4, <2>5, <2>6, Zenon DEF Promise!UpdateOk, UpdateOk
<1>8. ASSUME NEW v
      PROVE  Promise!ValidateStateBounds(v) <=> ValidateStateBounds(v)
  BY <1>5, <1>6, Zenon DEF Promise!ValidateStateBounds, ValidateStateBounds
<1>9. ASSUME NEW v, NEW o
      PROVE  Promise!Commits(v, o) <=> Commits(v, o)
  <2>1. Promise!Update(v, o) = Update(v, o)
    BY <1>4
  <2>2. Promise!ValidateStateBounds(Update(v, o)) <=> ValidateStateBounds(Update(v, o))
    BY <1>8
  <2>3. Promise!UpdateOk(v, o) <=> UpdateOk(v, o)
    BY <1>7
  <2>4. QED
    BY <2>1, <2>2, <2>3, Zenon DEF Promise!Commits, Commits
<1>10. QED
  BY <1>1, <1>3, <1>4, <1>9

(* The promise does not notice a step that leaves the flight alone.         *)
LEMMA FlightStutters ==
  ASSUME InFlight' = InFlight, \A d \in InFlight : base'[d] = base[d],
         UNCHANGED <<file, recent, accepted, allocated>>
  PROVE  UNCHANGED Promise!vars
<1>1. StoreValues' = StoreValues
  BY DEF StoreValues
<1>2. QED
  BY <1>1 DEF Promise!vars

(* Steps of a call up to its rename, and its directory sync, stutter.       *)
LEMMA CallStutters ==
  ASSUME FInv, NEW c \in Callers,
         \/ \E o \in Requests[c] : Call(c, o)
         \/ TakeMutex(c)
         \/ DropFuture(c)
         \/ LockFile(c)
         \/ ReadAndUpdate(c)
         \/ WriteTemporary(c)
         \/ SyncTemporary(c)
         \/ FailBeforeRename(c)
         \/ SyncDirectory(c)
  PROVE  UNCHANGED Promise!vars
<1>1. UNCHANGED <<file, recent, accepted, allocated>>
  BY DEF Call, TakeMutex, DropFuture, LockFile, ReadAndUpdate, WriteTemporary,
         SyncTemporary, FailBeforeRename, SyncDirectory, Step, fileVars, history
<1>2. pc'[c] \in Renamed <=> pc[c] \in Renamed
  BY DEF FInv, TypeOK, Renamed, Call, TakeMutex, DropFuture, LockFile,
         ReadAndUpdate, WriteTemporary, SyncTemporary, FailBeforeRename, Return,
         SyncDirectory, Step
<1>3. \A d \in Callers \ {c} : pc'[d] = pc[d]
  BY DEF FInv, TypeOK, Call, TakeMutex, DropFuture, LockFile,
         ReadAndUpdate, WriteTemporary, SyncTemporary, FailBeforeRename, Return,
         SyncDirectory, Step
<1>4. InFlight' = InFlight
  BY <1>2, <1>3 DEF InFlight, Renamed
<1>5. \A d \in InFlight : base'[d] = base[d]
  BY DEF FInv, TypeOK, InFlight, Call, TakeMutex, DropFuture, LockFile,
         ReadAndUpdate, WriteTemporary, SyncTemporary, FailBeforeRename, Return,
         SyncDirectory, Step
<1>6. QED
  BY <1>1, <1>4, <1>5, FlightStutters

(* The rename is not yet the update: its outcome is open.                   *)
LEMMA RenameStutters ==
  ASSUME FInv, FInv', NEW c \in Callers, Rename(c)
  PROVE  UNCHANGED Promise!vars
<1>1. /\ pc[c] = "synced" /\ pc'[c] = "renamed" /\ base' = base
      /\ UNCHANGED <<recent, accepted, allocated>>
  BY DEF Rename, Step, history, FInv, TypeOK
<1>2. InFlight = {} /\ base[c] = file
  BY <1>1, FlightIsUnique DEF FInv, CallerKnows, Inside, Prepared, Renamed
<1>3. StoreValues = file
  BY <1>2 DEF StoreValues
<1>4. InFlight' = {c}
  BY <1>1 DEF FInv, OneWriter, Inside, InFlight
<1>5. StoreValues' = base[c]
  BY <1>1, <1>4 DEF StoreValues
<1>6. QED
  BY <1>1, <1>2, <1>3, <1>5 DEF Promise!vars

(* What a renamed call does to the promise when it ends: its update is      *)
(* applied to the state the promise has been in since before the rename.    *)
LEMMA FlightEnds ==
  ASSUME FInv, NEW c \in Callers, pc[c] \in Renamed, InFlight' = {},
         file' = file
  PROVE  /\ op[c] \in Promise!Ops
         /\ Promise!Commits(StoreValues, op[c])
         /\ StoreValues' = Promise!Update(StoreValues, op[c])
         /\ Staged(c) = Promise!Update(StoreValues, op[c])
<1>1. /\ op[c] \in Ops /\ Commits(base[c], op[c])
      /\ file = Update(base[c], op[c])
  BY DEF FInv, CallerKnows, Renamed, Staged
<1>2. StoreValues = base[c]
  BY ValuesOfFlight
<1>3. StoreValues' = file
  BY DEF StoreValues
<1>4. QED
  BY <1>1, <1>2, <1>3, SameOperations DEF Staged

(* A renamed call that returns leaves nothing in flight.                    *)
LEMMA ReturnLands ==
  ASSUME FInv, NEW c \in Callers, pc[c] \in Renamed, Return(c)
  PROVE  InFlight' = {}
<1>1. InFlight = {c}
  BY ValuesOfFlight
<1>2. QED
  BY <1>1 DEF InFlight, Return, FInv, TypeOK

(* An acknowledged call is the step of the promise for its operation.       *)
LEMMA ReturnOkRefines ==
  ASSUME FInv, NEW c \in Callers, ReturnOk(c)
  PROVE  Promise!Next
<1>1. /\ pc[c] \in Renamed /\ Return(c) /\ file' = file
      /\ recent' = {Staged(c)}
  BY DEF ReturnOk, Renamed, fileVars
<1>2. InFlight' = {}
  BY <1>1, ReturnLands
<1>3. /\ op[c] \in Ops
      /\ Promise!Commits(StoreValues, op[c])
      /\ StoreValues' = Promise!Update(StoreValues, op[c])
      /\ recent' = {Promise!Update(StoreValues, op[c])}
  BY <1>1, <1>2, FlightEnds, SameOperations
<1>4. Promise!Acknowledge(op[c])
  BY <1>3 DEF Promise!Acknowledge
<1>5. CASE op[c].type = "record"
  <2>1. /\ op[c].batch \in SUBSET Promise!Observation
        /\ op[c] = [type |-> "record", batch |-> op[c].batch]
    BY <1>3, <1>5, SameOperations DEF Ops
  <2>2. accepted' = accepted \cup op[c].batch /\ allocated' = allocated
    BY <1>5 DEF ReturnOk
  <2>3. Promise!RecordBatchReturns(op[c].batch)
    BY <1>4, <2>1, <2>2, Zenon DEF Promise!RecordBatchReturns
  <2>4. QED
    BY <2>1, <2>3, Zenon DEF Promise!Next
<1>6. CASE op[c].type = "initialize"
  <2>1. /\ op[c].key \in PublisherKeys
        /\ op[c] = [type |-> "initialize", key |-> op[c].key]
    BY <1>3, <1>6 DEF Ops
  <2>2. accepted' = accepted /\ allocated' = allocated
    BY <1>6 DEF ReturnOk
  <2>3. Promise!InitializeReturns(op[c].key)
    BY <1>4, <2>1, <2>2 DEF Promise!InitializeReturns
  <2>4. QED
    BY <2>1, <2>3, Zenon DEF Promise!Next
<1>7. CASE op[c].type = "next"
  <2>1. /\ op[c].key \in PublisherKeys
        /\ op[c] = [type |-> "next", key |-> op[c].key]
    BY <1>3, <1>7 DEF Ops
  <2>2. StoreValues = base[c]
    BY <1>1, ValuesOfFlight
  <2>3. /\ accepted' = accepted
        /\ allocated' = allocated \cup
             {[key |-> op[c].key, seq |-> StoreValues[op[c].key].counter + 1]}
    BY <1>7, <2>2, AcknowledgedSound DEF ReturnOk
  <2>4. Promise!NextSequenceReturns(op[c].key)
    BY <1>4, <2>1, <2>3 DEF Promise!NextSequenceReturns
  <2>5. QED
    BY <2>1, <2>4, Zenon DEF Promise!Next
<1>8. QED
  BY <1>3, <1>5, <1>6, <1>7 DEF Ops

(* A renamed call that fails is an update nobody was told of.               *)
LEMMA FailAfterRenameRefines ==
  ASSUME FInv, NEW c \in Callers, FailAfterRename(c)
  PROVE  Promise!Next
<1>1. /\ pc[c] \in Renamed /\ Return(c) /\ file' = file
      /\ recent' = recent \cup {Staged(c)}
      /\ UNCHANGED <<accepted, allocated>>
  BY DEF FailAfterRename, Renamed, fileVars
<1>2. InFlight' = {}
  BY <1>1, ReturnLands
<1>3. op[c] \in Promise!Ops /\ Promise!Unacknowledged(op[c])
  BY <1>1, <1>2, FlightEnds DEF Promise!Unacknowledged
<1>4. QED
  BY <1>3, Zenon DEF Promise!Next

(* So is the renamed call, if any, of a process that is killed.             *)
LEMMA KillProcessRefines ==
  ASSUME FInv, NEW i \in Instances, KillProcess(i)
  PROVE  Promise!Next \/ UNCHANGED Promise!vars
<1> DEFINE dead == {c \in Callers : InstanceOf[c] = i}
<1>1. /\ Vanish(dead)
      /\ recent' = recent \cup {Staged(c) : c \in dead \cap InFlight}
      /\ UNCHANGED <<file, fileSynced, disk, accepted, allocated>>
  BY DEF KillProcess, fileVars
<1>2. InFlight' = InFlight \ dead
  BY <1>1 DEF InFlight, Vanish, FInv, TypeOK
<1>3. CASE dead \cap InFlight = {}
  <2>1. InFlight' = InFlight /\ recent' = recent
    BY <1>1, <1>2, <1>3
  <2>2. \A d \in InFlight : base'[d] = base[d]
    BY <1>1, <1>3 DEF Vanish, InFlight
  <2>3. QED
    BY <1>1, <2>1, <2>2, FlightStutters
<1>4. ASSUME NEW c \in dead \cap InFlight
      PROVE  Promise!Next
  <2>1. c \in Callers /\ pc[c] \in Renamed
    BY DEF InFlight, Renamed
  <2>2. InFlight = {c}
    BY <2>1, ValuesOfFlight
  <2>3. InFlight' = {} /\ recent' = recent \cup {Staged(c)}
    BY <1>1, <1>2, <2>2
  <2>4. op[c] \in Promise!Ops /\ Promise!Unacknowledged(op[c])
    BY <1>1, <2>1, <2>3, FlightEnds DEF Promise!Unacknowledged
  <2>5. QED
    BY <2>4, Zenon DEF Promise!Next
<1>5. QED
  BY <1>3, <1>4

(* A power loss finds a state that the promise allows: an earlier one, or   *)
(* the one whose rename was in flight.                                      *)
LEMMA PowerLossRefines ==
  ASSUME FInv, PowerLoss
  PROVE  Promise!Next
<1>1. /\ Vanish(Callers) /\ file' = disk /\ recent' = {disk}
      /\ UNCHANGED <<accepted, allocated>>
  BY DEF PowerLoss
<1>2. StoreValues' = disk
  BY <1>1 DEF Vanish, InFlight, StoreValues
<1>3. \/ disk \in recent
      \/ \E o \in Promise!Ops :
           Promise!Commits(StoreValues, o) /\ disk = Promise!Update(StoreValues, o)
  <2>1. CASE disk \in recent
    BY <2>1
  <2>2. CASE disk = file /\ InFlight = {}
    BY <2>2 DEF FInv, HistoryInv
  <2>3. ASSUME disk = file, NEW c \in InFlight
        PROVE  \E o \in Promise!Ops :
                 /\ Promise!Commits(StoreValues, o)
                 /\ disk = Promise!Update(StoreValues, o)
    <3>1. /\ op[c] \in Ops /\ Commits(base[c], op[c])
          /\ file = Update(base[c], op[c])
      BY DEF FInv, CallerKnows, InFlight, Renamed, Staged
    <3>2. StoreValues = base[c]
      BY ValuesOfFlight DEF InFlight, Renamed
    <3>3. QED
      BY <2>3, <3>1, <3>2, SameOperations
  <2>4. QED
    BY <2>1, <2>2, <2>3 DEF FInv, HistoryInv
<1>4. Promise!PowerLoss
  BY <1>1, <1>2, <1>3 DEF Promise!PowerLoss
<1>5. QED
  BY <1>4, Zenon DEF Promise!Next

(* Every step is a step of the promise, or one it does not notice.          *)
LEMMA NextRefines ==
  ASSUME FInv, FInv', [Next]_vars
  PROVE  [Promise!Next]_(Promise!vars)
<1>1. ASSUME NEW c \in Callers, CallStep(c) PROVE [Promise!Next]_(Promise!vars)
  <2>1. CASE ReturnOk(c) \/ FailAfterRename(c)
    BY <2>1, ReturnOkRefines, FailAfterRenameRefines
  <2>2. CASE Rename(c)
    BY <2>2, RenameStutters
  <2>3. QED
    BY <1>1, <2>1, <2>2, CallStutters DEF CallStep
<1>2. CASE Writeback
  BY <1>2, FlightStutters DEF Writeback, InFlight, history
<1>3. CASE UNCHANGED vars
  BY <1>3, FlightStutters DEF vars, InFlight
<1>4. QED
  BY <1>1, <1>2, <1>3, CallStutters, KillProcessRefines, PowerLossRefines DEF Next

(* update_file implements the promise of SequenceStore: its acknowledged    *)
(* updates are atomic and ordered, and no error, kill or power loss of any  *)
(* process loses one.                                                       *)
THEOREM FileStoreRefinement == Spec => ImplementsPromise
<1>1. Init => Promise!Init
  BY SameOperations DEF Init, Promise!Init, StoreValues, InFlight
<1>2. Spec => []FInv
  BY FileInvariance
<1>3. FInv /\ FInv' /\ [Next]_vars => [Promise!Next]_(Promise!vars)
  BY NextRefines
<1>4. QED
  BY <1>1, <1>2, <1>3, PTL DEF Spec, ImplementsPromise, Promise!Spec

=============================================================================
