-------------------------- MODULE FileSequenceStore --------------------------
(***************************************************************************)
(* The durable store of native clients (FileSequenceStore and update_file  *)
(* of crates/client/src/sequence.rs), step by step.                        *)
(*                                                                         *)
(* A call takes its instance's async mutex and runs update_file on a       *)
(* blocking thread: flock, read, update a copy, write a temporary file,    *)
(* fsync it, rename it over the state file, fsync the directory, unlock.   *)
(* Several instances (processes) share the directory.  Every I/O step may  *)
(* fail, a caller may drop its future at any await (the blocking thread    *)
(* goes on without the mutex), a process may be killed between any two     *)
(* steps, and a power loss returns the state file to what the disk holds.  *)
(***************************************************************************)
EXTENDS SequenceState

CONSTANTS
  Callers,       \* concurrent calls
  Instances,     \* FileSequenceStore values, each in a process of its own
  InstanceOf,    \* the instance a call is made on
  Requests,      \* the operations that each caller may ask for
  Nobody,        \* owner of a free lock
  NoOp,          \* the operation of an idle caller
  Corrupt        \* contents of a file whose data was never synced

ASSUME FileAssumption ==
  /\ InstanceOf \in [Callers -> Instances]
  /\ Requests \in [Callers -> SUBSET Ops]
  /\ Nobody \notin Callers
  /\ NoOp \notin Ops
  /\ Corrupt \notin SequenceStates

VARIABLES
  file,        \* the state file as processes see it
  fileSynced,  \* its data has been fsynced
  disk,        \* the state file a power loss would leave
  flock,       \* owner of the exclusive lock on the lock file
  mutex,       \* per instance: owner of update_lock
  pc,          \* where each call is
  op,          \* what each call was asked to do
  base,        \* the state each blocking thread read (read_state)
  recent,      \* history: states since the last acknowledged update
  accepted,    \* history: observations of batches that returned Ok
  allocated    \* history: locator sequences returned

fileVars == <<file, fileSynced, disk>>
history == <<recent, accepted, allocated>>
vars == <<file, fileSynced, disk, flock, mutex, pc, op, base,
          recent, accepted, allocated>>

(* A file that does not exist reads as the empty state.                     *)
Init ==
  /\ file = EmptyState
  /\ fileSynced = TRUE
  /\ disk = EmptyState
  /\ flock = Nobody
  /\ mutex = [i \in Instances |-> Nobody]
  /\ pc = [c \in Callers |-> "idle"]
  /\ op = [c \in Callers |-> NoOp]
  /\ base = [c \in Callers |-> EmptyState]
  /\ recent = {EmptyState}
  /\ accepted = {}
  /\ allocated = {}

Staged(c) == Update(base[c], op[c])

-----------------------------------------------------------------------------
(* The async half of a call.                                                *)

(* A conflicting batch is refused by prepare_batch before any lock.         *)
Call(c, o) ==
  /\ pc[c] = "idle"
  /\ o.type = "record" => PrepareBatchOk(o.batch)
  /\ pc' = [pc EXCEPT ![c] = "queued"]
  /\ op' = [op EXCEPT ![c] = o]
  /\ UNCHANGED <<fileVars, flock, mutex, base, history>>

(* update_lock.lock().await, then spawn_blocking.                           *)
TakeMutex(c) ==
  /\ pc[c] = "queued"
  /\ mutex[InstanceOf[c]] = Nobody
  /\ mutex' = [mutex EXCEPT ![InstanceOf[c]] = c]
  /\ pc' = [pc EXCEPT ![c] = "spawned"]
  /\ UNCHANGED <<fileVars, flock, op, base, history>>

(* The caller drops its future: it leaves the mutex queue, or its guard is  *)
(* released while the blocking thread, already spawned, runs on.            *)
DropFuture(c) ==
  /\ \/ /\ pc[c] = "queued"
        /\ pc' = [pc EXCEPT ![c] = "idle"]
        /\ op' = [op EXCEPT ![c] = NoOp]
        /\ UNCHANGED mutex
     \/ /\ mutex[InstanceOf[c]] = c
        /\ mutex' = [mutex EXCEPT ![InstanceOf[c]] = Nobody]
        /\ UNCHANGED <<pc, op>>
  /\ UNCHANGED <<fileVars, flock, base, history>>

-----------------------------------------------------------------------------
(* The blocking half: update_file.                                          *)

(* Variant: an early return leaves the file locked.                         *)
ReturnLocked(c) ==
  /\ pc' = [pc EXCEPT ![c] = "idle"]
  /\ op' = [op EXCEPT ![c] = NoOp]
  /\ base' = [base EXCEPT ![c] = EmptyState]
  /\ mutex' = [mutex EXCEPT ![InstanceOf[c]] = IF @ = c THEN Nobody ELSE @]
  /\ UNCHANGED flock

(* Leaving update_file closes the lock file, which releases the lock, and   *)
(* lets the waiting future, if there still is one, drop its mutex guard.    *)
Return(c) ==
  /\ pc' = [pc EXCEPT ![c] = "idle"]
  /\ op' = [op EXCEPT ![c] = NoOp]
  /\ base' = [base EXCEPT ![c] = EmptyState]
  /\ flock' = IF flock = c THEN Nobody ELSE flock
  /\ mutex' = [mutex EXCEPT ![InstanceOf[c]] = IF @ = c THEN Nobody ELSE @]

Step(c, from, to) ==
  /\ pc[c] = from
  /\ pc' = [pc EXCEPT ![c] = to]
  /\ UNCHANGED <<flock, mutex, op, base, history>>

(* Variant: the lock on the file is shared.                                 *)
LockFileShared(c) ==
  /\ pc[c] = "spawned"
  /\ flock' = c
  /\ pc' = [pc EXCEPT ![c] = "locked"]
  /\ UNCHANGED <<fileVars, mutex, op, base, history>>

LockFile(c) ==
  /\ pc[c] = "spawned"
  /\ flock = Nobody
  /\ flock' = c
  /\ pc' = [pc EXCEPT ![c] = "locked"]
  /\ UNCHANGED <<fileVars, mutex, op, base, history>>

(* Variant: the outcome of the update is ignored.                           *)
ReadAndUpdateAnyway(c) ==
  /\ pc[c] = "locked"
  /\ file # Corrupt
  /\ base' = [base EXCEPT ![c] = file]
  /\ pc' = [pc EXCEPT ![c] = "staged"]
  /\ UNCHANGED <<fileVars, flock, mutex, op, history>>

(* read_state, the update on the copy, validate_state_bounds.               *)
ReadAndUpdate(c) ==
  /\ pc[c] = "locked"
  /\ file # Corrupt
  /\ Readable(file)
  /\ Commits(file, op[c])
  /\ base' = [base EXCEPT ![c] = file]
  /\ pc' = [pc EXCEPT ![c] = "staged"]
  /\ UNCHANGED <<fileVars, flock, mutex, op, history>>

(* Create and write the temporary file under a fresh UUID name.             *)
WriteTemporary(c) == Step(c, "staged", "written") /\ UNCHANGED fileVars

SyncTemporary(c) == Step(c, "written", "synced") /\ UNCHANGED fileVars

Rename(c) ==
  /\ Step(c, "synced", "renamed")
  /\ file' = Staged(c)
  /\ fileSynced' = (pc[c] = "synced")
  /\ UNCHANGED disk

(* Variant: the directory is not synced.                                    *)
SkipSyncDirectory(c) == Step(c, "renamed", "durable") /\ UNCHANGED fileVars

SyncDirectory(c) ==
  /\ Step(c, "renamed", "durable")
  /\ disk' = IF fileSynced THEN file ELSE Corrupt
  /\ UNCHANGED <<file, fileSynced>>

(* Unlocking succeeds: update_file returns Ok with the update's result.     *)
ReturnOk(c) ==
  /\ pc[c] = "durable"
  /\ Return(c)
  /\ recent' = {Staged(c)}
  /\ accepted' = accepted \cup (IF op[c].type = "record" THEN op[c].batch ELSE {})
  /\ allocated' = allocated \cup
       (IF op[c].type = "next"
          THEN {[key |-> op[c].key, seq |-> Staged(c)[op[c].key].counter]}
          ELSE {})
  /\ UNCHANGED fileVars

(* The lock file cannot be opened or locked, the state cannot be read, the  *)
(* update is refused, or the temporary file cannot be created, written,     *)
(* synced or renamed (it is removed again): no effect.                      *)
FailBeforeRename(c) ==
  /\ pc[c] \in {"spawned", "locked", "staged", "written", "synced"}
  /\ Return(c)
  /\ UNCHANGED <<fileVars, history>>

(* The directory fsync or the unlock fails: the caller gets an error, but   *)
(* the state file has been replaced.                                        *)
FailAfterRename(c) ==
  /\ pc[c] \in {"renamed", "durable"}
  /\ Return(c)
  /\ recent' = recent \cup {Staged(c)}
  /\ UNCHANGED <<fileVars, accepted, allocated>>

-----------------------------------------------------------------------------
(* The environment.                                                         *)

(* The calls whose rename has happened and whose outcome is open.           *)
InFlight == {c \in Callers : pc[c] \in {"renamed", "durable"}}

(* The kernel writes the renamed directory entry back on its own.           *)
Writeback ==
  /\ disk # file
  /\ disk' = IF fileSynced THEN file ELSE Corrupt
  /\ UNCHANGED <<file, fileSynced, flock, mutex, pc, op, base, history>>

(* The calls of the set dead vanish; the kernel releases their locks.       *)
Vanish(dead) ==
  /\ pc' = [c \in Callers |-> IF c \in dead THEN "idle" ELSE pc[c]]
  /\ op' = [c \in Callers |-> IF c \in dead THEN NoOp ELSE op[c]]
  /\ base' = [c \in Callers |-> IF c \in dead THEN EmptyState ELSE base[c]]
  /\ flock' = IF flock \in dead THEN Nobody ELSE flock
  /\ mutex' = [i \in Instances |-> IF mutex[i] \in dead THEN Nobody ELSE mutex[i]]

(* A process is killed.  Its last rename, if any, stays in the page cache.  *)
KillProcess(i) ==
  LET dead == {c \in Callers : InstanceOf[c] = i}
  IN  /\ \E c \in dead : pc[c] # "idle"
      /\ Vanish(dead)
      /\ recent' = recent \cup {Staged(c) : c \in dead \cap InFlight}
      /\ UNCHANGED <<fileVars, accepted, allocated>>

PowerLoss ==
  /\ Vanish(Callers)
  /\ file' = disk
  /\ fileSynced' = TRUE
  /\ recent' = {disk}
  /\ UNCHANGED <<disk, accepted, allocated>>

CallStep(c) ==
  \/ TakeMutex(c)
  \/ LockFile(c)
  \/ ReadAndUpdate(c)
  \/ WriteTemporary(c)
  \/ SyncTemporary(c)
  \/ Rename(c)
  \/ SyncDirectory(c)
  \/ ReturnOk(c)
  \/ FailBeforeRename(c)
  \/ FailAfterRename(c)

Next ==
  \/ \E c \in Callers : \E o \in Requests[c] : Call(c, o)
  \/ \E c \in Callers : CallStep(c)
  \/ \E c \in Callers : DropFuture(c)
  \/ \E i \in Instances : KillProcess(i)
  \/ Writeback
  \/ PowerLoss

Spec == Init /\ [][Next]_vars

(* A blocking thread that is not waiting for the lock runs to its end: its  *)
(* steps are system calls that return.                                      *)
FairSpec == Spec /\ \A c \in Callers : WF_vars(CallStep(c))

-----------------------------------------------------------------------------
TypeOK ==
  /\ file \in SequenceStates \cup {Corrupt}
  /\ fileSynced \in BOOLEAN
  /\ disk \in SequenceStates \cup {Corrupt}
  /\ flock \in Callers \cup {Nobody}
  /\ mutex \in [Instances -> Callers \cup {Nobody}]
  /\ pc \in [Callers -> {"idle", "queued", "spawned", "locked", "staged",
                         "written", "synced", "renamed", "durable"}]
  /\ op \in [Callers -> Ops \cup {NoOp}]
  /\ base \in [Callers -> SequenceStates]

(* What the store promises: the state the callers may rely on is the file,  *)
(* except that an update still on its way to the disk has not happened yet. *)
StoreValues ==
  IF InFlight = {} THEN file ELSE base[CHOOSE c \in InFlight : TRUE]

Promise == INSTANCE SequenceStore WITH values <- StoreValues

(* update_file implements the promise: acknowledged updates are atomic,     *)
(* ordered and survive errors, kills and power losses of any process.       *)
ImplementsPromise == Promise!Spec

(* A power loss at this very moment loses nothing that was acknowledged.    *)
DiskHoldsAcknowledged ==
  /\ disk # Corrupt
  /\ \A o \in accepted : Remembers(disk, o)
  /\ \A a \in allocated :
       disk[a.key].kind = "publisher" /\ disk[a.key].counter >= a.seq

(* No thread ever overwrites an update it did not read: whoever is between  *)
(* its read and its rename still sees the state it started from.            *)
NoLostUpdate ==
  \A c \in Callers :
    pc[c] \in {"staged", "written", "synced"} => base[c] = file

(* Whatever fails, and even if its caller has gone, a call that holds the   *)
(* directory lock gives it up: the store cannot be wedged.                  *)
LockIsReleased == \A c \in Callers : flock = c ~> flock # c

=============================================================================
