------------------------- MODULE SequenceStoreProofs -------------------------
(***************************************************************************)
(* Proofs about SequenceStore: the properties that TLC checks on a small   *)
(* instance hold for every set of keys and digests and for every limit.    *)
(***************************************************************************)
EXTENDS SequenceStore, SequenceStateProofs, TLAPS

-----------------------------------------------------------------------------
(***************************************************************************)
(* The inductive invariant.  A power loss returns to any state of recent,  *)
(* so everything is said of all of them, and values must be one of them.   *)
(***************************************************************************)
IInv ==
  /\ TypeOK
  /\ values \in recent
  /\ NothingAcknowledgedIsLost
  /\ NoEquivocation
  /\ StateStaysReadable

(* The inductive invariant says exactly that values is in recent and every  *)
(* state of recent is sound, next to the claims about the history alone.    *)
LEMMA IInvSound ==
  IInv <=> /\ values \in recent
           /\ \A v \in recent : Sound(v, accepted, allocated)
           /\ accepted \subseteq Observation
           /\ allocated \subseteq Allocation
           /\ NoEquivocation
<1>1. values \in recent => recent \cup {values} = recent
  OBVIOUS
<1>2. QED
  BY <1>1 DEF IInv, TypeOK, Sound, NothingAcknowledgedIsLost, StateStaysReadable

(* The states that the store may be in at the start satisfy it.             *)
LEMMA InitIInv == Init => IInv
<1> SUFFICES ASSUME Init PROVE IInv
  OBVIOUS
<1>1. QED
  BY EmptySound, IInvSound DEF Init, NoEquivocation

(* What the newly accepted observations of a batch are against the earlier  *)
(* ones: not below them, and equal where the counters are equal.            *)
LEMMA AcceptedAbove ==
  ASSUME IInv, NEW batch \in SUBSET Observation,
         \A o \in batch : RecordValueOk(values, o),
         NEW o \in batch, NEW p \in accepted, p.key = o.key
  PROVE  p.counter <= o.counter /\ (p.counter = o.counter => p.digest = o.digest)
<1>1. Remembers(values, p) /\ RecordValueOk(values, o)
  BY DEF IInv, NothingAcknowledgedIsLost
<1>2. o.counter \in Int /\ p.counter \in Int /\ p.key \in Keys
  BY DEF IInv, TypeOK, Observation, Keys
<1>3. values[p.key].counter \in Int
  BY <1>2 DEF IInv, TypeOK, SequenceStates, StoredSequence, Missing
<1>4. QED
  BY <1>1, <1>2, <1>3 DEF Remembers, RecordValueOk

(* Every step preserves the inductive invariant.                            *)
LEMMA NextIInv == IInv /\ [Next]_vars => IInv'
<1> SUFFICES ASSUME IInv, [Next]_vars PROVE IInv'
  OBVIOUS
<1>0. /\ values \in recent /\ \A v \in recent : Sound(v, accepted, allocated)
      /\ TypeOK /\ NoEquivocation
      /\ accepted \in SUBSET Observation /\ allocated \in SUBSET HandedOut
  BY IInvSound DEF IInv, TypeOK, Allocation, HandedOut
<1>1. ASSUME NEW batch \in SUBSET Observation, RecordBatchReturns(batch)
      PROVE  IInv'
  <2> DEFINE o1 == [type |-> "record", batch |-> batch]
  <2>1. o1 \in Ops /\ Commits(values, o1) /\ values' = Update(values, o1)
        /\ recent' = {Update(values, o1)}
        /\ accepted' = accepted \cup batch /\ allocated' = allocated
    BY <1>1 DEF RecordBatchReturns, Acknowledge, Ops
  <2>2. PrepareBatchOk(batch) /\ \A o \in batch : RecordValueOk(values, o)
    BY <2>1 DEF Commits, UpdateOk, RecordBatchOk
  <2>3. Sound(values', accepted, allocated)
    BY <1>0, <2>1, UpdateSound
  <2>4. values' = RecordBatch(values, batch)
    BY <2>1 DEF Update
  <2>5. \A o \in batch : Remembers(values', o)
    BY <1>0, <2>2, <2>4, RecordRemembers DEF TypeOK
  <2>6. NoEquivocation'
    <3> SUFFICES ASSUME NEW o \in accepted', NEW p \in accepted',
                        o.key = p.key, o.counter = p.counter
                 PROVE  o.digest = p.digest
      BY DEF NoEquivocation
    <3>1. CASE o \in accepted /\ p \in accepted
      BY <1>0, <3>1 DEF NoEquivocation
    <3>2. CASE o \in batch /\ p \in batch
      BY <2>2, <3>2 DEF PrepareBatchOk
    <3>3. CASE o \in batch /\ p \in accepted
      BY <2>2, <3>3, AcceptedAbove
    <3>4. CASE o \in accepted /\ p \in batch
      BY <2>2, <3>4, AcceptedAbove
    <3>5. QED
      BY <2>1, <3>1, <3>2, <3>3, <3>4
  <2>7. QED
    BY <1>0, <2>1, <2>3, <2>5, <2>6
    DEF IInv, TypeOK, Sound, NothingAcknowledgedIsLost, StateStaysReadable
<1>2. ASSUME NEW k \in PublisherKeys, InitializeReturns(k)
      PROVE  IInv'
  <2> DEFINE o2 == [type |-> "initialize", key |-> k]
  <2>1. o2 \in Ops /\ Commits(values, o2) /\ values' = Update(values, o2)
        /\ recent' = {Update(values, o2)}
        /\ accepted' = accepted /\ allocated' = allocated
    BY <1>2 DEF InitializeReturns, Acknowledge, Ops
  <2>2. Sound(values', accepted, allocated)
    BY <1>0, <2>1, UpdateSound
  <2>3. QED
    BY <1>0, <2>1, <2>2
    DEF IInv, TypeOK, Sound, NothingAcknowledgedIsLost, NoEquivocation,
        StateStaysReadable
<1>3. ASSUME NEW k \in PublisherKeys, NextSequenceReturns(k)
      PROVE  IInv'
  <2> DEFINE o3 == [type |-> "next", key |-> k]
             a == [key |-> k, seq |-> values[k].counter + 1]
  <2>1. o3 \in Ops /\ Commits(values, o3) /\ values' = Update(values, o3)
        /\ recent' = {Update(values, o3)}
        /\ accepted' = accepted /\ allocated' = allocated \cup {a}
    BY <1>3 DEF NextSequenceReturns, Acknowledge, Ops
  <2>2. Sound(values', accepted, allocated)
    BY <1>0, <2>1, UpdateSound
  <2>3. values[k].kind = "publisher" /\ values[k].counter < MaxCounter
        /\ k \in Keys
    BY <2>1 DEF Commits, UpdateOk, NextPublisherOk, Keys
  <2>4. values[k].counter \in 0..MaxCounter
    BY <1>0, <2>3 DEF TypeOK, SequenceStates, StoredSequence, Missing
  <2>5. values'[k] = Publisher(values[k].counter + 1)
    BY <1>0, <2>1, <2>3
    DEF Update, NextPublisherValue, TypeOK, SequenceStates
  <2>6. a \in Allocation /\ values'[k].kind = "publisher"
        /\ values'[k].counter >= a.seq
    BY <2>3, <2>4, <2>5, SequenceAssumption DEF Allocation, Publisher
  <2>7. QED
    BY <1>0, <2>1, <2>2, <2>6
    DEF IInv, TypeOK, Sound, NothingAcknowledgedIsLost, NoEquivocation,
        StateStaysReadable
<1>4. ASSUME NEW op \in Ops, Unacknowledged(op)
      PROVE  IInv'
  <2>1. Commits(values, op) /\ values' = Update(values, op)
        /\ recent' = recent \cup {Update(values, op)}
        /\ accepted' = accepted /\ allocated' = allocated
    BY <1>4 DEF Unacknowledged
  <2>2. Sound(Update(values, op), accepted, allocated)
    BY <1>0, <2>1, UpdateSound
  <2>3. QED
    BY <1>0, <2>1, <2>2
    DEF IInv, TypeOK, Sound, NothingAcknowledgedIsLost, NoEquivocation,
        StateStaysReadable
<1>5. ASSUME PowerLoss
      PROVE  IInv'
  <2>1. recent' = {values'} /\ accepted' = accepted /\ allocated' = allocated
    BY <1>5 DEF PowerLoss
  <2>2. Sound(values', accepted, allocated)
    <3>1. CASE values' \in recent
      BY <1>0, <3>1
    <3>2. ASSUME NEW op \in Ops, Commits(values, op), values' = Update(values, op)
          PROVE  Sound(values', accepted, allocated)
      BY <1>0, <3>2, UpdateSound
    <3>3. QED
      BY <1>5, <3>1, <3>2 DEF PowerLoss
  <2>3. QED
    BY <1>0, <2>1, <2>2
    DEF IInv, TypeOK, Sound, NothingAcknowledgedIsLost, NoEquivocation,
        StateStaysReadable
<1>6. CASE UNCHANGED vars
  BY <1>6
  DEF vars, IInv, TypeOK, NothingAcknowledgedIsLost, NoEquivocation,
      StateStaysReadable
<1>7. QED
  BY <1>1, <1>2, <1>3, <1>4, <1>5, <1>6 DEF Next

-----------------------------------------------------------------------------
(* The invariant holds in every reachable state.                            *)
THEOREM Invariance == Spec => []IInv
<1>1. QED
  BY InitIInv, NextIInv, PTL DEF Spec

(* The variables keep their types.                                          *)
THEOREM TypeCorrectness == Spec => []TypeOK
<1>1. IInv => TypeOK
  BY DEF IInv
<1>2. QED
  BY <1>1, Invariance, PTL

(* Whatever updates fail halfway and whatever power losses occur, the store *)
(* still holds every floor it accepted and never falls back below a locator *)
(* sequence it handed out.                                                  *)
THEOREM Durability == Spec => []NothingAcknowledgedIsLost
<1>1. IInv => NothingAcknowledgedIsLost
  BY DEF IInv
<1>2. QED
  BY <1>1, Invariance, PTL

(* No two records with the same counter and different digests are ever both *)
(* accepted, also when the store crashed or returned errors in between.     *)
THEOREM EquivocationDetected == Spec => []NoEquivocation
<1>1. IInv => NoEquivocation
  BY DEF IInv
<1>2. QED
  BY <1>1, Invariance, PTL

(* Every state that the store may be found in is one that read_state loads. *)
THEOREM NeverBricked == Spec => []StateStaysReadable
<1>1. IInv => StateStaysReadable
  BY DEF IInv
<1>2. QED
  BY <1>1, Invariance, PTL

(* A locator sequence that next_locator_sequence returns is greater than    *)
(* every one that it returned before for the same control key.              *)
THEOREM FreshAllocations == Spec => AllocationsIncrease
<1> DEFINE Fresh == \A k \in PublisherKeys :
                      NextSequenceReturns(k) =>
                        \A a \in allocated :
                          a.key = k => a.seq < values[k].counter + 1
<1>1. IInv /\ [Next]_vars => [Fresh]_vars
  <2> SUFFICES ASSUME IInv, NEW k \in PublisherKeys, NEW a \in allocated,
                      a.key = k
               PROVE  a.seq < values[k].counter + 1
    OBVIOUS
  <2>1. a.seq \in Int /\ k \in Keys
    BY DEF IInv, TypeOK, Allocation, Keys
  <2>2. values[k].counter >= a.seq /\ values[k].counter \in Int
    BY <2>1
    DEF IInv, NothingAcknowledgedIsLost, TypeOK, SequenceStates,
        StoredSequence, Missing
  <2>3. QED
    BY <2>1, <2>2
<1>2. QED
  BY <1>1, Invariance, PTL DEF Spec, AllocationsIncrease

(* No record is accepted below one that was accepted before for its key.    *)
THEOREM NoRollback == Spec => AcceptedNeverRollsBack
<1> DEFINE Above == \A batch \in SUBSET Observation :
                      RecordBatchReturns(batch) =>
                        \A o \in batch : \A p \in accepted :
                          p.key = o.key => p.counter <= o.counter
<1>1. IInv /\ [Next]_vars => [Above]_vars
  <2> SUFFICES ASSUME IInv, NEW batch \in SUBSET Observation,
                      RecordBatchReturns(batch),
                      NEW o \in batch, NEW p \in accepted, p.key = o.key
               PROVE  p.counter <= o.counter
    OBVIOUS
  <2>1. \A q \in batch : RecordValueOk(values, q)
    BY DEF RecordBatchReturns, Acknowledge, Commits, UpdateOk, RecordBatchOk
  <2>2. QED
    BY <2>1, AcceptedAbove
<1>2. QED
  BY <1>1, Invariance, PTL DEF Spec, AcceptedNeverRollsBack

=============================================================================
