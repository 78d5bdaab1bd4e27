------------------------- MODULE SequenceStateProofs -------------------------
(***************************************************************************)
(* What the updates of SequenceState do to a state, for every set of keys  *)
(* and digests and for every limit.                                        *)
(***************************************************************************)
EXTENDS SequenceState, FiniteSetTheorems, TLAPS

(* The entry that record_authenticated_batch stores for an observed key is  *)
(* the one of its observation.                                              *)
LEMMA RecordedEntry ==
  ASSUME NEW v \in SequenceStates, NEW batch \in SUBSET Observation,
         PrepareBatchOk(batch), NEW o \in batch
  PROVE  RecordBatch(v, batch)[o.key] = Authenticated(o.counter, o.digest)
<1>1. o.key \in Keys /\ o.key \in BatchKeys(batch)
  BY DEF Observation, Keys, BatchKeys
<1>2. \A p \in batch : p.key = o.key => p = o
  BY DEF PrepareBatchOk
<1>3. (CHOOSE p \in batch : p.key = o.key) = o
  BY <1>2
<1>4. QED
  BY <1>1, <1>3 DEF RecordBatch

(* Every update of the state is again a state.                              *)
LEMMA UpdateType ==
  ASSUME NEW v \in SequenceStates, NEW op \in Ops, UpdateOk(v, op)
  PROVE  Update(v, op) \in SequenceStates
<1>1. CASE op.type = "record"
  <2>1. op.batch \in SUBSET Observation /\ PrepareBatchOk(op.batch)
    BY <1>1 DEF Ops, UpdateOk
  <2>2. ASSUME NEW k \in Keys
        PROVE  RecordBatch(v, op.batch)[k] \in StoredSequence \cup {Missing}
    <3>1. CASE k \in BatchKeys(op.batch)
      <4>1. PICK o \in op.batch : o.key = k
        BY <3>1 DEF BatchKeys
      <4>2. RecordBatch(v, op.batch)[k] = Authenticated(o.counter, o.digest)
        BY <2>1, <4>1, RecordedEntry
      <4>3. o.counter \in 1..MaxCounter /\ o.digest \in Digests
        BY <2>1 DEF Observation
      <4>4. QED
        BY <4>2, <4>3 DEF Authenticated, StoredSequence
    <3>2. CASE k \notin BatchKeys(op.batch)
      BY <3>2 DEF RecordBatch, SequenceStates
    <3>3. QED
      BY <3>1, <3>2
  <2>3. QED
    BY <1>1, <2>2 DEF Update, RecordBatch, SequenceStates
<1>2. CASE op.type = "initialize"
  <2>1. op.key \in Keys
    BY <1>2 DEF Ops, Keys
  <2>2. Publisher(0) \in StoredSequence
    BY SequenceAssumption DEF Publisher, StoredSequence
  <2>3. QED
    BY <1>2, <2>1, <2>2 DEF Update, InitializePublisher, SequenceStates
<1>3. CASE op.type = "next"
  <2>1. op.key \in Keys /\ v[op.key].kind = "publisher"
          /\ v[op.key].counter < MaxCounter
    BY <1>3 DEF Ops, Keys, UpdateOk, NextPublisherOk
  <2>2. v[op.key].counter \in 0..MaxCounter
    BY <2>1 DEF SequenceStates, StoredSequence, Missing
  <2>3. Publisher(v[op.key].counter + 1) \in StoredSequence
    BY <2>1, <2>2, SequenceAssumption DEF Publisher, StoredSequence
  <2>4. QED
    BY <1>3, <2>1, <2>3 DEF Update, NextPublisherValue, SequenceStates
<1>4. QED
  BY <1>1, <1>2, <1>3 DEF Ops

(* A batch that is recorded is remembered by the new state.                 *)
LEMMA RecordRemembers ==
  ASSUME NEW v \in SequenceStates, NEW batch \in SUBSET Observation,
         PrepareBatchOk(batch), NEW o \in batch
  PROVE  Remembers(RecordBatch(v, batch), o)
<1>1. RecordBatch(v, batch)[o.key] = Authenticated(o.counter, o.digest)
  BY RecordedEntry
<1>2. o.counter \in Int
  BY DEF Observation
<1>3. QED
  BY <1>1, <1>2 DEF Remembers, Authenticated

(* No update forgets an observation that the state remembers.               *)
LEMMA UpdateRemembers ==
  ASSUME NEW v \in SequenceStates, NEW op \in Ops, UpdateOk(v, op),
         NEW o \in Observation, Remembers(v, o)
  PROVE  Remembers(Update(v, op), o)
<1> DEFINE w == Update(v, op)
<1>0. o.key \in AuthKeys /\ o.key \in Keys /\ o.key \notin PublisherKeys
      /\ o.counter \in Int
  BY SequenceAssumption DEF Observation, Keys
<1>1. CASE op.type = "record" /\ o.key \in BatchKeys(op.batch)
  <2>1. op.batch \in SUBSET Observation /\ PrepareBatchOk(op.batch)
        /\ \A p \in op.batch : RecordValueOk(v, p)
    BY <1>1 DEF Ops, UpdateOk, RecordBatchOk
  <2>2. PICK p \in op.batch : p.key = o.key
    BY <1>1 DEF BatchKeys
  <2>3. w[o.key] = Authenticated(p.counter, p.digest)
    BY <1>1, <2>1, <2>2, RecordedEntry DEF Update
  <2>4. /\ p.counter \in Int
        /\ p.counter >= v[o.key].counter
        /\ p.counter = v[o.key].counter => p.digest = v[o.key].digest
    BY <2>1, <2>2 DEF RecordValueOk, Observation
  <2>5. v[o.key].counter \in Int
    BY <1>0 DEF SequenceStates, StoredSequence, Missing
  <2>6. QED
    BY <1>0, <2>3, <2>4, <2>5 DEF Remembers, Authenticated
<1>2. CASE op.type = "record" /\ o.key \notin BatchKeys(op.batch)
  <2>1. w[o.key] = v[o.key]
    BY <1>0, <1>2 DEF Update, RecordBatch
  <2>2. QED
    BY <2>1 DEF Remembers
<1>3. CASE op.type \in {"initialize", "next"}
  <2>1. op.key # o.key
    BY <1>0, <1>3 DEF Ops
  <2>2. w[o.key] = v[o.key]
    BY <1>0, <1>3, <2>1
    DEF Update, InitializePublisher, NextPublisherValue, SequenceStates
  <2>3. QED
    BY <2>2 DEF Remembers
<1>4. QED
  BY <1>1, <1>2, <1>3 DEF Ops

(* No update lowers a publisher counter.                                    *)
LEMMA UpdateKeepsCounter ==
  ASSUME NEW v \in SequenceStates, NEW op \in Ops, UpdateOk(v, op),
         NEW k \in PublisherKeys, v[k].kind = "publisher"
  PROVE  /\ Update(v, op)[k].kind = "publisher"
         /\ Update(v, op)[k].counter >= v[k].counter
<1>0. k \in Keys /\ k \notin AuthKeys /\ v[k].counter \in Int
  BY SequenceAssumption DEF Keys, SequenceStates, StoredSequence, Missing
<1>1. CASE op.type = "record"
  <2>1. k \notin BatchKeys(op.batch)
    BY <1>0, <1>1 DEF Ops, BatchKeys, Observation
  <2>2. QED
    BY <1>0, <1>1, <2>1 DEF Update, RecordBatch
<1>2. CASE op.type = "initialize"
  <2>1. v[op.key] = Missing
    BY <1>2 DEF UpdateOk, InitializePublisherOk
  <2>2. op.key # k
    BY <2>1 DEF Missing
  <2>3. QED
    BY <1>0, <1>2, <2>2 DEF Update, InitializePublisher, SequenceStates
<1>3. CASE op.type = "next"
  BY <1>0, <1>3 DEF Update, NextPublisherValue, SequenceStates, Publisher
<1>4. QED
  BY <1>1, <1>2, <1>3 DEF Ops

(* A state that read_state accepts is updated to one that it accepts.       *)
LEMMA UpdateReadable ==
  ASSUME NEW v \in SequenceStates, NEW op \in Ops, Commits(v, op), Readable(v)
  PROVE  Readable(Update(v, op))
<1> DEFINE w == Update(v, op)
<1>1. ValidateStateBounds(w) /\ UpdateOk(v, op)
  BY DEF Commits
<1>2. ASSUME NEW k \in Entries(w)
      PROVE  ValidateStoredEntry(k, w[k])
  <2>0. k \in Keys
    BY DEF Entries
  <2>1. CASE w[k] = v[k]
    BY <2>0, <2>1 DEF Entries, Readable
  <2>2. CASE w[k] # v[k] /\ op.type = "record"
    <3>1. op.batch \in SUBSET Observation /\ PrepareBatchOk(op.batch)
      BY <2>2, <1>1 DEF Ops, UpdateOk
    <3>2. k \in BatchKeys(op.batch)
      BY <2>0, <2>2 DEF Update, RecordBatch
    <3>3. PICK o \in op.batch : o.key = k
      BY <3>2 DEF BatchKeys
    <3>4. w[k] = Authenticated(o.counter, o.digest)
      BY <2>2, <3>1, <3>3, RecordedEntry DEF Update
    <3>5. o.counter > 0 /\ k \notin PublisherKeys
      BY <3>1, <3>3, SequenceAssumption DEF Observation
    <3>6. QED
      BY <3>4, <3>5 DEF ValidateStoredEntry, Authenticated
  <2>3. CASE w[k] # v[k] /\ op.type \in {"initialize", "next"}
    <3>1. op.key = k /\ k \in PublisherKeys
      BY <2>0, <2>3
      DEF Ops, Update, InitializePublisher, NextPublisherValue, SequenceStates
    <3>2. w[k].kind = "publisher"
      BY <2>0, <2>3, <3>1
      DEF Update, InitializePublisher, NextPublisherValue, SequenceStates, Publisher
    <3>3. QED
      BY <3>1, <3>2 DEF ValidateStoredEntry
  <2>4. QED
    BY <2>1, <2>2, <2>3 DEF Ops
<1>3. QED
  BY <1>1, <1>2 DEF Readable

(* Allocations, as next_locator_sequence returns them.                      *)
HandedOut == [key : PublisherKeys, seq : 1..MaxCounter]

(* A state v that a store may be found with after it has accepted the       *)
(* observations obs and handed out the sequences seqs.                      *)
Sound(v, obs, seqs) ==
  /\ v \in SequenceStates
  /\ \A o \in obs : Remembers(v, o)
  /\ \A a \in seqs :
       v[a.key].kind = "publisher" /\ v[a.key].counter >= a.seq
  /\ Readable(v)

(* The empty state is sound for a store that has acknowledged nothing.      *)
LEMMA EmptySound == Sound(EmptyState, {}, {})
<1>1. EmptyState \in SequenceStates
  BY DEF EmptyState, SequenceStates
<1>2. Entries(EmptyState) = {}
  BY DEF Entries, EmptyState
<1>3. Readable(EmptyState)
  BY <1>2, FS_EmptySet, SequenceAssumption, EmptyStateFits
  DEF Readable, ValidateStateBounds
<1>4. QED
  BY <1>1, <1>3 DEF Sound

(* An update that commits leads from a sound state to a sound state.        *)
LEMMA UpdateSound ==
  ASSUME NEW obs \in SUBSET Observation, NEW seqs \in SUBSET HandedOut,
         NEW v, Sound(v, obs, seqs), NEW op \in Ops, Commits(v, op)
  PROVE  Sound(Update(v, op), obs, seqs)
<1>0. v \in SequenceStates /\ UpdateOk(v, op) /\ Readable(v)
  BY DEF Sound, Commits
<1>1. Update(v, op) \in SequenceStates
  BY <1>0, UpdateType
<1>2. ASSUME NEW o \in obs
      PROVE  Remembers(Update(v, op), o)
  BY <1>0, UpdateRemembers DEF Sound
<1>3. ASSUME NEW a \in seqs
      PROVE  /\ Update(v, op)[a.key].kind = "publisher"
             /\ Update(v, op)[a.key].counter >= a.seq
  <2>1. /\ a.key \in PublisherKeys /\ a.seq \in Int /\ a.key \in Keys
        /\ v[a.key].kind = "publisher" /\ v[a.key].counter >= a.seq
    BY DEF Sound, HandedOut, Keys
  <2>2. v[a.key].counter \in Int /\ Update(v, op)[a.key].counter \in Int
    BY <1>0, <1>1, <2>1 DEF SequenceStates, StoredSequence, Missing
  <2>3. /\ Update(v, op)[a.key].kind = "publisher"
        /\ Update(v, op)[a.key].counter >= v[a.key].counter
    BY <1>0, <2>1, UpdateKeepsCounter
  <2>4. QED
    BY <2>1, <2>2, <2>3
<1>4. Readable(Update(v, op))
  BY <1>0, UpdateReadable
<1>5. QED
  BY <1>1, <1>2, <1>3, <1>4 DEF Sound

(* A batch that commits is remembered by the state that it leads to.        *)
LEMMA RecordSound ==
  ASSUME NEW obs \in SUBSET Observation, NEW seqs \in SUBSET HandedOut,
         NEW v, Sound(v, obs, seqs), NEW op \in Ops, Commits(v, op),
         op.type = "record"
  PROVE  /\ op.batch \in SUBSET Observation
         /\ Sound(Update(v, op), obs \cup op.batch, seqs)
<1>1. op.batch \in SUBSET Observation /\ PrepareBatchOk(op.batch)
  BY DEF Ops, Commits, UpdateOk
<1>2. v \in SequenceStates /\ Update(v, op) = RecordBatch(v, op.batch)
  BY DEF Update, Sound
<1>3. \A o \in op.batch : Remembers(Update(v, op), o)
  BY <1>1, <1>2, RecordRemembers
<1>4. Sound(Update(v, op), obs, seqs)
  BY UpdateSound
<1>5. QED
  BY <1>1, <1>3, <1>4 DEF Sound

(* A sequence that is handed out is the counter of the state it leads to.   *)
LEMMA NextSound ==
  ASSUME NEW obs \in SUBSET Observation, NEW seqs \in SUBSET HandedOut,
         NEW v, Sound(v, obs, seqs), NEW op \in Ops, Commits(v, op),
         op.type = "next"
  PROVE  /\ [key |-> op.key, seq |-> v[op.key].counter + 1] \in HandedOut
         /\ Update(v, op)[op.key].counter = v[op.key].counter + 1
         /\ Sound(Update(v, op), obs,
                  seqs \cup {[key |-> op.key, seq |-> v[op.key].counter + 1]})
<1> DEFINE n == v[op.key].counter + 1
           a == [key |-> op.key, seq |-> n]
<1>1. /\ op.key \in PublisherKeys /\ op.key \in Keys
      /\ v[op.key].kind = "publisher" /\ v[op.key].counter < MaxCounter
  BY DEF Ops, Commits, UpdateOk, NextPublisherOk, Keys
<1>2. v \in SequenceStates /\ v[op.key].counter \in 0..MaxCounter
  BY <1>1 DEF Sound, SequenceStates, StoredSequence, Missing
<1>3. Update(v, op)[op.key] = Publisher(n)
  BY <1>1, <1>2 DEF Update, NextPublisherValue, SequenceStates
<1>4. n \in 1..MaxCounter
  BY <1>1, <1>2, SequenceAssumption
<1> HIDE DEF n
<1>5. /\ Update(v, op)[a.key].kind = "publisher"
      /\ Update(v, op)[a.key].counter = n
  BY <1>3 DEF Publisher
<1>6. a \in HandedOut
  BY <1>1, <1>4 DEF HandedOut
<1>7. Sound(Update(v, op), obs, seqs)
  BY UpdateSound
<1>8. Sound(Update(v, op), obs, seqs \cup {a})
  <2>1. /\ Update(v, op)[a.key].kind = "publisher"
        /\ Update(v, op)[a.key].counter >= a.seq
    BY <1>4, <1>5
  <2>2. QED
    BY <1>7, <2>1 DEF Sound
<1>9. QED
  BY <1>5, <1>6, <1>8 DEF n

=============================================================================
