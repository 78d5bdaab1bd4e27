--------------------------- MODULE SequenceState ---------------------------
(***************************************************************************)
(* The sequence state shared by every sequence store of the client crate   *)
(* (crates/client/src/sequence.rs): a bounded map from canonical keys to   *)
(* either an authenticated anti-rollback floor (counter and digest) or a   *)
(* publisher counter, and the three updates a store applies to it.         *)
(*                                                                         *)
(* A key "<identity>:<scope>" is a model value.  Whether its scope starts  *)
(* with the reserved publisher prefix is all the code ever asks of it, so  *)
(* the keys are split into AuthKeys and PublisherKeys.  An absent map key  *)
(* is the entry Missing.                                                   *)
(***************************************************************************)
EXTENDS Integers, FiniteSets

CONSTANTS
  AuthKeys,        \* keys whose scope is not "v1:publisher:..."
  PublisherKeys,   \* keys whose scope is "v1:publisher:<control key>"
  Digests,         \* digests of authenticated records
  NoDigest,        \* a publisher counter has no digest
  MaxEntries,      \* MAX_STATE_ENTRIES
  MaxCounter,      \* u64::MAX
  MaxBytes,        \* MAX_STATE_BYTES
  EncodedLen(_)    \* length of the JSON encoding of a state

ASSUME SequenceAssumption ==
  /\ AuthKeys \cap PublisherKeys = {}
  /\ IsFiniteSet(AuthKeys)
  /\ IsFiniteSet(PublisherKeys)
  /\ NoDigest \notin Digests
  /\ MaxEntries \in Nat
  /\ MaxCounter \in Nat

Keys == AuthKeys \cup PublisherKeys

Publisher(counter) ==
  [kind |-> "publisher", counter |-> counter, digest |-> NoDigest]

(* Variant: the digest is not stored with the floor.                        *)
AuthenticatedNoDigest(counter, digest) ==
  [kind |-> "authenticated", counter |-> counter, digest |-> NoDigest]

Authenticated(counter, digest) ==
  [kind |-> "authenticated", counter |-> counter, digest |-> digest]

Missing == [kind |-> "missing", counter |-> 0, digest |-> NoDigest]

StoredSequence ==
  [kind : {"publisher"}, counter : 0..MaxCounter, digest : {NoDigest}]
    \cup [kind : {"authenticated"}, counter : 1..MaxCounter, digest : Digests]

SequenceStates == [Keys -> StoredSequence \cup {Missing}]

EmptyState == [k \in Keys |-> Missing]

Entries(values) == {k \in Keys : values[k] # Missing}

-----------------------------------------------------------------------------
(* Authenticated observations.  The constructor refuses reserved scopes     *)
(* and zero counters, so a batch is a set of these.                         *)

Observation == [key : AuthKeys, counter : 1..MaxCounter, digest : Digests]

(* prepare_batch: two observations of one key must be the same observation. *)
PrepareBatchOk(batch) ==
  \A o, p \in batch : o.key = p.key => o = p

(* Variants: a lower counter passes; a second digest at one counter passes. *)
RecordValueRollsBack(values, o) ==
  /\ values[o.key].kind # "publisher"
  /\ o.counter = values[o.key].counter => o.digest = values[o.key].digest

RecordValueAnyDigest(values, o) ==
  /\ values[o.key].kind # "publisher"
  /\ o.counter >= values[o.key].counter

(* record_authenticated_value, the checks against the stored entry.         *)
RecordValueOk(values, o) ==
  /\ values[o.key].kind # "publisher"
  /\ o.counter >= values[o.key].counter
  /\ o.counter = values[o.key].counter => o.digest = values[o.key].digest

BatchKeys(batch) == {o.key : o \in batch}

(* record_authenticated_batch: every value is accepted, and every insertion *)
(* of a new key found fewer than MAX_STATE_ENTRIES entries.                 *)
RecordBatchOk(values, batch) ==
  /\ \A o \in batch : RecordValueOk(values, o)
  /\ \/ BatchKeys(batch) \subseteq Entries(values)
     \/ Cardinality(Entries(values) \cup BatchKeys(batch)) <= MaxEntries

RecordBatch(values, batch) ==
  [k \in Keys |->
     IF k \in BatchKeys(batch)
       THEN LET o == CHOOSE o \in batch : o.key = k
            IN  Authenticated(o.counter, o.digest)
       ELSE values[k]]

-----------------------------------------------------------------------------
(* Publisher counters.                                                      *)

(* Variant: an initialized counter is initialized again.                    *)
InitializePublisherAgain(values, k) ==
  Cardinality(Entries(values) \cup {k}) <= MaxEntries

InitializePublisherOk(values, k) ==
  /\ values[k] = Missing
  /\ Cardinality(Entries(values)) < MaxEntries

InitializePublisher(values, k) == [values EXCEPT ![k] = Publisher(0)]

(* Variant: the exhausted counter is not noticed.                           *)
NextPublisherUnchecked(values, k) == values[k].kind = "publisher"

NextPublisherOk(values, k) ==
  /\ values[k].kind = "publisher"
  /\ values[k].counter < MaxCounter

NextPublisherValue(values, k) ==
  [values EXCEPT ![k] = Publisher(values[k].counter + 1)]

-----------------------------------------------------------------------------
(* The operations a caller may ask of a store, as data: the closure that    *)
(* update_memory and update_file take.                                      *)

Ops ==
  [type : {"record"}, batch : SUBSET Observation]
    \cup [type : {"initialize", "next"}, key : PublisherKeys]

UpdateOk(values, op) ==
  \/ /\ op.type = "record"
     /\ PrepareBatchOk(op.batch)
     /\ RecordBatchOk(values, op.batch)
  \/ /\ op.type = "initialize"
     /\ InitializePublisherOk(values, op.key)
  \/ /\ op.type = "next"
     /\ NextPublisherOk(values, op.key)

Update(values, op) ==
  CASE op.type = "record"     -> RecordBatch(values, op.batch)
    [] op.type = "initialize" -> InitializePublisher(values, op.key)
    [] op.type = "next"       -> NextPublisherValue(values, op.key)

(* validate_state_bounds                                                    *)
ValidateStateBounds(values) ==
  /\ Cardinality(Entries(values)) <= MaxEntries
  /\ EncodedLen(values) <= MaxBytes

(* validate_stored_entry                                                    *)
ValidateStoredEntry(k, entry) ==
  /\ entry.kind = "authenticated" => entry.counter > 0 /\ k \notin PublisherKeys
  /\ entry.kind = "publisher" => k \in PublisherKeys

(* A fresh store holds no entry, and its encoding is the two bytes "{}".    *)
ASSUME EmptyStateFits == EncodedLen(EmptyState) <= MaxBytes

(* What read_state accepts of a file's contents.                            *)
Readable(values) ==
  /\ ValidateStateBounds(values)
  /\ \A k \in Entries(values) : ValidateStoredEntry(k, values[k])

(* Variant: the result is not checked against the bounds.                   *)
CommitsUnbounded(values, op) == UpdateOk(values, op)

(* The update is applied to a staged copy and its result checked.           *)
Commits(values, op) ==
  UpdateOk(values, op) /\ ValidateStateBounds(Update(values, op))

-----------------------------------------------------------------------------
(* State v remembers observation o: its floor is at least o, and at o's own *)
(* counter it is bound to o's digest.                                       *)
Remembers(v, o) ==
  /\ v[o.key].kind = "authenticated"
  /\ v[o.key].counter >= o.counter
  /\ v[o.key].counter = o.counter => v[o.key].digest = o.digest

=============================================================================
