---------------------------- MODULE SequenceStore ----------------------------
(***************************************************************************)
(* What a sequence store promises its callers, across crashes: the traits  *)
(* SequenceStore and PublisherSequenceStore of the client crate.           *)
(*                                                                         *)
(* An operation that returns Ok is applied and can never be lost.  An      *)
(* operation that returns an error, or whose caller never hears of it,     *)
(* either has no effect at all or is applied without being acknowledged;   *)
(* such an unacknowledged update may still be forgotten by a power loss,   *)
(* together with every unacknowledged update after it.  The in-memory      *)
(* store is the special case that takes only the acknowledged steps.       *)
(***************************************************************************)
EXTENDS SequenceState

VARIABLES
  values,      \* the state the next operation works on
  recent,      \* the states a power loss may return to (values included)
  accepted,    \* observations of every record_batch that returned Ok
  allocated    \* locator sequences that next_locator_sequence returned

vars == <<values, recent, accepted, allocated>>

Allocation == [key : PublisherKeys, seq : 1..MaxCounter]

Init ==
  /\ values = EmptyState
  /\ recent = {EmptyState}
  /\ accepted = {}
  /\ allocated = {}

-----------------------------------------------------------------------------
(* Variant: the caller hears Ok before the update is durable.               *)
AcknowledgeEarly(op) ==
  /\ Commits(values, op)
  /\ values' = Update(values, op)
  /\ recent' = recent \cup {Update(values, op)}

(* An acknowledged update: staged copy, bounds check, swap.                 *)
Acknowledge(op) ==
  /\ Commits(values, op)
  /\ values' = Update(values, op)
  /\ recent' = {Update(values, op)}

RecordBatchReturns(batch) ==
  /\ Acknowledge([type |-> "record", batch |-> batch])
  /\ accepted' = accepted \cup batch
  /\ UNCHANGED allocated

InitializeReturns(k) ==
  /\ Acknowledge([type |-> "initialize", key |-> k])
  /\ UNCHANGED <<accepted, allocated>>

NextSequenceReturns(k) ==
  /\ Acknowledge([type |-> "next", key |-> k])
  /\ allocated' = allocated \cup {[key |-> k, seq |-> values[k].counter + 1]}
  /\ UNCHANGED accepted

(* The update took place but its caller saw an error or died.               *)
Unacknowledged(op) ==
  /\ Commits(values, op)
  /\ values' = Update(values, op)
  /\ recent' = recent \cup {Update(values, op)}
  /\ UNCHANGED <<accepted, allocated>>

(* A power loss: an update in flight may or may not have reached the disk,  *)
(* and earlier unacknowledged ones may be gone.                             *)
PowerLoss ==
  /\ \/ values' \in recent
     \/ \E op \in Ops : Commits(values, op) /\ values' = Update(values, op)
  /\ recent' = {values'}
  /\ UNCHANGED <<accepted, allocated>>

Next ==
  \/ \E batch \in SUBSET Observation : RecordBatchReturns(batch)
  \/ \E k \in PublisherKeys : InitializeReturns(k)
  \/ \E k \in PublisherKeys : NextSequenceReturns(k)
  \/ \E op \in Ops : Unacknowledged(op)
  \/ PowerLoss

Spec == Init /\ [][Next]_vars

-----------------------------------------------------------------------------
TypeOK ==
  /\ values \in SequenceStates
  /\ recent \subseteq SequenceStates
  /\ accepted \subseteq Observation
  /\ allocated \subseteq Allocation

(* Whatever crash happens next, the state found afterwards still holds the  *)
(* floor of every observation the store ever accepted, and a publisher      *)
(* counter at or above every sequence it ever handed out.                   *)
NothingAcknowledgedIsLost ==
  \A v \in recent \cup {values} :
    /\ \A o \in accepted : Remembers(v, o)
    /\ \A a \in allocated :
         v[a.key].kind = "publisher" /\ v[a.key].counter >= a.seq

(* Two accepted observations of one key and counter carry the same digest:  *)
(* a signer that equivocates is caught even across crashes and errors.      *)
NoEquivocation ==
  \A o, p \in accepted :
    o.key = p.key /\ o.counter = p.counter => o.digest = p.digest

(* The store never leaves behind a state that read_state would refuse,      *)
(* which would make every later operation fail.                             *)
StateStaysReadable ==
  \A v \in recent \cup {values} : Readable(v)

(* next_locator_sequence never hands out a number at or below one that it   *)
(* handed out before for the same control key, across crashes and errors.   *)
AllocationsIncrease ==
  [][\A k \in PublisherKeys :
       NextSequenceReturns(k) =>
         \A a \in allocated : a.key = k => a.seq < values[k].counter + 1]_vars

(* An accepted observation is at or above every earlier accepted one of its *)
(* key: no rolled-back record is ever accepted, nor accepted again.         *)
AcceptedNeverRollsBack ==
  [][\A batch \in SUBSET Observation :
       RecordBatchReturns(batch) =>
         \A o \in batch : \A p \in accepted :
           p.key = o.key => p.counter <= o.counter]_vars

=============================================================================
