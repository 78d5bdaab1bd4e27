-------------------------- MODULE BrowserCoreProofs --------------------------
(***************************************************************************)
(* What the network state of a tab keeps, for every number of endpoints,   *)
(* connections and identities: the safety invariants of BrowserCore follow *)
(* from one inductive invariant, BInv.                                     *)
(***************************************************************************)
EXTENDS BrowserCore, FiniteSetTheorems, TLAPS

Live == {"sleeping", "allocating", "putting"}

Teardowns == [step : {"none", "peers", "client", "record", "report", "done"},
              failed : BOOLEAN, client : 0..MaxEpoch, record : 0..MaxEpoch,
              conns : SUBSET Conns]

(* The types, those of the fields of a teardown included.                   *)
Types == TypeOK /\ teardown \in [Endpoints -> Teardowns]

(* Tasks belong to epochs that have been; the epoch decides whether a       *)
(* suspended one is stale.                                                  *)
Epochs ==
  \A e \in Endpoints :
    /\ publisher[e] # "none" => e <= epoch
    /\ teardown[e].step # "none" => e <= epoch
    /\ teardown[e].step = "none" => teardown[e] = NoTask

(* The client is the endpoint of the current epoch, published by the call   *)
(* of that epoch; its record and its renewal are the ones the state holds.  *)
ClientIsCurrent ==
  /\ client # 0 => client = epoch /\ client \in bound /\ publisher[client] = "online"
  /\ currentRecord = client /\ renewalAbort = client
  /\ \A e \in Endpoints : renewal[e] \in Live => client = e

(* Who may close an endpoint: a call that has not made it the client, or a  *)
(* teardown of a later epoch than the one in which it was the client.       *)
Owners ==
  /\ \A e \in Endpoints :
       publisher[e] \in {"allocating", "putting", "retracting", "closing"} =>
         e \in bound
  /\ \A t \in Endpoints :
       LET e == teardown[t].client
       IN  e # 0 => e < t /\ publisher[e] = "online"

(* A task of a connection that captured the current epoch works for the     *)
(* client.                                                                  *)
TasksAreCurrent ==
  /\ \A c \in Conns : captured[c] <= epoch
  /\ \A c \in Conns :
       conn[c] \notin {"idle", "done"} /\ captured[c] = epoch =>
         client # 0 /\ carrier[c] = client

(* What the state holds was put there in the current epoch.                 *)
HeldIsCurrent ==
  /\ \A c \in peers \cup pending : captured[c] = epoch
  /\ \A c \in Conns : conn[c] = "pending" <=> c \in pending
  /\ \A c \in peers : conn[c] \in {"active", "leaving"}
  /\ \A c \in alive : conn[c] # "leaving"

(* One peer for an identity, and no more than there may be.                 *)
PeersAreBounded ==
  /\ \A c, d \in peers : RemoteOf[c] = RemoteOf[d] => c = d
  /\ IsFiniteSet(peers) /\ Cardinality(peers) <= MaxPeers

Dials == {c \in Conns : conn[c] = "dialing" /\ captured[c] = epoch}

(* The marks are those of the dials of this epoch, one each.                *)
DialsAreMarked ==
  /\ dialing = Identities(Dials)
  /\ \A c, d \in Dials : RemoteOf[c] = RemoteOf[d] => c = d
  /\ IsFiniteSet(Dials)

(* A record on the homeserver has somebody who is going to delete it.       *)
RecordHasOwner ==
  certain =>
    /\ late = {}
    /\ \/ published = 0
       \/ client # 0
       \/ \E e \in Endpoints : publisher[e] = "retracting"
       \/ \E t \in Endpoints : /\ teardown[t].step \in {"peers", "client", "record"}
                               /\ teardown[t].record # 0

(* What the tasks of endpoints keep.                                        *)
Control ==
  /\ Epochs /\ ClientIsCurrent /\ Owners
  /\ RecordHasOwner /\ EndpointsAreOwned

(* What the tasks of connections keep.                                      *)
Sessions ==
  /\ TasksAreCurrent /\ HeldIsCurrent /\ PeersAreBounded /\ DialsAreMarked
  /\ ConnectionsAreOwned

BInv == Types /\ Control /\ Sessions

-----------------------------------------------------------------------------
(* What a step does not touch.                                              *)

(* The tasks of connections leave the endpoints alone.                      *)
LEMMA ControlStays ==
  ASSUME Control,
         UNCHANGED <<epoch, client, currentRecord, renewalAbort, publisher, renewal,
                     teardown, bound, serverVars>>
  PROVE  Control'
BY DEF Control, Epochs, ClientIsCurrent, Owners, RecordHasOwner, EndpointsAreOwned,
       serverVars

(* Publications and renewals leave the connections alone.                   *)
LEMMA SessionsStay ==
  ASSUME Sessions,
         UNCHANGED <<epoch, client, dialing, peers, pending, teardown, connVars>>
  PROVE  Sessions'
BY DEF Sessions, TasksAreCurrent, HeldIsCurrent, PeersAreBounded, DialsAreMarked,
       Dials, ConnectionsAreOwned, connVars

(* A step that does nothing.                                                *)
LEMMA Stutter ==
  ASSUME BInv, UNCHANGED vars
  PROVE  BInv'
<1>1. Types'
  BY DEF BInv, Types, TypeOK, vars
<1>2. Control'
  BY ControlStays DEF BInv, vars, serverVars
<1>3. Sessions'
  BY SessionsStay DEF BInv, vars, connVars
<1>. QED BY <1>1, <1>2, <1>3 DEF BInv

(* A tab that was opened.                                                   *)
LEMMA InitEstablishes ==
  ASSUME Init
  PROVE  BInv
<1>. USE BrowserAssumption DEF Init
<1>1. Types
  <2>1. NoTask \in Teardowns
    BY DEF Teardowns, NoTask
  <2>2. teardown \in [Endpoints -> Teardowns]
    BY <2>1
  <2>3. 0 \in 0..MaxEpoch
    OBVIOUS
  <2>4. \A e \in Endpoints :
         /\ teardown[e].step \in {"none", "peers", "client", "record", "report",
                                 "done"}
         /\ teardown[e].conns \subseteq Conns
    BY DEF NoTask
  <2>5. TypeOK
    BY <2>3, <2>4 DEF TypeOK
  <2>. QED BY <2>2, <2>5 DEF Types
<1>2. Control
  BY DEF Control, Epochs, ClientIsCurrent, Owners, RecordHasOwner,
         EndpointsAreOwned, NoTask, Live, Endpoints
<1>3. TasksAreCurrent /\ HeldIsCurrent /\ ConnectionsAreOwned
  BY DEF TasksAreCurrent, HeldIsCurrent, ConnectionsAreOwned
<1>4. PeersAreBounded
  BY FS_EmptySet DEF PeersAreBounded
<1>5. DialsAreMarked
  <2>1. Dials = {}
    BY DEF Dials
  <2>. QED BY <2>1, FS_EmptySet DEF DialsAreMarked, Identities
<1>. QED BY <1>1, <1>2, <1>3, <1>4, <1>5 DEF BInv, Sessions

-----------------------------------------------------------------------------
(* publish_and_go_online.                                                   *)

(* A call sets an epoch of its own.  No client and no task has it yet.      *)
LEMMA PublishKeeps ==
  ASSUME BInv, Publish
  PROVE  BInv'
<1>. USE BrowserAssumption DEF BInv, Publish
<1>0. epoch \in 0..MaxEpoch /\ epoch' \in Endpoints /\ epoch' = epoch + 1
  BY DEF Types, TypeOK, Endpoints
<1>1. Types'
  BY SMTT(20) DEF Types, TypeOK, Endpoints, connVars, serverVars
<1>2. Control'
  <2>1. Epochs'
    BY <1>0 DEF Control, Epochs, Endpoints, Types, TypeOK
  <2>2. ClientIsCurrent'
    BY DEF Control, ClientIsCurrent
  <2>3. publisher[epoch'] = "none" /\ \A e \in Endpoints : e # epoch' => publisher'[e] = publisher[e]
    BY <1>0 DEF Control, Epochs, Endpoints, Types, TypeOK
  <2>4. Owners'
    BY <1>0, <2>3 DEF Control, Owners, Types, TypeOK, Teardowns, Endpoints
  <2>5. RecordHasOwner'
    BY <2>3, <1>0 DEF Control, RecordHasOwner, serverVars, Types, TypeOK
  <2>6. EndpointsAreOwned'
    BY <2>3, <1>0 DEF Control, EndpointsAreOwned, Types, TypeOK
  <2>. QED BY <2>1, <2>2, <2>4, <2>5, <2>6 DEF Control
<1>3. Sessions'
  <2>1. \A c \in Conns : conn[c] \notin {"idle", "done"} => captured[c] < epoch
    BY <1>0 DEF Sessions, TasksAreCurrent, Types, TypeOK
  <2>2. TasksAreCurrent'
    BY <2>1, <1>0 DEF Sessions, TasksAreCurrent, connVars, Types, TypeOK
  <2>3. peers = {} /\ pending = {}
    BY <2>1 DEF Sessions, HeldIsCurrent, Types, TypeOK
  <2>4. HeldIsCurrent' /\ PeersAreBounded'
    BY <2>3 DEF Sessions, HeldIsCurrent, PeersAreBounded, connVars
  <2>5. Dials = {} /\ Dials' = {}
    BY <2>1, <1>0 DEF Dials, connVars, Types, TypeOK
  <2>6. DialsAreMarked'
    BY <2>5 DEF Sessions, DialsAreMarked, Identities
  <2>7. ConnectionsAreOwned'
    BY DEF Sessions, ConnectionsAreOwned, connVars
  <2>. QED BY <2>2, <2>4, <2>6, <2>7 DEF Sessions
<1>. QED BY <1>1, <1>2, <1>3

(* The step of a publication that moves its own call and leaves all others  *)
(* where they are.                                                          *)
LEMMA BindKeeps ==
  ASSUME BInv, NEW e \in Endpoints, Bind(e)
  PROVE  BInv'
<1>. USE DEF BInv, Bind, PublishFails
<1>0. \A x \in Endpoints : x # e => publisher'[x] = publisher[x]
  BY DEF Types, TypeOK
<1>1. Types'
  <2>1. goingOnline' \in BOOLEAN
    BY DEF Types, TypeOK
  <2>. QED BY <2>1 DEF Types, TypeOK, connVars, serverVars
<1>2. publisher[e] = "binding" /\ publisher'[e] \in {"allocating", "failed"}
      /\ (publisher'[e] = "allocating" => bound' = bound \cup {e})
      /\ bound \subseteq bound' /\ bound' \subseteq bound \cup {e}
      /\ (publisher'[e] = "failed" => bound' = bound)
  BY DEF Types, TypeOK
<1>3. Control'
  <2>1. Epochs'
    BY <1>0, <1>2 DEF Control, Epochs
  <2>2. ClientIsCurrent'
    BY <1>0, <1>2 DEF Control, ClientIsCurrent, Types, TypeOK, Endpoints
  <2>3. Owners'
    BY <1>0, <1>2 DEF Control, Owners, Types, Teardowns, Endpoints
  <2>4. RecordHasOwner'
    BY <1>0, <1>2 DEF Control, RecordHasOwner, serverVars
  <2>5. EndpointsAreOwned'
    BY <1>0, <1>2 DEF Control, EndpointsAreOwned, Types, TypeOK
  <2>. QED BY <2>1, <2>2, <2>3, <2>4, <2>5 DEF Control
<1>4. Sessions'
  BY SessionsStay DEF connVars
<1>. QED BY <1>1, <1>3, <1>4

(* The first record is allocated, or the certificate has ended.             *)
LEMMA FirstRecordKeeps ==
  ASSUME BInv, NEW e \in Endpoints, FirstRecord(e)
  PROVE  BInv'
<1>. USE DEF BInv, FirstRecord, stateVars
<1>0. \A x \in Endpoints : x # e => publisher'[x] = publisher[x]
  BY DEF Types, TypeOK
<1>1. Types'
  BY DEF Types, TypeOK, connVars, serverVars
<1>2. publisher[e] = "allocating" /\ publisher'[e] \in {"putting", "closing"}
  BY DEF Types, TypeOK
<1>3. Control'
  <2>1. Epochs'
    BY <1>0, <1>2 DEF Control, Epochs
  <2>2. ClientIsCurrent'
    BY <1>0, <1>2 DEF Control, ClientIsCurrent, Types, TypeOK, Endpoints
  <2>3. Owners'
    BY <1>0, <1>2 DEF Control, Owners, Types, Teardowns, Endpoints
  <2>4. RecordHasOwner'
    BY <1>0, <1>2 DEF Control, RecordHasOwner, serverVars
  <2>5. EndpointsAreOwned'
    BY <1>0, <1>2 DEF Control, EndpointsAreOwned, Types, TypeOK
  <2>. QED BY <2>1, <2>2, <2>3, <2>4, <2>5 DEF Control
<1>4. Sessions'
  BY SessionsStay DEF connVars
<1>. QED BY <1>1, <1>3, <1>4

(* What a PUT leaves: the record at its place, or, if it is certain that it *)
(* failed, the one before.                                                  *)
LEMMA PutEffect ==
  ASSUME Types, NEW e \in Endpoints, NEW ok \in BOOLEAN, Put(e, ok)
  PROVE  /\ published' \in {published, e} /\ certain' \in BOOLEAN /\ late' = late
         /\ certain' => certain
         /\ certain' /\ ~ok => published' = published
BY DEF Put, Types, TypeOK

(* What a DELETE leaves.                                                    *)
LEMMA DeleteEffect ==
  ASSUME Types, Delete
  PROVE  /\ published' \in {published, 0} /\ certain' \in BOOLEAN /\ late' = late
         /\ certain' => certain /\ published' = 0
BY DEF Delete, Types, TypeOK

(* The call of the current epoch makes its endpoint the client.  There was  *)
(* none: the client of an epoch is the work of the call of that epoch.      *)
LEMMA GoOnlineKeeps ==
  ASSUME BInv, NEW e \in Endpoints, FirstPut(e), publisher'[e] = "online"
  PROVE  BInv'
<1>. USE DEF BInv
<1>0. \A x \in Endpoints : x # e => publisher'[x] = publisher[x] /\ renewal'[x] = renewal[x]
  BY DEF Types, TypeOK, FirstPut
<1>2. /\ publisher[e] = "putting" /\ epoch = e /\ epoch' = epoch /\ goingOnline' = FALSE
      /\ client' = e /\ currentRecord' = e /\ renewalAbort' = e
      /\ Put(e, TRUE)
      /\ publisher' = [publisher EXCEPT ![e] = "online"]
      /\ renewal' = [renewal EXCEPT ![e] = "sleeping"]
      /\ listening' = listening \cup {e}
      /\ UNCHANGED <<dialing, peers, pending, teardown, connVars, bound>>
  BY DEF FirstPut, Types, TypeOK
<1>3. client = 0
  BY <1>2 DEF Control, ClientIsCurrent, Types, TypeOK, Endpoints
<1>4. /\ published' \in {published, e} /\ certain' \in BOOLEAN /\ late' = late
      /\ certain' => certain
  BY <1>2, PutEffect
<1>. HIDE DEF FirstPut
<1>1. Types'
  <2>1. {client', currentRecord', renewalAbort', published'} \subseteq 0..MaxEpoch
    BY <1>2, <1>4 DEF Types, TypeOK, Endpoints
  <2>2. goingOnline' \in BOOLEAN
    BY <1>2
  <2>. QED BY <1>2, <1>4, <2>1, <2>2 DEF Types, TypeOK, connVars
<1>5. Control'
  <2>0. e # 0 /\ e \in bound
    BY <1>2 DEF Endpoints, Control, Owners
  <2>1. Epochs'
    BY <1>0, <1>2 DEF Control, Epochs
  <2>2. ClientIsCurrent'
    BY <1>0, <1>2, <1>3, <2>0 DEF Control, ClientIsCurrent, Types, TypeOK, Endpoints
  <2>3. Owners'
    BY <1>0, <1>2 DEF Control, Owners, Types, Teardowns, Endpoints, TypeOK
  <2>4. RecordHasOwner'
    BY <1>2, <1>4, <2>0 DEF Control, RecordHasOwner, Types, TypeOK
  <2>5. EndpointsAreOwned'
    <3>1. bound' = bound /\ teardown' = teardown /\ client' = e
      BY <1>2
    <3>2. \A x \in bound : x \in Endpoints /\ client # x
      BY <1>3 DEF Types, TypeOK, Endpoints
    <3>. QED BY <1>0, <3>1, <3>2 DEF Control, EndpointsAreOwned
  <2>. QED BY <2>1, <2>2, <2>3, <2>4, <2>5 DEF Control
<1>6. Sessions'
  <2>1. TasksAreCurrent'
    BY <1>2, <1>3 DEF Sessions, TasksAreCurrent, connVars
  <2>. QED BY <2>1, <1>2 DEF Sessions, HeldIsCurrent, PeersAreBounded, DialsAreMarked,
                             Dials, ConnectionsAreOwned, connVars
<1>. QED BY <1>1, <1>5, <1>6

(* A stale call, or one whose PUT failed, goes on to undo what it did.      *)
LEMMA FirstPutKeeps ==
  ASSUME BInv, NEW e \in Endpoints, FirstPut(e)
  PROVE  BInv'
<1>. USE DEF BInv
<1>0. CASE publisher'[e] = "online"
  BY <1>0, GoOnlineKeeps
<1>1. CASE publisher'[e] # "online"
  <2>0. \A x \in Endpoints : x # e => publisher'[x] = publisher[x]
    BY DEF Types, TypeOK, FirstPut
  <2>1. /\ publisher[e] = "putting"
        /\ publisher' \in {[publisher EXCEPT ![e] = "retracting"],
                           [publisher EXCEPT ![e] = "closing"]}
        /\ publisher'[e] = "retracting" => Put(e, TRUE)
        /\ publisher'[e] = "closing" => Put(e, FALSE)
        /\ UNCHANGED <<epoch, goingOnline, client, currentRecord, renewalAbort,
                       renewal, listening, dialing, peers, pending, teardown,
                       connVars, bound>>
    BY <1>1 DEF FirstPut, Types, TypeOK
  <2>2. /\ published' \in {published, e} /\ certain' \in BOOLEAN /\ late' = late
        /\ certain' => certain
        /\ certain' /\ publisher'[e] = "closing" => published' = published
    BY <2>1, PutEffect DEF Types, TypeOK
  <2>3. Types'
    <3>1. published' \in 0..MaxEpoch
      BY <2>2 DEF Types, TypeOK, Endpoints
    <3>. QED BY <2>1, <2>2, <3>1 DEF Types, TypeOK, connVars
  <2>4. Control'
    <3>0. publisher'[e] \in {"retracting", "closing"}
      BY <2>1 DEF Types, TypeOK
    <3>1. Epochs'
      BY <2>0, <2>1, <3>0 DEF Control, Epochs
    <3>2. ClientIsCurrent'
      BY <2>0, <2>1 DEF Control, ClientIsCurrent, Types, TypeOK, Endpoints
    <3>3. Owners'
      BY <2>0, <2>1, <3>0 DEF Control, Owners, Types, Teardowns, Endpoints
    <3>4. RecordHasOwner'
      BY <2>0, <2>1, <2>2, <3>0 DEF Control, RecordHasOwner, Types, TypeOK
    <3>5. EndpointsAreOwned'
      BY <2>0, <2>1, <3>0 DEF Control, EndpointsAreOwned, Types, TypeOK
    <3>. QED BY <3>1, <3>2, <3>3, <3>4, <3>5 DEF Control
  <2>5. Sessions'
    BY <2>1, SessionsStay DEF connVars
  <2>. QED BY <2>3, <2>4, <2>5
<1>. QED BY <1>0, <1>1

(* A stale call deletes what is at the path.                                *)
LEMMA RetractFirstKeeps ==
  ASSUME BInv, NEW e \in Endpoints, RetractFirst(e)
  PROVE  BInv'
<1>. USE DEF BInv
<1>0. \A x \in Endpoints : x # e => publisher'[x] = publisher[x]
  BY DEF Types, TypeOK, RetractFirst
<1>1. /\ published' \in {published, 0} /\ certain' \in BOOLEAN /\ late' = late
      /\ certain' => certain /\ published' = 0
  BY DeleteEffect DEF RetractFirst
<1>2. /\ publisher[e] = "retracting" /\ publisher'[e] = "closing"
      /\ publisher' = [publisher EXCEPT ![e] = "closing"]
      /\ UNCHANGED <<stateVars, renewal, listening, teardown, connVars, bound>>
  BY DEF RetractFirst, Types, TypeOK
<1>3. Types'
  <2>1. published' \in 0..MaxEpoch
    BY <1>1, BrowserAssumption DEF Types, TypeOK
  <2>. QED BY <1>1, <1>2, <2>1 DEF Types, TypeOK, connVars, stateVars
<1>4. Control'
  <2>1. Epochs'
    BY <1>0, <1>2 DEF Control, Epochs, stateVars
  <2>2. ClientIsCurrent'
    BY <1>0, <1>2 DEF Control, ClientIsCurrent, Types, TypeOK, Endpoints, stateVars
  <2>3. Owners'
    BY <1>0, <1>2 DEF Control, Owners, Types, Teardowns, Endpoints
  <2>4. RecordHasOwner'
    BY <1>1 DEF Control, RecordHasOwner
  <2>5. EndpointsAreOwned'
    BY <1>0, <1>2 DEF Control, EndpointsAreOwned, Types, TypeOK, stateVars
  <2>. QED BY <2>1, <2>2, <2>3, <2>4, <2>5 DEF Control
<1>5. Sessions'
  BY <1>2, SessionsStay DEF connVars, stateVars
<1>. QED BY <1>3, <1>4, <1>5

(* The endpoint of a call that failed is closed: nobody else has it.        *)
LEMMA CloseUnusedKeeps ==
  ASSUME BInv, NEW e \in Endpoints, CloseUnused(e)
  PROVE  BInv'
<1>. USE DEF BInv, CloseUnused, PublishFails, CloseEndpoint
<1>0. \A x \in Endpoints : x # e => publisher'[x] = publisher[x]
  BY DEF Types, TypeOK
<1>1. publisher[e] = "closing" /\ publisher'[e] = "failed"
  BY DEF Types, TypeOK
<1>2. Types'
  <2>1. goingOnline' \in BOOLEAN
    BY DEF Types, TypeOK
  <2>. QED BY <2>1 DEF Types, TypeOK, serverVars
<1>3. Control'
  <2>1. Epochs'
    BY <1>0, <1>1 DEF Control, Epochs
  <2>2. ClientIsCurrent'
    BY <1>0, <1>1 DEF Control, ClientIsCurrent, Types, TypeOK, Endpoints
  <2>3. Owners'
    BY <1>0, <1>1 DEF Control, Owners, Types, Teardowns, Endpoints
  <2>4. RecordHasOwner'
    BY <1>0, <1>1 DEF Control, RecordHasOwner, serverVars
  <2>5. EndpointsAreOwned'
    BY <1>0, <1>1 DEF Control, EndpointsAreOwned, Types, TypeOK
  <2>. QED BY <2>1, <2>2, <2>3, <2>4, <2>5 DEF Control
<1>4. Sessions'
  <2>1. TasksAreCurrent' /\ PeersAreBounded' /\ DialsAreMarked'
    BY DEF Sessions, TasksAreCurrent, PeersAreBounded, DialsAreMarked, Dials
  <2>2. HeldIsCurrent' /\ ConnectionsAreOwned'
    BY DEF Sessions, HeldIsCurrent, ConnectionsAreOwned
  <2>. QED BY <2>1, <2>2 DEF Sessions
<1>. QED BY <1>2, <1>3, <1>4

-----------------------------------------------------------------------------
(* The teardown of an endpoint.                                             *)

(* The state is emptied under a new epoch: every task is stale from now on, *)
(* and the client, its record and its peers belong to the teardown.         *)
LEMMA BeginTeardownKeeps ==
  ASSUME BInv, NEW failed \in BOOLEAN, BeginTeardown(failed),
         UNCHANGED <<publisher, listening, captured, carrier, bound>>,
         renewal' \in [Endpoints -> {"none", "aborted", "done"}],
         published' \in 0..MaxEpoch, late' \subseteq Endpoints, certain' \in BOOLEAN,
         certain' => certain /\ late' = late /\ published' = published
  PROVE  BInv'
<1>. USE DEF BInv
<1>. DEFINE task == [step |-> "peers", failed |-> failed, client |-> client,
                     record |-> currentRecord, conns |-> peers]
<1>1. /\ epoch < MaxEpoch /\ epoch' = epoch + 1
      /\ goingOnline' = FALSE
      /\ client' = 0 /\ currentRecord' = 0 /\ renewalAbort' = 0
      /\ dialing' = {} /\ peers' = {} /\ pending' = {}
      /\ alive' = alive \ pending
      /\ conn' = [c \in Conns |-> IF c \in pending THEN "done" ELSE conn[c]]
      /\ teardown' = [teardown EXCEPT ![epoch'] = task]
  BY DEF BeginTeardown
<1>2. epoch \in 0..MaxEpoch /\ epoch' \in Endpoints /\ MaxEpoch \in Nat
  BY <1>1, BrowserAssumption DEF Types, TypeOK, Endpoints
<1>3. task \in Teardowns
  BY DEF Types, TypeOK, Teardowns
<1>4. /\ teardown'[epoch'] = task /\ teardown[epoch'] = NoTask
      /\ publisher[epoch'] = "none"
      /\ \A t \in Endpoints : t # epoch' => teardown'[t] = teardown[t]
  <2>1. teardown'[epoch'] = task /\ \A t \in Endpoints : t # epoch' => teardown'[t] = teardown[t]
    BY <1>1, <1>2 DEF Types
  <2>. QED BY <2>1, <1>1, <1>2 DEF Control, Epochs
<1>5. task.step = "peers" /\ task.client = client /\ task.record = currentRecord
      /\ task.conns = peers
  OBVIOUS
<1>. HIDE DEF task
<1>6. Types'
  <2>1. teardown' \in [Endpoints -> Teardowns]
    BY <1>1, <1>2, <1>3 DEF Types
  <2>2. \A e \in Endpoints : /\ teardown'[e].step \in {"none", "peers", "client", "record", "report", "done"}
                             /\ teardown'[e].conns \subseteq Conns
    BY <2>1 DEF Teardowns
  <2>3. {client', currentRecord', renewalAbort', published'} \subseteq 0..MaxEpoch
    BY <1>1, <1>2
  <2>4. epoch' \in 0..MaxEpoch
    BY <1>2 DEF Endpoints
  <2>6. goingOnline' \in BOOLEAN
    BY <1>1
  <2>5. conn' \in [Conns -> {"idle", "dialing", "pending", "accepting", "confirming",
                         "active", "leaving", "closing", "done"}]
    BY <1>1 DEF Types, TypeOK
  <2>. QED BY <1>1, <2>1, <2>2, <2>3, <2>4, <2>5, <2>6 DEF Types, TypeOK
<1>7. Control'
  <2>1. Epochs'
    BY <1>1, <1>2, <1>4, <1>5 DEF Control, Epochs, Endpoints
  <2>2. ClientIsCurrent'
    BY <1>1 DEF ClientIsCurrent, Live
  <2>3. Owners'
    BY <1>1, <1>2, <1>4, <1>5 DEF Control, Owners, ClientIsCurrent
  <2>4. RecordHasOwner'
    <3>1. CASE client = 0
      <4>1. teardown[epoch'].record = 0
        BY <1>4 DEF NoTask
      <4>. QED BY <1>1, <1>4, <3>1, <4>1 DEF Control, RecordHasOwner
    <3>2. CASE client # 0
      BY <1>1, <1>2, <1>4, <1>5, <3>2 DEF Control, RecordHasOwner, ClientIsCurrent
    <3>. QED BY <3>1, <3>2
  <2>5. EndpointsAreOwned'
    <3>1. teardown[epoch'].step = "none"
      BY <1>4 DEF NoTask
    <3>. QED BY <1>1, <1>2, <1>4, <1>5, <3>1 DEF Control, EndpointsAreOwned
  <2>. QED BY <2>1, <2>2, <2>3, <2>4, <2>5 DEF Control
<1>8. Sessions'
  <2>1. TasksAreCurrent'
    BY <1>1, <1>2 DEF Sessions, TasksAreCurrent, Types, TypeOK
  <2>2. HeldIsCurrent'
    BY <1>1 DEF Sessions, HeldIsCurrent, Types, TypeOK
  <2>3. PeersAreBounded'
    BY <1>1, FS_EmptySet, BrowserAssumption DEF PeersAreBounded
  <2>4. DialsAreMarked'
    <3>1. Dials' = {}
      BY <1>1, <1>2 DEF Dials, Sessions, TasksAreCurrent, Types, TypeOK
    <3>. QED BY <1>1, <3>1, FS_EmptySet DEF DialsAreMarked, Identities
  <2>5. ConnectionsAreOwned'
    <3>1. teardown[epoch'].conns = {}
      BY <1>4 DEF NoTask
    <3>. QED BY <1>1, <1>2, <1>4, <1>5, <3>1 DEF Sessions, ConnectionsAreOwned, Types, TypeOK
  <2>. QED BY <2>1, <2>2, <2>3, <2>4, <2>5 DEF Sessions
<1>. QED BY <1>6, <1>7, <1>8

(* The renewal loop that an abort stops is the only one there is.           *)
LEMMA DisconnectKeeps ==
  ASSUME BInv, Disconnect
  PROVE  BInv'
<1>. USE DEF BInv
<1>. DEFINE cut == {e \in {renewalAbort} \ {0} : renewal[e] = "putting"}
<1>1. /\ BeginTeardown(FALSE) /\ renewal' = RenewalAborted
      /\ late' = late \cup cut /\ certain' = (certain /\ cut = {})
      /\ UNCHANGED <<publisher, listening, captured, carrier, bound, published>>
  BY DEF Disconnect
<1>2. renewal' \in [Endpoints -> {"none", "aborted", "done"}]
  BY <1>1 DEF RenewalAborted, Control, ClientIsCurrent, Live, Types, TypeOK
<1>3. published' \in 0..MaxEpoch /\ late' \subseteq Endpoints
  <2>1. cut \subseteq Endpoints
    BY DEF Types, TypeOK, Endpoints
  <2>2. published' = published /\ late' = late \cup cut
    BY <1>1
  <2>. QED BY <2>1, <2>2 DEF Types, TypeOK
<1>4. certain' \in BOOLEAN
  BY <1>1
<1>5. certain' => certain /\ late' = late /\ published' = published
  BY <1>1
<1>. QED BY <1>1, <1>2, <1>3, <1>4, <1>5, BeginTeardownKeeps

(* The peers of the teardown are closed.                                    *)
LEMMA TeardownPeersKeeps ==
  ASSUME BInv, NEW e \in Endpoints, TeardownPeers(e)
  PROVE  BInv'
<1>. USE DEF BInv
<1>1. /\ teardown[e].step = "peers" /\ alive' = alive \ teardown[e].conns
      /\ teardown' = [teardown EXCEPT ![e].step = "client", ![e].conns = {}]
      /\ UNCHANGED <<stateVars, publisher, renewal, listening, conn, captured,
                     carrier, bound, serverVars>>
  BY DEF TeardownPeers
<1>2. /\ teardown' \in [Endpoints -> Teardowns]
      /\ \A t \in Endpoints : t # e => teardown'[t] = teardown[t]
      /\ teardown'[e].step = "client" /\ teardown'[e].conns = {}
      /\ teardown'[e].client = teardown[e].client
      /\ teardown'[e].record = teardown[e].record
  BY <1>1 DEF Types, Teardowns
<1>3. Types'
  <2>1. \A t \in Endpoints : /\ teardown'[t].step \in {"none", "peers", "client", "record", "report", "done"}
                             /\ teardown'[t].conns \subseteq Conns
    BY <1>2 DEF Teardowns
  <2>. QED BY <1>1, <1>2, <2>1 DEF Types, TypeOK, stateVars, serverVars
<1>4. Control'
  <2>1. Epochs' /\ ClientIsCurrent' /\ Owners'
    BY <1>1, <1>2 DEF Control, Epochs, ClientIsCurrent, Owners, stateVars
  <2>2. RecordHasOwner'
    BY <1>1, <1>2 DEF Control, RecordHasOwner, stateVars, serverVars
  <2>3. EndpointsAreOwned'
    BY <1>1, <1>2 DEF Control, EndpointsAreOwned, stateVars
  <2>. QED BY <2>1, <2>2, <2>3 DEF Control
<1>5. Sessions'
  <2>1. TasksAreCurrent' /\ PeersAreBounded' /\ DialsAreMarked'
    BY <1>1 DEF Sessions, TasksAreCurrent, PeersAreBounded, DialsAreMarked, Dials,
                stateVars
  <2>2. HeldIsCurrent'
    BY <1>1 DEF Sessions, HeldIsCurrent, stateVars
  <2>3. ConnectionsAreOwned'
    BY <1>1, <1>2 DEF Sessions, ConnectionsAreOwned, stateVars
  <2>. QED BY <2>1, <2>2, <2>3 DEF Sessions
<1>. QED BY <1>3, <1>4, <1>5

(* Its endpoint is closed, which is neither the client nor one that a       *)
(* publication works on.                                                    *)
LEMMA TeardownClientKeeps ==
  ASSUME BInv, NEW e \in Endpoints, TeardownClient(e)
  PROVE  BInv'
<1>. USE DEF BInv
<1>. DEFINE gone == teardown[e].client
<1>1. /\ teardown[e].step = "client" /\ bound' = bound \ {gone}
      /\ alive' = {c \in alive : carrier[c] # gone}
      /\ teardown' = [teardown EXCEPT ![e].step = "record", ![e].client = 0]
      /\ UNCHANGED <<stateVars, publisher, renewal, listening, conn, captured,
                     carrier, serverVars>>
  BY DEF TeardownClient, CloseEndpoint
<1>2. /\ teardown' \in [Endpoints -> Teardowns]
      /\ \A t \in Endpoints : t # e => teardown'[t] = teardown[t]
      /\ teardown'[e].step = "record" /\ teardown'[e].client = 0
      /\ teardown'[e].conns = teardown[e].conns
      /\ teardown'[e].record = teardown[e].record
  <2>1. 0 \in 0..MaxEpoch
    BY BrowserAssumption
  <2>. QED BY <1>1, <2>1 DEF Types, Teardowns
<1>3. gone # 0 => gone < epoch /\ gone \in Endpoints /\ publisher[gone] = "online"
  BY <1>1 DEF Control, Owners, Epochs, Types, TypeOK, Teardowns, Endpoints
<1>. HIDE DEF gone
<1>4. Types'
  <2>1. \A t \in Endpoints : /\ teardown'[t].step \in {"none", "peers", "client", "record", "report", "done"}
                             /\ teardown'[t].conns \subseteq Conns
    BY <1>2 DEF Teardowns
  <2>. QED BY <1>1, <1>2, <2>1 DEF Types, TypeOK, stateVars, serverVars
<1>5. Control'
  <2>1. Epochs'
    BY <1>1, <1>2 DEF Control, Epochs, stateVars
  <2>2. ClientIsCurrent'
    BY <1>1, <1>3 DEF Control, ClientIsCurrent, stateVars, Types, TypeOK
  <2>3. Owners'
    <3>1. 0 \notin Endpoints
      BY DEF Endpoints
    <3>. QED BY <1>1, <1>2, <1>3, <3>1 DEF Control, Owners
  <2>4. RecordHasOwner'
    BY <1>1, <1>2 DEF Control, RecordHasOwner, stateVars, serverVars
  <2>5. EndpointsAreOwned'
    BY <1>1, <1>2 DEF Control, EndpointsAreOwned, stateVars, gone
  <2>. QED BY <2>1, <2>2, <2>3, <2>4, <2>5 DEF Control
<1>6. Sessions'
  <2>1. TasksAreCurrent' /\ PeersAreBounded' /\ DialsAreMarked'
    BY <1>1 DEF Sessions, TasksAreCurrent, PeersAreBounded, DialsAreMarked, Dials,
                stateVars
  <2>2. HeldIsCurrent'
    BY <1>1 DEF Sessions, HeldIsCurrent, stateVars
  <2>3. ConnectionsAreOwned'
    BY <1>1, <1>2 DEF Sessions, ConnectionsAreOwned, stateVars
  <2>. QED BY <2>1, <2>2, <2>3 DEF Sessions
<1>. QED BY <1>4, <1>5, <1>6

(* Its record is deleted, if it had one.                                    *)
LEMMA TeardownRecordKeeps ==
  ASSUME BInv, NEW e \in Endpoints, TeardownRecord(e)
  PROVE  BInv'
<1>. USE DEF BInv
<1>1. /\ teardown[e].step = "record"
      /\ UNCHANGED <<stateVars, publisher, renewal, listening, connVars, bound>>
  BY DEF TeardownRecord
<1>2. /\ teardown' \in [Endpoints -> Teardowns]
      /\ \A t \in Endpoints : t # e => teardown'[t] = teardown[t]
      /\ teardown'[e].step \in {"report", "done"}
      /\ teardown'[e].conns = teardown[e].conns
      /\ teardown'[e].client = teardown[e].client
  <2>1. 0 \in 0..MaxEpoch
    BY BrowserAssumption
  <2>2. PICK step \in {"report", "done"} :
          teardown' = [teardown EXCEPT ![e].step = step, ![e].record = 0]
    BY DEF TeardownRecord
  <2>. QED BY <2>1, <2>2 DEF Types, Teardowns
<1>3. /\ published' \in 0..MaxEpoch /\ certain' \in BOOLEAN /\ late' = late
      /\ certain' => /\ certain
                     /\ published' = 0 \/ (teardown[e].record = 0 /\ published' = published)
  <2>1. CASE teardown[e].record = 0
    BY <2>1 DEF TeardownRecord, serverVars, Types, TypeOK
  <2>2. CASE teardown[e].record # 0
    <3>1. Delete
      BY <2>2 DEF TeardownRecord
    <3>. QED BY <3>1, DeleteEffect, BrowserAssumption DEF Types, TypeOK
  <2>. QED BY <2>1, <2>2
<1>4. Types'
  <2>1. \A t \in Endpoints : /\ teardown'[t].step \in {"none", "peers", "client", "record", "report", "done"}
                             /\ teardown'[t].conns \subseteq Conns
    BY <1>2 DEF Teardowns
  <2>. QED BY <1>1, <1>2, <1>3, <2>1 DEF Types, TypeOK, stateVars, connVars
<1>5. Control'
  <2>1. Epochs' /\ ClientIsCurrent' /\ Owners'
    BY <1>1, <1>2 DEF Control, Epochs, ClientIsCurrent, Owners, stateVars
  <2>2. RecordHasOwner'
    BY <1>1, <1>2, <1>3 DEF Control, RecordHasOwner, stateVars
  <2>3. EndpointsAreOwned'
    BY <1>1, <1>2 DEF Control, EndpointsAreOwned, stateVars
  <2>. QED BY <2>1, <2>2, <2>3 DEF Control
<1>6. Sessions'
  <2>1. TasksAreCurrent' /\ PeersAreBounded' /\ DialsAreMarked'
    BY <1>1 DEF Sessions, TasksAreCurrent, PeersAreBounded, DialsAreMarked, Dials,
                stateVars, connVars
  <2>2. HeldIsCurrent'
    BY <1>1 DEF Sessions, HeldIsCurrent, stateVars, connVars
  <2>3. ConnectionsAreOwned'
    BY <1>1, <1>2 DEF Sessions, ConnectionsAreOwned, stateVars, connVars
  <2>. QED BY <2>1, <2>2, <2>3 DEF Sessions
<1>. QED BY <1>4, <1>5, <1>6

(* A failed endpoint is reported.                                           *)
LEMMA ReportOfflineKeeps ==
  ASSUME BInv, NEW e \in Endpoints, ReportOffline(e)
  PROVE  BInv'
<1>. USE DEF BInv
<1>1. /\ teardown[e].step = "report"
      /\ UNCHANGED <<stateVars, publisher, renewal, listening, connVars, bound,
                     serverVars>>
  BY DEF ReportOffline
<1>2. /\ teardown' \in [Endpoints -> Teardowns]
      /\ \A t \in Endpoints : t # e => teardown'[t] = teardown[t]
      /\ teardown'[e].step = "done"
      /\ teardown'[e].conns = teardown[e].conns
      /\ teardown'[e].client = teardown[e].client
  BY DEF ReportOffline, Types, Teardowns
<1>4. Types'
  <2>1. \A t \in Endpoints : /\ teardown'[t].step \in {"none", "peers", "client", "record", "report", "done"}
                             /\ teardown'[t].conns \subseteq Conns
    BY <1>2 DEF Teardowns
  <2>. QED BY <1>1, <1>2, <2>1 DEF Types, TypeOK, stateVars, connVars, serverVars
<1>5. Control'
  <2>1. Epochs' /\ ClientIsCurrent' /\ Owners'
    BY <1>1, <1>2 DEF Control, Epochs, ClientIsCurrent, Owners, stateVars
  <2>2. RecordHasOwner'
    BY <1>1, <1>2 DEF Control, RecordHasOwner, stateVars, serverVars
  <2>3. EndpointsAreOwned'
    BY <1>1, <1>2 DEF Control, EndpointsAreOwned, stateVars
  <2>. QED BY <2>1, <2>2, <2>3 DEF Control
<1>6. Sessions'
  <2>1. TasksAreCurrent' /\ PeersAreBounded' /\ DialsAreMarked'
    BY <1>1 DEF Sessions, TasksAreCurrent, PeersAreBounded, DialsAreMarked, Dials,
                stateVars, connVars
  <2>2. HeldIsCurrent'
    BY <1>1 DEF Sessions, HeldIsCurrent, stateVars, connVars
  <2>3. ConnectionsAreOwned'
    BY <1>1, <1>2 DEF Sessions, ConnectionsAreOwned, stateVars, connVars
  <2>. QED BY <2>1, <2>2, <2>3 DEF Sessions
<1>. QED BY <1>4, <1>5, <1>6

-----------------------------------------------------------------------------
(* The renewal loop, and PUTs that it left behind.                          *)

(* A loop that is under way is the client's, in the current epoch: it never *)
(* finds itself stale.                                                      *)
LEMMA RenewalIsCurrent ==
  ASSUME BInv, NEW e \in Endpoints, renewal[e] \in Live
  PROVE  client = e /\ epoch = e /\ client # 0
BY DEF BInv, Control, ClientIsCurrent, Endpoints

(* A step that moves the renewal loop of the client alone.                  *)
LEMMA RenewalMoves ==
  ASSUME BInv, NEW e \in Endpoints, NEW step \in Live \cup {"done"}, client = e,
         renewal' = [renewal EXCEPT ![e] = step],
         published' \in {published, e}, certain' \in BOOLEAN, late' = late,
         certain' => certain,
         UNCHANGED <<epoch, goingOnline, client, currentRecord, renewalAbort, dialing,
                     peers, pending, publisher, listening, teardown, connVars, bound>>
  PROVE  BInv'
<1>. USE DEF BInv
<1>1. Types'
  <2>1. published' \in 0..MaxEpoch
    BY DEF Types, TypeOK, Endpoints
  <2>. QED BY <2>1 DEF Types, TypeOK, connVars, Live
<1>2. Control'
  <2>1. Epochs' /\ Owners' /\ EndpointsAreOwned'
    BY DEF Control, Epochs, Owners, EndpointsAreOwned
  <2>2. ClientIsCurrent'
    BY DEF Control, ClientIsCurrent, Types, TypeOK
  <2>3. RecordHasOwner'
    BY DEF Control, RecordHasOwner, Endpoints
  <2>. QED BY <2>1, <2>2, <2>3 DEF Control
<1>3. Sessions'
  BY SessionsStay
<1>. QED BY <1>1, <1>2, <1>3

(* The loop wakes up.                                                       *)
LEMMA RenewalWakesKeeps ==
  ASSUME BInv, NEW e \in Endpoints, RenewalWakes(e)
  PROVE  BInv'
<1>1. client = e /\ epoch = e /\ client # 0
  BY RenewalIsCurrent DEF RenewalWakes, Live
<1>2. renewal' = [renewal EXCEPT ![e] = "allocating"]
  BY <1>1 DEF RenewalWakes
<1>3. certain \in BOOLEAN
  BY DEF BInv, Types, TypeOK
<1>. QED BY <1>1, <1>2, <1>3, RenewalMoves DEF RenewalWakes, stateVars, serverVars, Live

(* A loop that fails tears its endpoint down.                               *)
LEMMA RenewalFailsKeeps ==
  ASSUME BInv, NEW e \in Endpoints, renewal[e] \in Live, RenewalFails(e),
         UNCHANGED <<publisher, listening, captured, carrier, bound>>,
         published' \in 0..MaxEpoch, late' = late, certain' \in BOOLEAN,
         certain' => certain /\ published' = published
  PROVE  BInv'
<1>1. client = e /\ epoch = e /\ client # 0
  BY RenewalIsCurrent
<1>2. BeginTeardown(TRUE) /\ renewal' = [renewal EXCEPT ![e] = "done"]
  BY <1>1 DEF RenewalFails
<1>3. renewal' \in [Endpoints -> {"none", "aborted", "done"}]
  BY <1>1, <1>2 DEF BInv, Control, ClientIsCurrent, Types, TypeOK, Live
<1>4. late' \subseteq Endpoints
  BY DEF BInv, Types, TypeOK
<1>. QED BY <1>2, <1>3, <1>4, BeginTeardownKeeps

(* The next record is allocated, or cannot be.                              *)
LEMMA NextRecordKeeps ==
  ASSUME BInv, NEW e \in Endpoints, NextRecord(e)
  PROVE  BInv'
<1>1. client = e /\ epoch = e /\ client # 0
  BY RenewalIsCurrent DEF NextRecord, Live
<1>2. /\ UNCHANGED <<publisher, listening, captured, carrier, bound, serverVars>>
      /\ renewal[e] \in Live
  BY DEF NextRecord, Live
<1>3. certain \in BOOLEAN /\ published \in 0..MaxEpoch
  BY DEF BInv, Types, TypeOK
<1>4. CASE renewal' = [renewal EXCEPT ![e] = "putting"]
           /\ UNCHANGED <<stateVars, teardown, conn, alive>>
  BY <1>1, <1>2, <1>3, <1>4, RenewalMoves DEF stateVars, serverVars, connVars, Live
<1>5. CASE RenewalFails(e)
  BY <1>2, <1>3, <1>5, RenewalFailsKeeps DEF serverVars
<1>. QED BY <1>4, <1>5 DEF NextRecord

(* The record is renewed, or the PUT fails.                                 *)
LEMMA RenewalPutKeeps ==
  ASSUME BInv, NEW e \in Endpoints, RenewalPut(e)
  PROVE  BInv'
<1>1. client = e /\ epoch = e /\ client # 0 /\ currentRecord = e /\ renewal[e] \in Live
  BY RenewalIsCurrent DEF RenewalPut, Live, BInv, Control, ClientIsCurrent
<1>2. UNCHANGED <<publisher, listening, captured, carrier, bound>>
  BY DEF RenewalPut
<1>3. CASE /\ Put(e, TRUE)
           /\ IF epoch = e /\ client # 0
                THEN /\ currentRecord' = e
                     /\ renewal' = [renewal EXCEPT ![e] = "sleeping"]
                ELSE /\ renewal' = [renewal EXCEPT ![e] = "retracting"]
                     /\ UNCHANGED currentRecord
           /\ UNCHANGED <<epoch, goingOnline, client, renewalAbort, dialing, peers,
                          pending, teardown, conn, alive>>
  <2>1. /\ published' \in {published, e} /\ certain' \in BOOLEAN /\ late' = late
        /\ certain' => certain
    BY <1>3, PutEffect DEF BInv
  <2>2. currentRecord' = currentRecord /\ renewal' = [renewal EXCEPT ![e] = "sleeping"]
    BY <1>1, <1>3
  <2>. QED BY <1>1, <1>2, <1>3, <2>1, <2>2, RenewalMoves DEF connVars, Live
<1>4. CASE Put(e, FALSE) /\ RenewalFails(e)
  <2>1. /\ published' \in {published, e} /\ certain' \in BOOLEAN /\ late' = late
        /\ certain' => certain /\ published' = published
    BY <1>4, PutEffect DEF BInv
  <2>2. published' \in 0..MaxEpoch
    BY <2>1 DEF BInv, Types, TypeOK, Endpoints
  <2>. QED BY <1>1, <1>2, <1>4, <2>1, <2>2, RenewalFailsKeeps
<1>. QED BY <1>3, <1>4 DEF RenewalPut

(* A PUT that arrives late comes after an uncertain outcome.                *)
LEMMA LatePutKeeps ==
  ASSUME BInv, NEW e \in Endpoints, LatePut(e)
  PROVE  BInv'
<1>. USE DEF BInv, LatePut
<1>1. published' \in {published, e} /\ late' = late \ {e}
      /\ UNCHANGED <<stateVars, taskVars, connVars, bound, certain>>
  OBVIOUS
<1>2. Types'
  <2>1. published' \in 0..MaxEpoch
    BY <1>1 DEF Types, TypeOK, Endpoints
  <2>. QED BY <1>1, <2>1 DEF Types, TypeOK, connVars, stateVars, taskVars
<1>3. Control'
  <2>1. ~certain'
    BY <1>1 DEF Control, RecordHasOwner
  <2>. QED BY <1>1, <2>1 DEF Control, Epochs, ClientIsCurrent, Owners, RecordHasOwner,
                             EndpointsAreOwned, stateVars, taskVars
<1>4. Sessions'
  BY <1>1, SessionsStay DEF stateVars, taskVars
<1>. QED BY <1>2, <1>3, <1>4

-----------------------------------------------------------------------------
(* Connections.                                                             *)

(* An application dials an identity that has neither a peer nor a dial.     *)
LEMMA RequestPeerKeeps ==
  ASSUME BInv, NEW c \in Conns, RequestPeer(c)
  PROVE  BInv'
<1>. USE DEF BInv
<1>1. /\ conn[c] = "idle" /\ client # 0
      /\ RemoteOf[c] \notin dialing
      /\ dialing' = dialing \cup {RemoteOf[c]}
      /\ conn' = [conn EXCEPT ![c] = "dialing"]
      /\ captured' = [captured EXCEPT ![c] = epoch]
      /\ carrier' = [carrier EXCEPT ![c] = client]
      /\ UNCHANGED <<epoch, goingOnline, client, currentRecord, renewalAbort, peers,
                     pending, taskVars, alive, bound, serverVars>>
  BY DEF RequestPeer, DialMark
<1>2. /\ conn'[c] = "dialing" /\ captured'[c] = epoch /\ carrier'[c] = client
      /\ \A d \in Conns : d # c => /\ conn'[d] = conn[d] /\ captured'[d] = captured[d]
                                   /\ carrier'[d] = carrier[d]
  BY <1>1 DEF Types, TypeOK
<1>3. Types'
  <2>1. RemoteOf[c] \in Remotes
    BY BrowserAssumption
  <2>. QED BY <1>1, <2>1 DEF Types, TypeOK, taskVars, serverVars
<1>4. Control'
  BY <1>1, ControlStays DEF taskVars, serverVars
<1>5. Sessions'
  <2>1. TasksAreCurrent'
    BY <1>1, <1>2 DEF Sessions, TasksAreCurrent, Types, TypeOK
  <2>2. HeldIsCurrent' /\ PeersAreBounded'
    BY <1>1, <1>2 DEF Sessions, HeldIsCurrent, PeersAreBounded, Types, TypeOK
  <2>3. DialsAreMarked'
    <3>1. Dials' = Dials \cup {c}
      BY <1>1, <1>2 DEF Dials
    <3>2. dialing = Identities(Dials) /\ IsFiniteSet(Dials)
      BY DEF Sessions, DialsAreMarked
    <3>3. dialing' = Identities(Dials')
      BY <1>1, <3>1, <3>2 DEF Identities
    <3>4. \A d \in Dials : RemoteOf[d] # RemoteOf[c]
      BY <1>1, <3>2 DEF Identities
    <3>5. IsFiniteSet(Dials')
      BY <3>1, <3>2, FS_AddElement
    <3>. QED BY <3>1, <3>3, <3>4, <3>5 DEF Sessions, DialsAreMarked
  <2>4. ConnectionsAreOwned'
    BY <1>1, <1>2 DEF Sessions, ConnectionsAreOwned, taskVars, Types, TypeOK
  <2>. QED BY <2>1, <2>2, <2>3, <2>4 DEF Sessions
<1>. QED BY <1>3, <1>4, <1>5

(* A dial returns.  It takes back its own mark, which in its own epoch is   *)
(* there, and leaves the marks of a later epoch alone.                      *)
LEMMA DialReturnsKeeps ==
  ASSUME BInv, NEW c \in Conns, DialReturns(c)
  PROVE  BInv'
<1>. USE DEF BInv
<1>1. /\ conn[c] = "dialing"
      /\ dialing' = IF captured[c] = epoch THEN dialing \ {RemoteOf[c]} ELSE dialing
      /\ conn' \in {[conn EXCEPT ![c] = "confirming"], [conn EXCEPT ![c] = "done"]}
      /\ \/ alive' = alive \cup {c} /\ conn' = [conn EXCEPT ![c] = "confirming"]
         \/ alive' = alive /\ conn' = [conn EXCEPT ![c] = "done"]
      /\ UNCHANGED <<epoch, goingOnline, client, currentRecord, renewalAbort, peers,
                     pending, taskVars, captured, carrier, bound, serverVars>>
  BY DEF DialReturns, UnmarkDial, DialMark
<1>2. /\ conn'[c] \in {"confirming", "done"}
      /\ \A d \in Conns : d # c => conn'[d] = conn[d]
      /\ c \in alive' => conn'[c] = "confirming" \/ c \in alive
  BY <1>1 DEF Types, TypeOK
<1>3. alive' \in {alive, alive \cup {c}}
  BY <1>1
<1>4. Types'
  BY <1>1 DEF Types, TypeOK, taskVars, serverVars
<1>5. Control'
  BY <1>1, ControlStays DEF taskVars, serverVars
<1>6. Sessions'
  <2>1. TasksAreCurrent'
    BY <1>1, <1>2 DEF Sessions, TasksAreCurrent
  <2>2. HeldIsCurrent' /\ PeersAreBounded'
    BY <1>1, <1>2, <1>3 DEF Sessions, HeldIsCurrent, PeersAreBounded, Types, TypeOK
  <2>3. DialsAreMarked'
    <3>1. Dials' = Dials \ {c}
      BY <1>1, <1>2 DEF Dials
    <3>2. dialing = Identities(Dials) /\ IsFiniteSet(Dials)
      BY DEF Sessions, DialsAreMarked
    <3>3. dialing' = Identities(Dials')
      <4>1. CASE captured[c] = epoch
        <5>1. c \in Dials
          BY <1>1, <4>1 DEF Dials
        <5>2. \A d \in Dials : RemoteOf[d] = RemoteOf[c] => d = c
          BY <5>1 DEF Sessions, DialsAreMarked
        <5>. QED BY <1>1, <3>1, <3>2, <4>1, <5>1, <5>2 DEF Identities
      <4>2. CASE captured[c] # epoch
        <5>1. c \notin Dials
          BY <4>2 DEF Dials
        <5>. QED BY <1>1, <3>1, <3>2, <4>2, <5>1 DEF Identities
      <4>. QED BY <4>1, <4>2
    <3>4. IsFiniteSet(Dials')
      BY <3>1, <3>2, FS_RemoveElement
    <3>. QED BY <3>1, <3>3, <3>4 DEF Sessions, DialsAreMarked
  <2>4. ConnectionsAreOwned'
    BY <1>1, <1>2, <1>3 DEF Sessions, ConnectionsAreOwned, taskVars, Types, TypeOK
  <2>. QED BY <2>1, <2>2, <2>3, <2>4 DEF Sessions
<1>. QED BY <1>4, <1>5, <1>6

(* A request that is kept is the client's; one that is not is done.         *)
LEMMA ReceiveRequestKeeps ==
  ASSUME BInv, NEW e \in Endpoints, NEW c \in Conns, ReceiveRequest(e, c)
  PROVE  BInv'
<1>. USE DEF BInv
<1>1. /\ conn[c] = "idle"
      /\ listening' \subseteq listening
      /\ UNCHANGED <<epoch, goingOnline, client, currentRecord, renewalAbort, dialing,
                     peers, publisher, renewal, teardown, bound, serverVars>>
      /\ \/ /\ epoch = e /\ client # 0
            /\ pending' = pending \cup {c} /\ alive' = alive \cup {c}
            /\ conn' = [conn EXCEPT ![c] = "pending"]
            /\ captured' = [captured EXCEPT ![c] = e]
            /\ carrier' = [carrier EXCEPT ![c] = e]
         \/ /\ conn' = [conn EXCEPT ![c] = "done"]
            /\ UNCHANGED <<pending, alive, captured, carrier>>
  BY DEF ReceiveRequest
<1>2. Control'
  BY <1>1, ControlStays DEF serverVars
<1>3. CASE /\ epoch = e /\ client # 0
           /\ pending' = pending \cup {c} /\ alive' = alive \cup {c}
           /\ conn' = [conn EXCEPT ![c] = "pending"]
           /\ captured' = [captured EXCEPT ![c] = e]
           /\ carrier' = [carrier EXCEPT ![c] = e]
  <2>1. client = e /\ e \in 0..MaxEpoch
    BY <1>3 DEF Control, ClientIsCurrent, Endpoints
  <2>2. /\ conn'[c] = "pending" /\ captured'[c] = epoch /\ carrier'[c] = client
        /\ \A d \in Conns : d # c => /\ conn'[d] = conn[d] /\ captured'[d] = captured[d]
                                     /\ carrier'[d] = carrier[d]
    BY <1>3, <2>1 DEF Types, TypeOK
  <2>3. Types'
    BY <1>1, <1>3, <2>1 DEF Types, TypeOK, serverVars
  <2>4. TasksAreCurrent'
    BY <1>1, <1>3, <2>2 DEF Sessions, TasksAreCurrent, Types, TypeOK
  <2>5. HeldIsCurrent' /\ PeersAreBounded'
    BY <1>1, <1>3, <2>2 DEF Sessions, HeldIsCurrent, PeersAreBounded, Types, TypeOK
  <2>6. DialsAreMarked'
    <3>1. Dials' = Dials
      BY <1>1, <2>2 DEF Dials
    <3>. QED BY <1>1, <3>1 DEF Sessions, DialsAreMarked
  <2>7. ConnectionsAreOwned'
    BY <1>1, <1>3, <2>2 DEF Sessions, ConnectionsAreOwned, Types, TypeOK
  <2>. QED BY <1>2, <2>3, <2>4, <2>5, <2>6, <2>7 DEF Sessions
<1>4. CASE /\ conn' = [conn EXCEPT ![c] = "done"]
           /\ UNCHANGED <<pending, alive, captured, carrier>>
  <2>2. conn'[c] = "done" /\ \A d \in Conns : d # c => conn'[d] = conn[d]
    BY <1>4 DEF Types, TypeOK
  <2>3. Types'
    BY <1>1, <1>4 DEF Types, TypeOK, serverVars
  <2>4. TasksAreCurrent'
    BY <1>1, <1>4, <2>2 DEF Sessions, TasksAreCurrent
  <2>5. HeldIsCurrent' /\ PeersAreBounded'
    BY <1>1, <1>4, <2>2 DEF Sessions, HeldIsCurrent, PeersAreBounded, Types, TypeOK
  <2>6. DialsAreMarked'
    <3>1. Dials' = Dials
      BY <1>1, <1>4, <2>2 DEF Dials
    <3>. QED BY <1>1, <3>1 DEF Sessions, DialsAreMarked
  <2>7. ConnectionsAreOwned'
    BY <1>1, <1>4, <2>2 DEF Sessions, ConnectionsAreOwned, Types, TypeOK
  <2>. QED BY <1>2, <2>3, <2>4, <2>5, <2>6, <2>7 DEF Sessions
<1>. QED BY <1>1, <1>3, <1>4

(* The inbound loop of a closed endpoint ends.                              *)
LEMMA StopListeningKeeps ==
  ASSUME BInv, NEW e \in Endpoints, StopListening(e)
  PROVE  BInv'
<1>. USE DEF BInv, StopListening
<1>1. Types'
  BY DEF Types, TypeOK, stateVars, connVars, serverVars
<1>2. Control'
  BY ControlStays DEF stateVars, serverVars
<1>3. Sessions'
  BY SessionsStay DEF stateVars
<1>. QED BY <1>1, <1>2, <1>3

(* A request leaves pending_inbound: by expiry, by rejection, or accepted.  *)
LEMMA RequestLeaves ==
  ASSUME BInv, NEW c \in pending,
         pending' = pending \ {c},
         \/ conn' = [conn EXCEPT ![c] = "done"] /\ alive' = alive \ {c}
         \/ conn' = [conn EXCEPT ![c] = "accepting"] /\ alive' = alive,
         UNCHANGED <<epoch, goingOnline, client, currentRecord, renewalAbort, dialing,
                     peers, taskVars, captured, carrier, bound, serverVars>>
  PROVE  BInv'
<1>. USE DEF BInv
<1>1. c \in Conns /\ conn[c] = "pending" /\ captured[c] = epoch
  BY DEF Types, TypeOK, Sessions, HeldIsCurrent
<1>2. /\ conn'[c] \in {"done", "accepting"} /\ \A d \in Conns : d # c => conn'[d] = conn[d]
      /\ alive' \subseteq alive /\ (c \in alive' => conn'[c] = "accepting")
  BY <1>1 DEF Types, TypeOK
<1>3. Types'
  BY <1>1, <1>2 DEF Types, TypeOK, taskVars, serverVars
<1>4. Control'
  BY ControlStays DEF taskVars, serverVars
<1>5. TasksAreCurrent'
  BY <1>1, <1>2 DEF Sessions, TasksAreCurrent
<1>6. HeldIsCurrent' /\ PeersAreBounded'
  BY <1>1, <1>2 DEF Sessions, HeldIsCurrent, PeersAreBounded, Types, TypeOK
<1>7. DialsAreMarked'
  <2>1. Dials' = Dials
    BY <1>1, <1>2 DEF Dials
  <2>. QED BY <2>1 DEF Sessions, DialsAreMarked
<1>8. ConnectionsAreOwned'
  BY <1>1, <1>2 DEF Sessions, ConnectionsAreOwned, Types, TypeOK, taskVars
<1>. QED BY <1>3, <1>4, <1>5, <1>6, <1>7, <1>8 DEF Sessions

(* Expiry and rejection.                                                    *)
LEMMA DropRequestKeeps ==
  ASSUME BInv, NEW c \in Conns, ExpireRequest(c) \/ RejectInbound(c)
  PROVE  BInv'
BY RequestLeaves DEF ExpireRequest, RejectInbound, DropRequest

(* Acceptance captures the epoch again, which is the one it had.            *)
LEMMA AcceptInboundKeeps ==
  ASSUME BInv, NEW c \in Conns, AcceptInbound(c)
  PROVE  BInv'
<1>1. captured' = captured
  <2>1. captured[c] = epoch /\ captured \in [Conns -> 0..MaxEpoch]
    BY DEF AcceptInbound, BInv, Sessions, HeldIsCurrent, Types, TypeOK
  <2>. QED BY <2>1 DEF AcceptInbound
<1>. QED BY <1>1, RequestLeaves DEF AcceptInbound

(* A connection that is neither a request nor a peer goes on, keeping its   *)
(* place or closing.                                                        *)
LEMMA TaskMoves ==
  ASSUME BInv, NEW c \in Conns, NEW step \in {"confirming", "closing", "done"},
         conn[c] \in {"accepting", "confirming", "closing"},
         conn' = [conn EXCEPT ![c] = step],
         alive' \in {alive, alive \ {c}},
         step = "done" => c \notin alive',
         UNCHANGED <<stateVars, taskVars, captured, carrier, bound, serverVars>>
  PROVE  BInv'
<1>. USE DEF BInv, stateVars
<1>1. conn'[c] = step /\ \A d \in Conns : d # c => conn'[d] = conn[d]
  BY DEF Types, TypeOK
<1>2. Types'
  BY DEF Types, TypeOK, taskVars, serverVars
<1>3. Control'
  BY ControlStays DEF taskVars, serverVars
<1>4. TasksAreCurrent'
  BY <1>1 DEF Sessions, TasksAreCurrent
<1>5. HeldIsCurrent' /\ PeersAreBounded'
  BY <1>1 DEF Sessions, HeldIsCurrent, PeersAreBounded, Types, TypeOK
<1>6. DialsAreMarked'
  <2>1. Dials' = Dials
    BY <1>1 DEF Dials
  <2>. QED BY <2>1 DEF Sessions, DialsAreMarked
<1>7. ConnectionsAreOwned'
  BY <1>1 DEF Sessions, ConnectionsAreOwned, Types, TypeOK, taskVars
<1>. QED BY <1>2, <1>3, <1>4, <1>5, <1>6, <1>7 DEF Sessions

(* incoming.accept() returns.                                               *)
LEMMA AcceptReturnsKeeps ==
  ASSUME BInv, NEW c \in Conns, AcceptReturns(c)
  PROVE  BInv'
BY TaskMoves DEF AcceptReturns

(* A connection that was not activated is closed.                           *)
LEMMA CloseUnactivatedKeeps ==
  ASSUME BInv, NEW c \in Conns, CloseUnactivated(c)
  PROVE  BInv'
BY TaskMoves DEF CloseUnactivated

(* A peer is activated in the epoch it was asked for in, if its identity    *)
(* has none and there is room.                                              *)
LEMMA ActivatePeerKeeps ==
  ASSUME BInv, NEW c \in Conns, ActivatePeer(c)
  PROVE  BInv'
<1>. USE DEF BInv
<1>1. /\ conn[c] = "confirming"
      /\ UNCHANGED <<epoch, goingOnline, client, currentRecord, renewalAbort, dialing,
                     pending, taskVars, captured, carrier, alive, bound, serverVars>>
  BY DEF ActivatePeer
<1>2. CASE conn' = [conn EXCEPT ![c] = "closing"] /\ peers' = peers
  BY <1>1, <1>2, TaskMoves DEF stateVars
<1>3. CASE Activates(c) /\ peers' = peers \cup {c} /\ conn' = [conn EXCEPT ![c] = "active"]
  <2>1. /\ captured[c] = epoch /\ Cardinality(peers) < MaxPeers
        /\ \A d \in peers : RemoteOf[d] # RemoteOf[c]
    BY <1>3 DEF Activates, Identities
  <2>2. conn'[c] = "active" /\ \A d \in Conns : d # c => conn'[d] = conn[d]
    BY <1>3 DEF Types, TypeOK
  <2>3. Types'
    BY <1>1, <1>3 DEF Types, TypeOK, taskVars, serverVars
  <2>4. Control'
    BY <1>1, ControlStays DEF taskVars, serverVars
  <2>5. TasksAreCurrent'
    BY <1>1, <2>2 DEF Sessions, TasksAreCurrent
  <2>6. HeldIsCurrent'
    BY <1>1, <1>3, <2>1, <2>2 DEF Sessions, HeldIsCurrent, Types, TypeOK
  <2>7. PeersAreBounded'
    <3>1. IsFiniteSet(peers) /\ c \notin peers
      BY <2>1 DEF Sessions, PeersAreBounded
    <3>2. /\ IsFiniteSet(peers') /\ Cardinality(peers') = Cardinality(peers) + 1
          /\ Cardinality(peers) \in Nat
      BY <1>3, <3>1, FS_AddElement, FS_CardinalityType
    <3>3. MaxPeers \in Nat
      BY BrowserAssumption
    <3>. QED BY <1>3, <2>1, <3>2, <3>3 DEF Sessions, PeersAreBounded
  <2>8. DialsAreMarked'
    <3>1. Dials' = Dials
      BY <1>1, <2>2 DEF Dials
    <3>. QED BY <1>1, <3>1 DEF Sessions, DialsAreMarked
  <2>9. ConnectionsAreOwned'
    BY <1>1, <1>3, <2>2 DEF Sessions, ConnectionsAreOwned, Types, TypeOK, taskVars
  <2>. QED BY <2>3, <2>4, <2>5, <2>6, <2>7, <2>8, <2>9 DEF Sessions
<1>. QED BY <1>2, <1>3 DEF ActivatePeer

(* The receive loop of a peer ends, and closes the connection.              *)
LEMMA ReceiveEndsKeeps ==
  ASSUME BInv, NEW c \in Conns, ReceiveEnds(c)
  PROVE  BInv'
<1>. USE DEF BInv, ReceiveEnds, stateVars
<1>1. conn'[c] = "leaving" /\ \A d \in Conns : d # c => conn'[d] = conn[d]
  BY DEF Types, TypeOK
<1>2. Types'
  BY DEF Types, TypeOK, taskVars, serverVars
<1>3. Control'
  BY ControlStays DEF taskVars, serverVars
<1>4. TasksAreCurrent'
  BY <1>1 DEF Sessions, TasksAreCurrent
<1>5. HeldIsCurrent' /\ PeersAreBounded'
  BY <1>1 DEF Sessions, HeldIsCurrent, PeersAreBounded, Types, TypeOK
<1>6. DialsAreMarked'
  <2>1. Dials' = Dials
    BY <1>1 DEF Dials
  <2>. QED BY <2>1 DEF Sessions, DialsAreMarked
<1>7. ConnectionsAreOwned'
  BY <1>1 DEF Sessions, ConnectionsAreOwned, Types, TypeOK, taskVars
<1>. QED BY <1>2, <1>3, <1>4, <1>5, <1>6, <1>7 DEF Sessions

(* The entry of a peer is removed by its own receive loop: an entry that is *)
(* there is of this epoch, and so was the loop.                             *)
LEMMA LeavePeersKeeps ==
  ASSUME BInv, NEW c \in Conns, LeavePeers(c)
  PROVE  BInv'
<1>. USE DEF BInv
<1>1. /\ conn[c] = "leaving" /\ conn' = [conn EXCEPT ![c] = "done"]
      /\ peers' = RemovePeer(c)
      /\ UNCHANGED <<epoch, goingOnline, client, currentRecord, renewalAbort, dialing,
                     pending, taskVars, captured, carrier, alive, bound, serverVars>>
  BY DEF LeavePeers
<1>2. peers' = peers \ {c}
  BY <1>1 DEF RemovePeer, Sessions, HeldIsCurrent
<1>3. conn'[c] = "done" /\ \A d \in Conns : d # c => conn'[d] = conn[d]
  BY <1>1 DEF Types, TypeOK
<1>4. Types'
  BY <1>1, <1>2 DEF Types, TypeOK, taskVars, serverVars
<1>5. Control'
  BY <1>1, ControlStays DEF taskVars, serverVars
<1>6. TasksAreCurrent'
  BY <1>1, <1>3 DEF Sessions, TasksAreCurrent
<1>7. HeldIsCurrent'
  BY <1>1, <1>2, <1>3 DEF Sessions, HeldIsCurrent, Types, TypeOK
<1>8. PeersAreBounded'
  <2>1. IsFiniteSet(peers') /\ Cardinality(peers') <= Cardinality(peers)
    BY <1>2, FS_Subset DEF Sessions, PeersAreBounded
  <2>2. Cardinality(peers) \in Nat /\ Cardinality(peers') \in Nat /\ MaxPeers \in Nat
    BY <2>1, FS_CardinalityType, BrowserAssumption DEF Sessions, PeersAreBounded
  <2>. QED BY <1>2, <2>1, <2>2 DEF Sessions, PeersAreBounded
<1>9. DialsAreMarked'
  <2>1. Dials' = Dials
    BY <1>1, <1>3 DEF Dials
  <2>. QED BY <1>1, <2>1 DEF Sessions, DialsAreMarked
<1>10. ConnectionsAreOwned'
  <2>1. c \notin alive
    BY <1>1 DEF Sessions, HeldIsCurrent
  <2>. QED BY <1>1, <1>2, <1>3, <2>1 DEF Sessions, ConnectionsAreOwned, Types, TypeOK,
                                        taskVars
<1>. QED BY <1>4, <1>5, <1>6, <1>7, <1>8, <1>9, <1>10 DEF Sessions

(* A connection is lost.                                                    *)
LEMMA ConnectionLostKeeps ==
  ASSUME BInv, NEW c \in Conns, ConnectionLost(c)
  PROVE  BInv'
<1>. USE DEF BInv, ConnectionLost, stateVars
<1>1. Types'
  BY DEF Types, TypeOK, taskVars, serverVars
<1>2. Control'
  BY ControlStays DEF taskVars, serverVars
<1>3. Sessions'
  BY DEF Sessions, TasksAreCurrent, HeldIsCurrent, PeersAreBounded, DialsAreMarked,
         Dials, ConnectionsAreOwned, taskVars
<1>. QED BY <1>1, <1>2, <1>3

-----------------------------------------------------------------------------
(* What every reachable state has.                                          *)

(* BInv holds throughout.                                                   *)
THEOREM BrowserInvariance == Spec => []BInv
<1>1. Init => BInv
  BY InitEstablishes
<1>2. BInv /\ [Next]_vars => BInv'
  <2>. SUFFICES ASSUME BInv, [Next]_vars PROVE BInv'
    OBVIOUS
  <2>1. CASE Publish
    BY <2>1, PublishKeeps
  <2>2. CASE Disconnect
    BY <2>2, DisconnectKeeps
  <2>3. ASSUME NEW e \in Endpoints, PublisherStep(e) PROVE BInv'
    BY <2>3, BindKeeps, FirstRecordKeeps, FirstPutKeeps, RetractFirstKeeps,
       CloseUnusedKeeps DEF PublisherStep
  <2>4. ASSUME NEW e \in Endpoints, RenewalStep(e) PROVE BInv'
    BY <2>4, RenewalWakesKeeps, NextRecordKeeps, RenewalPutKeeps DEF RenewalStep
  <2>5. ASSUME NEW e \in Endpoints, TeardownStep(e) PROVE BInv'
    BY <2>5, TeardownPeersKeeps, TeardownClientKeeps, TeardownRecordKeeps
       DEF TeardownStep
  <2>6. ASSUME NEW e \in Endpoints, LatePut(e) \/ StopListening(e) PROVE BInv'
    BY <2>6, LatePutKeeps, StopListeningKeeps
  <2>7. ASSUME NEW e \in Endpoints, NEW c \in Conns, ReceiveRequest(e, c) PROVE BInv'
    BY <2>7, ReceiveRequestKeeps
  <2>8. ASSUME NEW c \in Conns, ConnectionStep(c) PROVE BInv'
    BY <2>8, DialReturnsKeeps, DropRequestKeeps, AcceptReturnsKeeps, ActivatePeerKeeps,
       CloseUnactivatedKeeps, LeavePeersKeeps DEF ConnectionStep
  <2>9. ASSUME NEW c \in Conns, ReceiveEnds(c) \/ ConnectionLost(c) PROVE BInv'
    BY <2>9, ReceiveEndsKeeps, ConnectionLostKeeps
  <2>10. ASSUME NEW e \in Endpoints, ReportOffline(e) PROVE BInv'
    BY <2>10, ReportOfflineKeeps
  <2>11. ASSUME NEW c \in Conns, Application(c) PROVE BInv'
    BY <2>11, RequestPeerKeeps, AcceptInboundKeeps, DropRequestKeeps DEF Application
  <2>12. CASE UNCHANGED vars
    BY <2>12, Stutter
  <2>. QED BY <2>1, <2>2, <2>3, <2>4, <2>5, <2>6, <2>7, <2>8, <2>9, <2>10, <2>11,
              <2>12 DEF Next, Background
<1>. QED BY <1>1, <1>2, PTL DEF Spec

(* All variables keep their types; that a renewal loop never gets as far as *)
(* deleting a record of its own is part of it.                              *)
THEOREM BrowserTypeCorrectness == Spec => []TypeOK
<1>1. BInv => TypeOK
  BY DEF BInv, Types
<1>. QED BY <1>1, BrowserInvariance, PTL

(* All that the state holds belongs to the endpoint that is the client,     *)
(* whatever tasks of earlier epochs are still suspended.                    *)
THEOREM StateIsTheClients == Spec => []NothingOutlivesItsEndpoint
<1>1. BInv => NothingOutlivesItsEndpoint
  <2>. SUFFICES ASSUME BInv PROVE NothingOutlivesItsEndpoint
    OBVIOUS
  <2>. USE DEF BInv
  <2>1. client # 0 => client = epoch /\ client \in bound
    BY DEF Control, ClientIsCurrent
  <2>2. currentRecord # 0 => currentRecord = client
    BY DEF Control, ClientIsCurrent
  <2>3. \A c \in peers \cup pending : carrier[c] = client
    BY DEF Sessions, HeldIsCurrent, TasksAreCurrent, Types, TypeOK
  <2>4. client = 0 => dialing = {}
    <3>1. client = 0 => Dials = {}
      BY DEF Dials, Sessions, TasksAreCurrent
    <3>. QED BY <3>1 DEF Sessions, DialsAreMarked, Identities
  <2>5. /\ \A c, d \in peers : RemoteOf[c] = RemoteOf[d] => c = d
        /\ Cardinality(peers) <= MaxPeers
    BY DEF Sessions, PeersAreBounded
  <2>6. \A e \in Endpoints : renewal[e] \in {"sleeping", "allocating", "putting"} =>
                               client = e /\ renewalAbort = e
    BY DEF Control, ClientIsCurrent, Live
  <2>. QED BY <2>1, <2>2, <2>3, <2>4, <2>5, <2>6 DEF NothingOutlivesItsEndpoint
<1>. QED BY <1>1, BrowserInvariance, PTL

(* The marks in dialing are those of the dials of this epoch, one each,     *)
(* even when dials of earlier epochs return late.                           *)
THEOREM DialsAreExact == Spec => []DialingIsExact
<1>1. BInv => DialingIsExact
  <2>. SUFFICES ASSUME BInv PROVE DialingIsExact
    OBVIOUS
  <2>1. /\ dialing = Identities(Dials) /\ IsFiniteSet(Dials)
        /\ \A c, d \in Dials : RemoteOf[c] = RemoteOf[d] => c = d
    BY DEF BInv, Sessions, DialsAreMarked
  <2>. DEFINE mark == [c \in Dials |-> RemoteOf[c]]
  <2>2. mark \in [Dials -> dialing]
    BY <2>1 DEF Identities
  <2>3. /\ \A c, d \in Dials : mark[c] = mark[d] => c = d
        /\ \A r \in dialing : \E c \in Dials : mark[c] = r
    BY <2>1 DEF Identities
  <2>. HIDE DEF mark
  <2>4. mark \in Bijection(Dials, dialing)
    BY <2>2, <2>3 DEF Bijection, Injection, Surjection, IsInjective
  <2>5. Cardinality(dialing) = Cardinality(Dials)
    BY <2>1, <2>4, FS_Bijection DEF ExistsBijection
  <2>. QED BY <2>1, <2>5 DEF DialingIsExact, Dials
<1>. QED BY <1>1, BrowserInvariance, PTL

(* A tab that is offline and at rest has no record on the homeserver, if    *)
(* the outcome of each of its requests was known.                           *)
THEOREM OfflineTabsAreRetracted == Spec => []OfflineIsRetracted
<1>1. BInv => OfflineIsRetracted
  BY DEF BInv, Control, RecordHasOwner, OfflineIsRetracted, Quiet
<1>. QED BY <1>1, BrowserInvariance, PTL

(* No stale call and no error leaves an endpoint open for good.             *)
THEOREM EndpointsHaveOwners == Spec => []EndpointsAreOwned
<1>1. BInv => EndpointsAreOwned
  BY DEF BInv, Control
<1>. QED BY <1>1, BrowserInvariance, PTL

(* No race of requests, dials and teardowns leaves a connection open that   *)
(* no task will close, or a peer that no receive loop will remove.          *)
THEOREM ConnectionsHaveOwners == Spec => []ConnectionsAreOwned
<1>1. BInv => ConnectionsAreOwned
  BY DEF BInv, Sessions
<1>. QED BY <1>1, BrowserInvariance, PTL

=============================================================================
