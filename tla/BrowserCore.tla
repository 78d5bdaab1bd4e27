----------------------------- MODULE BrowserCore -----------------------------
(***************************************************************************)
(* The network state of the Wasm client in one tab (crates/browser-wasm/   *)
(* src/lib.rs): publishAndGoOnline, requestPeer, acceptInbound,            *)
(* rejectInbound, disconnect, and the tasks they leave behind: the loop    *)
(* over inbound requests, their expiry, the renewal of the device record,  *)
(* the receive loop of every peer, and the teardown of an endpoint.        *)
(*                                                                         *)
(* The program has one thread.  One action is what a task does between two *)
(* awaits; a task that was suspended knows by the epoch it captured        *)
(* whether the state is still the one it started from.  Going online sets  *)
(* a new epoch, which names the endpoint that is bound for it.  All device *)
(* records of one browser have one path on the homeserver.  Authorization  *)
(* and device state are taken as given: a session is present.              *)
(***************************************************************************)
EXTENDS Integers, FiniteSets

CONSTANTS
  Conns,       \* QUIC connections, the dialled ones and the inbound ones
  Inbound,     \* the connections that a remote identity opens
  Remotes,     \* other identities
  RemoteOf,    \* the remote identity of each connection
  MaxPeers,    \* MAX_CONNECTED_PEERS
  MaxPending,  \* MAX_PENDING_INBOUND
  MaxPendingPerIdentity,
  MaxEpoch     \* bound on the epoch

ASSUME BrowserAssumption ==
  /\ Inbound \subseteq Conns
  /\ RemoteOf \in [Conns -> Remotes]
  /\ {MaxPeers, MaxPending, MaxPendingPerIdentity, MaxEpoch} \subseteq Nat \ {0}

VARIABLES
  epoch,          \* BrowserState.epoch
  goingOnline,    \* BrowserState.going_online
  client,         \* the endpoint of BrowserState.client, 0 if None
  currentRecord,  \* the endpoint that current_record names, 0 if None
  renewalAbort,   \* the endpoint whose renewal renewal_abort stops, 0 if None
  dialing,        \* BrowserState.dialing
  peers,          \* the connections in BrowserState.peers
  pending,        \* the connections in BrowserState.pending_inbound
  publisher,      \* where the publishAndGoOnline call of each epoch is
  renewal,        \* where the renewal loop of each endpoint is
  listening,      \* endpoints whose inbound loop runs
  teardown,       \* the teardown that set each epoch
  conn,           \* where the task of each connection is
  captured,       \* the epoch that this task captured
  carrier,        \* the endpoint of each connection
  alive,          \* open connections
  bound,          \* open endpoints
  published,      \* the endpoint named by the record on the homeserver, or 0
  late,           \* abandoned PUTs that may still reach the homeserver
  certain         \* history: every homeserver request had a known outcome

stateVars == <<epoch, goingOnline, client, currentRecord, renewalAbort, dialing,
               peers, pending>>
taskVars == <<publisher, renewal, listening, teardown>>
connVars == <<conn, captured, carrier, alive>>
serverVars == <<published, late, certain>>
vars == <<epoch, goingOnline, client, currentRecord, renewalAbort, dialing, peers,
          pending, publisher, renewal, listening, teardown, conn, captured,
          carrier, alive, bound, published, late, certain>>

Endpoints == 1..MaxEpoch

NoTask == [step |-> "none", failed |-> FALSE, client |-> 0, record |-> 0,
           conns |-> {}]

Init ==
  /\ epoch = 0
  /\ goingOnline = FALSE
  /\ client = 0 /\ currentRecord = 0 /\ renewalAbort = 0
  /\ dialing = {} /\ peers = {} /\ pending = {}
  /\ publisher = [e \in Endpoints |-> "none"]
  /\ renewal = [e \in Endpoints |-> "none"]
  /\ listening = {}
  /\ teardown = [e \in Endpoints |-> NoTask]
  /\ conn = [c \in Conns |-> "idle"]
  /\ captured = [c \in Conns |-> 0]
  /\ carrier = [c \in Conns |-> 0]
  /\ alive = {} /\ bound = {}
  /\ published = 0
  /\ late = {}
  /\ certain = TRUE

-----------------------------------------------------------------------------
(* The homeserver and the endpoint.                                         *)

(* A PUT of the record that names e.  One that fails may have been stored.  *)
Put(e, ok) ==
  \E stored \in BOOLEAN :
    /\ ok => stored
    /\ published' = IF stored THEN e ELSE published
    /\ certain' = (certain /\ stored = ok)
    /\ UNCHANGED late

(* A DELETE of the one path, whatever record is there; errors are ignored.  *)
Delete ==
  \E done \in BOOLEAN :
    /\ published' = IF done THEN 0 ELSE published
    /\ certain' = (certain /\ done)
    /\ UNCHANGED late

(* A PUT whose renewal was aborted arrives after all, or never.             *)
LatePut(e) ==
  /\ e \in late
  /\ \E stored \in BOOLEAN : published' = IF stored THEN e ELSE published
  /\ late' = late \ {e}
  /\ UNCHANGED <<stateVars, taskVars, connVars, bound, certain>>

(* V1Client::close: the endpoint goes, and all of its connections.          *)
CloseEndpoint(e) ==
  /\ bound' = bound \ {e}
  /\ alive' = {c \in alive : carrier[c] # e}

-----------------------------------------------------------------------------
(* publish_and_go_online.                                                   *)

Publish ==
  /\ ~goingOnline /\ client = 0
  /\ epoch < MaxEpoch
  /\ epoch' = epoch + 1
  /\ goingOnline' = TRUE
  /\ publisher' = [publisher EXCEPT ![epoch + 1] = "binding"]
  /\ UNCHANGED <<client, currentRecord, renewalAbort, dialing, peers, pending,
                 renewal, listening, teardown, connVars, bound, serverVars>>

(* The call returns an error: going_online is its own only in its epoch.    *)
PublishFails(e) ==
  /\ publisher' = [publisher EXCEPT ![e] = "failed"]
  /\ goingOnline' = (goingOnline /\ epoch # e)

Bind(e) ==
  /\ publisher[e] = "binding"
  /\ \/ /\ bound' = bound \cup {e}
        /\ publisher' = [publisher EXCEPT ![e] = "allocating"]
        /\ UNCHANGED goingOnline
     \/ /\ PublishFails(e)
        /\ UNCHANGED bound
  /\ UNCHANGED <<epoch, client, currentRecord, renewalAbort, dialing, peers,
                 pending, renewal, listening, teardown, connVars, serverVars>>

(* client.next_record for the first record.  A certificate that has ended   *)
(* drops the client, which closes it as well.                               *)
FirstRecord(e) ==
  /\ publisher[e] = "allocating"
  /\ \E next \in {"putting", "closing"} :
       publisher' = [publisher EXCEPT ![e] = next]
  /\ UNCHANGED <<stateVars, renewal, listening, teardown, connVars, bound,
                 serverVars>>

(* The first PUT, and what follows it without an await: the endpoint        *)
(* becomes the client and its loops start, unless the call is stale.        *)
FirstPut(e) ==
  /\ publisher[e] = "putting"
  /\ \/ /\ Put(e, TRUE)
        /\ epoch = e
        /\ publisher' = [publisher EXCEPT ![e] = "online"]
        /\ goingOnline' = FALSE
        /\ client' = e /\ currentRecord' = e /\ renewalAbort' = e
        /\ renewal' = [renewal EXCEPT ![e] = "sleeping"]
        /\ listening' = listening \cup {e}
     \/ /\ Put(e, TRUE)
        /\ epoch # e
        /\ publisher' = [publisher EXCEPT ![e] = "retracting"]
        /\ UNCHANGED <<goingOnline, client, currentRecord, renewalAbort, renewal,
                       listening>>
     \/ /\ Put(e, FALSE)
        /\ publisher' = [publisher EXCEPT ![e] = "closing"]
        /\ UNCHANGED <<goingOnline, client, currentRecord, renewalAbort, renewal,
                       listening>>
  /\ UNCHANGED <<epoch, dialing, peers, pending, teardown, connVars, bound>>

(* Variant: a stale call leaves its record where it is.                     *)
RetractNothing(e) ==
  /\ publisher[e] = "retracting"
  /\ publisher' = [publisher EXCEPT ![e] = "closing"]
  /\ UNCHANGED <<stateVars, renewal, listening, teardown, connVars, bound,
                 serverVars>>

(* A stale call deletes the record it published.                            *)
RetractFirst(e) ==
  /\ publisher[e] = "retracting"
  /\ Delete
  /\ publisher' = [publisher EXCEPT ![e] = "closing"]
  /\ UNCHANGED <<stateVars, renewal, listening, teardown, connVars, bound>>

(* Variant: the error is returned without closing the endpoint.             *)
ReturnUnclosed(e) ==
  /\ publisher[e] = "closing"
  /\ PublishFails(e)
  /\ UNCHANGED <<epoch, client, currentRecord, renewalAbort, dialing, peers,
                 pending, renewal, listening, teardown, connVars, bound,
                 serverVars>>

(* client.close(), then the error.                                          *)
CloseUnused(e) ==
  /\ publisher[e] = "closing"
  /\ CloseEndpoint(e)
  /\ PublishFails(e)
  /\ UNCHANGED <<epoch, client, currentRecord, renewalAbort, dialing, peers,
                 pending, renewal, listening, teardown, conn, captured, carrier,
                 serverVars>>

-----------------------------------------------------------------------------
(* The teardown of an endpoint.                                             *)

(* What shutdown_network and fail_online_endpoint do before their first     *)
(* await: the state is emptied under a new epoch, and what was in it now    *)
(* belongs to the teardown.  Dropped and rejected requests close at once.   *)
BeginTeardown(failed) ==
  /\ epoch < MaxEpoch
  /\ epoch' = epoch + 1
  /\ goingOnline' = FALSE
  /\ client' = 0 /\ currentRecord' = 0 /\ renewalAbort' = 0
  /\ dialing' = {} /\ peers' = {} /\ pending' = {}
  /\ alive' = alive \ pending
  /\ conn' = [c \in Conns |-> IF c \in pending THEN "done" ELSE conn[c]]
  /\ teardown' = [teardown EXCEPT ![epoch + 1] =
       [step |-> "peers", failed |-> failed, client |-> client,
        record |-> currentRecord, conns |-> peers]]

RenewalAborted ==
  [e \in Endpoints |-> IF e = renewalAbort THEN "aborted" ELSE renewal[e]]

(* disconnect: the renewal is aborted wherever it waits, its PUT included.  *)
Disconnect ==
  /\ BeginTeardown(FALSE)
  /\ renewal' = RenewalAborted
  /\ LET cut == {e \in {renewalAbort} \ {0} : renewal[e] = "putting"}
     IN  late' = late \cup cut /\ certain' = (certain /\ cut = {})
  /\ UNCHANGED <<publisher, listening, captured, carrier, bound, published>>

TeardownPeers(e) ==
  /\ teardown[e].step = "peers"
  /\ alive' = alive \ teardown[e].conns
  /\ teardown' = [teardown EXCEPT ![e].step = "client", ![e].conns = {}]
  /\ UNCHANGED <<stateVars, publisher, renewal, listening, conn, captured,
                 carrier, bound, serverVars>>

TeardownClient(e) ==
  /\ teardown[e].step = "client"
  /\ CloseEndpoint(teardown[e].client)
  /\ teardown' = [teardown EXCEPT ![e].step = "record", ![e].client = 0]
  /\ UNCHANGED <<stateVars, publisher, renewal, listening, conn, captured,
                 carrier, serverVars>>

TeardownRecord(e) ==
  /\ teardown[e].step = "record"
  /\ IF teardown[e].record # 0 THEN Delete ELSE UNCHANGED serverVars
  /\ teardown' = [teardown EXCEPT
       ![e].step = IF teardown[e].failed THEN "report" ELSE "done",
       ![e].record = 0]
  /\ UNCHANGED <<stateVars, publisher, renewal, listening, connVars, bound>>

(* A failed endpoint reports that the tab is offline.                       *)
ReportOffline(e) ==
  /\ teardown[e].step = "report"
  /\ teardown' = [teardown EXCEPT ![e].step = "done"]
  /\ UNCHANGED <<stateVars, publisher, renewal, listening, connVars, bound,
                 serverVars>>

-----------------------------------------------------------------------------
(* The renewal loop.                                                        *)

RenewalWakes(e) ==
  /\ renewal[e] = "sleeping"
  /\ renewal' = [renewal EXCEPT
       ![e] = IF epoch = e /\ client # 0 THEN "allocating" ELSE "done"]
  /\ UNCHANGED <<stateVars, publisher, listening, teardown, connVars, bound,
                 serverVars>>

(* fail_online_endpoint, unless the state has moved on.                     *)
RenewalFails(e) ==
  /\ renewal' = [renewal EXCEPT ![e] = "done"]
  /\ IF epoch = e THEN BeginTeardown(TRUE)
                  ELSE UNCHANGED <<stateVars, teardown, conn, alive>>

(* The certificate has ended, or next_record fails.                         *)
NextRecord(e) ==
  /\ renewal[e] = "allocating"
  /\ \/ /\ renewal' = [renewal EXCEPT ![e] = "putting"]
        /\ UNCHANGED <<stateVars, teardown, conn, alive>>
     \/ RenewalFails(e)
  /\ UNCHANGED <<publisher, listening, captured, carrier, bound, serverVars>>

(* A loop that finds itself stale after its PUT would delete the record and *)
(* end; NothingOutlivesItsEndpoint shows that none ever does, so that       *)
(* deletion has no action.                                                  *)
RenewalPut(e) ==
  /\ renewal[e] = "putting"
  /\ \/ /\ Put(e, TRUE)
        /\ IF epoch = e /\ client # 0
             THEN /\ currentRecord' = e
                  /\ renewal' = [renewal EXCEPT ![e] = "sleeping"]
             ELSE /\ renewal' = [renewal EXCEPT ![e] = "retracting"]
                  /\ UNCHANGED currentRecord
        /\ UNCHANGED <<epoch, goingOnline, client, renewalAbort, dialing, peers,
                       pending, teardown, conn, alive>>
     \/ /\ Put(e, FALSE)
        /\ RenewalFails(e)
  /\ UNCHANGED <<publisher, listening, captured, carrier, bound>>

-----------------------------------------------------------------------------
(* Connections.                                                             *)

Identities(cs) == {RemoteOf[c] : c \in cs}

(* What a dial leaves in dialing.                                           *)
DialMark(c) == RemoteOf[c]

(* request_peer up to the dial.                                             *)
RequestPeer(c) ==
  /\ conn[c] = "idle" /\ c \notin Inbound
  /\ client # 0
  /\ Cardinality(peers) + Cardinality(dialing) < MaxPeers
  /\ RemoteOf[c] \notin Identities(peers)
  /\ DialMark(c) \notin dialing
  /\ dialing' = dialing \cup {DialMark(c)}
  /\ conn' = [conn EXCEPT ![c] = "dialing"]
  /\ captured' = [captured EXCEPT ![c] = epoch]
  /\ carrier' = [carrier EXCEPT ![c] = client]
  /\ UNCHANGED <<epoch, goingOnline, client, currentRecord, renewalAbort, peers,
                 pending, taskVars, alive, bound, serverVars>>

(* Variant: the mark goes whatever dial set it.                             *)
UnmarkAnyDial(c) == dialing \ {DialMark(c)}

(* The mark in dialing is removed in the epoch that set it.                 *)
UnmarkDial(c) ==
  IF captured[c] = epoch THEN dialing \ {DialMark(c)} ELSE dialing

(* dial returns a peer, or an error: always one on a closed endpoint.       *)
DialReturns(c) ==
  /\ conn[c] = "dialing"
  /\ dialing' = UnmarkDial(c)
  /\ \/ /\ carrier[c] \in bound
        /\ alive' = alive \cup {c}
        /\ conn' = [conn EXCEPT ![c] = "confirming"]
     \/ /\ conn' = [conn EXCEPT ![c] = "done"]
        /\ UNCHANGED alive
  /\ UNCHANGED <<epoch, goingOnline, client, currentRecord, renewalAbort, peers,
                 pending, taskVars, captured, carrier, bound, serverVars>>

(* The inbound loop of an endpoint receives a request: it is kept for the   *)
(* application, or rejected, and a stale loop ends.                         *)
ReceiveRequest(e, c) ==
  LET current == epoch = e /\ client # 0
      same    == {d \in pending : RemoteOf[d] = RemoteOf[c]}
      room    == /\ Cardinality(pending) < MaxPending
                 /\ Cardinality(same) < MaxPendingPerIdentity
  IN  /\ e \in listening /\ e \in bound
      /\ conn[c] = "idle" /\ c \in Inbound
      /\ IF current /\ room
           THEN /\ pending' = pending \cup {c}
                /\ alive' = alive \cup {c}
                /\ conn' = [conn EXCEPT ![c] = "pending"]
                /\ captured' = [captured EXCEPT ![c] = e]
                /\ carrier' = [carrier EXCEPT ![c] = e]
           ELSE /\ conn' = [conn EXCEPT ![c] = "done"]
                /\ UNCHANGED <<pending, alive, captured, carrier>>
      /\ listening' = IF current THEN listening ELSE listening \ {e}
      /\ UNCHANGED <<epoch, goingOnline, client, currentRecord, renewalAbort,
                     dialing, peers, publisher, renewal, teardown, bound,
                     serverVars>>

(* next_incoming fails on a closed endpoint.                                *)
StopListening(e) ==
  /\ e \in listening /\ e \notin bound
  /\ listening' = listening \ {e}
  /\ UNCHANGED <<stateVars, publisher, renewal, teardown, connVars, bound,
                 serverVars>>

(* A request leaves pending_inbound and is rejected.                        *)
DropRequest(c) ==
  /\ pending' = pending \ {c}
  /\ alive' = alive \ {c}
  /\ conn' = [conn EXCEPT ![c] = "done"]
  /\ UNCHANGED <<epoch, goingOnline, client, currentRecord, renewalAbort, dialing,
                 peers, taskVars, captured, carrier, bound, serverVars>>

(* start_inbound_expiry, after its sleep.                                   *)
ExpireRequest(c) ==
  /\ c \in pending
  /\ captured[c] = epoch
  /\ DropRequest(c)

RejectInbound(c) ==
  /\ c \in pending
  /\ DropRequest(c)

AcceptInbound(c) ==
  /\ c \in pending
  /\ pending' = pending \ {c}
  /\ conn' = [conn EXCEPT ![c] = "accepting"]
  /\ captured' = [captured EXCEPT ![c] = epoch]
  /\ UNCHANGED <<epoch, goingOnline, client, currentRecord, renewalAbort, dialing,
                 peers, taskVars, carrier, alive, bound, serverVars>>

(* incoming.accept() returns a peer, or an error that closes it.            *)
AcceptReturns(c) ==
  /\ conn[c] = "accepting"
  /\ \/ /\ c \in alive
        /\ conn' = [conn EXCEPT ![c] = "confirming"]
        /\ UNCHANGED alive
     \/ /\ conn' = [conn EXCEPT ![c] = "done"]
        /\ alive' = alive \ {c}
  /\ UNCHANGED <<stateVars, taskVars, captured, carrier, bound, serverVars>>

(* Variant: any online state will do.                                       *)
ActivatesInAnyEpoch(c) ==
  /\ client # 0
  /\ Cardinality(peers) < MaxPeers
  /\ RemoteOf[c] \notin Identities(peers)

(* The check that activate_peer makes when the path is known.               *)
Activates(c) ==
  /\ captured[c] = epoch /\ client # 0
  /\ Cardinality(peers) < MaxPeers
  /\ RemoteOf[c] \notin Identities(peers)

(* activate_peer: the wait for a relayed path ends well or not.             *)
ActivatePeer(c) ==
  /\ conn[c] = "confirming"
  /\ \/ /\ Activates(c)
        /\ peers' = peers \cup {c}
        /\ conn' = [conn EXCEPT ![c] = "active"]
     \/ /\ conn' = [conn EXCEPT ![c] = "closing"]
        /\ UNCHANGED peers
  /\ UNCHANGED <<epoch, goingOnline, client, currentRecord, renewalAbort, dialing,
                 pending, taskVars, captured, carrier, alive, bound, serverVars>>

(* peer.close() of a connection that was not activated.                     *)
CloseUnactivated(c) ==
  /\ conn[c] = "closing"
  /\ conn' = [conn EXCEPT ![c] = "done"]
  /\ alive' = alive \ {c}
  /\ UNCHANGED <<stateVars, taskVars, captured, carrier, bound, serverVars>>

(* The receive loop ends, at an error or at an invalid message, and closes. *)
ReceiveEnds(c) ==
  /\ conn[c] = "active"
  /\ alive' = alive \ {c}
  /\ conn' = [conn EXCEPT ![c] = "leaving"]
  /\ UNCHANGED <<stateVars, taskVars, captured, carrier, bound, serverVars>>

(* Variant: the entry stays.                                                *)
KeepPeer(c) == peers

(* The entry is removed if it is still the one of this session.             *)
RemovePeer(c) == IF captured[c] = epoch THEN peers \ {c} ELSE peers

LeavePeers(c) ==
  /\ conn[c] = "leaving"
  /\ peers' = RemovePeer(c)
  /\ conn' = [conn EXCEPT ![c] = "done"]
  /\ UNCHANGED <<epoch, goingOnline, client, currentRecord, renewalAbort, dialing,
                 pending, taskVars, captured, carrier, alive, bound, serverVars>>

(* The remote side or the network closes the connection.                    *)
ConnectionLost(c) ==
  /\ c \in alive
  /\ alive' = alive \ {c}
  /\ UNCHANGED <<stateVars, taskVars, conn, captured, carrier, bound, serverVars>>

-----------------------------------------------------------------------------
PublisherStep(e) ==
  \/ Bind(e)
  \/ FirstRecord(e)
  \/ FirstPut(e)
  \/ RetractFirst(e)
  \/ CloseUnused(e)

RenewalStep(e) == RenewalWakes(e) \/ NextRecord(e) \/ RenewalPut(e)

TeardownStep(e) == TeardownPeers(e) \/ TeardownClient(e) \/ TeardownRecord(e)

ConnectionStep(c) ==
  \/ DialReturns(c)
  \/ ExpireRequest(c)
  \/ AcceptReturns(c)
  \/ ActivatePeer(c)
  \/ CloseUnactivated(c)
  \/ LeavePeers(c)

(* What the application calls for one connection.                           *)
Application(c) == RequestPeer(c) \/ AcceptInbound(c) \/ RejectInbound(c)

(* What goes on without the application.                                    *)
Background ==
  \/ \E e \in Endpoints : PublisherStep(e) \/ RenewalStep(e) \/ TeardownStep(e)
  \/ \E e \in Endpoints : LatePut(e) \/ StopListening(e)
  \/ \E e \in Endpoints : \E c \in Conns : ReceiveRequest(e, c)
  \/ \E c \in Conns : ConnectionStep(c) \/ ReceiveEnds(c) \/ ConnectionLost(c)

Next ==
  \/ Publish
  \/ Disconnect
  \/ Background
  \/ \E e \in Endpoints : ReportOffline(e)
  \/ \E c \in Conns : Application(c)

Spec == Init /\ [][Next]_vars

-----------------------------------------------------------------------------
TypeOK ==
  /\ epoch \in 0..MaxEpoch
  /\ goingOnline \in BOOLEAN
  /\ {client, currentRecord, renewalAbort, published} \subseteq 0..MaxEpoch
  /\ dialing \subseteq Remotes
  /\ peers \subseteq Conns /\ pending \subseteq Conns /\ alive \subseteq Conns
  /\ publisher \in [Endpoints -> {"none", "binding", "allocating", "putting",
                                  "online", "retracting", "closing", "failed"}]
  /\ renewal \in [Endpoints -> {"none", "sleeping", "allocating", "putting",
                                "aborted", "done"}]
  /\ listening \subseteq Endpoints /\ bound \subseteq Endpoints
  /\ late \subseteq Endpoints
  /\ \A e \in Endpoints :
       /\ teardown[e].step \in {"none", "peers", "client", "record", "report", "done"}
       /\ teardown[e].conns \subseteq Conns
  /\ conn \in [Conns -> {"idle", "dialing", "pending", "accepting", "confirming",
                         "active", "leaving", "closing", "done"}]
  /\ captured \in [Conns -> 0..MaxEpoch] /\ carrier \in [Conns -> 0..MaxEpoch]
  /\ certain \in BOOLEAN

(* Whatever tasks of earlier epochs are still suspended, all that the state *)
(* holds belongs to the endpoint that is the client: the record, the peers, *)
(* the requests, the dials and the renewal loop, which therefore never      *)
(* finds its epoch stale; there is at most one peer per identity.           *)
NothingOutlivesItsEndpoint ==
  /\ client # 0 => client = epoch /\ client \in bound
  /\ currentRecord # 0 => currentRecord = client
  /\ \A c \in peers \cup pending : carrier[c] = client
  /\ client = 0 => dialing = {}
  /\ \A c, d \in peers : RemoteOf[c] = RemoteOf[d] => c = d
  /\ Cardinality(peers) <= MaxPeers
  /\ \A e \in Endpoints :
       renewal[e] \in {"sleeping", "allocating", "putting"} =>
         client = e /\ renewalAbort = e

(* dialing holds exactly the identities that a dial of this epoch works on, *)
(* one each: an identity is neither dialled twice at a time nor locked out  *)
(* after its dial returned, even when dials of earlier epochs return late.  *)
DialingIsExact ==
  LET dials == {c \in Conns : conn[c] = "dialing" /\ captured[c] = epoch}
  IN  /\ dialing = Identities(dials)
      /\ Cardinality(dialing) = Cardinality(dials)

(* No task of the network is under way.                                     *)
Quiet ==
  /\ client = 0 /\ ~goingOnline
  /\ \A e \in Endpoints :
       /\ publisher[e] \in {"none", "online", "failed"}
       /\ teardown[e].step \in {"none", "done"}

(* A tab that is offline and at rest has no record on the homeserver,       *)
(* however its publications, renewals and teardowns overlapped, provided    *)
(* that each of its requests had a known outcome.                           *)
OfflineIsRetracted == Quiet /\ certain => published = 0

(* Every open endpoint is the client's, or in the hands of a publication or *)
(* a teardown that will close it or make it the client: no stale call and   *)
(* no error leaves one open for good.                                       *)
EndpointsAreOwned ==
  \A e \in bound :
    \/ client = e
    \/ publisher[e] \in {"allocating", "putting", "retracting", "closing"}
    \/ \E t \in Endpoints :
         teardown[t].step \in {"peers", "client"} /\ teardown[t].client = e

(* Every open connection is a request, a peer, or in the hands of a task    *)
(* that will close it or make it a peer, whatever races its identity had;   *)
(* and every peer has a receive loop that will remove it when it ends.      *)
ConnectionsAreOwned ==
  /\ \A c \in alive :
       \/ c \in pending \cup peers
       \/ conn[c] \in {"accepting", "confirming", "closing"}
       \/ \E t \in Endpoints : c \in teardown[t].conns
  /\ \A c \in peers : conn[c] \in {"active", "leaving"}

=============================================================================
