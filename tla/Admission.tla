------------------------------ MODULE Admission ------------------------------
(***************************************************************************)
(* How a v1 endpoint admits inbound connections (crates/client/src/        *)
(* v1_peer.rs): the accept loop and its semaphore, the offline             *)
(* authentication of a Hello, the replay cache, the bounded queue of       *)
(* requests that wait for the application's consent with its expiry timers *)
(* and its Notify, the application that takes and answers requests, and    *)
(* the closing of the endpoint.                                            *)
(*                                                                         *)
(* Every connection has a handler task; the steps of a task between two    *)
(* lock acquisitions are one action.  Time is one monotonic clock counted  *)
(* in ticks: Instant reads it exactly, now_seconds() reads it in whole     *)
(* seconds.  A Hello that is sent twice is one Hello on two connections.   *)
(* What an Ack exchange does after consent is the subject of Handshake.    *)
(***************************************************************************)
EXTENDS Integers, Sequences, FiniteSets, FiniteSetsExt

CONSTANTS
  Conns,                \* inbound QUIC connections
  Hellos,               \* signed Hellos, named by control key and nonce
  Identities,           \* Pubky identities of the senders
  IdentityOf,           \* the identity that signed a Hello
  ExpiresAt,            \* expires_at of a Hello, in seconds
  Callers,              \* concurrent callers of next_incoming
  HandshakeLimit,       \* peer_handshake_timeout, in seconds
  Loads,                \* the situations a behaviour starts from: see Load
  QueueCapacity,        \* incoming_queue_capacity
  MaxPendingPerIdentity,
  ReplayCapacity,
  ReplayPerIdentity,
  NoConn                \* an absent queue entry

(* The Hello that each connection carries, max_unauthenticated_handshakes,  *)
(* the ticks of a second, and a bound on the clock, in ticks.               *)
Load == [helloOf : [Conns -> Hellos], maxHandshakes : Nat \ {0},
         ticksPerSecond : Nat \ {0}, maxClock : Nat]

ASSUME AdmissionAssumption ==
  /\ \A x \in Loads : x \in Load
  /\ IdentityOf \in [Hellos -> Identities]
  /\ ExpiresAt \in [Hellos -> Nat]
  /\ {HandshakeLimit, QueueCapacity, MaxPendingPerIdentity,
      ReplayCapacity, ReplayPerIdentity} \subseteq Nat \ {0}
  /\ NoConn \notin Conns

VARIABLES
  load,         \* chosen once
  clock,        \* ticks since the start
  handler,      \* where the task of each connection is
  deadline,     \* PendingV1.deadline of each connection
  request,      \* where the IncomingV1 of each connection is
  timer,        \* where the expiry task of each connection is
  shut,         \* connections that were closed by an expiry task
  replay,       \* the Hellos in the replay cache
  order,        \* PendingQueueState.order
  entries,      \* PendingQueueState.entries
  perIdentity,  \* PendingQueueState.per_identity, 0 when absent
  closed,       \* "open", then "closed" (cleared), then "notified"
  caller,       \* where each next_incoming call is
  missed,       \* notify_waiters ran since the call created its Notified
  waiters,      \* calls parked in Notified, oldest first
  permit        \* the one permit that Notify stores

queueVars == <<order, entries, perIdentity>>
notifyVars == <<caller, missed, waiters, permit>>
vars == <<load, clock, handler, deadline, request, timer, shut, replay, order,
          entries, perIdentity, closed, caller, missed, waiters, permit>>

HelloOf == load.helloOf
MaxHandshakes == load.maxHandshakes
TicksPerSecond == load.ticksPerSecond

Wall == clock \div TicksPerSecond

Init ==
  /\ load \in Loads
  /\ clock = 0
  /\ handler = [c \in Conns |-> "none"]
  /\ deadline = [c \in Conns |-> 0]
  /\ request = [c \in Conns |-> "none"]
  /\ timer = [c \in Conns |-> "off"]
  /\ shut = {}
  /\ replay = {}
  /\ order = <<>>
  /\ entries = [h \in Hellos |-> NoConn]
  /\ perIdentity = [i \in Identities |-> 0]
  /\ closed = "open"
  /\ caller = [u \in Callers |-> "idle"]
  /\ missed = [u \in Callers |-> FALSE]
  /\ waiters = <<>>
  /\ permit = FALSE

-----------------------------------------------------------------------------
(* Notify (tokio::sync), from how the queue uses it.                        *)

(* notify_one wakes the oldest parked call, or stores one permit.           *)
NotifyOne ==
  /\ IF waiters = <<>>
       THEN /\ permit' = TRUE
            /\ UNCHANGED <<caller, missed, waiters>>
       ELSE /\ caller' = [caller EXCEPT ![Head(waiters)] = "looking"]
            /\ missed' = [missed EXCEPT ![Head(waiters)] = FALSE]
            /\ waiters' = Tail(waiters)
            /\ UNCHANGED permit

(* notify_waiters wakes every parked call and completes every Notified that *)
(* exists but was not polled yet; it stores no permit.                      *)
NotifyWaiters ==
  /\ caller' = [u \in Callers |->
                  IF caller[u] = "waiting" THEN "looking" ELSE caller[u]]
  /\ missed' = [u \in Callers |-> caller[u] \in {"looking", "polling"}]
  /\ waiters' = <<>>
  /\ UNCHANGED permit

-----------------------------------------------------------------------------
(* The queue: PendingQueue, called with its lock held.                      *)

Queued == {h \in Hellos : entries[h] # NoConn}

Expired == {h \in Queued : deadline[entries[h]] <= clock}

(* order.retain: for every prefix of s, what is left of it without ks.      *)
Retained(s, ks) ==
  LET kept[n \in 0..Len(s)] ==
        IF n = 0 THEN <<>>
        ELSE IF s[n] \in ks THEN kept[n - 1] ELSE Append(kept[n - 1], s[n])
  IN  kept

(* remove, for every key of ks: the entry, its place in the order and one   *)
(* count of its identity go; the dropped requests close their connections.  *)
RemoveFromOrder(ks) == Retained(order, ks)[Len(order)]

RemoveFromEntries(ks) ==
  [h \in Hellos |-> IF h \in ks THEN NoConn ELSE entries[h]]

(* Variant: a removal forgets the count.                                    *)
RemoveKeepsCounts(ks) == perIdentity

RemoveFromCounts(ks) ==
  [i \in Identities |->
     LET gone == Cardinality({h \in ks \cap Queued : IdentityOf[h] = i})
     IN  IF gone > perIdentity[i] THEN 0 ELSE perIdentity[i] - gone]

DropRequests(ks) ==
  [c \in Conns |-> IF \E h \in ks : entries[h] = c THEN "dropped" ELSE request[c]]

-----------------------------------------------------------------------------
(* The accept loop and the handler task.                                    *)

(* The permit travels with the connection, from the accept loop into the    *)
(* handler, into PendingV1, and through accept_pending.                     *)
HoldsPermit(c) ==
  \/ handler[c] \in {"preauth", "verified", "reserved"}
  \/ request[c] \in {"queued", "held", "accepting"}

Accept(c) ==
  /\ handler[c] = "none"
  /\ closed # "notified"
  /\ Cardinality({d \in Conns : HoldsPermit(d)}) < MaxHandshakes
  /\ handler' = [handler EXCEPT ![c] = "preauth"]
  /\ UNCHANGED <<load, clock, deadline, request, timer, shut, replay, queueVars,
                 closed, notifyVars>>

(* No permit: the accept loop drops the connection.                         *)
Refuse(c) ==
  /\ handler[c] = "none"
  /\ closed # "notified"
  /\ Cardinality({d \in Conns : HoldsPermit(d)}) >= MaxHandshakes
  /\ handler' = [handler EXCEPT ![c] = "refused"]
  /\ UNCHANGED <<load, clock, deadline, request, timer, shut, replay, queueVars,
                 closed, notifyVars>>

(* The task ends with an error: no QUIC handshake or Hello in time, a Hello *)
(* that does not verify, or a timeout of the operation while it waits for   *)
(* one of its locks.  A reservation that was made stays.                    *)
HandlerFails(c) ==
  /\ handler[c] \in {"preauth", "verified", "reserved", "unreserve"}
  /\ handler' = [handler EXCEPT ![c] = "done"]
  /\ UNCHANGED <<load, clock, deadline, request, timer, shut, replay, queueVars,
                 closed, notifyVars>>

(* hello.verify and pending_deadline.                                       *)
Authenticate(c) ==
  LET left == ExpiresAt[HelloOf[c]] - Wall
  IN  /\ handler[c] = "preauth"
      /\ left > 0
      /\ deadline' = [deadline EXCEPT
           ![c] = clock + TicksPerSecond * Min({HandshakeLimit, left})]
      /\ handler' = [handler EXCEPT ![c] = "verified"]
      /\ UNCHANGED <<load, clock, request, timer, shut, replay, queueVars, closed,
                     notifyVars>>

(* Variant: the Hello itself is not looked up.                              *)
ReserveReplayBlindly(c) ==
  /\ handler[c] = "verified"
  /\ replay' = {g \in replay : ExpiresAt[g] > Wall} \cup {HelloOf[c]}
  /\ handler' = [handler EXCEPT ![c] = "reserved"]
  /\ UNCHANGED <<load, clock, deadline, request, timer, shut, queueVars, closed,
                 notifyVars>>

(* reserve_replay: expired entries are purged whatever the outcome.         *)
ReserveReplay(c) ==
  LET h    == HelloOf[c]
      live == {g \in replay : ExpiresAt[g] > Wall}
      free == /\ h \notin live
              /\ Cardinality(live) < ReplayCapacity
              /\ Cardinality({g \in live : IdentityOf[g] = IdentityOf[h]})
                   < ReplayPerIdentity
  IN  /\ handler[c] = "verified"
      /\ replay' = IF free THEN live \cup {h} ELSE live
      /\ handler' = [handler EXCEPT ![c] = IF free THEN "reserved" ELSE "done"]
      /\ UNCHANGED <<load, clock, deadline, request, timer, shut, queueVars, closed,
                     notifyVars>>

(* PendingQueue::insert up to the release of its lock.                      *)
Insert(c) ==
  LET h      == HelloOf[c]
      kept   == RemoveFromEntries(Expired)
      counts == RemoveFromCounts(Expired)
      admit  == /\ closed = "open"
                /\ Cardinality(Queued \ Expired) < QueueCapacity
                /\ kept[h] = NoConn
                /\ counts[IdentityOf[h]] < MaxPendingPerIdentity
  IN  /\ handler[c] = "reserved"
      /\ \/ /\ admit
            /\ order' = Append(RemoveFromOrder(Expired), h)
            /\ entries' = [kept EXCEPT ![h] = c]
            /\ perIdentity' = [counts EXCEPT ![IdentityOf[h]] = @ + 1]
            /\ request' = [DropRequests(Expired) EXCEPT ![c] = "queued"]
            /\ handler' = [handler EXCEPT ![c] = "inserted"]
         \/ /\ ~admit
            /\ order' = RemoveFromOrder(Expired)
            /\ entries' = kept
            /\ perIdentity' = counts
            /\ request' = DropRequests(Expired)
            /\ handler' = [handler EXCEPT ![c] = "unreserve"]
      /\ UNCHANGED <<load, clock, deadline, timer, shut, replay, closed, notifyVars>>

(* The rejected request's reservation is taken back.                        *)
Unreserve(c) ==
  /\ handler[c] = "unreserve"
  /\ replay' = replay \ {HelloOf[c]}
  /\ handler' = [handler EXCEPT ![c] = "done"]
  /\ UNCHANGED <<load, clock, deadline, request, timer, shut, queueVars, closed,
                 notifyVars>>

(* Variant: insert does not notify.                                         *)
NotifyForgotten(c) ==
  /\ handler[c] = "inserted"
  /\ handler' = [handler EXCEPT ![c] = "arming"]
  /\ UNCHANGED <<load, clock, deadline, request, timer, shut, replay, queueVars,
                 closed, notifyVars>>

(* The notify_one that ends insert.                                         *)
NotifyInserted(c) ==
  /\ handler[c] = "inserted"
  /\ NotifyOne
  /\ handler' = [handler EXCEPT ![c] = "arming"]
  /\ UNCHANGED <<load, clock, deadline, request, timer, shut, replay, queueVars,
                 closed>>

(* Variant: no expiry task is spawned.                                      *)
ArmNoTimer(c) ==
  /\ handler[c] = "arming"
  /\ handler' = [handler EXCEPT ![c] = "done"]
  /\ UNCHANGED <<load, clock, deadline, request, timer, shut, replay, queueVars,
                 closed, notifyVars>>

(* spawn_pending_expiry.                                                    *)
ArmTimer(c) ==
  /\ handler[c] = "arming"
  /\ handler' = [handler EXCEPT ![c] = "done"]
  /\ timer' = [timer EXCEPT ![c] = "armed"]
  /\ UNCHANGED <<load, clock, deadline, request, shut, replay, queueVars, closed,
                 notifyVars>>

-----------------------------------------------------------------------------
(* The expiry task.                                                         *)

(* The sender of expiry_cancel lives in PendingV1 until consent.            *)
Cancelled(c) == request[c] \notin {"queued", "held"}

TimerCancelled(c) ==
  /\ timer[c] = "armed"
  /\ Cancelled(c)
  /\ timer' = [timer EXCEPT ![c] = "off"]
  /\ UNCHANGED <<load, clock, handler, deadline, request, shut, replay, queueVars,
                 closed, notifyVars>>

(* The sleep ends after the deadline (tokio rounds up to a millisecond).    *)
TimerFires(c) ==
  /\ timer[c] = "armed"
  /\ ~Cancelled(c)
  /\ clock > deadline[c]
  /\ timer' = [timer EXCEPT ![c] = "fired"]
  /\ UNCHANGED <<load, clock, handler, deadline, request, shut, replay, queueVars,
                 closed, notifyVars>>

(* queue.expire(key): whatever request is queued under the key goes.        *)
TimerExpires(c) ==
  LET ks == {HelloOf[c]} \cap Queued
  IN  /\ timer[c] = "fired"
      /\ order' = RemoveFromOrder(ks)
      /\ entries' = RemoveFromEntries(ks)
      /\ perIdentity' = RemoveFromCounts(ks)
      /\ request' = DropRequests(ks)
      /\ NotifyWaiters
      /\ timer' = [timer EXCEPT ![c] = "closing"]
      /\ UNCHANGED <<load, clock, handler, deadline, shut, replay, closed>>

TimerCloses(c) ==
  /\ timer[c] = "closing"
  /\ shut' = shut \cup {c}
  /\ timer' = [timer EXCEPT ![c] = "off"]
  /\ UNCHANGED <<load, clock, handler, deadline, request, replay, queueVars, closed,
                 notifyVars>>

-----------------------------------------------------------------------------
(* next_incoming and the application's answer.                              *)

CallNext(u) ==
  /\ caller[u] = "idle"
  /\ caller' = [caller EXCEPT ![u] = "looking"]
  /\ missed' = [missed EXCEPT ![u] = FALSE]
  /\ UNCHANGED <<load, clock, handler, deadline, request, timer, shut, replay,
                 queueVars, closed, waiters, permit>>

(* One round of next() with the lock held: prune, then pop the first key    *)
(* that still has a request; an empty closed queue is an error.             *)
Look(u) ==
  LET live  == RemoveFromOrder(Expired)
      kept  == RemoveFromEntries(Expired)
      found == {n \in 1..Len(live) : kept[live[n]] # NoConn}
  IN  /\ caller[u] = "looking"
      /\ \/ /\ found # {}
            /\ LET h == live[Min(found)]
                   c == kept[h]
               IN  /\ order' = SubSeq(live, Min(found) + 1, Len(live))
                   /\ entries' = [kept EXCEPT ![h] = NoConn]
                   /\ perIdentity' = RemoveFromCounts(Expired \cup {h})
                   /\ request' = [DropRequests(Expired) EXCEPT ![c] = "held"]
            /\ caller' = [caller EXCEPT ![u] = "idle"]
         \/ /\ found = {}
            /\ order' = <<>>
            /\ entries' = kept
            /\ perIdentity' = RemoveFromCounts(Expired)
            /\ request' = DropRequests(Expired)
            /\ caller' = [caller EXCEPT
                 ![u] = IF closed = "open" THEN "polling" ELSE "idle"]
      /\ UNCHANGED <<load, clock, handler, deadline, timer, shut, replay, closed,
                     missed, waiters, permit>>

(* notified.await, polled for the first time.                               *)
Await(u) ==
  /\ caller[u] = "polling"
  /\ \/ /\ missed[u]
        /\ caller' = [caller EXCEPT ![u] = "looking"]
        /\ missed' = [missed EXCEPT ![u] = FALSE]
        /\ UNCHANGED <<waiters, permit>>
     \/ /\ ~missed[u] /\ permit
        /\ permit' = FALSE
        /\ caller' = [caller EXCEPT ![u] = "looking"]
        /\ UNCHANGED <<missed, waiters>>
     \/ /\ ~missed[u] /\ ~permit
        /\ caller' = [caller EXCEPT ![u] = "waiting"]
        /\ waiters' = Append(waiters, u)
        /\ UNCHANGED <<missed, permit>>
  /\ UNCHANGED <<load, clock, handler, deadline, request, timer, shut, replay,
                 queueVars, closed>>

(* Variant: the deadline is not looked at again after the consent.          *)
ConsentLate(c) ==
  /\ request[c] = "held"
  /\ request' = [request EXCEPT ![c] =
       IF ExpiresAt[HelloOf[c]] > Wall THEN "accepting" ELSE "dropped"]
  /\ UNCHANGED <<load, clock, handler, deadline, timer, shut, replay, queueVars,
                 closed, notifyVars>>

(* The application accepts: accept_pending up to its two expiry checks.     *)
Consent(c) ==
  /\ request[c] = "held"
  /\ request' = [request EXCEPT ![c] =
       IF deadline[c] >= clock /\ ExpiresAt[HelloOf[c]] > Wall
         THEN "accepting" ELSE "dropped"]
  /\ UNCHANGED <<load, clock, handler, deadline, timer, shut, replay, queueVars,
                 closed, notifyVars>>

(* The application rejects or drops the request.                            *)
Reject(c) ==
  /\ request[c] = "held"
  /\ request' = [request EXCEPT ![c] = "dropped"]
  /\ UNCHANGED <<load, clock, handler, deadline, timer, shut, replay, queueVars,
                 closed, notifyVars>>

(* The proof exchange succeeds on an open connection, or fails.             *)
FinishAccept(c) ==
  /\ request[c] = "accepting"
  /\ \/ c \notin shut /\ request' = [request EXCEPT ![c] = "peer"]
     \/ request' = [request EXCEPT ![c] = "dropped"]
  /\ UNCHANGED <<load, clock, handler, deadline, timer, shut, replay, queueVars,
                 closed, notifyVars>>

-----------------------------------------------------------------------------
(* V1Client::close: PendingQueue::close clears the queue under its lock and *)
(* then notifies; only then is the endpoint closed.                         *)
CloseQueue ==
  /\ closed = "open"
  /\ closed' = "closed"
  /\ order' = <<>>
  /\ entries' = [h \in Hellos |-> NoConn]
  /\ perIdentity' = [i \in Identities |-> 0]
  /\ request' = DropRequests(Queued)
  /\ UNCHANGED <<load, clock, handler, deadline, timer, shut, replay, notifyVars>>

(* Variant: closing wakes nobody.                                           *)
CloseSilently ==
  /\ closed = "closed"
  /\ closed' = "notified"
  /\ UNCHANGED <<load, clock, handler, deadline, request, timer, shut, replay,
                 queueVars, notifyVars>>

CloseNotifies ==
  /\ closed = "closed"
  /\ closed' = "notified"
  /\ NotifyWaiters
  /\ UNCHANGED <<load, clock, handler, deadline, request, timer, shut, replay,
                 queueVars>>

Tick ==
  /\ clock < load.maxClock
  /\ clock' = clock + 1
  /\ UNCHANGED <<load, handler, deadline, request, timer, shut, replay, queueVars,
                 closed, notifyVars>>

HandlerStep(c) ==
  \/ Authenticate(c)
  \/ ReserveReplay(c)
  \/ Insert(c)
  \/ Unreserve(c)
  \/ NotifyInserted(c)
  \/ ArmTimer(c)
  \/ HandlerFails(c)

TimerStep(c) ==
  \/ TimerCancelled(c)
  \/ TimerFires(c)
  \/ TimerExpires(c)
  \/ TimerCloses(c)

CallerStep(u) == Look(u) \/ Await(u)

Answer(c) == Consent(c) \/ Reject(c)

Next ==
  \/ \E c \in Conns : Accept(c) \/ Refuse(c)
  \/ \E c \in Conns : HandlerStep(c) \/ TimerStep(c)
  \/ \E c \in Conns : Answer(c) \/ FinishAccept(c)
  \/ \E u \in Callers : CallNext(u) \/ CallerStep(u)
  \/ CloseQueue
  \/ CloseNotifies
  \/ Tick

Spec == Init /\ [][Next]_vars

(* The runtime schedules every task, timers fire, and time passes.  Nothing *)
(* is assumed of the application, nor of the peers that connect.            *)
FairSpec ==
  /\ Spec
  /\ \A c \in Conns : WF_vars(HandlerStep(c)) /\ WF_vars(TimerStep(c))
  /\ \A u \in Callers : WF_vars(CallerStep(u))
  /\ WF_vars(CloseNotifies)
  /\ WF_vars(Tick)

-----------------------------------------------------------------------------
TypeOK ==
  /\ load \in Loads
  /\ clock \in 0..load.maxClock
  /\ handler \in [Conns -> {"none", "refused", "preauth", "verified", "reserved",
                            "unreserve", "inserted", "arming", "done"}]
  /\ deadline \in [Conns -> Nat]
  /\ request \in [Conns -> {"none", "queued", "held", "accepting", "peer",
                            "dropped"}]
  /\ timer \in [Conns -> {"off", "armed", "fired", "closing"}]
  /\ shut \subseteq Conns
  /\ replay \subseteq Hellos
  /\ order \in Seq(Hellos)
  /\ entries \in [Hellos -> Conns \cup {NoConn}]
  /\ perIdentity \in [Identities -> Nat]
  /\ closed \in {"open", "closed", "notified"}
  /\ caller \in [Callers -> {"idle", "looking", "polling", "waiting"}]
  /\ missed \in [Callers -> BOOLEAN]
  /\ waiters \in Seq(Callers)
  /\ permit \in BOOLEAN

(* The three structures of the queue agree after every insertion, pop,      *)
(* expiry, prune and close: each queued key is in the order exactly once    *)
(* and counted once for its identity, so no identity is ever locked out by  *)
(* a count that outlived its requests.                                      *)
QueueConsistent ==
  /\ {order[n] : n \in 1..Len(order)} = Queued
  /\ Len(order) = Cardinality(Queued)
  /\ \A i \in Identities :
       perIdentity[i] = Cardinality({h \in Queued : IdentityOf[h] = i})
  /\ \A h \in Queued : HelloOf[entries[h]] = h /\ request[entries[h]] = "queued"

(* However often a Hello is sent, and however its copies race the expiry of *)
(* its replay entry, at most one of its connections is ever accepted.  (One *)
(* that verifies in its last second and reserves in the next can be handed  *)
(* to the application again: accept_pending refuses it.)                    *)
AtMostOneAcceptedPerHello ==
  \A c, d \in Conns :
    /\ HelloOf[c] = HelloOf[d]
    /\ {request[c], request[d]} \subseteq {"accepting", "peer"}
    => c = d

(* Consent and the consent timeout exclude each other: once the application *)
(* has accepted, the expiry task can no longer close the connection.        *)
AcceptedIsNotTimedOut ==
  \A c \in Conns :
    request[c] \in {"accepting", "peer"} =>
      timer[c] \notin {"fired", "closing"} /\ c \notin shut

(* "Receive the next offline-authenticated Hello for an explicit consent    *)
(* decision" (v1_peer.rs:1224): no caller of next_incoming is left asleep   *)
(* next to a queued request; some task is about to notify, or some call is  *)
(* about to look.                                                           *)
NoLostWakeup ==
  (\E u \in Callers : caller[u] = "waiting") /\ Queued \ Expired # {} =>
    \/ \E c \in Conns : handler[c] = "inserted"
    \/ \E u \in Callers :
         \/ caller[u] = "looking"
         \/ caller[u] = "polling" /\ (missed[u] \/ permit)

(* A request that nobody takes leaves the queue, whatever the application   *)
(* does: its slot, its identity's count and its permit come back.           *)
QueuedRequestsEnd ==
  \A c \in Conns : request[c] = "queued" ~> request[c] # "queued"

(* After close, every call of next_incoming returns.                        *)
CloseReachesCallers ==
  \A u \in Callers : closed # "open" /\ caller[u] # "idle" ~> caller[u] = "idle"

=============================================================================
