# A TLA+ model of pubky2pubky

pubky2pubky connects two devices of two Pubky identities over iroh QUIC. A
device publishes a signed *device record* (Grant, certificate, locator) on its
identity's homeserver; a dialling device resolves that record, connects, and
the two prove to each other, through short-lived *currentness proofs* on their
homeservers, that they have live write authority. Each side remembers the
highest record it accepted of every other device, so that a homeserver that
rolls back or a device that equivocates is noticed.

These modules model the parts of the code where the order of steps matters, the
TLC configurations check them on small instances, and the `...Proofs` modules
prove the safety properties for every instance: those of the stores, of the
inbound admission, of the exchange of currentness proofs, of dialling and the
stream of a Peer, and of the browser's network state and accounts.

## Inventory

| Part | State | Operations | Interacts with | What is hard |
|---|---|---|---|---|
| Sequence state (`client/src/sequence.rs`) | map from key to floor (counter, digest) or publisher counter | record a batch, initialize a publisher, next sequence | every store | limits, rollback, equivocation, counter exhaustion |
| File store (same file) | state file, lock file, per-instance mutex | `update_file`: lock, read, update, write, sync, rename, sync | other processes through the directory | kills and power losses between steps, errors after the rename, dropped futures |
| Inbound admission (`client/src/v1_peer.rs`) | semaphore, replay cache, consent queue, Notify, expiry tasks | accept, authenticate, reserve, insert, expire, next, accept/reject, close | the application (consent), the handshake | races between handlers, timers, callers and close; wall clock against monotonic clock |
| Handshake (`v1_peer.rs`, `v1_discovery.rs`) | sender and target records, Hello, Ack, proofs, floors | both sides of the proof exchange | homeservers, sequence store, the other device | two clocks, failures and timeouts at every await, concurrent sessions |
| Lifetimes (`protocol/src/v1.rs`) | none | sign and verify of Grants, certificates, locators, Hellos, Acks, proofs | everything signed | nested windows, skew |
| Active records (`v1_peer.rs`) | at most eight signed local records | `current_record`, `next_record` | publisher counter, handshake | eviction and expiry while a Hello names a record |
| Discovery (`v1_discovery.rs`) | none | list, fetch, publish, delete | homeserver, handshake | one bad record of several, limits |
| Dialling (`v1_peer.rs`) | candidates, time spent | resolve, order, try one device after the other | discovery, handshake, other devices | dead devices whose records are still published, the timeout over all of them |
| Peer streams (`client/src/peer.rs`) | send stream behind a mutex, receive stream | send, receive, finish, wait for finish, close | application, the other side's flow control | framing across awaits and dropped futures, shutdown against blocked sends |
| Browser runtime (`browser-wasm/src/lib.rs`) | identity, online endpoint, peers, pending inbound, epochs | authorize, restore, publish, renew, dial, accept, disconnect, remove | browser store, client crate, JavaScript events | tasks that outlive what they belong to, glare |
| Browser store (`browser_store.js`) | IndexedDB: grant keys, identities, encryption keys, device states, sequences | save, load, replace, remove, update sequences | other tabs | transactions of several tabs, tabs that are closed between two of them |
| Browser package (`packages/browser/index.js`) | leader lock, identity lock | online, disconnect, destroy | other tabs | who is leader when a tab fails |

The properties that make each part correct are the properties of its module,
below; `PROJECT.json` lists the hazards they are for, each at its line.

## Modules

* **SequenceState**: the state and its updates as operators. A key is a model
  value in `AuthKeys` or `PublisherKeys`, for the code asks of a key only
  whether its scope has the publisher prefix. The length of the JSON encoding
  is an operator constant `EncodedLen`, so nothing depends on how it is
  computed.
* **SequenceStore**: what a store promises. An update is acknowledged (and
  final), unacknowledged (the caller saw an error or died; a power loss may
  take it back) or without effect. The in-memory store takes acknowledged steps
  only.
* **FileSequenceStore**: `update_file` with one action per system call, several
  calls in several processes. `file` is what processes see, `disk` what a power
  loss would leave; a rename reaches `disk` by the directory sync or by the
  kernel's own write-back, and only synced data survives. `ImplementsPromise`
  is the refinement: the promised state is the file, except that an update
  between its rename and its outcome has not happened yet.
* **Admission**: the accept loop with its permits, one handler task and one
  expiry task per connection, the replay cache, the queue with its `Notify`, the
  callers of `next_incoming`, the application's answer, and `close`. One action
  is what a task does under one lock. `Notify` is external and modelled from
  how the queue uses it: `notify_one` wakes the oldest waiter or stores one
  permit, `notify_waiters` completes every existing `Notified` and stores none.
* **Validity**: every lifetime check of the protocol crate. Encodings, keys,
  digests and signatures are the identity of the values: a record is what its
  device signed.
* **Handshake**: both sides of the exchange as one action per await, over
  SequenceState (each device's floors) and Validity (two clocks that may
  differ). `Faults` names what may go wrong in an instance: connections,
  homeserver requests, store updates, abandoned sides (timeouts, dropped
  futures, dead processes: nothing is deleted, and the request in flight may
  still take effect), rejections.
* **Dialling**: the devices of one identity allocate a sequence, sign, PUT and
  delete their records, die at any point (a PUT in flight may still arrive) and
  restart with a new `instance_nonce`; a dialler lists, fetches, orders and
  tries them. A record is its device, its sequence and the process that signed
  it. Time enters as the expiry of a record, which may come at any moment, and
  as what a silent device costs: `HandshakeTimeout`, added up against
  `NegotiationTimeout`. The homeserver is reliable, faulty (it lists and serves
  anything, and every request may fail) or replaced by `StaticV1Resolver`.
* **PeerStream**: one direction of an established `Peer`. The calls of send,
  finish and close ask for the send mutex and get it in order; a frame is
  written in parts as the receive window allows, and read back by its length; an
  empty message is a length only.
  Futures of send and recv may be dropped in the middle of a frame.
* **Outbound**: Dialling until `dial` returns, and PeerStream from `Peer::new`
  on. Nothing of the dial can be observed through the Peer, so the hand-over
  `NewPeer` sets Dialling's variables back to fixed values; this only keeps
  the two state spaces from multiplying.
* **BrowserCore**: the network state of one tab of the Wasm client. The
  program has one thread, so one action is what a task does between two awaits.
  An epoch names the endpoint that is bound for it; a teardown, too, has an
  epoch of its own, the one it sets. Connections run through dial or request,
  acceptance, confirmation of the path, the peers map and the receive loop. A
  homeserver request whose outcome is unknown (an error after the PUT was
  stored, a PUT in flight when the renewal is aborted) clears the history
  variable `certain`. Authorization and device state are taken as given: they
  are the subject of BrowserIdentity.
* **BrowserPackage**: BrowserCore under the JavaScript package, whose network
  operations run one at a time, with the leader lock. Of other tabs only the
  lock is known. `emit_json` hands an event to JavaScript as a `Map`, which is
  what `serde_wasm_bindgen` makes of a JSON object, and `normalizeCoreEvent`
  refuses what is no plain object, so the offline event of a failed endpoint
  changes nothing in the package (`HandleOffline`). Inbound requests are
  announced by such events too and do not reach the application through this
  package: it can only dial. BrowserCore has the Wasm client's own interface,
  accepting included.
* **BrowserStore**: the IndexedDB database as operators, one per transaction. A
  function that awaits between two transactions is two operators, and its
  caller keeps what the first one returned. A sealed record is its contents and
  the key that sealed it. The JavaScript code applies the rules of
  SequenceState to its sequences, so this module extends it.
* **BrowserIdentity**: several tabs over one BrowserStore. Each has at most one
  authorization in progress (`begin_auth` and `complete_auth`, or
  `restore_identity`) and beside it one network operation (removal, or the
  preparation of a device and going online), as `#runNetworkOperation` has it,
  under the account's Web Lock. One action is what a tab does between two
  awaits, with the transaction it awaits. `Reopen` closes a tab, or crashes it,
  wherever it is, and opens it again: the locks are free, the store stays. Of
  the endpoint only whether it is online is kept, and the allocations and floor
  updates that it has in flight. Keys are fresh, so one unused key stands for
  all. A certificate that ends is part of the choice that `LoadDevice` leaves
  open between reusing and replacing a device. Deletions that the code starts
  and does not wait for are pending in `cleanup`, and succeed unless the tab is
  closed first. The other operations of the store may fail; of the removal that
  undoes a cancelled sign-in the code ignores the error (`UndoFails`).
* **SequenceStateProofs**: lemmas about the updates of a sequence state; every
  module that keeps sequences rests on them.
* **SequenceStoreProofs**, **FileSequenceStoreProofs**, **AdmissionProofs**,
  **HandshakeProofs**, **OutboundProofs**, **BrowserCoreProofs**,
  **BrowserIdentityProofs**: the theorems about the module of that name, each from
  one inductive invariant. OutboundProofs is about Outbound, and so about Dialling
  and PeerStream.
* **MC...**: the constants of the TLC instances.

A definition whose comment says *Variant* is a plausible bug of the definition
that follows it; no specification uses it. Each checked property has a variant
that breaks it, listed under `mutants` in `PROJECT.json`.

## What the runs show

| Run | Instance | Result |
|---|---|---|
| `sequence_store` | two floors, one publisher, two digests, counters to 2, two entries, a byte limit that two entries can exceed | the six promises hold |
| `file_store` | two processes, one of them with two calls; a floor, a newer one, an equivocation of it and a publisher counter compete for one entry, and allocations exhaust the counter at 2 | the promise is implemented, no update is lost, the disk holds what was acknowledged, the lock is always released |
| `admission` | one Hello on two connections with two ticks per second around its expiry, two Hellos with two permits or with one, or an expired Hello and one that outlives its consent deadline; one caller, timers, close | at most one acceptance, never of a timed-out request; queue structures agree, no lost wake-up, requests and calls end |
| `handshake` | one session, a renewed target, responder's clock ahead, all faults, certificates that end; or two sessions in opposite directions over renewed records and failing stores, over sequences 1, 1 of one device, or undisturbed | the confirmation barrier, floors from live devices only, no rollback and no equivocation accepted, fresh proofs, proofs taken back; both sides end, and complete if nothing fails |
| `browser_core` | three epochs, two dials and one inbound request of one identity, every failure | the state holds only what belongs to the current endpoint; endpoints, connections and the record always have an owner; an offline tab has no record if its requests had known outcomes |
| `browser_identity` | two tabs and one account: the first signs in, cancels, disconnects and is closed, the second restores, removes and is destroyed, both go online; two grant keys, two control keys | cancelled authorizations are not installed, one tab is online and keeps what it runs on, devices have counters that never restart, no grant key is forgotten |
| `outbound` | three devices that publish once each and may die; two through the injected resolver, one requested; or two over a faulty homeserver, one without a trusted relay, one that publishes twice and restarts. Then an empty message, which is one part, and one of three parts, finish and close over a window of two parts | no sequence is signed twice, every candidate is tried once, a live device is reached; frames arrive whole and in order, the end of the stream means that all arrived, close returns |

Admission, Handshake and Outbound choose what an instance starts from (`load`,
`scenario`, `situation`) in `Init` and never change it, so that one run covers
several cases and its properties are checked in all of them.

Five runs show where the code does something else than its documentation says:

* `lost_wakeup`: two concurrent `next_incoming` calls and two insertions: the
  single permit of `Notify` wakes one caller, and the other sleeps next to a
  queued request.
* `clock_difference`: one second of clock difference, of 120 declared as
  accepted, fails a dial that is answered at once.
* `record_deleted`: a renewal fails and `fail_online_endpoint` waits for its
  endpoint to close; `disconnect()` finds nothing to close and returns at once,
  and `publishAndGoOnline()` brings a new endpoint online, whose record has the
  same path; the old teardown then deletes it. Until the next renewal the tab is
  online without a record. All requests to the homeserver succeed or fail with
  a known outcome in this trace.
* `destroy_erases`: `complete_auth` undoes a save that was overtaken by
  `destroy()` or `cancelAuth()` by removing the identity. When the grant that
  it saved replaced an expired one, the device, its counters and all floors of
  the account go with it. The removal takes no lock, so that even another tab
  that is online with the account loses its device; `OnlineKeepsItsDevice`
  excepts such accounts (`purged`).
* `close_blocked`: `close` needs the mutex that a send holds while it waits for
  flow control. If the remote application does not read, neither returns.

Two more statements of `docs/v1.md` hold in a weaker form only, the one that the
passing runs check. A replayed Hello is not always rejected (line 94): in its
last second it is verified with one `now` and reserved with a later one that has
purged its replay entry, and the application is asked twice, but
`AtMostOneAcceptedPerHello` holds. And not both floors precede every `Peer`
(line 91): the responder has its `Peer` when the confirmation is written, before
the initiator commits; `PeerImpliesFloors` says what each side may rely on.

Four more observations shaped the properties of the new parts of the browser
and of discovery. A removal deletes the grant key that it read before its
transaction (`browser_store.js:637`); an identity saved in between loses its
record and keeps its key, which `NoKeyIsForgotten` excepts (`lost`), like the
keys of closed tabs. `OnlineKeepsItsDevice` excepts it too: with three tabs, one
may sign in, a second restore that identity, a third miss its key in a removal,
and the second go online with the key before the first, whose sign-in was
cancelled, deletes it. With the two tabs of the run this cannot happen; the
search for the inductive invariant found it. Two tabs are enough if the removal
itself fails: `complete_auth` ignores the error of the removal that undoes a
cancelled sign-in (`lib.rs:354`) and deletes the grant key all the same
(`lib.rs:377`), so the identity stays in the store without its key, also under
a tab that restored it in between and is online. `UndoFails` puts that key into
`lost`. A record is sealed with an encryption key that was read
before (`browser_store.js:337`); if the account is removed in between, the
record cannot be opened, and the account must be removed again. And
`resolve_devices` fails for all devices of an identity if one published record
has expired, so `DialsSucceed` has the hypothesis that none has; a device that
died, or replaced its control key, leaves such a record behind.

### Bounds

The store runs exhaust what two calls can do to one another; the third call of
`file_store` is the one that a dropped future lets run beside its
predecessor. Counters reach their maximum, entries and bytes their limits.
Admission's clock has two ticks per second where the difference between
`Instant` and whole seconds matters. A Hello, a proof and
a record live for three seconds (the code gives the first two the same 30), a
certificate for five, and time runs for four: every window opens, closes and is
crossed by a skew of one second. A Hello that outlives a proof would break
`ProofsAreFresh` as soon as the clocks differ. Two sessions suffice for
the floors, which relate records pairwise. `maxClock` and `maxTime` bound time.
Symmetry is used only where the permuted values are interchangeable in the
whole configuration and no liveness property is checked.

Three epochs of the browser let a publication, a teardown and a second
publication, or two teardowns, overlap; a dial of an old endpoint then meets
one of the new endpoint, and an accepted request, for the same identity.
`record_deleted` needs a fourth epoch and no connections.

BrowserIdentity's `Calls` say what each tab's user does: what one tab does is
symmetric to what the other could do. Counters end at 1, the sequence that
going online takes, so a further allocation is refused in the run; the theorem
`NoCounterRestarts` has no such bound. `MaxEpoch` bounds the authorizations and
cancellations of a tab, `MaxGenerated` the encryption keys; two grant keys let
a sign-in replace an expired grant, two control keys a device be replaced or
made anew after a removal. In Outbound a silent device costs two of three units
of the negotiation timeout, as 20 of 30 seconds do, so one silent device before
a live one leaves time for it and two do not; any two of the three records fit the
total and all three do not; a message needs more parts than the window holds.

`CHECK_DEADLOCK FALSE` stands in the runs of Admission, Handshake, Outbound and the
browser: their time, epochs or keys are bounded, their connections and messages
are few, so a run ends.

### Fairness

* FileSequenceStore `FairSpec`: a blocking thread that is not waiting for a
  lock runs to its end, for its steps are system calls that return. Nothing is
  assumed of callers, of kills or of the disk.
* Admission `FairSpec`: the runtime schedules handlers, timers and callers, and
  time passes. Nothing is assumed of the application or of remote peers.
* Handshake `FairSpec`: both tasks of a session are scheduled and the
  responder's application answers the request. No timeout is relied upon, so
  `ExchangesEnd` says that errors alone, through the closed connection, end
  both sides.
* Outbound `NearFairSpec`: the application dials again until it has a Peer, a
  reliable homeserver answers, the tasks of send, finish and close are
  scheduled, and what they write is delivered. `FairSpec` adds that the far
  side reads until it gets an error and then closes, as `start_receive_loop`
  does. Nothing is assumed of devices, crashes or a faulty homeserver.
  `close_blocked` uses `NearFairSpec`: nothing in the code makes a remote
  application read.

## What is proved

Every theorem holds for all values of the constants that satisfy the named
assumptions of the modules, which TLC evaluates in the runs: finite, disjoint
sets of keys and natural numbers as limits (`SequenceAssumption`,
`StoreAssumption`, `TabAssumption`, `AdmissionAssumption`, ...), that the empty
state fits the byte limit (`EmptyStateFits`), and that the value which stands
for an absent record is none (`NothingIsNoRecord`, `NothingIsNoSession`). For
the handshake they include that a Hello is given no longer lifetime than a proof
has: both are 30 seconds (`v1_peer.rs:1091`, `v1.rs:69`). The number of sessions,
calls, processes, connections, tabs, accounts, epochs and keys is
arbitrary. Each invariant is a conjunct of an inductive one, or follows from
it, and the proof that a step keeps the inductive one has a lemma per action.

| Module | Inductive invariant | Theorems |
|---|---|---|
| SequenceStore | `IInv` | `TypeCorrectness`, `Durability`, `EquivocationDetected`, `NeverBricked`; action properties `FreshAllocations`, `NoRollback` |
| FileSequenceStore | `FInv` | `NoUpdateIsLost`, `DiskIsDurable`; the refinement `FileStoreRefinement` |
| Admission | `AInv` | `QueueIsConsistent`, `ReplaysAreRefused`, `ConsentBeatsTimeout`; `SingleCallerIsWoken` for one caller |
| Handshake | `HInv` | `PeersHaveFloors`, `FloorsAreLive`, `ProofsDoNotOutliveExchanges`, `HandshakeTypeCorrectness`; action properties `NeitherRollbackNorEquivocation`, `AcceptedProofsAreFresh` |
| Outbound | `OInv` | `SequencesAreSignedOnce`, `DevicesAreTriedOnce`, `FramesArriveInOrder`, `DrainedStreamsAreComplete`, `OutboundTypes` |
| BrowserCore | `BInv` | `StateIsTheClients`, `DialsAreExact`, `OfflineTabsAreRetracted`, `EndpointsHaveOwners`, `ConnectionsHaveOwners`, `BrowserTypeCorrectness` |
| BrowserIdentity | `DInv` | `OnlineTabsKeepTheirDevice`, `EveryDeviceHasItsCounter`, `NoCounterRestarts`, `EveryKeyHasAnOwner`, `IdentityTypeCorrectness`; action property `NoCancelledAuthIsInstalled` |

* **SequenceStore.** `IInv` says that the current state is among `recent`, the
  states that a power loss may return to, and that every one of these is
  `Sound`: it is well-typed, remembers every accepted observation and every
  allocation, and can be read. Sound for the current state alone would not be
  preserved by `PowerLoss`. One lemma per update about each part
  (`UpdateType`, `UpdateRemembers`, `UpdateKeepsCounter`, `UpdateReadable`) is
  combined in `UpdateSound`: an update of a sound state is sound. The action
  properties follow: the current state remembers what was accepted and
  allocated, and an update that is accepted is not below it.
* **FileSequenceStore.** `FInv` says that the call which is inside the
  directory lock is alone there, what it staged is the update of what the file
  holds until its rename, and what the file holds is that update afterwards;
  that every state of `recent`, and the disk, is `Sound` for what was
  acknowledged; and that a temporary file is on the disk before it is renamed.
  `FileStoreRefinement` maps the file, without an update that is between its
  rename and its outcome, to the promised state; its proof has one step per
  action of `update_file`, each a step of the promise or a stutter.
* **Admission.** `AInv` relates the handler, the request and the timer of every
  connection (`Phases`), the order, the entries and the counters of the queue
  (`QueueShape`), and the replay cache with the requests whose Hello was
  reserved (`ReplayGuards`: two of them share a Hello only after that has
  expired, when no further one can be accepted). What is left of the
  order after entries were removed is a recursive function, `Retained`; what it
  computes is proved by least counterexamples, without induction over an
  operator. `SingleCallerIsWoken` has an invariant of its own about the permit
  of `Notify`, assumes that one task calls `next_incoming` at a time
  (`OneCaller`), and the run `lost_wakeup` shows that the property fails
  otherwise.
* **Handshake.** `HInv` says of each session what its two sides, and the
  messages on the way, tell of one another (`SessionOk`): whoever is past the
  Hello has one that was signed for this session by the initiator, within its
  clock and its lifetime; likewise for the Ack; whoever commits has seen a proof
  that was published after the Hello or the Ack it answers, on that clock; and
  whoever confirmed or is past the confirmation has a floor that remembers the
  record. That floors remember is what `SequenceStateProofs` has of every
  update, so that they survive the commits of other sessions (`Committed`). The
  active records of a device must be known to be its own, or a Hello could name
  another's; and `SignedOnce`, that a sequence and a digest name one record,
  turns equality of floors into equality of records, which
  `NeitherRollbackNorEquivocation` needs. `AcceptedProofsAreFresh` adds the
  windows up: the responder's proof was published after the Hello was signed
  and is accepted before the Hello expires, both on the clock of its signer, so
  the skews cancel; the initiator's likewise with the window of the Ack.
* **Outbound.** `OInv` has a part for each actor. `DevicesOk`: a device that has
  allocated a sequence has signed only lower ones, so that whatever a crash
  leaves behind, the next allocation is above it. `DialOk`: while the listing is
  fetched, the paths still to come and the devices already fetched are all
  different, which `ListingOk` and `FetchOk` establish together; while candidates
  are tried, those that were tried and those that are left are the requested
  devices, in strict order of `Rank`. It rests on two lemmas about the model's
  operators: `Listed` (`SetToSeq` lists each element once) and `Arranging` (what
  sorting keeps, for any ranks, equal ones included). `CallsOk`: whoever waits or
  writes is in the queue, once, and only its head writes. `FlowOk` is the
  argument for framing: the parts in the buffer and in flight are one sequence,
  `Pipe`; it begins with the part for which the far side waits, each part is
  followed by the next of its message or by the length of the message that was
  begun next, and its end, or what was read if it is empty, is as far as the
  writer has come (`Reached`). An invariant without that last part would be
  preserved by reading but not by the next write, and could not tell that a
  drained stream is complete. `HandOverOk`: nothing happens on the stream before
  `dial` returns.
* **BrowserCore.** `BInv` says what a task may hold when the epoch has moved
  on: a client is the endpoint of the current epoch and its renewal the only
  live one (`ClientIsCurrent`), a teardown has an earlier endpoint than its own
  epoch (`Owners`), what the state holds was put there in the current epoch
  (`HeldIsCurrent`), the marks in `dialing` are those of its dials, one each
  (`DialsAreMarked`), and a record on the homeserver has a client, a retracting
  publication or a teardown that will delete it, or a request with an unknown
  outcome behind it (`RecordHasOwner`).
* **BrowserIdentity.** `DInv` is the type invariant and three parts. `TabsInv`:
  an authorization has what its step needs, and has the current epoch only if
  it was not cancelled; operation and endpoint have the lock of their account,
  and with it the device that the store has. `CountersInv`: control keys are
  fresh until their device is stored, together with its counter. `KeysInv`
  divides the grant keys that anybody knows: a key is *tied* to the one account
  whose identity has or had it, or *dead*, so that nothing will store it
  again, or is in an authorization that has not saved it. What a tab deletes
  late is dead or `lost`, which is why no clean-up takes another key of another
  tab; `purged` and `lost` are the two ways in which the code gives this up.

What is model-checked only: liveness and whatever needs ENABLED, which are out
of the prover's reach (`LockIsReleased`, `QueuedRequestsEnd`, `CloseReachesCallers`,
`ExchangesEnd`, `HandshakesComplete`, `DialsSucceed`, `CloseReturns`). `NoLostWakeup`
is proved for one caller; for two, the run `lost_wakeup` refutes it. BrowserPackage
has one run only, which expects a violation. Of the sum over the fetched records
(`Total`, a fold) the proofs use nothing: the limit that it enforces plays no
role in them.

## What is not modelled

* Encodings, signatures, relay and configuration validation, file permissions,
  checks of stored fields against tampering and the wording of errors: they
  hold no state that these properties are about. A credential's `prepare` and
  `issue` check the windows that its verification checks again.
* `flush`, the inspection of a connection's path, the heartbeat of QUIC, and
  the second direction of a stream, which is like the first.
* The sum of the timeouts of one device: `peer_handshake_timeout` is applied to
  the connection, the stream and the exchange in turn.
* The endpoint of BrowserCore and the accounts of BrowserIdentity are checked
  side by side, each with the other reduced to what it needs (an online flag, a
  given device); their product is out of TLC's reach. Liveness is not stated
  for the browser: every await there depends on the user, a homeserver or the
  browser's store.
* Generated bindings and build scripts.

## Plan

Every safety property and action property that a passing run checks is a theorem.
What could be added: an abstract channel, a queue of messages, that PeerStream
implements until a frame is torn, in place of `ReceivedInOrder`; and the same
step for the exchange, whose abstract form is a pair of floors that move once.
