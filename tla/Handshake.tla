------------------------------ MODULE Handshake ------------------------------
(***************************************************************************)
(* The mutual currentness exchange of two v1 devices (crates/client/src/   *)
(* v1_peer.rs): dial_device with finish_outbound_handshake and             *)
(* outbound_proof_exchange on the initiator, authenticate_incoming_v1 and  *)
(* accept_pending on the responder, several sessions at a time over the    *)
(* devices' own sequence stores and their homeservers.                     *)
(*                                                                         *)
(* One action is what a side does between two awaits.  A session is one    *)
(* QUIC connection; its four messages are named, for each is written at    *)
(* most once and its contents are the session's hello and ack.  The proofs *)
(* of both sides carry the window of the Ack.  How long a Hello waits for  *)
(* consent, and how many may, is the subject of Admission; timeouts may    *)
(* fire at any await.                                                      *)
(***************************************************************************)
EXTENDS SequenceState, Validity, FiniteSetsExt

CONSTANTS
  Sessions,        \* connection attempts
  Initiator,       \* the dialling device of each session
  Responder,       \* the dialled device of each session
  Scenarios,       \* the situations a behaviour starts from: see Scenario
  RecordLifetime,  \* lifetime a device asks for its locators
  HelloLifetime,   \* lifetime a device gives its Hellos: 30 seconds, as a proof's
  MaxActive,       \* MAX_ACTIVE_RECORDS
  Nothing          \* no record, no message

Devices == AuthKeys

Faulty == {"connection", "homeserver", "store", "abandon", "reject"}

(* Which sessions are dialled, which records (device, sequence and digest)  *)
(* are signed, how far each device's clock is ahead of real time, what may  *)
(* go wrong, and a bound on real time, in seconds.                          *)
Scenario == [sessions : SUBSET Sessions,
             locators : SUBSET [device : Devices, sequence : 0..MaxCounter,
                                digest : Digests],
             skew : [Devices -> Nat], faults : SUBSET Faulty, maxTime : Nat]

ASSUME HandshakeAssumption ==
  /\ {Grant, Certificate} \subseteq [Devices -> [issued : Nat, expires : Nat]]
  /\ Initiator \in [Sessions -> Devices]
  /\ Responder \in [Sessions -> Devices]
  /\ \A s \in Sessions : Initiator[s] # Responder[s]
  /\ \A x \in Scenarios : x \in Scenario
  /\ RecordLifetime \in 1..LocatorLifetime
  /\ HelloLifetime \in 1..HandshakeLifetime
  /\ HelloLifetime <= CurrentnessLifetime
  /\ MaxActive \in Nat \ {0}

VARIABLES
  scenario,    \* chosen once
  time,        \* real time
  active,      \* active_records of each device
  signed,      \* every record a device signed: what a homeserver may serve
  initiator,   \* where the dialling side of each session is
  responder,   \* where the dialled side of each session is
  connection,  \* "none", "open" or "closed"
  mail,        \* messages written and not yet read
  target,      \* the record that the initiator resolved
  hello,       \* the Hello of each session
  ack,         \* the window that the responder signed
  proofs,      \* proofs on the homeservers, named by session and role
  publishedAt, \* history: when a proof was first stored, -1 if never
  floors       \* the sequence state of each device

sideVars == <<initiator, responder, connection, mail>>
recordVars == <<active, signed>>
proofVars == <<proofs, publishedAt>>
sessionVars == <<target, hello, ack>>
vars == <<scenario, time, active, signed, initiator, responder, connection, mail, target,
          hello, ack, proofs, publishedAt, floors>>

Faults == scenario.faults

Roles == {"initiator", "responder"}

(* now_seconds() on a device.                                               *)
Now(d) == time + scenario.skew[d]

Init ==
  /\ scenario \in Scenarios
  /\ time = 0
  /\ active = [d \in Devices |-> {}]
  /\ signed = {}
  /\ initiator = [s \in Sessions |-> "idle"]
  /\ responder = [s \in Sessions |-> "idle"]
  /\ connection = [s \in Sessions |-> "none"]
  /\ mail = [s \in Sessions |-> {}]
  /\ target = [s \in Sessions |-> Nothing]
  /\ hello = [s \in Sessions |-> Nothing]
  /\ ack = [s \in Sessions |-> Nothing]
  /\ proofs = {}
  /\ publishedAt = [s \in Sessions |-> [r \in Roles |-> -1]]
  /\ floors = [d \in Devices |-> EmptyState]

-----------------------------------------------------------------------------
(* Device records.                                                          *)

(* active.retain(...): what is left of the active records.                  *)
Unexpired(d) == {r \in active[d] : r.expires > Now(d)}

(* The entry that makes room: one that expires first.                       *)
Evicted(records) ==
  IF Cardinality(records) < MaxActive
    THEN {{}}
    ELSE {{o} : o \in {r \in records : \A q \in records : r.expires <= q.expires}}

(* current_record: a device signs a locator and registers its record.       *)
CurrentRecord(l) ==
  LET d == l.device
      r == [device |-> d, sequence |-> l.sequence, digest |-> l.digest,
            issued |-> Now(d), expires |-> Now(d) + RecordLifetime]
  IN  /\ \A q \in signed : <<q.device, q.sequence, q.digest>>
                             # <<d, l.sequence, l.digest>>
      /\ SignsLocator(r) /\ RecordVerifies(r, Now(d))
      /\ \E gone \in Evicted(Unexpired(d)) :
           active' = [active EXCEPT ![d] = (Unexpired(d) \ gone) \cup {r}]
      /\ signed' = signed \cup {r}
      /\ UNCHANGED <<scenario, time, sideVars, sessionVars, proofVars, floors>>

-----------------------------------------------------------------------------
(* What both sides do.                                                      *)

(* A written message reaches an open connection only.                       *)
Write(s, m) ==
  mail' = IF connection[s] = "open" THEN [mail EXCEPT ![s] = @ \cup {m}] ELSE mail

Read(s, m) ==
  /\ m \in mail[s]
  /\ mail' = [mail EXCEPT ![s] = @ \ {m}]

Close(s) == connection' = [connection EXCEPT ![s] = "closed"]

(* Variant: a failed dial leaves the connection open.                       *)
InitiatorFailsSilently(s) ==
  /\ initiator' = [initiator EXCEPT ![s] = "failed"]
  /\ UNCHANGED connection

(* An error that leaves the side: dial_device and IncomingV1::accept close  *)
(* the connection.                                                          *)
InitiatorFails(s) ==
  /\ initiator' = [initiator EXCEPT ![s] = "failed"]
  /\ Close(s)

ResponderFails(s) ==
  /\ responder' = [responder EXCEPT ![s] = "failed"]
  /\ Close(s)

(* PUT of a proof.                                                          *)
PutProof(s, role) ==
  /\ proofs' = proofs \cup {<<s, role>>}
  /\ publishedAt' = [publishedAt EXCEPT ![s][role] = time]

DeleteProof(s, role) ==
  /\ proofs' = proofs \ {<<s, role>>}
  /\ UNCHANGED publishedAt

(* commit_remote_record: the record still verifies, and the device's        *)
(* sequence store takes it.                                                 *)
RecordObservation(r) ==
  [type |-> "record",
   batch |-> {[key |-> r.device, counter |-> r.sequence, digest |-> r.digest]}]

(* Variant: the sequence store is not consulted.                            *)
CommitsAnyRecord(d, r) == RecordVerifies(r, Now(d))

CommitsRecord(d, r) ==
  /\ RecordVerifies(r, Now(d))
  /\ Commits(floors[d], RecordObservation(r))

CommitRecord(d, r) ==
  floors' = [floors EXCEPT ![d] = Update(@, RecordObservation(r))]

-----------------------------------------------------------------------------
(* The initiator.                                                           *)

(* Variant: the floor is committed when the record is resolved.             *)
ResolveCommits(s, r) ==
  /\ initiator[s] = "idle"
  /\ r \in signed
  /\ r.device = Responder[s]
  /\ CommitsRecord(Initiator[s], r)
  /\ CommitRecord(Initiator[s], r)
  /\ target' = [target EXCEPT ![s] = r]
  /\ initiator' = [initiator EXCEPT ![s] = "resolved"]
  /\ connection' = [connection EXCEPT ![s] = "open"]
  /\ UNCHANGED <<scenario, time, recordVars, responder, mail, hello, ack, proofVars>>

(* resolve_devices and the connection: the homeserver serves any record the *)
(* device ever signed.                                                      *)
Resolve(s, r) ==
  /\ initiator[s] = "idle"
  /\ r \in signed
  /\ r.device = Responder[s]
  /\ RecordVerifies(r, Now(Initiator[s]))
  /\ target' = [target EXCEPT ![s] = r]
  /\ initiator' = [initiator EXCEPT ![s] = "resolved"]
  /\ connection' = [connection EXCEPT ![s] = "open"]
  /\ UNCHANGED <<scenario, time, recordVars, responder, mail, hello, ack, proofVars, floors>>

(* The sender record is an unexpired one of the highest sequence.           *)
SenderRecords(d) ==
  {r \in Unexpired(d) : \A q \in Unexpired(d) : q.sequence <= r.sequence}

NewHello(s, r) ==
  LET now == Now(Initiator[s])
  IN  [sender |-> r, target |-> target[s], issued |-> now,
       expires |-> Min({now + HelloLifetime, r.expires, target[s].expires,
                        Certificate[r.device].expires,
                        Certificate[target[s].device].expires})]

SendHello(s) ==
  LET d == Initiator[s]
  IN  /\ initiator[s] = "resolved"
      /\ active' = [active EXCEPT ![d] = Unexpired(d)]
      /\ \/ \E r \in SenderRecords(d) :
              /\ SignsHello(NewHello(s, r))
              /\ hello' = [hello EXCEPT ![s] = NewHello(s, r)]
              /\ Write(s, "hello")
              /\ initiator' = [initiator EXCEPT ![s] = "awaiting ack"]
              /\ UNCHANGED connection
         \/ /\ \/ SenderRecords(d) = {}
               \/ \E r \in SenderRecords(d) : ~SignsHello(NewHello(s, r))
            /\ InitiatorFails(s)
            /\ UNCHANGED <<hello, mail>>
      /\ UNCHANGED <<scenario, time, signed, responder, target, ack, proofVars, floors>>

(* The Ack is verified now, and the proof signed as of the Ack's issue.     *)
ReadAck(s) ==
  /\ initiator[s] = "awaiting ack"
  /\ Read(s, "ack")
  /\ IF /\ AckVerifies(ack[s], hello[s], Now(Initiator[s]))
        /\ SignsProof(ack[s], hello[s].sender, hello[s])
       THEN /\ initiator' = [initiator EXCEPT ![s] = "publishing"]
            /\ UNCHANGED connection
       ELSE InitiatorFails(s)
  /\ UNCHANGED <<scenario, time, recordVars, responder, sessionVars, proofVars, floors>>

(* A failed PUT ends the dial without a deletion; it may have been stored.  *)
PublishInitiatorProof(s) ==
  /\ initiator[s] = "publishing"
  /\ \/ /\ PutProof(s, "initiator")
        /\ initiator' = [initiator EXCEPT ![s] = "fetching"]
        /\ UNCHANGED connection
     \/ /\ "homeserver" \in Faults
        /\ PutProof(s, "initiator") \/ UNCHANGED proofVars
        /\ InitiatorFails(s)
  /\ UNCHANGED <<scenario, time, recordVars, responder, mail, sessionVars, floors>>

(* The responder's proof is fetched and verified, and readiness written.    *)
FetchResponderProof(s) ==
  /\ initiator[s] = "fetching"
  /\ \/ /\ <<s, "responder">> \in proofs
        /\ ProofVerifies(ack[s], hello[s].target, hello[s], Now(Initiator[s]))
        /\ Write(s, "ready")
        /\ initiator' = [initiator EXCEPT ![s] = "awaiting confirmation"]
     \/ /\ \/ <<s, "responder">> \notin proofs
           \/ ~ProofVerifies(ack[s], hello[s].target, hello[s], Now(Initiator[s]))
           \/ "homeserver" \in Faults
        /\ initiator' = [initiator EXCEPT ![s] = "broken"]
        /\ UNCHANGED mail
  /\ UNCHANGED <<scenario, time, recordVars, responder, connection, sessionVars, proofVars,
                 floors>>

ReadConfirmed(s) ==
  /\ initiator[s] = "awaiting confirmation"
  /\ Read(s, "confirmed")
  /\ initiator' = [initiator EXCEPT ![s] = "committing"]
  /\ UNCHANGED <<scenario, time, recordVars, responder, connection, sessionVars, proofVars,
                 floors>>

CommitTarget(s) ==
  /\ initiator[s] = "committing"
  /\ \/ /\ CommitsRecord(Initiator[s], target[s])
        /\ CommitRecord(Initiator[s], target[s])
        /\ initiator' = [initiator EXCEPT ![s] = "proved"]
     \/ /\ \/ ~CommitsRecord(Initiator[s], target[s])
           \/ "store" \in Faults
        /\ initiator' = [initiator EXCEPT ![s] = "broken"]
        /\ UNCHANGED floors
  /\ UNCHANGED <<scenario, time, recordVars, responder, connection, mail, sessionVars,
                 proofVars>>

(* Variant: a failed exchange returns before the deletion.                  *)
FinishDialEarly(s) ==
  /\ \/ /\ initiator[s] = "proved"
        /\ initiator' = [initiator EXCEPT ![s] = "peer"]
        /\ DeleteProof(s, "initiator")
        /\ UNCHANGED connection
     \/ /\ initiator[s] = "broken"
        /\ InitiatorFails(s)
        /\ UNCHANGED proofVars
  /\ UNCHANGED <<scenario, time, recordVars, responder, mail, sessionVars, floors>>

(* The proof is deleted, or not, and the result of the exchange returned.   *)
FinishDial(s) ==
  /\ \/ /\ initiator[s] = "proved"
        /\ initiator' = [initiator EXCEPT ![s] = "peer"]
        /\ UNCHANGED connection
     \/ /\ initiator[s] = "broken"
        /\ InitiatorFails(s)
  /\ \/ DeleteProof(s, "initiator")
     \/ "homeserver" \in Faults /\ UNCHANGED proofVars
  /\ UNCHANGED <<scenario, time, recordVars, responder, mail, sessionVars, floors>>

(* A read or a write met the closed connection.                             *)
InitiatorDisconnected(s) ==
  /\ connection[s] = "closed"
  /\ \/ /\ initiator[s] \in {"resolved", "awaiting ack"}
        /\ initiator' = [initiator EXCEPT ![s] = "failed"]
     \/ /\ initiator[s] \in {"fetching", "awaiting confirmation"}
        /\ initiator' = [initiator EXCEPT ![s] = "broken"]
  /\ UNCHANGED <<scenario, time, recordVars, responder, connection, mail, sessionVars,
                 proofVars, floors>>

(* A timeout, a dropped future or the end of the process: the connection    *)
(* closes, nothing is deleted, and the operation in flight may still have   *)
(* its effect.                                                              *)
AbandonDial(s) ==
  /\ "abandon" \in Faults
  /\ initiator[s] \notin {"idle", "peer", "failed"}
  /\ InitiatorFails(s)
  /\ \/ UNCHANGED <<proofVars, floors>>
     \/ /\ initiator[s] = "publishing"
        /\ PutProof(s, "initiator")
        /\ UNCHANGED floors
     \/ /\ initiator[s] = "committing"
        /\ CommitsRecord(Initiator[s], target[s])
        /\ CommitRecord(Initiator[s], target[s])
        /\ UNCHANGED proofVars
     \/ /\ initiator[s] \in {"proved", "broken"}
        /\ DeleteProof(s, "initiator")
        /\ UNCHANGED floors
  /\ UNCHANGED <<scenario, time, recordVars, responder, mail, sessionVars>>

-----------------------------------------------------------------------------
(* The responder.                                                           *)

(* The Hello names one of the active records and verifies; whether the      *)
(* request is admitted to the queue as well is up to Admission.             *)
ReceiveHello(s) ==
  LET d == Responder[s]
  IN  /\ responder[s] = "idle"
      /\ Read(s, "hello")
      /\ active' = [active EXCEPT ![d] = Unexpired(d)]
      /\ IF hello[s].target \in Unexpired(d) /\ HelloVerifies(hello[s], Now(d))
           THEN /\ responder' = [responder EXCEPT ![s] = "held"]
                /\ UNCHANGED connection
           ELSE ResponderFails(s)
      /\ UNCHANGED <<scenario, time, signed, initiator, sessionVars, proofVars, floors>>

NewAck(s) ==
  LET now == Now(Responder[s])
  IN  [issued |-> now, expires |-> Min({hello[s].expires, now + CurrentnessLifetime})]

(* The application consents: the Ack and the proof are signed.              *)
Consent(s) ==
  LET w == NewAck(s)
  IN  /\ responder[s] = "held"
      /\ IF SignsAck(w, hello[s]) /\ SignsProof(w, hello[s].target, hello[s])
           THEN /\ ack' = [ack EXCEPT ![s] = w]
                /\ responder' = [responder EXCEPT ![s] = "publishing"]
                /\ UNCHANGED connection
           ELSE /\ ResponderFails(s)
                /\ UNCHANGED ack
      /\ UNCHANGED <<scenario, time, recordVars, initiator, mail, target, hello, proofVars,
                     floors>>

(* The application rejects the request, or Admission lets it expire.        *)
RejectHello(s) ==
  /\ "reject" \in Faults
  /\ responder[s] = "held"
  /\ ResponderFails(s)
  /\ UNCHANGED <<scenario, time, recordVars, initiator, mail, sessionVars, proofVars, floors>>

PublishResponderProof(s) ==
  /\ responder[s] = "publishing"
  /\ \/ /\ PutProof(s, "responder")
        /\ responder' = [responder EXCEPT ![s] = "acking"]
        /\ UNCHANGED connection
     \/ /\ "homeserver" \in Faults
        /\ PutProof(s, "responder") \/ UNCHANGED proofVars
        /\ ResponderFails(s)
  /\ UNCHANGED <<scenario, time, recordVars, initiator, mail, sessionVars, floors>>

SendAck(s) ==
  /\ responder[s] = "acking"
  /\ Write(s, "ack")
  /\ responder' = [responder EXCEPT ![s] = "awaiting ready"]
  /\ UNCHANGED <<scenario, time, recordVars, initiator, connection, sessionVars, proofVars,
                 floors>>

ReadReady(s) ==
  /\ responder[s] = "awaiting ready"
  /\ Read(s, "ready")
  /\ responder' = [responder EXCEPT ![s] = "fetching"]
  /\ UNCHANGED <<scenario, time, recordVars, initiator, connection, sessionVars, proofVars,
                 floors>>

(* Variant: the confirmation is sent without the commit.                    *)
ConfirmBeforeCommit(s) ==
  /\ responder[s] = "fetching"
  /\ <<s, "initiator">> \in proofs
  /\ ProofVerifies(ack[s], hello[s].sender, hello[s], Now(Responder[s]))
  /\ responder' = [responder EXCEPT ![s] = "confirming"]
  /\ UNCHANGED <<scenario, time, recordVars, initiator, connection, mail, sessionVars,
                 proofVars, floors>>

FetchInitiatorProof(s) ==
  /\ responder[s] = "fetching"
  /\ \/ /\ <<s, "initiator">> \in proofs
        /\ ProofVerifies(ack[s], hello[s].sender, hello[s], Now(Responder[s]))
        /\ responder' = [responder EXCEPT ![s] = "committing"]
     \/ /\ \/ <<s, "initiator">> \notin proofs
           \/ ~ProofVerifies(ack[s], hello[s].sender, hello[s], Now(Responder[s]))
           \/ "homeserver" \in Faults
        /\ responder' = [responder EXCEPT ![s] = "broken"]
  /\ UNCHANGED <<scenario, time, recordVars, initiator, connection, mail, sessionVars,
                 proofVars, floors>>

CommitSender(s) ==
  /\ responder[s] = "committing"
  /\ \/ /\ CommitsRecord(Responder[s], hello[s].sender)
        /\ CommitRecord(Responder[s], hello[s].sender)
        /\ responder' = [responder EXCEPT ![s] = "confirming"]
     \/ /\ \/ ~CommitsRecord(Responder[s], hello[s].sender)
           \/ "store" \in Faults
        /\ responder' = [responder EXCEPT ![s] = "broken"]
        /\ UNCHANGED floors
  /\ UNCHANGED <<scenario, time, recordVars, initiator, connection, mail, sessionVars,
                 proofVars>>

(* Variant: the confirmation is not written.                                *)
SendNoConfirmation(s) ==
  /\ responder[s] = "confirming"
  /\ responder' = [responder EXCEPT ![s] = "proved"]
  /\ UNCHANGED <<scenario, time, recordVars, initiator, connection, mail, sessionVars,
                 proofVars, floors>>

SendConfirmed(s) ==
  /\ responder[s] = "confirming"
  /\ Write(s, "confirmed")
  /\ responder' = [responder EXCEPT ![s] = "proved"]
  /\ UNCHANGED <<scenario, time, recordVars, initiator, connection, sessionVars, proofVars,
                 floors>>

FinishAccept(s) ==
  /\ \/ /\ responder[s] = "proved"
        /\ responder' = [responder EXCEPT ![s] = "peer"]
        /\ UNCHANGED connection
     \/ /\ responder[s] = "broken"
        /\ ResponderFails(s)
  /\ \/ DeleteProof(s, "responder")
     \/ "homeserver" \in Faults /\ UNCHANGED proofVars
  /\ UNCHANGED <<scenario, time, recordVars, initiator, mail, sessionVars, floors>>

ResponderDisconnected(s) ==
  /\ connection[s] = "closed"
  /\ \/ /\ responder[s] = "idle"
        /\ responder' = [responder EXCEPT ![s] = "failed"]
     \/ /\ responder[s] \in {"acking", "awaiting ready", "confirming"}
        /\ responder' = [responder EXCEPT ![s] = "broken"]
  /\ UNCHANGED <<scenario, time, recordVars, initiator, connection, mail, sessionVars,
                 proofVars, floors>>

AbandonAccept(s) ==
  /\ "abandon" \in Faults
  /\ responder[s] \notin {"idle", "peer", "failed"}
  /\ ResponderFails(s)
  /\ \/ UNCHANGED <<proofVars, floors>>
     \/ /\ responder[s] = "publishing"
        /\ PutProof(s, "responder")
        /\ UNCHANGED floors
     \/ /\ responder[s] = "committing"
        /\ CommitsRecord(Responder[s], hello[s].sender)
        /\ CommitRecord(Responder[s], hello[s].sender)
        /\ UNCHANGED proofVars
     \/ /\ responder[s] \in {"proved", "broken"}
        /\ DeleteProof(s, "responder")
        /\ UNCHANGED floors
  /\ UNCHANGED <<scenario, time, recordVars, initiator, mail, sessionVars>>

-----------------------------------------------------------------------------
LoseConnection(s) ==
  /\ "connection" \in Faults
  /\ connection[s] = "open"
  /\ Close(s)
  /\ UNCHANGED <<scenario, time, recordVars, initiator, responder, mail, sessionVars,
                 proofVars, floors>>

Tick ==
  /\ time < scenario.maxTime
  /\ time' = time + 1
  /\ UNCHANGED <<scenario, recordVars, sideVars, sessionVars, proofVars, floors>>

InitiatorStep(s) ==
  \/ SendHello(s)
  \/ ReadAck(s)
  \/ PublishInitiatorProof(s)
  \/ FetchResponderProof(s)
  \/ ReadConfirmed(s)
  \/ CommitTarget(s)
  \/ FinishDial(s)
  \/ InitiatorDisconnected(s)

ResponderStep(s) ==
  \/ ReceiveHello(s)
  \/ Consent(s)
  \/ PublishResponderProof(s)
  \/ SendAck(s)
  \/ ReadReady(s)
  \/ FetchInitiatorProof(s)
  \/ CommitSender(s)
  \/ SendConfirmed(s)
  \/ FinishAccept(s)
  \/ ResponderDisconnected(s)

Next ==
  \/ \E l \in scenario.locators : CurrentRecord(l)
  \/ \E s \in scenario.sessions : \E r \in signed : Resolve(s, r)
  \/ \E s \in Sessions : InitiatorStep(s) \/ ResponderStep(s)
  \/ \E s \in Sessions : AbandonDial(s) \/ AbandonAccept(s)
  \/ \E s \in Sessions : RejectHello(s) \/ LoseConnection(s)
  \/ Tick

Spec == Init /\ [][Next]_vars

(* Both tasks of a session are scheduled, and the responder's application   *)
(* answers the request.  No timeout is relied upon.                         *)
FairSpec ==
  /\ Spec
  /\ \A s \in Sessions : WF_vars(InitiatorStep(s)) /\ WF_vars(ResponderStep(s))

-----------------------------------------------------------------------------
InitiatorStates == {"idle", "resolved", "awaiting ack", "publishing", "fetching",
                    "awaiting confirmation", "committing", "proved", "broken",
                    "peer", "failed"}

ResponderStates == {"idle", "held", "publishing", "acking", "awaiting ready",
                    "fetching", "committing", "confirming", "proved", "broken",
                    "peer", "failed"}

Record == [device : Devices, sequence : 1..MaxCounter, digest : Digests,
           issued : Nat, expires : Nat]

Hello == [sender : Record, target : Record, issued : Nat, expires : Nat]

Window == [issued : Nat, expires : Nat]

Messages == {"hello", "ack", "ready", "confirmed"}

TypeOK ==
  /\ scenario \in Scenarios
  /\ time \in 0..scenario.maxTime
  /\ signed \subseteq Record
  /\ active \in [Devices -> SUBSET signed]
  /\ \A d \in Devices : \A r \in active[d] : r.device = d
  /\ initiator \in [Sessions -> InitiatorStates]
  /\ responder \in [Sessions -> ResponderStates]
  /\ connection \in [Sessions -> {"none", "open", "closed"}]
  /\ mail \in [Sessions -> SUBSET Messages]
  /\ target \in [Sessions -> Record \cup {Nothing}]
  /\ hello \in [Sessions -> Hello \cup {Nothing}]
  /\ ack \in [Sessions -> Window \cup {Nothing}]
  /\ proofs \subseteq Sessions \X Roles
  /\ publishedAt \in [Sessions -> [Roles -> Int]]
  /\ floors \in [Devices -> SequenceStates]

(* Whoever has a Peer has committed the other's record, and an initiator    *)
(* has it only after the responder committed too: the confirmation barrier. *)
(* (The responder has its Peer before the initiator committed, although     *)
(* docs/v1.md:91 describes a barrier for both.)                             *)
PeerImpliesFloors ==
  \A s \in Sessions :
    LET i == Initiator[s]
        r == Responder[s]
    IN  /\ initiator[s] = "peer" =>
             /\ floors[i][r].counter >= target[s].sequence
             /\ floors[r][i].counter >= hello[s].sender.sequence
        /\ responder[s] = "peer" =>
             floors[r][i].counter >= hello[s].sender.sequence

(* The record that the given side of a session takes from the other.        *)
Remote(s, role) == IF role = "initiator" THEN target[s] ELSE hello[s].sender

Owner(s, role) == IF role = "initiator" THEN Initiator[s] ELSE Responder[s]

Other(role) == IF role = "initiator" THEN "responder" ELSE "initiator"

(* No record that a homeserver merely serves, and no Hello that nobody      *)
(* consented to, moves a floor: each floor is the record of a session in    *)
(* which its device published a proof of live authority.                    *)
FloorsComeFromLiveDevices ==
  \A d, e \in Devices :
    floors[d][e] # Missing =>
      \E s \in Sessions, role \in Roles :
        /\ Owner(s, role) = d
        /\ Owner(s, Other(role)) = e
        /\ publishedAt[s][Other(role)] >= 0
        /\ floors[d][e] =
             Authenticated(Remote(s, role).sequence, Remote(s, role).digest)

Accepted(s, role) ==
  IF role = "initiator" THEN initiator[s] \in {"proved", "peer"}
                        ELSE responder[s] \in {"confirming", "proved", "peer"}

(* A record is accepted only if it is newer than all records of its device  *)
(* that were accepted before, by a session in either role, or one of them   *)
(* again: neither a rollback nor a second record with the same sequence     *)
(* gets through, however the sessions interleave.                           *)
NoRollbackAccepted ==
  [][\A s, t \in Sessions : \A p, q \in Roles :
       /\ ~Accepted(s, p) /\ Accepted(s, p)'
       /\ Accepted(t, q)
       /\ Owner(s, p) = Owner(t, q)
       /\ Owner(s, Other(p)) = Owner(t, Other(q))
       => \/ Remote(s, p).sequence > Remote(t, q).sequence
          \/ Remote(s, p) = Remote(t, q)]_vars

(* Whatever the two clocks say, a proof that is accepted was stored less    *)
(* than one proof lifetime of real time ago.  The signer's clock may be     *)
(* ahead, but a Hello bounds the proofs of its session on the clock of its  *)
(* own sender, and is given no longer lifetime (v1_peer.rs:1091).           *)
ProofsAreFresh ==
  [][\A s \in Sessions :
       /\ initiator[s] = "fetching" /\ initiator'[s] = "awaiting confirmation" =>
            time - publishedAt[s]["responder"] < CurrentnessLifetime
       /\ responder[s] = "fetching" /\ responder'[s] = "committing" =>
            time - publishedAt[s]["initiator"] < CurrentnessLifetime]_vars

(* Each exchange that ran to its end, failed or not, took its own proof     *)
(* back, unless a homeserver failed or the exchange was abandoned.          *)
ProofsAreTakenBack ==
  Faults \cap {"homeserver", "abandon"} = {} =>
    \A s \in Sessions :
      /\ initiator[s] \in {"peer", "failed"} => <<s, "initiator">> \notin proofs
      /\ responder[s] \in {"peer", "failed"} => <<s, "responder">> \notin proofs

(* Without the help of any timeout, neither side waits for ever: an error   *)
(* on one side closes the connection and so ends the other.                 *)
ExchangesEnd ==
  \A s \in Sessions :
    initiator[s] # "idle" ~>
      initiator[s] \in {"peer", "failed"} /\ responder[s] \in {"peer", "failed"}

(* Where nothing fails, no time passes and each device has one record, both *)
(* sides of every dial from a registered record end with a Peer, whatever   *)
(* other sessions the two devices have: neither waits for a message that    *)
(* the other will not send.                                                 *)
HandshakesComplete ==
  \A s \in Sessions :
    /\ scenario.faults = {} /\ scenario.maxTime = 0
    /\ \A l, m \in scenario.locators : l.device = m.device => l = m
    /\ initiator[s] = "resolved" /\ active[Initiator[s]] # {}
    ~> initiator[s] = "peer" /\ responder[s] = "peer"

-----------------------------------------------------------------------------
(* "Maximum accepted clock difference for freshly signed messages."         *)
(* (crates/protocol/src/lib.rs:22): within it, a dial completes.            *)
ClocksMayDiffer ==
  (\A d, e \in Devices : scenario.skew[d] - scenario.skew[e] <= MaxClockSkew)
    => HandshakesComplete

=============================================================================
