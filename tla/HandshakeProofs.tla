-------------------------- MODULE HandshakeProofs --------------------------
(***************************************************************************)
(* What the exchange of currentness proofs guarantees, for any number of   *)
(* devices and sessions, any clocks and any faults: the safety properties  *)
(* of Handshake follow from one inductive invariant, HInv.                 *)
(***************************************************************************)
EXTENDS Handshake, SequenceStateProofs, TLAPS

-----------------------------------------------------------------------------
(* What is known of a session.                                              *)

(* What the record of a session is remembered as.                           *)
Seen(r) == [key |-> r.device, counter |-> r.sequence, digest |-> r.digest]

(* The Hello has been sent, as far as some state or message of the session  *)
(* tells.                                                                   *)
Greeted(s) ==
  \/ initiator[s] \in {"awaiting ack", "publishing", "fetching", "awaiting confirmation",
                       "committing", "proved", "peer"}
  \/ responder[s] \notin {"idle", "failed"}
  \/ mail[s] \cap {"hello", "confirmed"} # {}
  \/ \E role \in Roles : publishedAt[s][role] >= 0

HelloOk(s) ==
  /\ initiator[s] \notin {"idle", "resolved"}
  /\ hello[s] \in Hello
  /\ hello[s].sender \in signed /\ hello[s].sender.device = Initiator[s]
  /\ hello[s].issued <= Now(Initiator[s])
  /\ hello[s].expires <= hello[s].issued + HelloLifetime

(* The Ack has been signed.                                                 *)
Answered(s) ==
  \/ initiator[s] \in {"publishing", "fetching", "awaiting confirmation", "committing",
                       "proved", "peer"}
  \/ responder[s] \in {"publishing", "acking", "awaiting ready", "fetching", "committing",
                       "confirming", "proved", "peer"}
  \/ "ack" \in mail[s]
  \/ publishedAt[s]["initiator"] >= 0

AckOk(s) ==
  /\ responder[s] \notin {"idle", "held"}
  /\ ack[s] \in Window
  /\ ack[s].issued <= Now(Responder[s])

(* A proof is published after what it vouches for was signed, and it has    *)
(* been seen by whoever goes on because of it.                              *)
ProofsOk(s) ==
  /\ \A role \in Roles : <<s, role>> \in proofs => publishedAt[s][role] >= 0
  /\ initiator[s] \in {"awaiting confirmation", "committing", "proved", "peer"} =>
       publishedAt[s]["responder"] >= 0
  /\ responder[s] \in {"committing", "confirming", "proved", "peer"} =>
       publishedAt[s]["initiator"] >= 0
  /\ publishedAt[s]["initiator"] >= 0 =>
       ack[s].issued <= publishedAt[s]["initiator"] + scenario.skew[Responder[s]]
  /\ publishedAt[s]["responder"] >= 0 =>
       hello[s].issued <= publishedAt[s]["responder"] + scenario.skew[Initiator[s]]

(* The responder has committed when it confirms, and the initiator before   *)
(* its exchange ends.                                                       *)
CommitsOk(s) ==
  /\ initiator[s] \in {"proved", "peer"} =>
       Remembers(floors[Initiator[s]], Seen(target[s]))
  /\ \/ responder[s] \in {"confirming", "proved", "peer"}
     \/ "confirmed" \in mail[s]
     \/ initiator[s] \in {"committing", "proved", "peer"}
     => Remembers(floors[Responder[s]], Seen(hello[s].sender))

(* If nothing else fails, a proof is there only during the exchange.        *)
CleansUp(s) ==
  Faults \cap {"homeserver", "abandon"} = {} =>
    /\ <<s, "initiator">> \in proofs =>
         initiator[s] \in {"fetching", "awaiting confirmation", "committing", "proved",
                           "broken"}
    /\ <<s, "responder">> \in proofs =>
         responder[s] \in {"acking", "awaiting ready", "fetching", "committing",
                           "confirming", "proved", "broken"}

SessionOk(s) ==
  /\ initiator[s] # "idle" => target[s] \in signed /\ target[s].device = Responder[s]
  /\ Greeted(s) => HelloOk(s)
  /\ Answered(s) => AckOk(s)
  /\ ProofsOk(s)
  /\ CommitsOk(s)
  /\ CleansUp(s)

(* A device signs no two records with one sequence and one digest.          *)
SignedOnce ==
  \A r, q \in signed : Seen(r) = Seen(q) => r = q

HInv ==
  /\ TypeOK
  /\ SignedOnce
  /\ \A s \in Sessions : SessionOk(s)
  /\ FloorsComeFromLiveDevices

-----------------------------------------------------------------------------
(* Lemmas about the operators of the model.                                 *)

(* An entry of a state that remembers o is one that o's record may have.    *)
LEMMA SeenIsObservation ==
  ASSUME NEW r \in Record
  PROVE  /\ Seen(r) \in Observation
         /\ RecordObservation(r) \in Ops
         /\ PrepareBatchOk(RecordObservation(r).batch)
         /\ RecordObservation(r).batch = {Seen(r)}
         /\ RecordObservation(r).type = "record"
<1>1. Seen(r) \in Observation
  BY DEF Seen, Observation, Record, Devices
<1>2. RecordObservation(r).batch = {Seen(r)}
  BY DEF Seen, RecordObservation
<1>3. RecordObservation(r) = [type |-> "record", batch |-> {Seen(r)}]
  BY DEF Seen, RecordObservation
<1>4. RecordObservation(r) \in Ops
  BY <1>1, <1>3 DEF Ops
<1>5. QED
  BY <1>1, <1>2, <1>3, <1>4 DEF PrepareBatchOk

(* The least of a Hello's bounds is one of them.                            *)
LEMMA LeastOfFive ==
  ASSUME NEW a1 \in Nat, NEW a2 \in Nat, NEW a3 \in Nat, NEW a4 \in Nat, NEW a5 \in Nat
  PROVE  /\ Min({a1, a2, a3, a4, a5}) \in Nat
         /\ Min({a1, a2, a3, a4, a5}) <= a1
<1> DEFINE S == {a1, a2, a3, a4, a5}
<1>1. \E x \in S : \A y \in S : x <= y
  OBVIOUS
<1>2. Min(S) \in S /\ \A y \in S : Min(S) <= y
  BY <1>1 DEF Min
<1>3. QED
  BY <1>2

(* The lesser of an Ack's bounds is one of them.                            *)
LEMMA LeastOfTwo ==
  ASSUME NEW a1 \in Nat, NEW a2 \in Nat
  PROVE  Min({a1, a2}) \in Nat
<1> DEFINE S == {a1, a2}
<1>1. \E x \in S : \A y \in S : x <= y
  OBVIOUS
<1>2. Min(S) \in S
  BY <1>1 DEF Min
<1>3. QED
  BY <1>2

(* What a device's floors say after it committed the record of another:     *)
(* they remember that record and all that they remembered before, and no    *)
(* other entry has moved.                                                   *)
LEMMA Committed ==
  ASSUME TypeOK, NEW d \in Devices, NEW r \in Record,
         CommitsRecord(d, r), CommitRecord(d, r)
  PROVE  /\ floors' \in [Devices -> SequenceStates]
         /\ Remembers(floors'[d], Seen(r))
         /\ \A c \in Devices, o \in Observation :
              Remembers(floors[c], o) => Remembers(floors'[c], o)
         /\ \A c, e \in Devices :
              \/ floors'[c][e] = floors[c][e]
              \/ /\ c = d /\ e = r.device
                 /\ floors'[c][e] = Authenticated(r.sequence, r.digest)
<1> DEFINE v == floors[d]
           op == RecordObservation(r)
<1>1. v \in SequenceStates /\ floors \in [Devices -> SequenceStates]
  BY DEF TypeOK
<1>2. /\ op \in Ops /\ PrepareBatchOk(op.batch) /\ op.batch = {Seen(r)}
      /\ op.type = "record" /\ Seen(r) \in Observation
  BY SeenIsObservation
<1>3. UpdateOk(v, op)
  BY DEF CommitsRecord, Commits
<1>4. Update(v, op) = RecordBatch(v, op.batch)
  BY <1>2 DEF Update
<1>5. floors' = [floors EXCEPT ![d] = Update(v, op)]
  BY DEF CommitRecord
<1> HIDE DEF op, v
<1>6. Update(v, op) \in SequenceStates
  BY <1>1, <1>2, <1>3, UpdateType
<1>7. Remembers(Update(v, op), Seen(r))
  BY <1>1, <1>2, <1>4, RecordRemembers
<1>8. \A o \in Observation : Remembers(v, o) => Remembers(Update(v, op), o)
  BY <1>1, <1>2, <1>3, UpdateRemembers
<1>9. Update(v, op)[r.device] = Authenticated(r.sequence, r.digest)
  <2>1. RecordBatch(v, op.batch)[Seen(r).key]
          = Authenticated(Seen(r).counter, Seen(r).digest)
    BY <1>1, <1>2, RecordedEntry
  <2>2. QED
    BY <1>4, <2>1 DEF Seen
<1>10. \A e \in Devices : e # r.device => Update(v, op)[e] = v[e]
  <2>1. BatchKeys(op.batch) = {r.device}
    BY <1>2 DEF BatchKeys, Seen
  <2>2. QED
    BY <1>4, <2>1 DEF RecordBatch, Keys, Devices
<1>11. \A c \in Devices : floors'[c] = IF c = d THEN Update(v, op) ELSE floors[c]
  BY <1>1, <1>5
<1>12. floors' \in [Devices -> SequenceStates]
  BY <1>1, <1>5, <1>6
<1>13. \A c \in Devices, o \in Observation :
         Remembers(floors[c], o) => Remembers(floors'[c], o)
  BY <1>8, <1>11 DEF v
<1>14. \A c, e \in Devices :
         \/ floors'[c][e] = floors[c][e]
         \/ /\ c = d /\ e = r.device
            /\ floors'[c][e] = Authenticated(r.sequence, r.digest)
  BY <1>9, <1>10, <1>11 DEF v
<1>15. QED
  BY <1>7, <1>11, <1>12, <1>13, <1>14

-----------------------------------------------------------------------------
(* What the steps leave alone.                                              *)

(* A step does not concern session t.                                       *)
Kept(t) ==
  /\ UNCHANGED <<initiator[t], responder[t], mail[t], target[t], hello[t], ack[t],
                 publishedAt[t]>>
  /\ \A role \in Roles : <<t, role>> \in proofs' <=> <<t, role>> \in proofs

(* No device forgets an observation.                                        *)
FloorsKept ==
  \A d \in Devices, o \in Observation :
    Remembers(floors[d], o) => Remembers(floors[d], o)'

(* An entry that moves comes from the record that a side of session s takes *)
(* from the other, whose proof it has seen.                                 *)
FloorsFrom(s) ==
  \A d, e \in Devices :
    \/ floors'[d][e] = floors[d][e]
    \/ \E role \in Roles :
         /\ Owner(s, role) = d /\ Owner(s, Other(role)) = e
         /\ publishedAt'[s][Other(role)] >= 0
         /\ floors'[d][e] =
              Authenticated(Remote(s, role)'.sequence, Remote(s, role)'.digest)

(* What stays of session s in every step: the record it dialled, its Hello  *)
(* from the moment it is sent, and that a proof was published.              *)
Settled(s) ==
  /\ initiator[s] # "idle" => target'[s] = target[s]
  /\ initiator[s] \notin {"idle", "resolved"} => hello'[s] = hello[s]
  /\ \A role \in Roles : publishedAt[s][role] >= 0 => publishedAt'[s][role] >= 0

(* The scenario stays, time and the signed records only grow.               *)
Onward ==
  /\ scenario' = scenario
  /\ time' >= time
  /\ signed \subseteq signed'

(* Who goes on without a commit relies on one that was made before.         *)
LEMMA CommitsKept ==
  ASSUME TypeOK, NEW t \in Sessions, SessionOk(t), FloorsKept,
         UNCHANGED <<target[t], hello[t]>>,
         initiator'[t] \in {"proved", "peer"} => initiator[t] \in {"proved", "peer"},
         \/ responder'[t] \in {"confirming", "proved", "peer"}
         \/ "confirmed" \in mail'[t]
         \/ initiator'[t] \in {"committing", "proved", "peer"}
         => \/ responder[t] \in {"confirming", "proved", "peer"}
            \/ "confirmed" \in mail[t]
            \/ initiator[t] \in {"committing", "proved", "peer"}
  PROVE  CommitsOk(t)'
<1>1. CommitsOk(t) /\ Initiator[t] \in Devices /\ Responder[t] \in Devices
  BY HandshakeAssumption DEF SessionOk
<1>2. ASSUME initiator[t] \in {"proved", "peer"}
      PROVE  Remembers(floors'[Initiator[t]], Seen(target[t]))
  <2>1. Remembers(floors[Initiator[t]], Seen(target[t]))
    BY <1>1, <1>2 DEF CommitsOk
  <2>2. target[t] \in Record
    BY <1>2 DEF SessionOk, TypeOK
  <2>3. QED
    BY <1>1, <2>1, <2>2, SeenIsObservation DEF FloorsKept
<1>3. ASSUME \/ responder[t] \in {"confirming", "proved", "peer"}
             \/ "confirmed" \in mail[t]
             \/ initiator[t] \in {"committing", "proved", "peer"}
      PROVE  Remembers(floors'[Responder[t]], Seen(hello[t].sender))
  <2>1. Remembers(floors[Responder[t]], Seen(hello[t].sender))
    BY <1>1, <1>3 DEF CommitsOk
  <2>2. Greeted(t)
    BY <1>3 DEF Greeted
  <2>3. hello[t].sender \in Record
    BY <2>2 DEF SessionOk, HelloOk, TypeOK
  <2>4. QED
    BY <1>1, <2>1, <2>3, SeenIsObservation DEF FloorsKept
<1>4. QED
  BY <1>2, <1>3 DEF CommitsOk

(* A session that a step does not concern stays as it should be.            *)
LEMMA KeptSession ==
  ASSUME TypeOK, TypeOK', Onward, FloorsKept, NEW t \in Sessions, Kept(t), SessionOk(t)
  PROVE  SessionOk(t)'
<1> USE DEF Kept
<1>1. /\ \A d \in Devices : Now(d) \in Nat /\ Now(d)' \in Nat /\ Now(d) <= Now(d)'
      /\ Initiator[t] \in Devices /\ Responder[t] \in Devices
  BY HandshakeAssumption DEF TypeOK, Onward, Now, Scenario
<1>2. (initiator[t] # "idle" => target[t] \in signed /\ target[t].device = Responder[t])'
  BY DEF SessionOk, Onward
<1>3. (Greeted(t) => HelloOk(t))'
  <2>1. Greeted(t)' => Greeted(t)
    BY DEF Greeted
  <2>2. HelloOk(t) => HelloOk(t)'
    BY <1>1 DEF HelloOk, Onward, Hello
  <2>3. QED
    BY <2>1, <2>2 DEF SessionOk
<1>4. (Answered(t) => AckOk(t))'
  <2>1. Answered(t)' => Answered(t)
    BY DEF Answered
  <2>2. AckOk(t) => AckOk(t)'
    BY <1>1 DEF AckOk, Window
  <2>3. QED
    BY <2>1, <2>2 DEF SessionOk
<1>5. ProofsOk(t)'
  BY DEF SessionOk, ProofsOk, Onward, Roles
<1>6. CommitsOk(t)'
  BY CommitsKept
<1>7. CleansUp(t)'
  BY DEF SessionOk, CleansUp, Onward, Roles, Faults
<1>8. QED
  BY <1>2, <1>3, <1>4, <1>5, <1>6, <1>7 DEF SessionOk

(* A published proof shows that the session's records are settled.          *)
LEMMA PublishedSettles ==
  ASSUME NEW t \in Sessions, SessionOk(t), NEW role \in Roles, publishedAt[t][role] >= 0
  PROVE  initiator[t] \notin {"idle", "resolved"}
BY DEF SessionOk, Greeted, HelloOk

(* A step of session s keeps HInv if it leaves session s as it should be    *)
(* and the others alone.                                                    *)
LEMMA SessionStep ==
  ASSUME HInv, NEW s \in Sessions, TypeOK', Onward, FloorsKept, SignedOnce',
         \A t \in Sessions \ {s} : Kept(t), Settled(s), FloorsFrom(s), SessionOk(s)'
  PROVE  HInv'
<1>1. TypeOK /\ (\A t \in Sessions : SessionOk(t)) /\ FloorsComeFromLiveDevices
  BY DEF HInv
<1>2. ASSUME NEW t \in Sessions
      PROVE  SessionOk(t)'
  BY <1>1, KeptSession
<1>3. FloorsComeFromLiveDevices'
  <2> SUFFICES ASSUME NEW d \in Devices, NEW e \in Devices, floors'[d][e] # Missing
               PROVE  \E t \in Sessions, role \in Roles :
                        /\ Owner(t, role) = d
                        /\ Owner(t, Other(role)) = e
                        /\ publishedAt'[t][Other(role)] >= 0
                        /\ floors'[d][e] = Authenticated(Remote(t, role)'.sequence,
                                                         Remote(t, role)'.digest)
    BY DEF FloorsComeFromLiveDevices, Owner
  <2>1. CASE floors'[d][e] = floors[d][e]
    <3>1. PICK t \in Sessions, role \in Roles :
            /\ Owner(t, role) = d
            /\ Owner(t, Other(role)) = e
            /\ publishedAt[t][Other(role)] >= 0
            /\ floors[d][e] =
                 Authenticated(Remote(t, role).sequence, Remote(t, role).digest)
      BY <1>1, <2>1 DEF FloorsComeFromLiveDevices
    <3>2. Other(role) \in Roles
      BY DEF Roles, Other
    <3>3. initiator[t] \notin {"idle", "resolved"}
      BY <1>1, <3>1, <3>2, PublishedSettles
    <3>4. /\ target'[t] = target[t] /\ hello'[t] = hello[t]
          /\ publishedAt'[t][Other(role)] >= 0
      <4>1. CASE t = s
        BY <3>1, <3>2, <3>3, <4>1 DEF Settled
      <4>2. CASE t # s
        BY <3>1, <4>2 DEF Kept
      <4>3. QED
        BY <4>1, <4>2
    <3>5. Remote(t, role)' = Remote(t, role)
      BY <3>4 DEF Remote
    <3>6. QED
      BY <2>1, <3>1, <3>4, <3>5
  <2>2. CASE floors'[d][e] # floors[d][e]
    BY <2>2 DEF FloorsFrom
  <2>3. QED
    BY <2>1, <2>2
<1>4. QED
  BY <1>2, <1>3 DEF HInv

(* Most steps leave the shared state as it is.                              *)
LEMMA QuietStep ==
  ASSUME HInv, NEW s \in Sessions, TypeOK', UNCHANGED <<scenario, time, signed, floors>>,
         \A t \in Sessions \ {s} : Kept(t), Settled(s), SessionOk(s)'
  PROVE  HInv'
<1>1. time \in Int
  BY HandshakeAssumption DEF HInv, TypeOK, Scenario
<1>2. Onward
  BY <1>1 DEF Onward
<1>3. FloorsKept
  BY DEF FloorsKept, Remembers
<1>4. SignedOnce'
  BY DEF HInv, SignedOnce
<1>5. FloorsFrom(s)
  BY DEF FloorsFrom
<1>6. QED
  BY <1>2, <1>3, <1>4, <1>5, SessionStep

(* A step of session s that signs nothing keeps HInv if what was signed,    *)
(* published and committed so far still explains where the session is.      *)
LEMMA SideStep ==
  ASSUME HInv, NEW s \in Sessions, TypeOK', FloorsKept, FloorsFrom(s),
         UNCHANGED <<scenario, time, signed, sessionVars>>,
         \A t \in Sessions \ {s} : Kept(t),
         initiator[s] = "idle" => initiator'[s] = "idle",
         initiator[s] \notin {"idle", "resolved"} =>
           initiator'[s] \notin {"idle", "resolved"},
         responder[s] \notin {"idle", "held"} => responder'[s] \notin {"idle", "held"},
         \A role \in Roles : publishedAt[s][role] >= 0 => publishedAt'[s][role] >= 0,
         Greeted(s)' => Greeted(s), Answered(s)' => Answered(s),
         ProofsOk(s)', CommitsOk(s)', CleansUp(s)'
  PROVE  HInv'
<1> USE DEF sessionVars
<1>1. TypeOK /\ SessionOk(s)
  BY DEF HInv
<1>2. Onward
  BY <1>1, HandshakeAssumption DEF Onward, TypeOK, Scenario
<1>3. SignedOnce'
  BY DEF HInv, SignedOnce
<1>4. Settled(s)
  BY DEF Settled
<1>5. SessionOk(s)'
  <2>1. (initiator[s] # "idle" => target[s] \in signed /\ target[s].device = Responder[s])'
    BY <1>1 DEF SessionOk
  <2>2. Greeted(s)' => HelloOk(s)'
    BY <1>1 DEF SessionOk, HelloOk, Now
  <2>3. Answered(s)' => AckOk(s)'
    BY <1>1 DEF SessionOk, AckOk, Now
  <2>4. QED
    BY <2>1, <2>2, <2>3 DEF SessionOk
<1>6. QED
  BY <1>2, <1>3, <1>4, <1>5, SessionStep

(* The same for a step that only moves the sides, the connection and the    *)
(* mail of a session.                                                       *)
LEMMA ControlStep ==
  ASSUME HInv, NEW s \in Sessions, TypeOK',
         UNCHANGED <<scenario, time, signed, sessionVars, proofVars, floors>>,
         \A t \in Sessions \ {s} : UNCHANGED <<initiator[t], responder[t], mail[t]>>,
         initiator[s] = "idle" => initiator'[s] = "idle",
         initiator[s] \notin {"idle", "resolved"} =>
           initiator'[s] \notin {"idle", "resolved"},
         responder[s] \notin {"idle", "held"} => responder'[s] \notin {"idle", "held"},
         Greeted(s)' => Greeted(s), Answered(s)' => Answered(s),
         ProofsOk(s)', CommitsOk(s)', CleansUp(s)'
  PROVE  HInv'
<1>1. \A t \in Sessions \ {s} : Kept(t)
  BY DEF Kept, sessionVars, proofVars
<1>2. FloorsKept
  BY DEF FloorsKept, Remembers
<1>3. FloorsFrom(s)
  BY DEF FloorsFrom
<1>4. \A role \in Roles : publishedAt[s][role] >= 0 => publishedAt'[s][role] >= 0
  BY DEF proofVars
<1>5. QED
  BY <1>1, <1>2, <1>3, <1>4, SideStep

(* A stored proof is there from now on, and nothing else changes.           *)
LEMMA Put ==
  ASSUME TypeOK, NEW s \in Sessions, NEW role \in Roles, PutProof(s, role)
  PROVE  /\ proofs' \subseteq Sessions \X Roles
         /\ publishedAt' \in [Sessions -> [Roles -> Int]]
         /\ publishedAt'[s][role] = time
         /\ \A q \in Roles \ {role} :
              /\ publishedAt'[s][q] = publishedAt[s][q]
              /\ <<s, q>> \in proofs' <=> <<s, q>> \in proofs
         /\ \A t \in Sessions \ {s} :
              /\ publishedAt'[t] = publishedAt[t]
              /\ \A q \in Roles : <<t, q>> \in proofs' <=> <<t, q>> \in proofs
<1>1. time \in Int /\ proofs \subseteq Sessions \X Roles
      /\ publishedAt \in [Sessions -> [Roles -> Int]]
  BY HandshakeAssumption DEF TypeOK, Scenario
<1>2. /\ proofs' = proofs \cup {<<s, role>>}
      /\ publishedAt' = [publishedAt EXCEPT ![s][role] = time]
  BY DEF PutProof
<1>3. QED
  BY <1>1, <1>2

(* A deleted proof is gone, and nothing else changes.                       *)
LEMMA Deleted ==
  ASSUME TypeOK, NEW s \in Sessions, NEW role \in Roles, DeleteProof(s, role)
  PROVE  /\ proofs' \subseteq Sessions \X Roles
         /\ UNCHANGED publishedAt
         /\ <<s, role>> \notin proofs'
         /\ \A q \in Roles \ {role} : <<s, q>> \in proofs' <=> <<s, q>> \in proofs
         /\ \A t \in Sessions \ {s} :
              \A q \in Roles : <<t, q>> \in proofs' <=> <<t, q>> \in proofs
BY DEF TypeOK, DeleteProof

(* Writing a message adds at most that message to the mail of its session.  *)
LEMMA Written ==
  ASSUME TypeOK, NEW s \in Sessions, NEW m \in Messages, Write(s, m)
  PROVE  /\ mail' \in [Sessions -> SUBSET Messages]
         /\ mail'[s] \subseteq mail[s] \cup {m}
         /\ \A t \in Sessions \ {s} : mail'[t] = mail[t]
<1>1. mail \in [Sessions -> SUBSET Messages]
  BY DEF TypeOK
<1>2. mail' = mail \/ mail' = [mail EXCEPT ![s] = mail[s] \cup {m}]
  BY DEF Write
<1>3. QED
  BY <1>1, <1>2

(* Reading a message takes it out of the mail of its session.               *)
LEMMA Taken ==
  ASSUME TypeOK, NEW s \in Sessions, NEW m \in Messages, Read(s, m)
  PROVE  /\ m \in mail[s]
         /\ mail' \in [Sessions -> SUBSET Messages]
         /\ mail'[s] \subseteq mail[s]
         /\ \A t \in Sessions \ {s} : mail'[t] = mail[t]
BY DEF TypeOK, Read

(* Forgetting expired records leaves a device with records of its own.      *)
LEMMA Pruned ==
  ASSUME TypeOK, NEW d \in Devices, UNCHANGED signed,
         active' = [active EXCEPT ![d] = Unexpired(d)]
  PROVE  /\ active' \in [Devices -> SUBSET signed']
         /\ \A e \in Devices : \A r \in active'[e] : r.device = e
<1>1. Unexpired(d) \subseteq active[d]
  BY DEF Unexpired
<1>2. QED
  BY <1>1 DEF TypeOK

(* A side that moves on, and a connection that is closed.                   *)
LEMMA Moved ==
  ASSUME TypeOK, NEW s \in Sessions
  PROVE  /\ \A x \in InitiatorStates :
              initiator' = [initiator EXCEPT ![s] = x] =>
                initiator' \in [Sessions -> InitiatorStates]
         /\ \A x \in ResponderStates :
              responder' = [responder EXCEPT ![s] = x] =>
                responder' \in [Sessions -> ResponderStates]
         /\ connection' \in {connection, [connection EXCEPT ![s] = "closed"]} =>
              connection' \in [Sessions -> {"none", "open", "closed"}]
BY DEF TypeOK

-----------------------------------------------------------------------------
(* The steps of the initiator.                                              *)

(* Reading the Ack moves the initiator on, or ends its side.                *)
LEMMA ReadAckStep ==
  ASSUME HInv, NEW s \in Sessions, ReadAck(s)
  PROVE  HInv'
<1>1. TypeOK /\ SessionOk(s)
  BY DEF HInv
<1>2. /\ UNCHANGED <<scenario, time, recordVars, responder, sessionVars, proofVars, floors>>
      /\ initiator[s] = "awaiting ack" /\ Read(s, "ack")
      /\ connection' \in {connection, [connection EXCEPT ![s] = "closed"]}
      /\ \E i \in {"publishing", "failed"} : initiator' = [initiator EXCEPT ![s] = i]
  BY DEF ReadAck, InitiatorFails, Close
<1>3. /\ "ack" \in mail[s]
      /\ mail' \in [Sessions -> SUBSET Messages]
      /\ mail'[s] \subseteq mail[s]
      /\ \A t \in Sessions \ {s} : mail'[t] = mail[t]
  BY <1>1, <1>2, Taken DEF Messages
<1>4. TypeOK'
  <2>1. \E x \in InitiatorStates : initiator' = [initiator EXCEPT ![s] = x]
    BY <1>1, <1>2 DEF InitiatorStates
  <2>2. /\ initiator' \in [Sessions -> InitiatorStates]
        /\ connection' \in [Sessions -> {"none", "open", "closed"}]
    BY <1>1, <1>2, <2>1, Moved
  <2>3. QED
    BY <1>1, <1>2, <1>3, <2>2 DEF TypeOK, recordVars, sessionVars, proofVars
<1>5. /\ initiator'[s] \in {"publishing", "failed"}
      /\ \A t \in Sessions \ {s} : UNCHANGED <<initiator[t], responder[t], mail[t]>>
  BY <1>1, <1>2, <1>3 DEF TypeOK
<1>6. Greeted(s) /\ Answered(s)
  BY <1>2, <1>3 DEF Greeted, Answered
<1>7. ProofsOk(s)' /\ CommitsOk(s)' /\ CleansUp(s)'
  BY <1>1, <1>2, <1>3, <1>5
  DEF SessionOk, ProofsOk, CommitsOk, CleansUp, Faults, Remembers, Roles, sessionVars,
      proofVars
<1>8. QED
  BY <1>2, <1>4, <1>5, <1>6, <1>7, ControlStep DEF recordVars

(* The initiator has seen the responder's proof when it goes on.            *)
LEMMA FetchResponderProofStep ==
  ASSUME HInv, NEW s \in Sessions, FetchResponderProof(s)
  PROVE  HInv'
<1>1. TypeOK /\ SessionOk(s)
  BY DEF HInv
<1>2. /\ UNCHANGED <<scenario, time, recordVars, responder, connection, sessionVars, proofVars,
                    floors>>
      /\ initiator[s] = "fetching"
      /\ Write(s, "ready") \/ UNCHANGED mail
      /\ \/ /\ initiator' = [initiator EXCEPT ![s] = "awaiting confirmation"]
            /\ <<s, "responder">> \in proofs
         \/ initiator' = [initiator EXCEPT ![s] = "broken"]
  BY DEF FetchResponderProof
<1>3. /\ mail' \in [Sessions -> SUBSET Messages]
      /\ mail'[s] \subseteq mail[s] \cup {"ready"}
      /\ \A t \in Sessions \ {s} : mail'[t] = mail[t]
  BY <1>1, <1>2, Written DEF TypeOK, Messages
<1>4. TypeOK'
  BY <1>1, <1>2, <1>3 DEF TypeOK, InitiatorStates, ResponderStates, recordVars, sessionVars,
                          proofVars
<1>5. /\ \/ initiator'[s] = "broken"
         \/ initiator'[s] = "awaiting confirmation" /\ <<s, "responder">> \in proofs
      /\ \A t \in Sessions \ {s} : UNCHANGED <<initiator[t], responder[t], mail[t]>>
  BY <1>1, <1>2, <1>3 DEF TypeOK
<1>6. Greeted(s) /\ Answered(s)
  BY <1>2, <1>3 DEF Greeted, Answered, proofVars
<1>7. ProofsOk(s)' /\ CommitsOk(s)' /\ CleansUp(s)'
  BY <1>1, <1>2, <1>3, <1>5
  DEF SessionOk, ProofsOk, CommitsOk, CleansUp, Faults, Remembers, Roles, sessionVars,
      proofVars
<1>8. QED
  BY <1>2, <1>4, <1>5, <1>6, <1>7, ControlStep DEF recordVars

(* The confirmation tells the initiator that the responder has committed.   *)
LEMMA ReadConfirmedStep ==
  ASSUME HInv, NEW s \in Sessions, ReadConfirmed(s)
  PROVE  HInv'
<1>1. TypeOK /\ SessionOk(s)
  BY DEF HInv
<1>2. /\ UNCHANGED <<scenario, time, recordVars, responder, connection, sessionVars, proofVars,
                    floors>>
      /\ initiator[s] = "awaiting confirmation" /\ Read(s, "confirmed")
      /\ initiator' = [initiator EXCEPT ![s] = "committing"]
  BY DEF ReadConfirmed
<1>3. /\ "confirmed" \in mail[s]
      /\ mail' \in [Sessions -> SUBSET Messages]
      /\ mail'[s] \subseteq mail[s]
      /\ \A t \in Sessions \ {s} : mail'[t] = mail[t]
  BY <1>1, <1>2, Taken DEF Messages
<1>4. TypeOK'
  BY <1>1, <1>2, <1>3 DEF TypeOK, InitiatorStates, ResponderStates, recordVars, sessionVars,
                          proofVars
<1>5. /\ initiator'[s] = "committing"
      /\ \A t \in Sessions \ {s} : UNCHANGED <<initiator[t], responder[t], mail[t]>>
  BY <1>1, <1>2, <1>3 DEF TypeOK
<1>6. Greeted(s) /\ Answered(s)
  BY <1>2, <1>3 DEF Greeted, Answered, proofVars
<1>7. ProofsOk(s)' /\ CommitsOk(s)' /\ CleansUp(s)'
  BY <1>1, <1>2, <1>3, <1>5
  DEF SessionOk, ProofsOk, CommitsOk, CleansUp, Faults, Remembers, Roles, sessionVars,
      proofVars
<1>8. QED
  BY <1>2, <1>4, <1>5, <1>6, <1>7, ControlStep DEF recordVars

(* A connection that is found closed ends the side or its exchange.         *)
LEMMA InitiatorDisconnectedStep ==
  ASSUME HInv, NEW s \in Sessions, InitiatorDisconnected(s)
  PROVE  HInv'
<1>1. TypeOK /\ SessionOk(s)
  BY DEF HInv
<1>2. /\ UNCHANGED <<scenario, time, recordVars, responder, connection, mail, sessionVars,
                    proofVars, floors>>
      /\ \/ /\ initiator[s] \in {"resolved", "awaiting ack"}
            /\ initiator' = [initiator EXCEPT ![s] = "failed"]
         \/ /\ initiator[s] \in {"fetching", "awaiting confirmation"}
            /\ initiator' = [initiator EXCEPT ![s] = "broken"]
  BY DEF InitiatorDisconnected
<1>3. UNCHANGED mail
  BY <1>2
<1>4. TypeOK'
  BY <1>1, <1>2, <1>3 DEF TypeOK, InitiatorStates, ResponderStates, recordVars, sessionVars,
                          proofVars
<1>5. /\ \/ initiator[s] \in {"resolved", "awaiting ack"} /\ initiator'[s] = "failed"
         \/ /\ initiator[s] \in {"fetching", "awaiting confirmation"}
            /\ initiator'[s] = "broken"
      /\ \A t \in Sessions \ {s} : UNCHANGED <<initiator[t], responder[t], mail[t]>>
  BY <1>1, <1>2, <1>3 DEF TypeOK
<1>6. (Greeted(s)' => Greeted(s)) /\ (Answered(s)' => Answered(s))
  BY <1>2, <1>5 DEF Greeted, Answered, proofVars
<1>7. ProofsOk(s)' /\ CommitsOk(s)' /\ CleansUp(s)'
  BY <1>1, <1>2, <1>3, <1>5
  DEF SessionOk, ProofsOk, CommitsOk, CleansUp, Faults, Remembers, Roles, sessionVars,
      proofVars
<1>8. QED
  BY <1>2, <1>4, <1>5, <1>6, <1>7, ControlStep DEF recordVars

-----------------------------------------------------------------------------
(* The steps of the responder.                                              *)

(* A Hello is held, or ends the responder's side.                           *)
LEMMA ReceiveHelloStep ==
  ASSUME HInv, NEW s \in Sessions, ReceiveHello(s)
  PROVE  HInv'
<1>1. TypeOK /\ SessionOk(s)
  BY DEF HInv
<1>2. /\ UNCHANGED <<scenario, time, signed, initiator, sessionVars, proofVars, floors>>
      /\ responder[s] = "idle" /\ Read(s, "hello")
      /\ active' = [active EXCEPT ![Responder[s]] = Unexpired(Responder[s])]
      /\ \E r \in {"held", "failed"} : responder' = [responder EXCEPT ![s] = r]
      /\ connection' \in {connection, [connection EXCEPT ![s] = "closed"]}
  BY DEF ReceiveHello, ResponderFails, Close
<1>3. /\ "hello" \in mail[s]
      /\ mail' \in [Sessions -> SUBSET Messages]
      /\ mail'[s] \subseteq mail[s]
      /\ \A t \in Sessions \ {s} : mail'[t] = mail[t]
  BY <1>1, <1>2, Taken DEF Messages
<1>4. TypeOK'
  <2>1. /\ active' \in [Devices -> SUBSET signed']
        /\ \A d \in Devices : \A r \in active'[d] : r.device = d
    BY <1>1, <1>2, Pruned, HandshakeAssumption
  <2>2. \E x \in ResponderStates : responder' = [responder EXCEPT ![s] = x]
    BY <1>2 DEF ResponderStates
  <2>3. /\ responder' \in [Sessions -> ResponderStates]
        /\ connection' \in [Sessions -> {"none", "open", "closed"}]
    BY <1>1, <1>2, <2>2, Moved
  <2>4. QED
    BY <1>1, <1>2, <1>3, <2>1, <2>3 DEF TypeOK, sessionVars, proofVars
<1>5. /\ responder'[s] \in {"held", "failed"}
      /\ \A t \in Sessions \ {s} : UNCHANGED <<initiator[t], responder[t], mail[t]>>
  BY <1>1, <1>2, <1>3 DEF TypeOK
<1>6. Greeted(s) /\ (Answered(s)' => Answered(s))
  BY <1>2, <1>3, <1>5 DEF Greeted, Answered, proofVars
<1>7. ProofsOk(s)' /\ CommitsOk(s)' /\ CleansUp(s)'
  BY <1>1, <1>2, <1>3, <1>5
  DEF SessionOk, ProofsOk, CommitsOk, CleansUp, Faults, Remembers, Roles, sessionVars,
      proofVars
<1>8. QED
  BY <1>2, <1>4, <1>5, <1>6, <1>7, ControlStep DEF recordVars

(* A rejected request ends the responder's side.                            *)
LEMMA RejectHelloStep ==
  ASSUME HInv, NEW s \in Sessions, RejectHello(s)
  PROVE  HInv'
<1>1. TypeOK /\ SessionOk(s)
  BY DEF HInv
<1>2. /\ UNCHANGED <<scenario, time, recordVars, initiator, mail, sessionVars, proofVars,
                    floors>>
      /\ responder[s] = "held" /\ responder' = [responder EXCEPT ![s] = "failed"]
      /\ connection' \in {connection, [connection EXCEPT ![s] = "closed"]}
  BY DEF RejectHello, ResponderFails, Close
<1>3. UNCHANGED mail
  BY <1>2
<1>4. TypeOK'
  BY <1>1, <1>2, <1>3 DEF TypeOK, InitiatorStates, ResponderStates, recordVars, sessionVars,
                          proofVars
<1>5. /\ responder'[s] = "failed"
      /\ \A t \in Sessions \ {s} : UNCHANGED <<initiator[t], responder[t], mail[t]>>
  BY <1>1, <1>2, <1>3 DEF TypeOK
<1>6. Greeted(s) /\ (Answered(s)' => Answered(s))
  BY <1>2, <1>5 DEF Greeted, Answered, proofVars
<1>7. ProofsOk(s)' /\ CommitsOk(s)' /\ CleansUp(s)'
  BY <1>1, <1>2, <1>3, <1>5
  DEF SessionOk, ProofsOk, CommitsOk, CleansUp, Faults, Remembers, Roles, sessionVars,
      proofVars
<1>8. QED
  BY <1>2, <1>4, <1>5, <1>6, <1>7, ControlStep DEF recordVars

(* The Ack is sent after it has been signed.                                *)
LEMMA SendAckStep ==
  ASSUME HInv, NEW s \in Sessions, SendAck(s)
  PROVE  HInv'
<1>1. TypeOK /\ SessionOk(s)
  BY DEF HInv
<1>2. /\ UNCHANGED <<scenario, time, recordVars, initiator, connection, sessionVars, proofVars,
                    floors>>
      /\ responder[s] = "acking" /\ Write(s, "ack")
      /\ responder' = [responder EXCEPT ![s] = "awaiting ready"]
  BY DEF SendAck
<1>3. /\ mail' \in [Sessions -> SUBSET Messages]
      /\ mail'[s] \subseteq mail[s] \cup {"ack"}
      /\ \A t \in Sessions \ {s} : mail'[t] = mail[t]
  BY <1>1, <1>2, Written DEF TypeOK, Messages
<1>4. TypeOK'
  BY <1>1, <1>2, <1>3 DEF TypeOK, InitiatorStates, ResponderStates, recordVars, sessionVars,
                          proofVars
<1>5. /\ responder'[s] = "awaiting ready"
      /\ \A t \in Sessions \ {s} : UNCHANGED <<initiator[t], responder[t], mail[t]>>
  BY <1>1, <1>2, <1>3 DEF TypeOK
<1>6. Greeted(s) /\ Answered(s)
  BY <1>2, <1>3 DEF Greeted, Answered, proofVars
<1>7. ProofsOk(s)' /\ CommitsOk(s)' /\ CleansUp(s)'
  BY <1>1, <1>2, <1>3, <1>5
  DEF SessionOk, ProofsOk, CommitsOk, CleansUp, Faults, Remembers, Roles, sessionVars,
      proofVars
<1>8. QED
  BY <1>2, <1>4, <1>5, <1>6, <1>7, ControlStep DEF recordVars

(* The responder goes on when the initiator is ready.                       *)
LEMMA ReadReadyStep ==
  ASSUME HInv, NEW s \in Sessions, ReadReady(s)
  PROVE  HInv'
<1>1. TypeOK /\ SessionOk(s)
  BY DEF HInv
<1>2. /\ UNCHANGED <<scenario, time, recordVars, initiator, connection, sessionVars, proofVars,
                    floors>>
      /\ responder[s] = "awaiting ready" /\ Read(s, "ready")
      /\ responder' = [responder EXCEPT ![s] = "fetching"]
  BY DEF ReadReady
<1>3. /\ "ready" \in mail[s]
      /\ mail' \in [Sessions -> SUBSET Messages]
      /\ mail'[s] \subseteq mail[s]
      /\ \A t \in Sessions \ {s} : mail'[t] = mail[t]
  BY <1>1, <1>2, Taken DEF Messages
<1>4. TypeOK'
  BY <1>1, <1>2, <1>3 DEF TypeOK, InitiatorStates, ResponderStates, recordVars, sessionVars,
                          proofVars
<1>5. /\ responder'[s] = "fetching"
      /\ \A t \in Sessions \ {s} : UNCHANGED <<initiator[t], responder[t], mail[t]>>
  BY <1>1, <1>2, <1>3 DEF TypeOK
<1>6. Greeted(s) /\ Answered(s)
  BY <1>2, <1>3 DEF Greeted, Answered, proofVars
<1>7. ProofsOk(s)' /\ CommitsOk(s)' /\ CleansUp(s)'
  BY <1>1, <1>2, <1>3, <1>5
  DEF SessionOk, ProofsOk, CommitsOk, CleansUp, Faults, Remembers, Roles, sessionVars,
      proofVars
<1>8. QED
  BY <1>2, <1>4, <1>5, <1>6, <1>7, ControlStep DEF recordVars

(* The responder has seen the initiator's proof when it goes on.            *)
LEMMA FetchInitiatorProofStep ==
  ASSUME HInv, NEW s \in Sessions, FetchInitiatorProof(s)
  PROVE  HInv'
<1>1. TypeOK /\ SessionOk(s)
  BY DEF HInv
<1>2. /\ UNCHANGED <<scenario, time, recordVars, initiator, connection, mail, sessionVars,
                    proofVars, floors>>
      /\ responder[s] = "fetching"
      /\ \/ /\ responder' = [responder EXCEPT ![s] = "committing"]
            /\ <<s, "initiator">> \in proofs
         \/ responder' = [responder EXCEPT ![s] = "broken"]
  BY DEF FetchInitiatorProof
<1>3. UNCHANGED mail
  BY <1>2
<1>4. TypeOK'
  BY <1>1, <1>2, <1>3 DEF TypeOK, InitiatorStates, ResponderStates, recordVars, sessionVars,
                          proofVars
<1>5. /\ \/ responder'[s] = "broken"
         \/ responder'[s] = "committing" /\ <<s, "initiator">> \in proofs
      /\ \A t \in Sessions \ {s} : UNCHANGED <<initiator[t], responder[t], mail[t]>>
  BY <1>1, <1>2, <1>3 DEF TypeOK
<1>6. Greeted(s) /\ Answered(s)
  BY <1>2, <1>3 DEF Greeted, Answered, proofVars
<1>7. ProofsOk(s)' /\ CommitsOk(s)' /\ CleansUp(s)'
  BY <1>1, <1>2, <1>3, <1>5
  DEF SessionOk, ProofsOk, CommitsOk, CleansUp, Faults, Remembers, Roles, sessionVars,
      proofVars
<1>8. QED
  BY <1>2, <1>4, <1>5, <1>6, <1>7, ControlStep DEF recordVars

(* The responder confirms what it has committed.                            *)
LEMMA SendConfirmedStep ==
  ASSUME HInv, NEW s \in Sessions, SendConfirmed(s)
  PROVE  HInv'
<1>1. TypeOK /\ SessionOk(s)
  BY DEF HInv
<1>2. /\ UNCHANGED <<scenario, time, recordVars, initiator, connection, sessionVars, proofVars,
                    floors>>
      /\ responder[s] = "confirming" /\ Write(s, "confirmed")
      /\ responder' = [responder EXCEPT ![s] = "proved"]
  BY DEF SendConfirmed
<1>3. /\ mail' \in [Sessions -> SUBSET Messages]
      /\ mail'[s] \subseteq mail[s] \cup {"confirmed"}
      /\ \A t \in Sessions \ {s} : mail'[t] = mail[t]
  BY <1>1, <1>2, Written DEF TypeOK, Messages
<1>4. TypeOK'
  BY <1>1, <1>2, <1>3 DEF TypeOK, InitiatorStates, ResponderStates, recordVars, sessionVars,
                          proofVars
<1>5. /\ responder'[s] = "proved"
      /\ \A t \in Sessions \ {s} : UNCHANGED <<initiator[t], responder[t], mail[t]>>
  BY <1>1, <1>2, <1>3 DEF TypeOK
<1>6. Greeted(s) /\ Answered(s)
  BY <1>2, <1>3 DEF Greeted, Answered, proofVars
<1>7. ProofsOk(s)' /\ CommitsOk(s)' /\ CleansUp(s)'
  BY <1>1, <1>2, <1>3, <1>5
  DEF SessionOk, ProofsOk, CommitsOk, CleansUp, Faults, Remembers, Roles, sessionVars,
      proofVars
<1>8. QED
  BY <1>2, <1>4, <1>5, <1>6, <1>7, ControlStep DEF recordVars

(* A connection that is found closed ends the side or its exchange.         *)
LEMMA ResponderDisconnectedStep ==
  ASSUME HInv, NEW s \in Sessions, ResponderDisconnected(s)
  PROVE  HInv'
<1>1. TypeOK /\ SessionOk(s)
  BY DEF HInv
<1>2. /\ UNCHANGED <<scenario, time, recordVars, initiator, connection, mail, sessionVars,
                    proofVars, floors>>
      /\ \/ /\ responder[s] = "idle"
            /\ responder' = [responder EXCEPT ![s] = "failed"]
         \/ /\ responder[s] \in {"acking", "awaiting ready", "confirming"}
            /\ responder' = [responder EXCEPT ![s] = "broken"]
  BY DEF ResponderDisconnected
<1>3. UNCHANGED mail
  BY <1>2
<1>4. TypeOK'
  BY <1>1, <1>2, <1>3 DEF TypeOK, InitiatorStates, ResponderStates, recordVars, sessionVars,
                          proofVars
<1>5. /\ \/ responder[s] = "idle" /\ responder'[s] = "failed"
         \/ /\ responder[s] \in {"acking", "awaiting ready", "confirming"}
            /\ responder'[s] = "broken"
      /\ \A t \in Sessions \ {s} : UNCHANGED <<initiator[t], responder[t], mail[t]>>
  BY <1>1, <1>2, <1>3 DEF TypeOK
<1>6. (Greeted(s)' => Greeted(s)) /\ (Answered(s)' => Answered(s))
  BY <1>2, <1>5 DEF Greeted, Answered, proofVars
<1>7. ProofsOk(s)' /\ CommitsOk(s)' /\ CleansUp(s)'
  BY <1>1, <1>2, <1>3, <1>5
  DEF SessionOk, ProofsOk, CommitsOk, CleansUp, Faults, Remembers, Roles, sessionVars,
      proofVars
<1>8. QED
  BY <1>2, <1>4, <1>5, <1>6, <1>7, ControlStep DEF recordVars

(* The initiator publishes a proof of what the Ack bounds, or fails.        *)
LEMMA PublishInitiatorProofStep ==
  ASSUME HInv, NEW s \in Sessions, PublishInitiatorProof(s)
  PROVE  HInv'
<1>1. TypeOK /\ SessionOk(s)
  BY DEF HInv
<1>2. /\ UNCHANGED <<scenario, time, recordVars, responder, mail, sessionVars, floors>>
      /\ initiator[s] = "publishing"
      /\ connection' \in {connection, [connection EXCEPT ![s] = "closed"]}
      /\ PutProof(s, "initiator") \/ UNCHANGED proofVars
      /\ \/ /\ initiator' = [initiator EXCEPT ![s] = "fetching"]
            /\ PutProof(s, "initiator")
         \/ /\ initiator' = [initiator EXCEPT ![s] = "failed"]
            /\ "homeserver" \in Faults
  BY DEF PublishInitiatorProof, InitiatorFails, Close
<1>3. /\ proofs' \subseteq Sessions \X Roles
      /\ publishedAt' \in [Sessions -> [Roles -> Int]]
      /\ publishedAt'[s]["responder"] = publishedAt[s]["responder"]
      /\ <<s, "responder">> \in proofs' <=> <<s, "responder">> \in proofs
      /\ \/ publishedAt'[s]["initiator"] = time
         \/ /\ publishedAt'[s]["initiator"] = publishedAt[s]["initiator"]
            /\ <<s, "initiator">> \in proofs' <=> <<s, "initiator">> \in proofs
            /\ initiator' = [initiator EXCEPT ![s] = "failed"]
      /\ \A t \in Sessions \ {s} :
           /\ publishedAt'[t] = publishedAt[t]
           /\ \A q \in Roles : <<t, q>> \in proofs' <=> <<t, q>> \in proofs
  BY <1>1, <1>2, Put DEF Roles, proofVars, TypeOK
<1>4. TypeOK'
  <2>1. \E x \in InitiatorStates : initiator' = [initiator EXCEPT ![s] = x]
    BY <1>1, <1>2 DEF InitiatorStates
  <2>2. /\ initiator' \in [Sessions -> InitiatorStates]
        /\ connection' \in [Sessions -> {"none", "open", "closed"}]
    BY <1>1, <1>2, <2>1, Moved
  <2>3. QED
    BY <1>1, <1>2, <1>3, <2>2 DEF TypeOK, recordVars, sessionVars
<1>5. /\ \/ initiator'[s] = "fetching"
         \/ initiator'[s] = "failed" /\ "homeserver" \in Faults
      /\ \A t \in Sessions \ {s} : Kept(t)
  BY <1>1, <1>2, <1>3 DEF TypeOK, Kept, sessionVars
<1>6. /\ Greeted(s) /\ Answered(s) /\ HelloOk(s) /\ AckOk(s)
      /\ time \in Nat
  BY <1>1, <1>2, HandshakeAssumption DEF Greeted, Answered, SessionOk, TypeOK, Scenario
<1>7. ProofsOk(s)'
  <2>1. publishedAt'[s]["initiator"] >= 0 =>
          ack[s].issued <= publishedAt'[s]["initiator"] + scenario.skew[Responder[s]]
    BY <1>1, <1>3, <1>6 DEF SessionOk, ProofsOk, AckOk, Now
  <2>2. \A role \in Roles : <<s, role>> \in proofs' => publishedAt'[s][role] >= 0
    <3>1. /\ <<s, "initiator">> \in proofs => publishedAt[s]["initiator"] >= 0
          /\ <<s, "responder">> \in proofs => publishedAt[s]["responder"] >= 0
      BY <1>1 DEF SessionOk, ProofsOk, Roles
    <3>2. QED
      BY <1>3, <1>6, <3>1 DEF Roles
  <2>3. publishedAt'[s]["responder"] >= 0 =>
          hello[s].issued <= publishedAt'[s]["responder"] + scenario.skew[Initiator[s]]
    BY <1>1, <1>3 DEF SessionOk, ProofsOk
  <2>4. initiator'[s] \notin {"awaiting confirmation", "committing", "proved", "peer"}
    BY <1>5
  <2>5. responder[s] \in {"committing", "confirming", "proved", "peer"} =>
          publishedAt'[s]["initiator"] >= 0
    <3>1. responder[s] \in {"committing", "confirming", "proved", "peer"} =>
            publishedAt[s]["initiator"] >= 0
      BY <1>1 DEF SessionOk, ProofsOk
    <3>2. QED
      BY <1>3, <1>6, <3>1
  <2>6. UNCHANGED <<scenario, responder, hello, ack>>
    BY <1>2 DEF sessionVars
  <2>7. QED
    BY <2>1, <2>2, <2>3, <2>4, <2>5, <2>6 DEF ProofsOk
<1>8. CommitsOk(s)' /\ CleansUp(s)'
  BY <1>1, <1>2, <1>3, <1>5
  DEF SessionOk, CommitsOk, CleansUp, Faults, Remembers, sessionVars
<1>9. FloorsKept /\ FloorsFrom(s)
  BY <1>2 DEF FloorsKept, FloorsFrom, Remembers
<1>10. \A role \in Roles : publishedAt[s][role] >= 0 => publishedAt'[s][role] >= 0
  BY <1>3, <1>6 DEF Roles
<1>11. QED
  BY <1>2, <1>4, <1>5, <1>6, <1>7, <1>8, <1>9, <1>10, SideStep
  DEF recordVars

(* The initiator commits the record it dialled, or ends the exchange.       *)
LEMMA CommitTargetStep ==
  ASSUME HInv, NEW s \in Sessions, CommitTarget(s)
  PROVE  HInv'
<1>1. TypeOK /\ SessionOk(s)
  BY DEF HInv
<1>2. /\ UNCHANGED <<scenario, time, recordVars, responder, connection, mail, sessionVars,
                    proofVars>>
      /\ initiator[s] = "committing"
      /\ \/ /\ initiator' = [initiator EXCEPT ![s] = "proved"]
            /\ CommitsRecord(Initiator[s], target[s])
            /\ CommitRecord(Initiator[s], target[s])
         \/ /\ initiator' = [initiator EXCEPT ![s] = "broken"]
            /\ UNCHANGED floors
  BY DEF CommitTarget
<1>3. /\ Greeted(s) /\ Answered(s) /\ HelloOk(s)
      /\ target[s] \in Record /\ target[s].device = Responder[s]
      /\ Initiator[s] \in Devices
  BY <1>1, <1>2, HandshakeAssumption DEF Greeted, Answered, SessionOk, TypeOK
<1>4. /\ floors' \in [Devices -> SequenceStates] /\ FloorsKept
      /\ \A c, e \in Devices :
           \/ floors'[c][e] = floors[c][e]
           \/ /\ c = Initiator[s] /\ e = Responder[s]
              /\ floors'[c][e] = Authenticated(target[s].sequence, target[s].digest)
      /\ \/ /\ initiator' = [initiator EXCEPT ![s] = "proved"]
            /\ Remembers(floors'[Initiator[s]], Seen(target[s]))
         \/ initiator' = [initiator EXCEPT ![s] = "broken"]
  <2>1. CASE initiator' = [initiator EXCEPT ![s] = "broken"] /\ UNCHANGED floors
    BY <1>1, <2>1 DEF TypeOK, FloorsKept, Remembers
  <2>2. CASE /\ initiator' = [initiator EXCEPT ![s] = "proved"]
             /\ CommitsRecord(Initiator[s], target[s]) /\ CommitRecord(Initiator[s], target[s])
    BY <1>1, <1>2, <1>3, <2>2, Committed DEF FloorsKept
  <2>3. QED
    BY <1>2, <2>1, <2>2
<1>5. TypeOK'
  <2>1. \E x \in InitiatorStates : initiator' = [initiator EXCEPT ![s] = x]
    BY <1>1, <1>2, <1>4 DEF InitiatorStates
  <2>2. initiator' \in [Sessions -> InitiatorStates]
    BY <1>1, <1>2, <2>1, Moved
  <2>3. QED
    BY <1>1, <1>2, <1>4, <2>2 DEF TypeOK, recordVars, sessionVars, proofVars
<1>6. /\ \/ /\ initiator'[s] = "proved"
            /\ Remembers(floors'[Initiator[s]], Seen(target[s]))
         \/ initiator'[s] = "broken"
      /\ \A t \in Sessions \ {s} : Kept(t)
  BY <1>1, <1>2, <1>4 DEF TypeOK, Kept, sessionVars, proofVars
<1>7. FloorsFrom(s)
  BY <1>1, <1>2, <1>4
  DEF SessionOk, ProofsOk, FloorsFrom, Owner, Other, Roles, Remote, sessionVars, proofVars
<1>8. ProofsOk(s)' /\ CleansUp(s)'
  BY <1>1, <1>2, <1>6
  DEF SessionOk, ProofsOk, CleansUp, Faults, Roles, sessionVars, proofVars
<1>9. CommitsOk(s)'
  <2>1. Remembers(floors[Responder[s]], Seen(hello[s].sender))
    BY <1>1, <1>2 DEF SessionOk, CommitsOk
  <2>2. Seen(hello[s].sender) \in Observation /\ Responder[s] \in Devices
    BY <1>1, <1>3, HandshakeAssumption, SeenIsObservation DEF HelloOk, TypeOK
  <2>3. Remembers(floors'[Responder[s]], Seen(hello[s].sender))
    BY <1>4, <2>1, <2>2 DEF FloorsKept
  <2>4. QED
    BY <1>2, <1>6, <2>3 DEF CommitsOk, sessionVars
<1>10. QED
  BY <1>2, <1>3, <1>4, <1>5, <1>6, <1>7, <1>8, <1>9, SideStep
  DEF recordVars, proofVars

(* The initiator takes its proof back and has its Peer, or fails.           *)
LEMMA FinishDialStep ==
  ASSUME HInv, NEW s \in Sessions, FinishDial(s)
  PROVE  HInv'
<1>1. TypeOK /\ SessionOk(s)
  BY DEF HInv
<1>2. /\ UNCHANGED <<scenario, time, recordVars, responder, mail, sessionVars, floors>>
      /\ connection' \in {connection, [connection EXCEPT ![s] = "closed"]}
      /\ \/ initiator[s] = "proved" /\ initiator' = [initiator EXCEPT ![s] = "peer"]
         \/ initiator[s] = "broken" /\ initiator' = [initiator EXCEPT ![s] = "failed"]
      /\ \/ DeleteProof(s, "initiator")
         \/ "homeserver" \in Faults /\ UNCHANGED proofVars
  BY DEF FinishDial, InitiatorFails, Close
<1>3. /\ proofs' \subseteq Sessions \X Roles
      /\ UNCHANGED publishedAt
      /\ <<s, "responder">> \in proofs' <=> <<s, "responder">> \in proofs
      /\ \/ <<s, "initiator">> \notin proofs'
         \/ /\ "homeserver" \in Faults
            /\ <<s, "initiator">> \in proofs' <=> <<s, "initiator">> \in proofs
      /\ \A t \in Sessions \ {s} :
           \A q \in Roles : <<t, q>> \in proofs' <=> <<t, q>> \in proofs
  BY <1>1, <1>2, Deleted DEF Roles, proofVars, TypeOK
<1>4. TypeOK'
  <2>1. \E x \in InitiatorStates : initiator' = [initiator EXCEPT ![s] = x]
    BY <1>1, <1>2 DEF InitiatorStates
  <2>2. /\ initiator' \in [Sessions -> InitiatorStates]
        /\ connection' \in [Sessions -> {"none", "open", "closed"}]
    BY <1>1, <1>2, <2>1, Moved
  <2>3. QED
    BY <1>1, <1>2, <1>3, <2>2 DEF TypeOK, recordVars, sessionVars
<1>5. /\ \/ initiator[s] = "proved" /\ initiator'[s] = "peer"
         \/ initiator[s] = "broken" /\ initiator'[s] = "failed"
      /\ \A t \in Sessions \ {s} : Kept(t)
  BY <1>1, <1>2, <1>3 DEF TypeOK, Kept, sessionVars
<1>6. (Greeted(s)' => Greeted(s)) /\ (Answered(s)' => Answered(s))
  BY <1>2, <1>3, <1>5 DEF Greeted, Answered
<1>7. ProofsOk(s)' /\ CommitsOk(s)' /\ CleansUp(s)'
  BY <1>1, <1>2, <1>3, <1>5
  DEF SessionOk, ProofsOk, CommitsOk, CleansUp, Faults, Remembers, Roles, sessionVars
<1>8. FloorsKept /\ FloorsFrom(s)
  BY <1>2 DEF FloorsKept, FloorsFrom, Remembers
<1>9. QED
  BY <1>2, <1>3, <1>4, <1>5, <1>6, <1>7, <1>8, SideStep DEF recordVars

(* The initiator connects to a device of which it resolved a record.        *)
LEMMA ResolveStep ==
  ASSUME HInv, NEW s \in Sessions, NEW r \in signed, Resolve(s, r)
  PROVE  HInv'
<1>1. TypeOK /\ SessionOk(s)
  BY DEF HInv
<1>2. /\ UNCHANGED <<scenario, time, recordVars, responder, mail, hello, ack, proofVars>>
      /\ UNCHANGED floors
      /\ initiator[s] = "idle" /\ r.device = Responder[s]
      /\ initiator' = [initiator EXCEPT ![s] = "resolved"]
      /\ connection' = [connection EXCEPT ![s] = "open"]
      /\ target' = [target EXCEPT ![s] = r]
  BY DEF Resolve
<1>3. TypeOK'
  BY <1>1, <1>2 DEF TypeOK, InitiatorStates, recordVars, proofVars
<1>4. /\ initiator'[s] = "resolved" /\ target'[s] = r
      /\ \A t \in Sessions \ {s} : Kept(t)
  BY <1>1, <1>2 DEF TypeOK, Kept, proofVars
<1>5. Settled(s)
  BY <1>2 DEF Settled, proofVars
<1>6. SessionOk(s)'
  <2>1. ~Greeted(s)
    BY <1>1, <1>2 DEF SessionOk, HelloOk
  <2>2. ~Greeted(s)' /\ (Answered(s)' => Answered(s))
    BY <1>2, <1>4, <2>1 DEF Greeted, Answered, proofVars
  <2>3. ProofsOk(s)' /\ CommitsOk(s)' /\ CleansUp(s)'
    BY <1>1, <1>2, <1>4, <2>1
    DEF SessionOk, ProofsOk, CommitsOk, CleansUp, Faults, Remembers, Roles, Greeted,
        proofVars
  <2>4. QED
    BY <1>1, <1>2, <1>4, <2>2, <2>3 DEF SessionOk, AckOk, Now, recordVars
<1>7. QED
  BY <1>2, <1>3, <1>4, <1>5, <1>6, QuietStep DEF recordVars

(* A Hello that is sent was signed now, by the sender's device, over one of *)
(* its active records.                                                      *)
LEMMA SendHelloStep ==
  ASSUME HInv, NEW s \in Sessions, SendHello(s)
  PROVE  HInv'
<1>1. TypeOK /\ SessionOk(s)
  BY DEF HInv
<1>2. /\ UNCHANGED <<scenario, time, signed, responder, target, ack, proofVars, floors>>
      /\ initiator[s] = "resolved"
      /\ active' = [active EXCEPT ![Initiator[s]] = Unexpired(Initiator[s])]
  BY DEF SendHello
<1>3. /\ active' \in [Devices -> SUBSET signed']
      /\ \A d \in Devices : \A r \in active'[d] : r.device = d
  BY <1>1, <1>2, Pruned, HandshakeAssumption
<1>4. ~Greeted(s)
  BY <1>1, <1>2 DEF SessionOk, HelloOk
<1>5. CASE /\ initiator' = [initiator EXCEPT ![s] = "failed"]
           /\ connection' = [connection EXCEPT ![s] = "closed"]
           /\ UNCHANGED <<hello, mail>>
  <2>1. TypeOK'
    BY <1>1, <1>2, <1>3, <1>5 DEF TypeOK, InitiatorStates, proofVars
  <2>2. /\ initiator'[s] = "failed"
        /\ \A t \in Sessions \ {s} : UNCHANGED <<initiator[t], responder[t], mail[t]>>
    BY <1>1, <1>2, <1>5 DEF TypeOK
  <2>3. ~Greeted(s)' /\ (Answered(s)' => Answered(s))
    BY <1>2, <1>4, <1>5, <2>2 DEF Greeted, Answered, proofVars
  <2>4. ProofsOk(s)' /\ CommitsOk(s)' /\ CleansUp(s)'
    BY <1>1, <1>2, <1>5, <2>2
    DEF SessionOk, ProofsOk, CommitsOk, CleansUp, Faults, Remembers, Roles, proofVars
  <2>5. QED
    BY <1>2, <1>5, <2>1, <2>2, <2>3, <2>4, ControlStep DEF sessionVars
<1>6. CASE \E r \in SenderRecords(Initiator[s]) :
             /\ SignsHello(NewHello(s, r))
             /\ hello' = [hello EXCEPT ![s] = NewHello(s, r)]
             /\ Write(s, "hello")
             /\ initiator' = [initiator EXCEPT ![s] = "awaiting ack"]
             /\ UNCHANGED connection
  <2>1. PICK r \in SenderRecords(Initiator[s]) :
          /\ hello' = [hello EXCEPT ![s] = NewHello(s, r)]
          /\ Write(s, "hello")
          /\ initiator' = [initiator EXCEPT ![s] = "awaiting ack"]
          /\ UNCHANGED connection
    BY <1>6
  <2> DEFINE d == Initiator[s]
             h == NewHello(s, r)
  <2>2. /\ d \in Devices /\ r \in signed /\ r \in Record
        /\ target[s] \in signed /\ target[s] \in Record
    BY <1>1, <1>2, HandshakeAssumption
    DEF SenderRecords, Unexpired, TypeOK, SessionOk
  <2>3. r.device = d
    BY <1>1, <2>2 DEF SenderRecords, Unexpired, TypeOK
  <2>4. Now(d) \in Nat
    BY <1>1, <2>2, HandshakeAssumption DEF TypeOK, Scenario, Now
  <2>5. h \in Hello /\ h.sender = r /\ h.issued = Now(d) /\ h.expires <= Now(d) + HelloLifetime
    <3>1. /\ Certificate[r.device].expires \in Nat
          /\ Certificate[target[s].device].expires \in Nat
          /\ r.expires \in Nat /\ target[s].expires \in Nat
          /\ Now(d) + HelloLifetime \in Nat
      BY <2>2, <2>4, HandshakeAssumption DEF Record
    <3>2. /\ h.expires \in Nat
          /\ h.expires <= Now(d) + HelloLifetime
      BY <3>1, LeastOfFive DEF NewHello
    <3>3. h = [sender |-> r, target |-> target[s], issued |-> Now(d), expires |-> h.expires]
      BY DEF NewHello
    <3> HIDE DEF h
    <3>4. QED
      BY <2>2, <2>4, <3>2, <3>3 DEF Hello
  <2> HIDE DEF h
  <2>6. hello' = [hello EXCEPT ![s] = h]
    BY <2>1 DEF h
  <2>7. /\ mail' \in [Sessions -> SUBSET Messages]
        /\ mail'[s] \subseteq mail[s] \cup {"hello"}
        /\ \A t \in Sessions \ {s} : mail'[t] = mail[t]
    BY <1>1, <2>1, Written DEF Messages
  <2>8. TypeOK'
    <3>1. hello' \in [Sessions -> Hello \cup {Nothing}]
      BY <1>1, <2>5, <2>6 DEF TypeOK
    <3>2. initiator' \in [Sessions -> InitiatorStates]
      BY <1>1, <2>1 DEF TypeOK, InitiatorStates
    <3>3. QED
      BY <1>1, <1>2, <1>3, <2>1, <2>7, <3>1, <3>2 DEF TypeOK, proofVars
  <2>9. /\ initiator'[s] = "awaiting ack" /\ hello'[s] = h
        /\ \A t \in Sessions \ {s} : Kept(t)
    BY <1>1, <1>2, <2>1, <2>6, <2>7 DEF TypeOK, Kept, proofVars
  <2>10. Settled(s)
    BY <1>2 DEF Settled, proofVars
  <2>11. SessionOk(s)'
    <3>1. HelloOk(s)'
      <4>1. UNCHANGED <<time, scenario, signed>>
        BY <1>2
      <4>2. Now(d)' = Now(d)
        BY <4>1 DEF Now
      <4>3. h.issued <= Now(d) /\ h.expires <= h.issued + HelloLifetime
        BY <2>4, <2>5
      <4>4. QED
        BY <2>2, <2>3, <2>5, <2>9, <4>1, <4>2, <4>3 DEF HelloOk
    <3>2. Answered(s)' => AckOk(s)'
      BY <1>1, <1>2, <2>7, <2>9 DEF SessionOk, Answered, AckOk, Now, proofVars
    <3>3. ProofsOk(s)'
      BY <1>1, <1>2, <1>4, <2>9 DEF SessionOk, ProofsOk, Roles, Greeted, proofVars
    <3>4. CommitsOk(s)'
      BY <1>2, <1>4, <2>7, <2>9 DEF CommitsOk, Greeted
    <3>5. CleansUp(s)'
      BY <1>1, <1>2, <2>9 DEF SessionOk, CleansUp, Faults, proofVars
    <3>6. QED
      BY <1>1, <1>2, <2>9, <3>1, <3>2, <3>3, <3>4, <3>5 DEF SessionOk
  <2>12. QED
    BY <1>2, <2>8, <2>9, <2>10, <2>11, QuietStep
<1>7. QED
  BY <1>5, <1>6 DEF SendHello, InitiatorFails, Close

(* An abandoned dial closes the connection; the request or the update in    *)
(* flight has its effect, or not.                                           *)
LEMMA AbandonDialStep ==
  ASSUME HInv, NEW s \in Sessions, AbandonDial(s)
  PROVE  HInv'
<1>1. TypeOK /\ SessionOk(s)
  BY DEF HInv
<1>2. /\ UNCHANGED <<scenario, time, recordVars, responder, mail, sessionVars>>
      /\ "abandon" \in Faults
      /\ initiator[s] \notin {"idle", "peer", "failed"}
      /\ initiator' = [initiator EXCEPT ![s] = "failed"]
      /\ connection' = [connection EXCEPT ![s] = "closed"]
  BY DEF AbandonDial, InitiatorFails, Close
<1>3. /\ initiator' \in [Sessions -> InitiatorStates]
      /\ initiator'[s] = "failed"
      /\ connection' \in [Sessions -> {"none", "open", "closed"}]
      /\ \A t \in Sessions \ {s} : initiator'[t] = initiator[t]
  BY <1>1, <1>2 DEF TypeOK, InitiatorStates
<1>4. CleansUp(s)'
  BY <1>2 DEF CleansUp, Faults
<1>5. CASE UNCHANGED proofVars
  <2>1. /\ floors' \in [Devices -> SequenceStates] /\ FloorsKept
        /\ FloorsFrom(s)
    <3>1. CASE UNCHANGED floors
      BY <1>1, <3>1 DEF TypeOK, FloorsKept, FloorsFrom, Remembers
    <3>2. CASE /\ initiator[s] = "committing"
               /\ CommitsRecord(Initiator[s], target[s])
               /\ CommitRecord(Initiator[s], target[s])
      <4>1. /\ target[s] \in Record /\ target[s].device = Responder[s]
            /\ Initiator[s] \in Devices /\ publishedAt[s]["responder"] >= 0
        BY <1>1, <3>2, HandshakeAssumption DEF SessionOk, ProofsOk, TypeOK
      <4>2. /\ floors' \in [Devices -> SequenceStates] /\ FloorsKept
            /\ \A c, e \in Devices :
                 \/ floors'[c][e] = floors[c][e]
                 \/ /\ c = Initiator[s] /\ e = Responder[s]
                    /\ floors'[c][e] = Authenticated(target[s].sequence, target[s].digest)
        BY <1>1, <3>2, <4>1, Committed DEF FloorsKept, Remembers
      <4>3. UNCHANGED <<target, publishedAt>>
        BY <1>2, <1>5 DEF sessionVars, proofVars
      <4>4. FloorsFrom(s)
        BY <4>1, <4>2, <4>3 DEF FloorsFrom, Owner, Other, Roles, Remote
      <4>5. QED
        BY <4>2, <4>4
    <3>3. QED
      BY <1>2, <1>5, <3>1, <3>2 DEF AbandonDial, DeleteProof
  <2>2. TypeOK'
    BY <1>1, <1>2, <1>3, <1>5, <2>1 DEF TypeOK, recordVars, sessionVars, proofVars
  <2>3. \A t \in Sessions \ {s} : Kept(t)
    BY <1>2, <1>3, <1>5 DEF Kept, sessionVars, proofVars
  <2>4. (Greeted(s)' => Greeted(s)) /\ (Answered(s)' => Answered(s))
    BY <1>2, <1>3, <1>5 DEF Greeted, Answered, proofVars
  <2>5. ProofsOk(s)'
    BY <1>1, <1>2, <1>3, <1>5 DEF SessionOk, ProofsOk, sessionVars, proofVars
  <2>6. CommitsOk(s)'
    BY <1>1, <1>2, <1>3, <2>1, CommitsKept DEF sessionVars
  <2>7. QED
    BY <1>2, <1>3, <1>4, <1>5, <2>1, <2>2, <2>3, <2>4, <2>5, <2>6, SideStep
    DEF recordVars, proofVars
<1>6. CASE /\ UNCHANGED floors
           /\ \/ initiator[s] = "publishing" /\ PutProof(s, "initiator")
              \/ initiator[s] \in {"proved", "broken"} /\ DeleteProof(s, "initiator")
  <2>1. /\ proofs' \subseteq Sessions \X Roles
        /\ publishedAt' \in [Sessions -> [Roles -> Int]]
        /\ publishedAt'[s]["responder"] = publishedAt[s]["responder"]
        /\ <<s, "responder">> \in proofs' <=> <<s, "responder">> \in proofs
        /\ \/ initiator[s] = "publishing" /\ publishedAt'[s]["initiator"] = time
           \/ /\ publishedAt'[s]["initiator"] = publishedAt[s]["initiator"]
              /\ <<s, "initiator">> \notin proofs'
        /\ \A t \in Sessions \ {s} :
             /\ publishedAt'[t] = publishedAt[t]
             /\ \A q \in Roles : <<t, q>> \in proofs' <=> <<t, q>> \in proofs
    BY <1>1, <1>6, Put, Deleted DEF Roles, TypeOK
  <2>2. TypeOK'
    BY <1>1, <1>2, <1>3, <1>6, <2>1 DEF TypeOK, recordVars, sessionVars
  <2>3. \A t \in Sessions \ {s} : Kept(t)
    BY <1>2, <1>3, <2>1 DEF Kept, sessionVars
  <2>4. FloorsKept /\ FloorsFrom(s)
    BY <1>6 DEF FloorsKept, FloorsFrom, Remembers
  <2>5. time \in Nat
    BY <1>1, HandshakeAssumption DEF TypeOK, Scenario
  <2>6. (Greeted(s)' => Greeted(s)) /\ (Answered(s)' => Answered(s))
    BY <1>2, <1>3, <2>1 DEF Greeted, Answered, Roles
  <2>7. ProofsOk(s)'
    <3>1. ProofsOk(s) /\ (initiator[s] = "publishing" => AckOk(s))
      BY <1>1 DEF SessionOk, Answered
    <3>2. publishedAt'[s]["initiator"] >= 0 =>
            ack[s].issued <= publishedAt'[s]["initiator"] + scenario.skew[Responder[s]]
      BY <2>1, <2>5, <3>1 DEF ProofsOk, AckOk, Now
    <3>3. /\ <<s, "initiator">> \in proofs' => publishedAt'[s]["initiator"] >= 0
          /\ <<s, "responder">> \in proofs' => publishedAt'[s]["responder"] >= 0
      <4>1. <<s, "responder">> \in proofs => publishedAt[s]["responder"] >= 0
        BY <3>1 DEF ProofsOk, Roles
      <4>2. QED
        BY <2>1, <2>5, <4>1
    <3>4. publishedAt[s]["initiator"] >= 0 => publishedAt'[s]["initiator"] >= 0
      BY <2>1, <2>5
    <3>5. QED
      BY <1>2, <1>3, <2>1, <3>1, <3>2, <3>3, <3>4 DEF ProofsOk, Roles, sessionVars
  <2>8. CommitsOk(s)'
    BY <1>1, <1>2, <1>3, <2>4, CommitsKept DEF sessionVars
  <2>9. \A role \in Roles : publishedAt[s][role] >= 0 => publishedAt'[s][role] >= 0
    BY <2>1, <2>5 DEF Roles
  <2>10. QED
    BY <1>2, <1>3, <1>4, <2>2, <2>3, <2>4, <2>6, <2>7, <2>8, <2>9, SideStep
    DEF recordVars
<1>7. QED
  BY <1>5, <1>6 DEF AbandonDial, DeleteProof

(* The Ack is signed now, within the time that the Hello gives.             *)
LEMMA ConsentStep ==
  ASSUME HInv, NEW s \in Sessions, Consent(s)
  PROVE  HInv'
<1>1. TypeOK /\ SessionOk(s)
  BY DEF HInv
<1>2. /\ UNCHANGED <<scenario, time, recordVars, initiator, mail, target, hello, proofVars,
                    floors>>
      /\ responder[s] = "held"
  BY DEF Consent
<1>3. Greeted(s) /\ HelloOk(s) /\ ~Answered(s)
  BY <1>1, <1>2 DEF SessionOk, Greeted, AckOk
<1>4. CASE /\ responder' = [responder EXCEPT ![s] = "failed"]
           /\ connection' = [connection EXCEPT ![s] = "closed"]
           /\ UNCHANGED ack
  <2>1. TypeOK'
    BY <1>1, <1>2, <1>4 DEF TypeOK, ResponderStates, recordVars, proofVars
  <2>2. /\ responder'[s] = "failed"
        /\ \A t \in Sessions \ {s} : UNCHANGED <<initiator[t], responder[t], mail[t]>>
    BY <1>1, <1>2, <1>4 DEF TypeOK
  <2>3. Answered(s)' => Answered(s)
    BY <1>2, <2>2 DEF Answered, proofVars
  <2>4. ProofsOk(s)' /\ CommitsOk(s)' /\ CleansUp(s)'
    BY <1>1, <1>2, <1>4, <2>2
    DEF SessionOk, ProofsOk, CommitsOk, CleansUp, Faults, Remembers, Roles, proofVars
  <2>5. QED
    BY <1>2, <1>3, <1>4, <2>1, <2>2, <2>3, <2>4, ControlStep DEF recordVars, sessionVars
<1>5. CASE /\ ack' = [ack EXCEPT ![s] = NewAck(s)]
           /\ responder' = [responder EXCEPT ![s] = "publishing"]
           /\ UNCHANGED connection
  <2>1. Now(Responder[s]) \in Nat
    BY <1>1, HandshakeAssumption DEF TypeOK, Scenario, Now
  <2>2. NewAck(s) \in Window /\ NewAck(s).issued = Now(Responder[s])
    <3>1. hello[s].expires \in Nat /\ Now(Responder[s]) + CurrentnessLifetime \in Nat
      BY <1>3, <2>1, ValidityAssumption DEF HelloOk, Hello
    <3>2. QED
      BY <2>1, <3>1, LeastOfTwo DEF NewAck, Window
  <2>3. TypeOK'
    <3>1. ack' \in [Sessions -> Window \cup {Nothing}]
      BY <1>1, <1>5, <2>2 DEF TypeOK
    <3>2. responder' \in [Sessions -> ResponderStates]
      BY <1>1, <1>5 DEF TypeOK, ResponderStates
    <3>3. QED
      BY <1>1, <1>2, <1>5, <3>1, <3>2 DEF TypeOK, recordVars, proofVars
  <2>4. /\ responder'[s] = "publishing" /\ ack'[s] = NewAck(s)
        /\ \A t \in Sessions \ {s} : Kept(t)
    BY <1>1, <1>2, <1>5 DEF TypeOK, Kept, proofVars
  <2>5. Settled(s)
    BY <1>2 DEF Settled, proofVars
  <2>6. SessionOk(s)'
    <3>1. HelloOk(s)'
      BY <1>2, <1>3 DEF HelloOk, Now, recordVars
    <3>2. AckOk(s)'
      <4>1. Now(Responder[s])' = Now(Responder[s])
        BY <1>2 DEF Now
      <4>2. QED
        BY <2>1, <2>2, <2>4, <4>1 DEF AckOk
    <3>3. ProofsOk(s)'
      BY <1>1, <1>2, <1>3, <2>4 DEF SessionOk, ProofsOk, Answered, Roles, proofVars
    <3>4. CommitsOk(s)'
      BY <1>1, <1>2, <2>4 DEF SessionOk, CommitsOk, Remembers
    <3>5. CleansUp(s)'
      BY <1>1, <1>2, <2>4 DEF SessionOk, ProofsOk, CleansUp, Faults, proofVars
    <3>6. QED
      BY <1>1, <1>2, <2>4, <3>1, <3>2, <3>3, <3>4, <3>5 DEF SessionOk, recordVars
  <2>7. QED
    BY <1>2, <2>3, <2>4, <2>5, <2>6, QuietStep DEF recordVars
<1>6. QED
  BY <1>4, <1>5 DEF Consent, ResponderFails, Close

(* The responder publishes a proof within the window of its Ack, or fails.  *)
LEMMA PublishResponderProofStep ==
  ASSUME HInv, NEW s \in Sessions, PublishResponderProof(s)
  PROVE  HInv'
<1>1. TypeOK /\ SessionOk(s)
  BY DEF HInv
<1>2. /\ UNCHANGED <<scenario, time, recordVars, initiator, mail, sessionVars, floors>>
      /\ responder[s] = "publishing"
      /\ connection' \in {connection, [connection EXCEPT ![s] = "closed"]}
      /\ PutProof(s, "responder") \/ UNCHANGED proofVars
      /\ \/ /\ responder' = [responder EXCEPT ![s] = "acking"]
            /\ PutProof(s, "responder")
         \/ /\ responder' = [responder EXCEPT ![s] = "failed"]
            /\ "homeserver" \in Faults
  BY DEF PublishResponderProof, ResponderFails, Close
<1>3. /\ proofs' \subseteq Sessions \X Roles
      /\ publishedAt' \in [Sessions -> [Roles -> Int]]
      /\ publishedAt'[s]["initiator"] = publishedAt[s]["initiator"]
      /\ <<s, "initiator">> \in proofs' <=> <<s, "initiator">> \in proofs
      /\ \/ publishedAt'[s]["responder"] = time
         \/ /\ publishedAt'[s]["responder"] = publishedAt[s]["responder"]
            /\ <<s, "responder">> \in proofs' <=> <<s, "responder">> \in proofs
            /\ responder' = [responder EXCEPT ![s] = "failed"]
      /\ \A t \in Sessions \ {s} :
           /\ publishedAt'[t] = publishedAt[t]
           /\ \A q \in Roles : <<t, q>> \in proofs' <=> <<t, q>> \in proofs
  BY <1>1, <1>2, Put DEF Roles, proofVars, TypeOK
<1>4. TypeOK'
  <2>1. \E x \in ResponderStates : responder' = [responder EXCEPT ![s] = x]
    BY <1>1, <1>2 DEF ResponderStates
  <2>2. /\ responder' \in [Sessions -> ResponderStates]
        /\ connection' \in [Sessions -> {"none", "open", "closed"}]
    BY <1>1, <1>2, <2>1, Moved
  <2>3. QED
    BY <1>1, <1>2, <1>3, <2>2 DEF TypeOK, recordVars, sessionVars
<1>5. /\ \/ responder'[s] = "acking"
         \/ responder'[s] = "failed" /\ "homeserver" \in Faults
      /\ \A t \in Sessions \ {s} : Kept(t)
  BY <1>1, <1>2, <1>3 DEF TypeOK, Kept, sessionVars
<1>6. /\ Greeted(s) /\ Answered(s) /\ HelloOk(s) /\ AckOk(s)
      /\ time \in Nat
  BY <1>1, <1>2, HandshakeAssumption DEF Greeted, Answered, SessionOk, TypeOK, Scenario
<1>7. ProofsOk(s)'
  <2>1. publishedAt'[s]["responder"] >= 0 =>
          hello[s].issued <= publishedAt'[s]["responder"] + scenario.skew[Initiator[s]]
    BY <1>1, <1>3, <1>6 DEF SessionOk, ProofsOk, HelloOk, Now
  <2>2. \A role \in Roles : <<s, role>> \in proofs' => publishedAt'[s][role] >= 0
    <3>1. /\ <<s, "responder">> \in proofs => publishedAt[s]["responder"] >= 0
          /\ <<s, "initiator">> \in proofs => publishedAt[s]["initiator"] >= 0
      BY <1>1 DEF SessionOk, ProofsOk, Roles
    <3>2. QED
      BY <1>3, <1>6, <3>1 DEF Roles
  <2>3. publishedAt'[s]["initiator"] >= 0 =>
          ack[s].issued <= publishedAt'[s]["initiator"] + scenario.skew[Responder[s]]
    BY <1>1, <1>3 DEF SessionOk, ProofsOk
  <2>4. responder'[s] \notin {"committing", "confirming", "proved", "peer"}
    BY <1>5
  <2>5. initiator[s] \in {"awaiting confirmation", "committing", "proved", "peer"} =>
          publishedAt'[s]["responder"] >= 0
    <3>1. initiator[s] \in {"awaiting confirmation", "committing", "proved", "peer"} =>
            publishedAt[s]["responder"] >= 0
      BY <1>1 DEF SessionOk, ProofsOk
    <3>2. publishedAt[s]["responder"] >= 0 => publishedAt'[s]["responder"] >= 0
      BY <1>3, <1>6
    <3>3. QED
      BY <3>1, <3>2
  <2>6. UNCHANGED <<scenario, initiator, hello, ack>>
    BY <1>2 DEF sessionVars
  <2>7. QED
    BY <2>1, <2>2, <2>3, <2>4, <2>5, <2>6 DEF ProofsOk
<1>8. CommitsOk(s)' /\ CleansUp(s)'
  BY <1>1, <1>2, <1>3, <1>5
  DEF SessionOk, CommitsOk, CleansUp, Faults, Remembers, sessionVars
<1>9. FloorsKept /\ FloorsFrom(s)
  BY <1>2 DEF FloorsKept, FloorsFrom, Remembers
<1>10. \A role \in Roles : publishedAt[s][role] >= 0 => publishedAt'[s][role] >= 0
  BY <1>3, <1>6 DEF Roles
<1>11. QED
  BY <1>2, <1>4, <1>5, <1>6, <1>7, <1>8, <1>9, <1>10, SideStep
  DEF recordVars

(* The responder commits the record of the Hello, or ends the exchange.     *)
LEMMA CommitSenderStep ==
  ASSUME HInv, NEW s \in Sessions, CommitSender(s)
  PROVE  HInv'
<1>1. TypeOK /\ SessionOk(s)
  BY DEF HInv
<1>2. /\ UNCHANGED <<scenario, time, recordVars, initiator, connection, mail, sessionVars,
                    proofVars>>
      /\ responder[s] = "committing"
      /\ \/ /\ responder' = [responder EXCEPT ![s] = "confirming"]
            /\ CommitsRecord(Responder[s], hello[s].sender)
            /\ CommitRecord(Responder[s], hello[s].sender)
         \/ /\ responder' = [responder EXCEPT ![s] = "broken"]
            /\ UNCHANGED floors
  BY DEF CommitSender
<1>3. /\ Greeted(s) /\ Answered(s) /\ HelloOk(s)
      /\ hello[s].sender \in Record /\ hello[s].sender.device = Initiator[s]
      /\ Responder[s] \in Devices
  BY <1>1, <1>2, HandshakeAssumption DEF Greeted, Answered, HelloOk, SessionOk, TypeOK
<1>4. /\ floors' \in [Devices -> SequenceStates] /\ FloorsKept
      /\ \A c, e \in Devices :
           \/ floors'[c][e] = floors[c][e]
           \/ /\ c = Responder[s] /\ e = Initiator[s]
              /\ floors'[c][e] =
                     Authenticated(hello[s].sender.sequence, hello[s].sender.digest)
      /\ \/ /\ responder' = [responder EXCEPT ![s] = "confirming"]
            /\ Remembers(floors'[Responder[s]], Seen(hello[s].sender))
         \/ responder' = [responder EXCEPT ![s] = "broken"]
  <2>1. CASE responder' = [responder EXCEPT ![s] = "broken"] /\ UNCHANGED floors
    BY <1>1, <2>1 DEF TypeOK, FloorsKept, Remembers
  <2>2. CASE /\ responder' = [responder EXCEPT ![s] = "confirming"]
             /\ CommitsRecord(Responder[s], hello[s].sender) /\ CommitRecord(Responder[s], hello[s].sender)
    BY <1>1, <1>2, <1>3, <2>2, Committed DEF FloorsKept
  <2>3. QED
    BY <1>2, <2>1, <2>2
<1>5. TypeOK'
  <2>1. \E x \in ResponderStates : responder' = [responder EXCEPT ![s] = x]
    BY <1>1, <1>2, <1>4 DEF ResponderStates
  <2>2. responder' \in [Sessions -> ResponderStates]
    BY <1>1, <1>2, <2>1, Moved
  <2>3. QED
    BY <1>1, <1>2, <1>4, <2>2 DEF TypeOK, recordVars, sessionVars, proofVars
<1>6. /\ \/ /\ responder'[s] = "confirming"
            /\ Remembers(floors'[Responder[s]], Seen(hello[s].sender))
         \/ responder'[s] = "broken"
      /\ \A t \in Sessions \ {s} : Kept(t)
  BY <1>1, <1>2, <1>4 DEF TypeOK, Kept, sessionVars, proofVars
<1>7. FloorsFrom(s)
  BY <1>1, <1>2, <1>4
  DEF SessionOk, ProofsOk, FloorsFrom, Owner, Other, Roles, Remote, sessionVars, proofVars
<1>8. ProofsOk(s)' /\ CleansUp(s)'
  BY <1>1, <1>2, <1>6
  DEF SessionOk, ProofsOk, CleansUp, Faults, Roles, sessionVars, proofVars
<1>9. CommitsOk(s)'
  <2>1. initiator[s] \in {"proved", "peer"} =>
          Remembers(floors'[Initiator[s]], Seen(target[s]))
    <3>1. SUFFICES ASSUME initiator[s] \in {"proved", "peer"}
                   PROVE  Remembers(floors'[Initiator[s]], Seen(target[s]))
      OBVIOUS
    <3>2. Remembers(floors[Initiator[s]], Seen(target[s]))
      BY <1>1, <3>1 DEF SessionOk, CommitsOk
    <3>3. target[s] \in Record /\ Initiator[s] \in Devices
      BY <1>1, <3>1, HandshakeAssumption DEF SessionOk, TypeOK
    <3>4. QED
      BY <1>4, <3>2, <3>3, SeenIsObservation DEF FloorsKept
  <2>2. \/ "confirmed" \in mail[s]
        \/ initiator[s] \in {"committing", "proved", "peer"}
        => Remembers(floors'[Responder[s]], Seen(hello[s].sender))
    <3>1. SUFFICES ASSUME \/ "confirmed" \in mail[s]
                          \/ initiator[s] \in {"committing", "proved", "peer"}
                   PROVE  Remembers(floors'[Responder[s]], Seen(hello[s].sender))
      OBVIOUS
    <3>2. Remembers(floors[Responder[s]], Seen(hello[s].sender))
      BY <1>1, <3>1 DEF SessionOk, CommitsOk
    <3>3. QED
      BY <1>3, <1>4, <3>2, SeenIsObservation DEF FloorsKept
  <2>3. QED
    BY <1>2, <1>6, <2>1, <2>2 DEF CommitsOk, sessionVars
<1>10. QED
  BY <1>2, <1>3, <1>4, <1>5, <1>6, <1>7, <1>8, <1>9, SideStep
  DEF recordVars, proofVars

(* The responder takes its proof back and has its Peer, or fails.           *)
LEMMA FinishAcceptStep ==
  ASSUME HInv, NEW s \in Sessions, FinishAccept(s)
  PROVE  HInv'
<1>1. TypeOK /\ SessionOk(s)
  BY DEF HInv
<1>2. /\ UNCHANGED <<scenario, time, recordVars, initiator, mail, sessionVars, floors>>
      /\ connection' \in {connection, [connection EXCEPT ![s] = "closed"]}
      /\ \/ responder[s] = "proved" /\ responder' = [responder EXCEPT ![s] = "peer"]
         \/ responder[s] = "broken" /\ responder' = [responder EXCEPT ![s] = "failed"]
      /\ \/ DeleteProof(s, "responder")
         \/ "homeserver" \in Faults /\ UNCHANGED proofVars
  BY DEF FinishAccept, ResponderFails, Close
<1>3. /\ proofs' \subseteq Sessions \X Roles
      /\ UNCHANGED publishedAt
      /\ <<s, "initiator">> \in proofs' <=> <<s, "initiator">> \in proofs
      /\ \/ <<s, "responder">> \notin proofs'
         \/ /\ "homeserver" \in Faults
            /\ <<s, "responder">> \in proofs' <=> <<s, "responder">> \in proofs
      /\ \A t \in Sessions \ {s} :
           \A q \in Roles : <<t, q>> \in proofs' <=> <<t, q>> \in proofs
  BY <1>1, <1>2, Deleted DEF Roles, proofVars, TypeOK
<1>4. TypeOK'
  BY <1>1, <1>2, <1>3 DEF TypeOK, ResponderStates, recordVars, sessionVars
<1>5. /\ \/ responder[s] = "proved" /\ responder'[s] = "peer"
         \/ responder[s] = "broken" /\ responder'[s] = "failed"
      /\ \A t \in Sessions \ {s} : Kept(t)
  BY <1>1, <1>2, <1>3 DEF TypeOK, Kept, sessionVars
<1>6. (Greeted(s)' => Greeted(s)) /\ (Answered(s)' => Answered(s))
  BY <1>2, <1>3, <1>5 DEF Greeted, Answered
<1>7. ProofsOk(s)' /\ CommitsOk(s)' /\ CleansUp(s)'
  BY <1>1, <1>2, <1>3, <1>5
  DEF SessionOk, ProofsOk, CommitsOk, CleansUp, Faults, Remembers, Roles, sessionVars
<1>8. FloorsKept /\ FloorsFrom(s)
  BY <1>2 DEF FloorsKept, FloorsFrom, Remembers
<1>9. QED
  BY <1>2, <1>3, <1>4, <1>5, <1>6, <1>7, <1>8, SideStep DEF recordVars

(* An abandoned acceptance closes the connection; the request or the       *)
(* update in flight has its effect, or not.                                 *)
LEMMA AbandonAcceptStep ==
  ASSUME HInv, NEW s \in Sessions, AbandonAccept(s)
  PROVE  HInv'
<1>1. TypeOK /\ SessionOk(s)
  BY DEF HInv
<1>2. /\ UNCHANGED <<scenario, time, recordVars, initiator, mail, sessionVars>>
      /\ "abandon" \in Faults
      /\ responder[s] \notin {"idle", "peer", "failed"}
      /\ responder' = [responder EXCEPT ![s] = "failed"]
      /\ connection' = [connection EXCEPT ![s] = "closed"]
  BY DEF AbandonAccept, ResponderFails, Close
<1>3. /\ responder' \in [Sessions -> ResponderStates]
      /\ responder'[s] = "failed"
      /\ connection' \in [Sessions -> {"none", "open", "closed"}]
      /\ \A t \in Sessions \ {s} : responder'[t] = responder[t]
  BY <1>1, <1>2 DEF TypeOK, ResponderStates
<1>4. CleansUp(s)'
  BY <1>2 DEF CleansUp, Faults
<1>5. CASE UNCHANGED proofVars
  <2>1. /\ floors' \in [Devices -> SequenceStates] /\ FloorsKept
        /\ FloorsFrom(s)
    <3>1. CASE UNCHANGED floors
      BY <1>1, <3>1 DEF TypeOK, FloorsKept, FloorsFrom, Remembers
    <3>2. CASE /\ responder[s] = "committing"
               /\ CommitsRecord(Responder[s], hello[s].sender)
               /\ CommitRecord(Responder[s], hello[s].sender)
      <4>1. /\ hello[s].sender \in Record /\ hello[s].sender.device = Initiator[s]
            /\ Responder[s] \in Devices /\ publishedAt[s]["initiator"] >= 0
        BY <1>1, <3>2, HandshakeAssumption
        DEF SessionOk, Greeted, HelloOk, ProofsOk, TypeOK
      <4>2. /\ floors' \in [Devices -> SequenceStates] /\ FloorsKept
            /\ \A c, e \in Devices :
                 \/ floors'[c][e] = floors[c][e]
                 \/ /\ c = Responder[s] /\ e = Initiator[s]
                    /\ floors'[c][e] =
                           Authenticated(hello[s].sender.sequence, hello[s].sender.digest)
        BY <1>1, <3>2, <4>1, Committed DEF FloorsKept, Remembers
      <4>3. UNCHANGED <<hello, publishedAt>>
        BY <1>2, <1>5 DEF sessionVars, proofVars
      <4>4. FloorsFrom(s)
        BY <4>1, <4>2, <4>3 DEF FloorsFrom, Owner, Other, Roles, Remote
      <4>5. QED
        BY <4>2, <4>4
    <3>3. QED
      BY <1>2, <1>5, <3>1, <3>2 DEF AbandonAccept, DeleteProof
  <2>2. TypeOK'
    BY <1>1, <1>2, <1>3, <1>5, <2>1 DEF TypeOK, recordVars, sessionVars, proofVars
  <2>3. \A t \in Sessions \ {s} : Kept(t)
    BY <1>2, <1>3, <1>5 DEF Kept, sessionVars, proofVars
  <2>4. (Greeted(s)' => Greeted(s)) /\ (Answered(s)' => Answered(s))
    BY <1>2, <1>3, <1>5 DEF Greeted, Answered, proofVars
  <2>5. ProofsOk(s)'
    BY <1>1, <1>2, <1>3, <1>5 DEF SessionOk, ProofsOk, sessionVars, proofVars
  <2>6. CommitsOk(s)'
    BY <1>1, <1>2, <1>3, <2>1, CommitsKept DEF sessionVars
  <2>7. QED
    BY <1>2, <1>3, <1>4, <1>5, <2>1, <2>2, <2>3, <2>4, <2>5, <2>6, SideStep
    DEF recordVars, proofVars
<1>6. CASE /\ UNCHANGED floors
           /\ \/ responder[s] = "publishing" /\ PutProof(s, "responder")
              \/ responder[s] \in {"proved", "broken"} /\ DeleteProof(s, "responder")
  <2>1. /\ proofs' \subseteq Sessions \X Roles
        /\ publishedAt' \in [Sessions -> [Roles -> Int]]
        /\ publishedAt'[s]["initiator"] = publishedAt[s]["initiator"]
        /\ <<s, "initiator">> \in proofs' <=> <<s, "initiator">> \in proofs
        /\ \/ responder[s] = "publishing" /\ publishedAt'[s]["responder"] = time
           \/ /\ publishedAt'[s]["responder"] = publishedAt[s]["responder"]
              /\ <<s, "responder">> \notin proofs'
        /\ \A t \in Sessions \ {s} :
             /\ publishedAt'[t] = publishedAt[t]
             /\ \A q \in Roles : <<t, q>> \in proofs' <=> <<t, q>> \in proofs
    BY <1>1, <1>6, Put, Deleted DEF Roles, TypeOK
  <2>2. TypeOK'
    BY <1>1, <1>2, <1>3, <1>6, <2>1 DEF TypeOK, recordVars, sessionVars
  <2>3. \A t \in Sessions \ {s} : Kept(t)
    BY <1>2, <1>3, <2>1 DEF Kept, sessionVars
  <2>4. FloorsKept /\ FloorsFrom(s)
    BY <1>6 DEF FloorsKept, FloorsFrom, Remembers
  <2>5. time \in Nat
    BY <1>1, HandshakeAssumption DEF TypeOK, Scenario
  <2>6. (Greeted(s)' => Greeted(s)) /\ (Answered(s)' => Answered(s))
    BY <1>2, <1>3, <2>1 DEF Greeted, Answered, Roles
  <2>7. ProofsOk(s)'
    <3>1. ProofsOk(s) /\ (responder[s] = "publishing" => HelloOk(s))
      BY <1>1 DEF SessionOk, Greeted
    <3>2. publishedAt'[s]["responder"] >= 0 =>
            hello[s].issued <= publishedAt'[s]["responder"] + scenario.skew[Initiator[s]]
      BY <2>1, <2>5, <3>1 DEF ProofsOk, HelloOk, Now
    <3>3. /\ <<s, "responder">> \in proofs' => publishedAt'[s]["responder"] >= 0
          /\ <<s, "initiator">> \in proofs' => publishedAt'[s]["initiator"] >= 0
      <4>1. <<s, "initiator">> \in proofs => publishedAt[s]["initiator"] >= 0
        BY <3>1 DEF ProofsOk, Roles
      <4>2. QED
        BY <2>1, <2>5, <4>1
    <3>4. publishedAt[s]["responder"] >= 0 => publishedAt'[s]["responder"] >= 0
      BY <2>1, <2>5
    <3>5. QED
      BY <1>2, <1>3, <2>1, <3>1, <3>2, <3>3, <3>4 DEF ProofsOk, Roles, sessionVars
  <2>8. CommitsOk(s)'
    BY <1>1, <1>2, <1>3, <2>4, CommitsKept DEF sessionVars
  <2>9. \A role \in Roles : publishedAt[s][role] >= 0 => publishedAt'[s][role] >= 0
    BY <2>1, <2>5 DEF Roles
  <2>10. QED
    BY <1>2, <1>3, <1>4, <2>2, <2>3, <2>4, <2>6, <2>7, <2>8, <2>9, SideStep
    DEF recordVars
<1>7. QED
  BY <1>5, <1>6 DEF AbandonAccept, DeleteProof

-----------------------------------------------------------------------------
(* The steps of neither side.                                               *)

(* A connection that is lost changes nothing that was signed or stored.     *)
LEMMA LoseConnectionStep ==
  ASSUME HInv, NEW s \in Sessions, LoseConnection(s)
  PROVE  HInv'
<1>1. TypeOK /\ SessionOk(s)
  BY DEF HInv
<1>2. /\ UNCHANGED <<scenario, time, recordVars, initiator, responder, mail, sessionVars,
                    proofVars, floors>>
      /\ connection' = [connection EXCEPT ![s] = "closed"]
  BY DEF LoseConnection, Close
<1>3. TypeOK'
  BY <1>1, <1>2 DEF TypeOK, recordVars, sessionVars, proofVars
<1>4. (Greeted(s)' => Greeted(s)) /\ (Answered(s)' => Answered(s))
  BY <1>2 DEF Greeted, Answered, proofVars
<1>5. SessionOk(s) /\ UNCHANGED <<initiator, responder, mail, target, hello, ack, proofs,
                                   publishedAt, scenario, floors>>
  BY <1>1, <1>2 DEF sessionVars, proofVars
<1>6. ProofsOk(s)'
  BY <1>5 DEF SessionOk, ProofsOk
<1>7. CommitsOk(s)'
  BY <1>5 DEF SessionOk, CommitsOk, Remembers, Seen
<1>8. CleansUp(s)'
  BY <1>5 DEF SessionOk, CleansUp, Faults
<1>9. QED
  BY <1>2, <1>3, <1>4, <1>6, <1>7, <1>8, ControlStep DEF recordVars

(* What was signed by now is still so a second later.                       *)
LEMMA TickStep ==
  ASSUME HInv, Tick
  PROVE  HInv'
<1>1. TypeOK /\ scenario \in Scenario
  BY HandshakeAssumption DEF HInv, TypeOK
<1>2. /\ UNCHANGED <<scenario, active, signed, initiator, responder, connection, mail, target,
                     hello, ack, proofs, publishedAt, floors>>
      /\ time' = time + 1 /\ time < scenario.maxTime
  BY DEF Tick, recordVars, sideVars, sessionVars, proofVars
<1>3. time \in 0..scenario.maxTime /\ scenario.maxTime \in Nat
  BY <1>1 DEF TypeOK, Scenario
<1>4. TypeOK'
  BY <1>1, <1>2, <1>3 DEF TypeOK
<1>5. Onward
  BY <1>2, <1>3 DEF Onward
<1>6. FloorsKept
  BY <1>2 DEF FloorsKept, Remembers
<1>7. \A t \in Sessions : Kept(t)
  BY <1>2 DEF Kept
<1>8. \A t \in Sessions : SessionOk(t)'
  BY <1>1, <1>4, <1>5, <1>6, <1>7, KeptSession DEF HInv
<1>9. SignedOnce' /\ FloorsComeFromLiveDevices'
  BY <1>2 DEF HInv, SignedOnce, FloorsComeFromLiveDevices, Remote
<1>10. QED
  BY <1>4, <1>8, <1>9 DEF HInv

(* A device signs a record that is unlike all that it signed before.        *)
LEMMA CurrentRecordStep ==
  ASSUME HInv, NEW l \in scenario.locators, CurrentRecord(l)
  PROVE  HInv'
<1> DEFINE d == l.device
           r == [device |-> d, sequence |-> l.sequence, digest |-> l.digest,
                 issued |-> Now(d), expires |-> Now(d) + RecordLifetime]
<1>1. TypeOK /\ scenario \in Scenario
  BY HandshakeAssumption DEF HInv, TypeOK
<1>2. /\ d \in Devices /\ l.sequence \in 0..MaxCounter /\ l.digest \in Digests
      /\ Now(d) \in Nat /\ Now(d) + RecordLifetime \in Nat
  BY <1>1, HandshakeAssumption, ValidityAssumption DEF TypeOK, Scenario, Now
<1>3. /\ \A q \in signed : <<q.device, q.sequence, q.digest>>
                             # <<d, l.sequence, l.digest>>
      /\ SignsLocator(r)
      /\ \E gone \in Evicted(Unexpired(d)) :
           active' = [active EXCEPT ![d] = (Unexpired(d) \ gone) \cup {r}]
      /\ signed' = signed \cup {r}
      /\ UNCHANGED <<scenario, time, initiator, responder, connection, mail,
                     target, hello, ack,
                     proofs, publishedAt, floors>>
  BY DEF CurrentRecord, sideVars, sessionVars, proofVars
<1>4. r \in Record
  <2>1. r.sequence > 0
    BY <1>3 DEF SignsLocator, LocatorVerifies
  <2>2. l.sequence \in 1..MaxCounter
    BY <1>2, <2>1, SequenceAssumption
  <2>3. QED
    BY <1>2, <2>2 DEF Record
<1>5. r.device = d /\ Seen(r) = [key |-> d, counter |-> l.sequence, digest |-> l.digest]
  BY DEF Seen
<1> HIDE DEF r
<1>6. TypeOK'
  <2>1. PICK gone \in Evicted(Unexpired(d)) :
          active' = [active EXCEPT ![d] = (Unexpired(d) \ gone) \cup {r}]
    BY <1>3
  <2>2. Unexpired(d) \subseteq active[d]
    BY DEF Unexpired
  <2>3. /\ active' \in [Devices -> SUBSET signed']
        /\ \A e \in Devices : \A q \in active'[e] : q.device = e
    BY <1>1, <1>2, <1>3, <1>5, <2>1, <2>2 DEF TypeOK
  <2>4. signed' \subseteq Record
    BY <1>1, <1>3, <1>4 DEF TypeOK
  <2>5. QED
    BY <1>1, <1>3, <2>3, <2>4 DEF TypeOK
<1>7. Onward
  BY <1>1, <1>3 DEF Onward, TypeOK, Scenario
<1>8. FloorsKept
  BY <1>3 DEF FloorsKept, Remembers
<1>9. \A t \in Sessions : Kept(t)
  BY <1>3 DEF Kept
<1>10. \A t \in Sessions : SessionOk(t)'
  BY <1>1, <1>6, <1>7, <1>8, <1>9, KeptSession DEF HInv
<1>11. SignedOnce'
  <2>1. \A q \in signed : Seen(q) # Seen(r)
    BY <1>3, <1>5 DEF Seen
  <2>2. QED
    BY <1>3, <2>1 DEF HInv, SignedOnce
<1>12. FloorsComeFromLiveDevices'
  BY <1>3 DEF HInv, FloorsComeFromLiveDevices, Remote
<1>13. QED
  BY <1>6, <1>10, <1>11, <1>12 DEF HInv

-----------------------------------------------------------------------------
(* The invariant.                                                           *)

(* Nothing is signed, published or remembered at first.                     *)
LEMMA Start == Init => HInv
<1> SUFFICES ASSUME Init PROVE HInv
  OBVIOUS
<1> USE DEF Init
<1>1. scenario \in Scenario
  BY HandshakeAssumption
<1>2. TypeOK
  <2>1. EmptyState \in SequenceStates
    BY DEF EmptyState, SequenceStates
  <2>2. time \in 0..scenario.maxTime
    BY <1>1 DEF Scenario
  <2>3. QED
    BY <2>1, <2>2 DEF TypeOK, InitiatorStates, ResponderStates, Roles
<1>3. SignedOnce
  BY DEF SignedOnce
<1>4. ASSUME NEW s \in Sessions
      PROVE  SessionOk(s)
  BY DEF SessionOk, Greeted, Answered, ProofsOk, CommitsOk, CleansUp, Roles
<1>5. FloorsComeFromLiveDevices
  BY DEF FloorsComeFromLiveDevices, EmptyState, Devices, Keys
<1>6. QED
  BY <1>2, <1>3, <1>4, <1>5 DEF HInv

(* No step that leaves every variable as it is disturbs anything.           *)
LEMMA Stutter ==
  ASSUME HInv, UNCHANGED vars
  PROVE  HInv'
<1> USE DEF vars
<1>1. TypeOK'
  BY DEF HInv, TypeOK
<1>2. Onward
  BY HandshakeAssumption DEF HInv, TypeOK, Scenario, Onward
<1>3. FloorsKept
  BY DEF FloorsKept, Remembers
<1>4. \A t \in Sessions : Kept(t)
  BY DEF Kept
<1>5. \A t \in Sessions : SessionOk(t)'
  BY <1>1, <1>2, <1>3, <1>4, KeptSession DEF HInv
<1>6. SignedOnce' /\ FloorsComeFromLiveDevices'
  BY DEF HInv, SignedOnce, FloorsComeFromLiveDevices, Remote
<1>7. QED
  BY <1>1, <1>5, <1>6 DEF HInv

(* Every step keeps HInv.                                                   *)
LEMMA Step ==
  ASSUME HInv, [Next]_vars
  PROVE  HInv'
<1>1. ASSUME NEW l \in scenario.locators, CurrentRecord(l)
      PROVE  HInv'
  BY <1>1, CurrentRecordStep
<1>2. ASSUME NEW s \in scenario.sessions, NEW r \in signed, Resolve(s, r)
      PROVE  HInv'
  <2>1. s \in Sessions
    BY HandshakeAssumption DEF HInv, TypeOK, Scenario
  <2>2. QED
    BY <1>2, <2>1, ResolveStep
<1>3. ASSUME NEW s \in Sessions, InitiatorStep(s)
      PROVE  HInv'
  BY <1>3, SendHelloStep, ReadAckStep, PublishInitiatorProofStep, FetchResponderProofStep,
     ReadConfirmedStep, CommitTargetStep, FinishDialStep, InitiatorDisconnectedStep
  DEF InitiatorStep
<1>4. ASSUME NEW s \in Sessions, ResponderStep(s)
      PROVE  HInv'
  BY <1>4, ReceiveHelloStep, ConsentStep, PublishResponderProofStep, SendAckStep,
     ReadReadyStep, FetchInitiatorProofStep, CommitSenderStep, SendConfirmedStep,
     FinishAcceptStep, ResponderDisconnectedStep
  DEF ResponderStep
<1>5. ASSUME NEW s \in Sessions,
             AbandonDial(s) \/ AbandonAccept(s) \/ RejectHello(s) \/ LoseConnection(s)
      PROVE  HInv'
  BY <1>5, AbandonDialStep, AbandonAcceptStep, RejectHelloStep, LoseConnectionStep
<1>6. CASE Tick
  BY <1>6, TickStep
<1>7. CASE UNCHANGED vars
  BY <1>7, Stutter
<1>8. QED
  BY <1>1, <1>2, <1>3, <1>4, <1>5, <1>6, <1>7 DEF Next

(* The invariant holds throughout.                                          *)
THEOREM HandshakeInvariance == Spec => []HInv
<1>1. HInv /\ [Next]_vars => HInv'
  BY Step
<1>2. QED
  BY Start, <1>1, PTL DEF Spec

(* Type correctness of the exchange; among the rest, a device keeps records *)
(* of its own only (current_record), and a floor never leaves u64.          *)
THEOREM HandshakeTypeCorrectness == Spec => []TypeOK
<1>1. HInv => TypeOK
  BY DEF HInv
<1>2. QED
  BY HandshakeInvariance, <1>1, PTL

(* The confirmation barrier of finish_outbound_handshake and                *)
(* accept_pending: whoever has a Peer has committed the other's record, and *)
(* the initiator has it only after the responder committed as well.         *)
THEOREM PeersHaveFloors == Spec => []PeerImpliesFloors
<1>1. ASSUME HInv
      PROVE  PeerImpliesFloors
  <2> SUFFICES ASSUME NEW s \in Sessions
               PROVE  /\ initiator[s] = "peer" =>
                           /\ floors[Initiator[s]][Responder[s]].counter >= target[s].sequence
                           /\ floors[Responder[s]][Initiator[s]].counter
                                >= hello[s].sender.sequence
                      /\ responder[s] = "peer" =>
                           floors[Responder[s]][Initiator[s]].counter
                             >= hello[s].sender.sequence
    BY DEF PeerImpliesFloors
  <2>1. SessionOk(s)
    BY <1>1 DEF HInv
  <2>2. ASSUME initiator[s] = "peer"
        PROVE  floors[Initiator[s]][Responder[s]].counter >= target[s].sequence
    BY <2>1, <2>2 DEF SessionOk, CommitsOk, Remembers, Seen
  <2>3. ASSUME initiator[s] = "peer" \/ responder[s] = "peer"
        PROVE  floors[Responder[s]][Initiator[s]].counter >= hello[s].sender.sequence
    BY <2>1, <2>3 DEF SessionOk, Greeted, HelloOk, CommitsOk, Remembers, Seen
  <2>4. QED
    BY <2>2, <2>3
<1>2. QED
  BY HandshakeInvariance, <1>1, PTL

(* commit_remote_record runs after the other's currentness proof was        *)
(* fetched: each floor is the record of a session in which the other device *)
(* published a proof of live authority.                                     *)
THEOREM FloorsAreLive == Spec => []FloorsComeFromLiveDevices
<1>1. HInv => FloorsComeFromLiveDevices
  BY DEF HInv
<1>2. QED
  BY HandshakeInvariance, <1>1, PTL

(* Unless a homeserver fails or a side is abandoned, the deletion after the *)
(* exchange leaves none of its proofs behind.                               *)
THEOREM ProofsDoNotOutliveExchanges == Spec => []ProofsAreTakenBack
<1>1. ASSUME HInv
      PROVE  ProofsAreTakenBack
  BY <1>1 DEF HInv, SessionOk, CleansUp, ProofsAreTakenBack
<1>2. QED
  BY HandshakeInvariance, <1>1, PTL

-----------------------------------------------------------------------------
(* What a side checks when it goes on.                                      *)

(* The initiator moves in its own steps, when it connects and when it is    *)
(* abandoned.                                                               *)
LEMMA InitiatorMoves ==
  ASSUME HInv, [Next]_vars, NEW s \in Sessions, initiator'[s] # initiator[s],
         initiator'[s] \notin {"resolved", "failed"}
  PROVE  InitiatorStep(s)
<1>1. initiator \in [Sessions -> InitiatorStates] /\ initiator' # initiator
  BY DEF HInv, TypeOK
<1>2. ASSUME NEW t, NEW x \in {"resolved", "failed"}, initiator' = [initiator EXCEPT ![t] = x]
      PROVE  FALSE
  BY <1>1, <1>2
<1>3. ASSUME NEW l, CurrentRecord(l)
      PROVE  FALSE
  BY <1>1, <1>3 DEF CurrentRecord, sideVars
<1>4. ASSUME NEW t, NEW r, Resolve(t, r)
      PROVE  FALSE
  BY <1>2, <1>4 DEF Resolve
<1>5. ASSUME NEW t, AbandonDial(t)
      PROVE  FALSE
  BY <1>2, <1>5 DEF AbandonDial, InitiatorFails
<1>6. ASSUME NEW t, AbandonAccept(t) \/ RejectHello(t) \/ LoseConnection(t)
      PROVE  FALSE
  BY <1>1, <1>6 DEF AbandonAccept, RejectHello, LoseConnection
<1>7. ASSUME NEW t, ResponderStep(t)
      PROVE  FALSE
  BY <1>1, <1>7
  DEF ResponderStep, ReceiveHello, Consent, PublishResponderProof, SendAck, ReadReady,
      FetchInitiatorProof, CommitSender, SendConfirmed, FinishAccept, ResponderDisconnected
<1>8. ASSUME NEW t \in Sessions, t # s, InitiatorStep(t)
      PROVE  FALSE
  <2>1. \E x : initiator' = [initiator EXCEPT ![t] = x]
    BY <1>8
    DEF InitiatorStep, SendHello, ReadAck, PublishInitiatorProof, FetchResponderProof,
        ReadConfirmed, CommitTarget, FinishDial, InitiatorDisconnected, InitiatorFails
  <2>2. QED
    BY <1>1, <1>8, <2>1
<1>9. ~Tick /\ ~UNCHANGED vars
  BY <1>1 DEF Tick, sideVars, vars
<1>10. QED
  BY <1>3, <1>4, <1>5, <1>6, <1>7, <1>8, <1>9 DEF Next

(* The responder moves in its own steps, and when it fails.                 *)
LEMMA ResponderMoves ==
  ASSUME HInv, [Next]_vars, NEW s \in Sessions, responder'[s] # responder[s],
         responder'[s] # "failed"
  PROVE  ResponderStep(s)
<1>1. responder \in [Sessions -> ResponderStates] /\ responder' # responder
  BY DEF HInv, TypeOK
<1>2. ASSUME NEW t, responder' = [responder EXCEPT ![t] = "failed"]
      PROVE  FALSE
  BY <1>1, <1>2
<1>3. ASSUME NEW l, CurrentRecord(l)
      PROVE  FALSE
  BY <1>1, <1>3 DEF CurrentRecord, sideVars
<1>4. ASSUME NEW t, NEW r, Resolve(t, r)
      PROVE  FALSE
  BY <1>1, <1>4 DEF Resolve
<1>5. ASSUME NEW t, AbandonAccept(t) \/ RejectHello(t)
      PROVE  FALSE
  BY <1>2, <1>5 DEF AbandonAccept, RejectHello, ResponderFails
<1>6. ASSUME NEW t, AbandonDial(t) \/ LoseConnection(t)
      PROVE  FALSE
  BY <1>1, <1>6 DEF AbandonDial, LoseConnection
<1>7. ASSUME NEW t, InitiatorStep(t)
      PROVE  FALSE
  BY <1>1, <1>7
  DEF InitiatorStep, SendHello, ReadAck, PublishInitiatorProof, FetchResponderProof,
      ReadConfirmed, CommitTarget, FinishDial, InitiatorDisconnected
<1>8. ASSUME NEW t \in Sessions, t # s, ResponderStep(t)
      PROVE  FALSE
  <2>1. \E x : responder' = [responder EXCEPT ![t] = x]
    BY <1>8
    DEF ResponderStep, ReceiveHello, Consent, PublishResponderProof, SendAck, ReadReady,
        FetchInitiatorProof, CommitSender, SendConfirmed, FinishAccept,
        ResponderDisconnected, ResponderFails
  <2>2. QED
    BY <1>1, <1>8, <2>1
<1>9. ~Tick /\ ~UNCHANGED vars
  BY <1>1 DEF Tick, sideVars, vars
<1>10. QED
  BY <1>3, <1>4, <1>5, <1>6, <1>7, <1>8, <1>9 DEF Next

(* A side is known to have accepted the other's record from its commit on.  *)
LEMMA Accepting ==
  ASSUME HInv, [Next]_vars, NEW s \in Sessions, NEW p \in Roles,
         ~Accepted(s, p), Accepted(s, p)'
  PROVE  /\ CommitsRecord(Owner(s, p), Remote(s, p))
         /\ p = "initiator" => initiator[s] = "committing"
         /\ p = "responder" => responder[s] = "committing"
<1>1. /\ initiator \in [Sessions -> InitiatorStates]
      /\ responder \in [Sessions -> ResponderStates]
  BY DEF HInv, TypeOK
<1>2. CASE p = "initiator"
  <2>1. initiator[s] \notin {"proved", "peer"} /\ initiator'[s] \in {"proved", "peer"}
    BY <1>2 DEF Accepted
  <2>2. InitiatorStep(s)
    BY <2>1, InitiatorMoves
  <2>3. ASSUME NEW x, x \notin {"proved", "peer"}, initiator' = [initiator EXCEPT ![s] = x]
        PROVE  FALSE
    BY <1>1, <2>1, <2>3
  <2>4. /\ ~SendHello(s) /\ ~ReadAck(s) /\ ~PublishInitiatorProof(s)
        /\ ~FetchResponderProof(s) /\ ~ReadConfirmed(s) /\ ~InitiatorDisconnected(s)
    BY <2>3
    DEF SendHello, ReadAck, PublishInitiatorProof, FetchResponderProof, ReadConfirmed,
        InitiatorDisconnected, InitiatorFails
  <2>5. ~FinishDial(s)
    BY <2>1, <2>3 DEF FinishDial, InitiatorFails
  <2>6. CommitTarget(s)
    BY <2>2, <2>4, <2>5 DEF InitiatorStep
  <2>7. QED
    BY <1>2, <2>3, <2>6 DEF CommitTarget, Owner, Remote
<1>3. CASE p = "responder"
  <2>1. /\ responder[s] \notin {"confirming", "proved", "peer"}
        /\ responder'[s] \in {"confirming", "proved", "peer"}
    BY <1>3 DEF Accepted
  <2>2. ResponderStep(s)
    BY <2>1, ResponderMoves
  <2>3. ASSUME NEW x, x \notin {"confirming", "proved", "peer"},
               responder' = [responder EXCEPT ![s] = x]
        PROVE  FALSE
    BY <1>1, <2>1, <2>3
  <2>4. /\ ~ReceiveHello(s) /\ ~Consent(s) /\ ~PublishResponderProof(s) /\ ~SendAck(s)
        /\ ~ReadReady(s) /\ ~FetchInitiatorProof(s) /\ ~ResponderDisconnected(s)
    BY <2>3
    DEF ReceiveHello, Consent, PublishResponderProof, SendAck, ReadReady,
        FetchInitiatorProof, ResponderDisconnected, ResponderFails
  <2>5. ~SendConfirmed(s) /\ ~FinishAccept(s)
    BY <2>1, <2>3 DEF SendConfirmed, FinishAccept, ResponderFails
  <2>6. CommitSender(s)
    BY <2>2, <2>4, <2>5 DEF ResponderStep
  <2>7. QED
    BY <1>3, <2>3, <2>6 DEF CommitSender, Owner, Remote
<1>4. QED
  BY <1>2, <1>3 DEF Roles

(* The record of a session that accepted it is remembered by its side.      *)
LEMMA AcceptedIsRemembered ==
  ASSUME HInv, NEW t \in Sessions, NEW q \in Roles, Accepted(t, q)
  PROVE  Remembers(floors[Owner(t, q)], Seen(Remote(t, q)))
BY DEF HInv, SessionOk, CommitsOk, Accepted, Owner, Remote, Roles

(* The record that a side takes from the other was signed by the other.     *)
LEMMA RemoteIsSigned ==
  ASSUME HInv, NEW t \in Sessions, NEW q \in Roles,
         q = "initiator" => initiator[t] # "idle",
         q = "responder" => Greeted(t)
  PROVE  /\ Remote(t, q) \in signed /\ Remote(t, q) \in Record
         /\ Remote(t, q).device = Owner(t, Other(q))
BY DEF HInv, TypeOK, SessionOk, HelloOk, Remote, Owner, Other, Roles

(* A device that has accepted a record commits only a newer one of the same *)
(* device, or that record again: record_authenticated_value compares the    *)
(* counters and the digests, and no two records share both.                 *)
THEOREM NeitherRollbackNorEquivocation == Spec => NoRollbackAccepted
<1> DEFINE NoRollback ==
             \A s, t \in Sessions : \A p, q \in Roles :
               /\ ~Accepted(s, p) /\ Accepted(s, p)'
               /\ Accepted(t, q)
               /\ Owner(s, p) = Owner(t, q)
               /\ Owner(s, Other(p)) = Owner(t, Other(q))
               => \/ Remote(s, p).sequence > Remote(t, q).sequence
                  \/ Remote(s, p) = Remote(t, q)
<1>1. ASSUME HInv, [Next]_vars, NEW s \in Sessions, NEW t \in Sessions,
             NEW p \in Roles, NEW q \in Roles,
             ~Accepted(s, p), Accepted(s, p)', Accepted(t, q),
             Owner(s, p) = Owner(t, q), Owner(s, Other(p)) = Owner(t, Other(q))
      PROVE  \/ Remote(s, p).sequence > Remote(t, q).sequence
             \/ Remote(s, p) = Remote(t, q)
  <2> DEFINE d == Owner(s, p)
             new == Remote(s, p)
             old == Remote(t, q)
  <2>1. CommitsRecord(d, new)
    BY <1>1, Accepting
  <2>2. Remembers(floors[d], Seen(old))
    BY <1>1, AcceptedIsRemembered
  <2>3. old \in signed /\ old \in Record /\ old.device = Owner(t, Other(q))
    BY <1>1, RemoteIsSigned DEF Accepted, Greeted
  <2>4. new \in signed /\ new \in Record /\ new.device = Owner(s, Other(p))
    BY <1>1, Accepting, RemoteIsSigned DEF Greeted
  <2>5. RecordValueOk(floors[d], Seen(new))
    BY <2>1 DEF CommitsRecord, Commits, UpdateOk, RecordBatchOk, RecordObservation, Seen
  <2>6. d \in Devices /\ floors[d] \in SequenceStates /\ old.device \in Keys
    BY <1>1, <2>3, HandshakeAssumption DEF HInv, TypeOK, Owner, Record, Keys, Devices
  <2>7. floors[d][old.device].counter \in Int
    BY <2>6 DEF SequenceStates, StoredSequence, Missing
  <2> HIDE DEF new, old, d
  <2>8. CASE new.sequence > old.sequence
    BY <2>8 DEF new, old
  <2>9. CASE ~(new.sequence > old.sequence)
    <3>1. new.device = old.device
      BY <1>1, <2>3, <2>4
    <3>2. /\ new.sequence = old.sequence /\ new.digest = old.digest
      BY <2>2, <2>3, <2>4, <2>5, <2>7, <2>9, <3>1
      DEF Remembers, RecordValueOk, Seen, Record
    <3>3. Seen(new) = Seen(old)
      BY <3>1, <3>2 DEF Seen
    <3>4. QED
      BY <1>1, <2>3, <2>4, <3>3 DEF HInv, SignedOnce, new, old
  <2>10. QED
    BY <2>8, <2>9
<1>2. HInv /\ [Next]_vars => [NoRollback]_vars
  BY <1>1
<1>3. QED
  BY HandshakeInvariance, <1>2, PTL DEF Spec, NoRollbackAccepted

(* A side that goes on after it fetched the other's proof has verified it.  *)
LEMMA Fetching ==
  ASSUME HInv, [Next]_vars, NEW s \in Sessions
  PROVE  /\ initiator[s] = "fetching" /\ initiator'[s] = "awaiting confirmation" =>
              /\ <<s, "responder">> \in proofs
              /\ ProofVerifies(ack[s], hello[s].target, hello[s], Now(Initiator[s]))
         /\ responder[s] = "fetching" /\ responder'[s] = "committing" =>
              /\ <<s, "initiator">> \in proofs
              /\ ProofVerifies(ack[s], hello[s].sender, hello[s], Now(Responder[s]))
<1>1. /\ initiator \in [Sessions -> InitiatorStates]
      /\ responder \in [Sessions -> ResponderStates]
  BY DEF HInv, TypeOK
<1>2. ASSUME initiator[s] = "fetching", initiator'[s] = "awaiting confirmation"
      PROVE  /\ <<s, "responder">> \in proofs
             /\ ProofVerifies(ack[s], hello[s].target, hello[s], Now(Initiator[s]))
  <2>1. InitiatorStep(s)
    BY <1>2, InitiatorMoves
  <2>2. ASSUME NEW x, x # "awaiting confirmation", initiator' = [initiator EXCEPT ![s] = x]
        PROVE  FALSE
    BY <1>1, <1>2, <2>2
  <2>3. ~InitiatorDisconnected(s)
    BY <2>2 DEF InitiatorDisconnected
  <2>4. FetchResponderProof(s)
    BY <1>2, <2>1, <2>3
    DEF InitiatorStep, SendHello, ReadAck, PublishInitiatorProof, ReadConfirmed,
        CommitTarget, FinishDial
  <2>5. QED
    BY <2>2, <2>4 DEF FetchResponderProof
<1>3. ASSUME responder[s] = "fetching", responder'[s] = "committing"
      PROVE  /\ <<s, "initiator">> \in proofs
             /\ ProofVerifies(ack[s], hello[s].sender, hello[s], Now(Responder[s]))
  <2>1. ResponderStep(s)
    BY <1>3, ResponderMoves
  <2>2. ASSUME NEW x, x # "committing", responder' = [responder EXCEPT ![s] = x]
        PROVE  FALSE
    BY <1>1, <1>3, <2>2
  <2>3. FetchInitiatorProof(s)
    BY <1>3, <2>1
    DEF ResponderStep, ReceiveHello, Consent, PublishResponderProof, SendAck, ReadReady,
        CommitSender, SendConfirmed, FinishAccept, ResponderDisconnected
  <2>4. QED
    BY <2>2, <2>3 DEF FetchInitiatorProof
<1>4. QED
  BY <1>2, <1>3

(* Whatever the two clocks say, an accepted proof was stored less than one  *)
(* proof lifetime ago: the Hello bounds the responder's proof on the clock  *)
(* of its own sender, and the window that the responder signed bounds the   *)
(* initiator's on the responder's (validate_currentness_window).            *)
THEOREM AcceptedProofsAreFresh == Spec => ProofsAreFresh
<1> DEFINE Fresh ==
             \A s \in Sessions :
               /\ initiator[s] = "fetching" /\ initiator'[s] = "awaiting confirmation" =>
                    time - publishedAt[s]["responder"] < CurrentnessLifetime
               /\ responder[s] = "fetching" /\ responder'[s] = "committing" =>
                    time - publishedAt[s]["initiator"] < CurrentnessLifetime
<1>1. ASSUME HInv, [Next]_vars, NEW s \in Sessions
      PROVE  /\ initiator[s] = "fetching" /\ initiator'[s] = "awaiting confirmation" =>
                  time - publishedAt[s]["responder"] < CurrentnessLifetime
             /\ responder[s] = "fetching" /\ responder'[s] = "committing" =>
                  time - publishedAt[s]["initiator"] < CurrentnessLifetime
  <2>1. TypeOK /\ SessionOk(s) /\ scenario \in Scenario
    BY <1>1, HandshakeAssumption DEF HInv, TypeOK
  <2>2. /\ time \in Nat /\ CurrentnessLifetime \in Nat /\ HelloLifetime \in Int
        /\ HelloLifetime <= CurrentnessLifetime
        /\ scenario.skew[Initiator[s]] \in Nat /\ scenario.skew[Responder[s]] \in Nat
        /\ publishedAt[s]["initiator"] \in Int /\ publishedAt[s]["responder"] \in Int
    BY <2>1, HandshakeAssumption, ValidityAssumption DEF TypeOK, Scenario, Roles
  <2>3. ASSUME initiator[s] = "fetching", initiator'[s] = "awaiting confirmation"
        PROVE  time - publishedAt[s]["responder"] < CurrentnessLifetime
    <3>1. Now(Initiator[s]) < hello[s].expires
      BY <1>1, <2>3, Fetching DEF ProofVerifies, HelloVerifies, ValidateBoundedWindow
    <3>2. publishedAt[s]["responder"] >= 0
      BY <1>1, <2>1, <2>3, Fetching DEF SessionOk, ProofsOk, Roles
    <3>3. HelloOk(s)
      BY <2>1, <2>3 DEF SessionOk, Greeted
    <3>4. /\ hello[s].issued \in Nat /\ hello[s].expires \in Nat
          /\ hello[s].expires <= hello[s].issued + HelloLifetime
      BY <3>3 DEF HelloOk, Hello
    <3>5. hello[s].issued <= publishedAt[s]["responder"] + scenario.skew[Initiator[s]]
      BY <2>1, <3>2 DEF SessionOk, ProofsOk
    <3>6. QED
      BY <2>2, <3>1, <3>4, <3>5 DEF Now
  <2>4. ASSUME responder[s] = "fetching", responder'[s] = "committing"
        PROVE  time - publishedAt[s]["initiator"] < CurrentnessLifetime
    <3>1. /\ Now(Responder[s]) < ack[s].expires
          /\ ack[s].expires - ack[s].issued <= CurrentnessLifetime
      BY <1>1, <2>4, Fetching
      DEF ProofVerifies, ValidateCurrentnessWindow, ValidateBoundedWindow
    <3>2. publishedAt[s]["initiator"] >= 0
      BY <1>1, <2>1, <2>4, Fetching DEF SessionOk, ProofsOk, Roles
    <3>3. ack[s].issued \in Nat /\ ack[s].expires \in Nat
      BY <2>1, <2>4 DEF SessionOk, Answered, AckOk, Window
    <3>4. ack[s].issued <= publishedAt[s]["initiator"] + scenario.skew[Responder[s]]
      BY <2>1, <3>2 DEF SessionOk, ProofsOk
    <3>5. QED
      BY <2>2, <3>1, <3>3, <3>4 DEF Now
  <2>5. QED
    BY <2>3, <2>4
<1>2. HInv /\ [Next]_vars => [Fresh]_vars
  BY <1>1
<1>3. QED
  BY HandshakeInvariance, <1>2, PTL DEF Spec, ProofsAreFresh

=============================================================================
