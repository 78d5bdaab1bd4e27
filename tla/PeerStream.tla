----------------------------- MODULE PeerStream -----------------------------
(***************************************************************************)
(* An established Peer (crates/client/src/peer.rs): the calls of send,     *)
(* finish and close on one side, which share the send stream behind a      *)
(* mutex, and recv and wait_for_peer_finish on the other, over one         *)
(* direction of a QUIC stream with a bounded receive window.  The other    *)
(* direction is the same.                                                  *)
(*                                                                         *)
(* A frame is written in parts: part 0 is its length, the parts from 1 on  *)
(* its bytes.  Every call is a task; tokio's mutex serves them in the      *)
(* order in which they asked.                                              *)
(***************************************************************************)
EXTENDS Integers, Sequences, FiniteSets, SequencesExt

CONSTANTS
  Messages,    \* each is sent by one call of send
  Parts,       \* the number of parts of each message's bytes: an empty one has none
  Window,      \* PER_CONNECTION_RECEIVE_WINDOW, in parts
  FinishCall,  \* the call of finish
  CloseCall,   \* the call of close
  Garbage      \* bytes that were never sent as a message

Calls == Messages \cup {FinishCall, CloseCall}

ASSUME PeerStreamAssumption ==
  /\ Parts \in [Messages -> Nat]
  /\ Window \in Nat \ {0}
  /\ FinishCall # CloseCall /\ {FinishCall, CloseCall} \cap Messages = {}
  /\ Garbage \notin Messages
  /\ Messages \cap {"idle", "drained", "trailing", "failed"} = {}

VARIABLES
  call,      \* where each call is
  queue,     \* calls that wait for the send mutex; the first one holds it
  written,   \* parts that the call with the mutex has written
  stream,    \* Peer.send: "open", or "taken"
  finished,  \* the end of the stream was sent
  flight,    \* parts on their way
  buffer,    \* parts that arrived and were not read
  link,      \* the connection: "none", "open" or "closed"
  reader,    \* the far side: "idle", a message whose bytes it reads,
             \* "drained", "trailing" or "failed"
  bytes,     \* parts it has read of a message's bytes
  received,  \* history: what recv returned
  order,     \* history: messages, in the order in which send began to write
  torn       \* history: a dropped future left part of a frame behind

callVars == <<call, queue, written, stream, finished>>
farVars == <<reader, bytes, received>>
streamVars == <<call, queue, written, stream, finished, flight, buffer, link,
                reader, bytes, received, order, torn>>

StreamInit ==
  /\ call = [x \in Calls |-> "idle"]
  /\ queue = <<>>
  /\ written = 0
  /\ stream = "open"
  /\ finished = FALSE
  /\ flight = <<>>
  /\ buffer = <<>>
  /\ link = "none"
  /\ reader = "idle"
  /\ bytes = <<>>
  /\ received = <<>>
  /\ order = <<>>
  /\ torn = FALSE

Part(m, n) == [message |-> m, part |-> n]

Body(m) == [n \in 1..Parts[m] |-> Part(m, n)]

-----------------------------------------------------------------------------
(* The near side: the calls that use the send stream.                       *)

Ask(x) ==
  /\ link # "none"
  /\ call[x] = "idle"
  /\ call' = [call EXCEPT ![x] = "waiting"]
  /\ queue' = Append(queue, x)
  /\ UNCHANGED <<written, stream, finished, flight, buffer, link, farVars, order,
                 torn>>

(* Variant: there is no mutex, only the stream.                             *)
HoldsAnyway(x) == call[x] \in {"waiting", "writing"}

Holds(x) == queue # <<>> /\ Head(queue) = x

Leave(x, outcome) ==
  /\ call' = [call EXCEPT ![x] = outcome]
  /\ queue' = RemoveFirst(queue, x)
  /\ written' = 0

(* send has the mutex: ChannelClosed, or write_bytes begins.                *)
BeginSend(m) ==
  /\ Holds(m) /\ call[m] = "waiting"
  /\ \/ /\ stream = "open"
        /\ call' = [call EXCEPT ![m] = "writing"]
        /\ order' = Append(order, m)
        /\ UNCHANGED <<queue, written>>
     \/ /\ stream = "taken"
        /\ Leave(m, "failed")
        /\ UNCHANGED order
  /\ UNCHANGED <<stream, finished, flight, buffer, link, farVars, torn>>

(* Variant: an error of the connection is tried again.                      *)
WritePartAgain(m) ==
  /\ Holds(m) /\ call[m] = "writing"
  /\ link = "open"
  /\ Len(flight) + Len(buffer) < Window
  /\ flight' = Append(flight, Part(m, written))
  /\ IF written = Parts[m]
       THEN Leave(m, "done")
       ELSE /\ written' = written + 1
            /\ UNCHANGED <<call, queue>>
  /\ UNCHANGED <<stream, finished, buffer, link, farVars, order, torn>>

(* write_all: the next part, as the window allows; an error of the closed   *)
(* connection.                                                              *)
WritePart(m) ==
  /\ Holds(m) /\ call[m] = "writing"
  /\ \/ /\ link = "open"
        /\ Len(flight) + Len(buffer) < Window
        /\ flight' = Append(flight, Part(m, written))
        /\ IF written = Parts[m]
             THEN Leave(m, "done")
             ELSE /\ written' = written + 1
                  /\ UNCHANGED <<call, queue>>
     \/ /\ link = "closed"
        /\ Leave(m, "failed")
        /\ UNCHANGED flight
  /\ UNCHANGED <<stream, finished, buffer, link, farVars, order, torn>>

(* The caller drops the future of send; what was written stays written.     *)
DropSend(m) ==
  /\ call[m] \in {"waiting", "writing"}
  /\ torn' = (torn \/ (Holds(m) /\ written > 0))
  /\ order' = IF call[m] = "writing" /\ written = 0 THEN Front(order) ELSE order
  /\ call' = [call EXCEPT ![m] = "dropped"]
  /\ queue' = RemoveFirst(queue, m)
  /\ written' = IF Holds(m) THEN 0 ELSE written
  /\ UNCHANGED <<stream, finished, flight, buffer, link, farVars>>

(* finish takes the stream, ends it, gives the mutex back, and waits.       *)
BeginFinish ==
  /\ Holds(FinishCall)
  /\ IF stream = "open" /\ link = "open"
       THEN Leave(FinishCall, "draining") /\ finished' = TRUE
       ELSE Leave(FinishCall, "failed") /\ UNCHANGED finished
  /\ stream' = "taken"
  /\ UNCHANGED <<flight, buffer, link, farVars, order, torn>>

(* stopped: all was acknowledged; an error; or the timeout.                 *)
EndFinish ==
  /\ call[FinishCall] = "draining"
  /\ \/ /\ link = "open" /\ flight = <<>>
        /\ call' = [call EXCEPT ![FinishCall] = "done"]
     \/ call' = [call EXCEPT ![FinishCall] = "failed"]
  /\ UNCHANGED <<queue, written, stream, finished, flight, buffer, link, farVars,
                 order, torn>>

(* The connection ends; what is on its way is lost.                         *)
EndConnection ==
  /\ link' = "closed"
  /\ flight' = <<>>

(* close takes the stream, for which it needs the mutex, and closes.        *)
Close ==
  /\ Holds(CloseCall)
  /\ Leave(CloseCall, "done")
  /\ stream' = "taken"
  /\ EndConnection
  /\ UNCHANGED <<finished, buffer, farVars, order, torn>>

(* The Peer is dropped, when no call is using it.                           *)
DropPeer ==
  /\ link = "open"
  /\ queue = <<>> /\ call[FinishCall] # "draining"
  /\ EndConnection
  /\ UNCHANGED <<callVars, buffer, farVars, order, torn>>

-----------------------------------------------------------------------------
(* The network, and the far side.                                           *)

Deliver ==
  /\ flight # <<>>
  /\ buffer' = Append(buffer, Head(flight))
  /\ flight' = Tail(flight)
  /\ UNCHANGED <<callVars, link, farVars, order, torn>>

ConnectionLost ==
  /\ link = "open"
  /\ EndConnection
  /\ UNCHANGED <<callVars, buffer, farVars, order, torn>>

(* The end of the stream arrived behind all parts.                          *)
AtEnd == finished /\ flight = <<>> /\ buffer = <<>>

(* read_bytes: the length; an empty message is complete with it.  Bytes     *)
(* that are no length may be read as one.                                   *)
ReadLength ==
  LET next == Head(buffer)
  IN  /\ link # "none" /\ reader = "idle" /\ buffer # <<>>
      /\ buffer' = Tail(buffer)
      /\ \/ /\ next.part = 0 /\ Parts[next.message] > 0
            /\ reader' = next.message
            /\ UNCHANGED received
         \/ /\ next.part = 0 /\ Parts[next.message] = 0
            /\ received' = Append(received, next.message)
            /\ UNCHANGED reader
         \/ /\ next.part > 0
            /\ reader' = "failed"
            /\ UNCHANGED received
         \/ /\ next.part > 0
            /\ received' = Append(received, Garbage)
            /\ UNCHANGED reader
      /\ bytes' = <<>>
      /\ UNCHANGED <<callVars, flight, link, order, torn>>

(* read_bytes: as many bytes as the length said, whatever they are.         *)
ReadPart ==
  LET read == Append(bytes, Head(buffer))
  IN  /\ reader \in Messages /\ buffer # <<>>
      /\ buffer' = Tail(buffer)
      /\ IF Len(read) < Parts[reader]
           THEN /\ bytes' = read
                /\ UNCHANGED <<reader, received>>
           ELSE /\ received' = Append(received,
                                      IF read = Body(reader) THEN reader ELSE Garbage)
                /\ reader' = "idle"
                /\ bytes' = <<>>
      /\ UNCHANGED <<callVars, flight, link, order, torn>>

(* The caller drops the future of recv; what was read is lost.              *)
DropRecv ==
  /\ reader \in Messages
  /\ reader' = "idle"
  /\ bytes' = <<>>
  /\ torn' = TRUE
  /\ UNCHANGED <<callVars, flight, buffer, link, received, order>>

(* The stream or the connection ends under a recv.                          *)
RecvFails ==
  /\ reader = "idle" \/ reader \in Messages
  /\ AtEnd \/ link = "closed"
  /\ reader' = "failed"
  /\ UNCHANGED <<callVars, flight, buffer, link, bytes, received, order, torn>>

(* Variant: bytes that are left do not matter.                              *)
WaitForAnyFinish ==
  /\ link # "none" /\ reader = "idle"
  /\ finished
  /\ reader' = "drained"
  /\ UNCHANGED <<callVars, flight, buffer, link, bytes, received, order, torn>>

(* wait_for_peer_finish instead of another recv.                            *)
WaitForPeerFinish ==
  /\ link # "none" /\ reader = "idle"
  /\ \/ AtEnd /\ link = "open" /\ reader' = "drained"
     \/ buffer # <<>> /\ reader' = "trailing"
  /\ buffer' = IF buffer = <<>> THEN buffer ELSE Tail(buffer)
  /\ UNCHANGED <<callVars, flight, link, bytes, received, order, torn>>

(* A far side that got an error closes, as start_receive_loop does.         *)
FarClose ==
  /\ link = "open" /\ reader \in {"failed", "trailing", "drained"}
  /\ EndConnection
  /\ UNCHANGED <<callVars, buffer, farVars, order, torn>>

SendStep(m) == BeginSend(m) \/ WritePart(m)

NearStep == BeginFinish \/ EndFinish \/ Close

RecvStep == ReadLength \/ ReadPart \/ RecvFails \/ FarClose

StreamNext ==
  \/ \E x \in Calls : Ask(x)
  \/ \E m \in Messages : SendStep(m) \/ DropSend(m)
  \/ NearStep \/ DropPeer
  \/ Deliver \/ ConnectionLost
  \/ RecvStep \/ DropRecv \/ WaitForPeerFinish

-----------------------------------------------------------------------------
Piece == [message : Messages, part : Nat]

StreamTypeOK ==
  /\ call \in [Calls -> {"idle", "waiting", "writing", "draining", "done", "failed",
                         "dropped"}]
  /\ queue \in Seq(Calls) /\ written \in Nat
  /\ stream \in {"open", "taken"} /\ link \in {"none", "open", "closed"}
  /\ finished \in BOOLEAN /\ torn \in BOOLEAN
  /\ {flight, buffer, bytes} \subseteq Seq(Piece)
  /\ Len(flight) + Len(buffer) <= Window
  /\ reader \in Messages \cup {"idle", "drained", "trailing", "failed"}
  /\ received \in Seq(Messages \cup {Garbage})
  /\ order \in Seq(Messages)

(* Calls of send that run side by side never mix their frames, and frames   *)
(* arrive complete and in the order of the mutex: what recv returns are the *)
(* messages that were begun, until a dropped future tears a frame.          *)
ReceivedInOrder == ~torn => IsPrefix(received, order)

(* A side whose wait_for_peer_finish succeeds has received every message    *)
(* whose send succeeded, through any race of sends, finish and close.       *)
DrainedMeansComplete ==
  reader = "drained" /\ ~torn =>
    \A m \in Messages : call[m] = "done" => Contains(received, m)

(* "Close this QUIC connection ... returns success after starting the       *)
(* best-effort close" (peer.rs:276-280): a call of close returns.           *)
CloseReturns == call[CloseCall] = "waiting" ~> call[CloseCall] = "done"

=============================================================================
