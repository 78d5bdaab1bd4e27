------------------------------ MODULE Outbound ------------------------------
(***************************************************************************)
(* An outbound connection from its discovery to its end: Dialling until    *)
(* dial returns a Peer, and PeerStream from then on.  Nothing that led to  *)
(* the Peer plays a role afterwards (a device that dies is the loss of its *)
(* connection), so the hand-over forgets it.                               *)
(***************************************************************************)
EXTENDS Dialling, PeerStream

vars == <<diallingVars, streamVars>>

Init == DiallingInit /\ StreamInit

(* dial returns: Peer::new.                                                 *)
NewPeer ==
  /\ dial = "peer"
  /\ dial' = "returned"
  /\ link' = "open"
  /\ situation' = CHOOSE x \in Situations : TRUE
  /\ run' = [d \in Devices |-> 1]
  /\ up' = Devices
  /\ counter' = [d \in Devices |-> 0]
  /\ publisher' = [d \in Devices |-> "idle"]
  /\ active' = [d \in Devices |-> {}]
  /\ signed' = {}
  /\ ended' = {}
  /\ stored' = [d \in Devices |-> Nothing]
  /\ late' = {}
  /\ offered' = {}
  /\ tried' = <<>>
  /\ UNCHANGED <<paths, resolved, spent, call, queue, written, stream,
                 finished, flight, buffer, farVars, order, torn>>

DiallingStep == dial # "returned" /\ DialStep /\ UNCHANGED streamVars

InStream(A) == A /\ UNCHANGED diallingVars

Next ==
  \/ DiallingStep
  \/ dial # "returned" /\ (DeviceStep \/ DialTimeout) /\ UNCHANGED streamVars
  \/ NewPeer
  \/ InStream(StreamNext)

Spec == Init /\ [][Next]_vars

(* The application dials again until it has a Peer, and a reliable network  *)
(* answers; the calls on the Peer are scheduled, and what they write        *)
(* arrives.  Nothing is assumed of the application at the far side.         *)
NearFairSpec ==
  /\ Spec
  /\ WF_vars(~Faulty /\ DiallingStep)
  /\ WF_vars(NewPeer)
  /\ \A m \in Messages : WF_vars(InStream(SendStep(m)))
  /\ WF_vars(InStream(NearStep))
  /\ WF_vars(InStream(Deliver))

(* The far side reads, as the receive loop of a browser does.               *)
FairSpec == NearFairSpec /\ WF_vars(InStream(RecvStep))

-----------------------------------------------------------------------------
(* Type correctness.                                                        *)
TypeOK == DevicesTypeOK /\ DialTypeOK /\ StreamTypeOK

=============================================================================
