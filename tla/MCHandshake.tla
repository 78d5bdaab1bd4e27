---------------------------- MODULE MCHandshake ----------------------------
(* TLC instances of Handshake.                                              *)
EXTENDS Handshake

CONSTANTS a, b, s1, s2, g1, g2

NoLength(values) == 0

(* A certificate ends before its Grant, and both near the end of a run.     *)
Granted == [d \in Devices |-> [issued |-> 0, expires |-> 6]]

Certified == [d \in Devices |-> [issued |-> 0, expires |-> 5]]

Locator(d, n, g) == [device |-> d, sequence |-> n, digest |-> g]

(* The dialled device renews its record.                                    *)
Renewal == {Locator(a, 1, g1), Locator(b, 1, g1), Locator(b, 2, g1)}

(* It signs two records with one sequence.                                 *)
Equivocation == {Locator(a, 1, g1), Locator(b, 1, g1), Locator(b, 1, g2)}

(* One record each.                                                         *)
Single == {Locator(a, 1, g1), Locator(b, 1, g1)}

(* The two devices dial each other.                                         *)
GlareInitiator == [s \in Sessions |-> IF s = s1 THEN a ELSE b]

GlareResponder == [s \in Sessions |-> IF s = s1 THEN b ELSE a]

NoSkew == [d \in Devices |-> 0]

InitiatorAhead == [d \in Devices |-> IF d = a THEN 1 ELSE 0]

ResponderAhead == [d \in Devices |-> IF d = b THEN 1 ELSE 0]

Case(sessions, locators, skew, faults, maxTime) ==
  [sessions |-> sessions, locators |-> locators, skew |-> skew, faults |-> faults,
   maxTime |-> maxTime]

(* One session with every fault; two that dial each other, over a record    *)
(* that is renewed and stores that fail, over two records with one          *)
(* sequence, and undisturbed.                                               *)
SessionsAndFaults ==
  {Case({s1}, Renewal, ResponderAhead, Faulty, 4),
   Case({s1, s2}, Renewal, NoSkew, {"store"}, 0),
   Case({s1, s2}, Equivocation, NoSkew, {}, 0),
   Case({s1, s2}, Single, NoSkew, {}, 0)}

(* An undisturbed session between clocks within MaxClockSkew.               *)
ClocksDiffer == {Case({s1}, Single, InitiatorAhead, {}, 0)}

=============================================================================
