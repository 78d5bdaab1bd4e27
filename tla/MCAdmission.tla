---------------------------- MODULE MCAdmission ----------------------------
(* TLC instances of Admission.                                              *)
EXTENDS Admission

CONSTANTS c1, c2, h1, h2, h3, h4, i1

(* Every connection carries the same Hello.                                 *)
SameHello == [c \in Conns |-> h1]

(* Different Hellos of one identity.                                        *)
OwnHello == [c \in Conns |-> IF c = c1 THEN h1 ELSE h2]

(* An expired Hello, and one that outlives its consent deadline.            *)
LongHello == [c \in Conns |-> IF c = c1 THEN h3 ELSE h4]

Case(hellos, permits, ticks, maxClock) ==
  [helloOf |-> hellos, maxHandshakes |-> permits, ticksPerSecond |-> ticks,
   maxClock |-> maxClock]

(* A Hello that is replayed around its expiry; two Hellos, with a permit    *)
(* each or with one; and one that can be answered after its timeout.        *)
ReplaysAndQueues ==
  {Case(SameHello, 2, 2, 4), Case(OwnHello, 2, 1, 2), Case(OwnHello, 1, 1, 2),
   Case(LongHello, 1, 1, 4)}

TwoRequests == {Case(OwnHello, 2, 1, 0)}

OneIdentity == [h \in Hellos |-> i1]

Seconds ==
  [h \in Hellos |-> CASE h = h3 -> 0 [] h = h4 -> 3 [] OTHER -> 1]

=============================================================================
