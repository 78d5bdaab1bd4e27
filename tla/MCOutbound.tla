----------------------------- MODULE MCOutbound -----------------------------
(* TLC instances of Outbound.                                               *)
EXTENDS Outbound

CONSTANTS a, b, c, m1, m2

Order == [d \in Devices |-> CASE d = a -> 1 [] d = b -> 2 [] d = c -> 3]

ReverseOrder == [d \in Devices |-> 4 - Order[d]]

Same(n) == [d \in Devices |-> n]

(* Any two of three records fit in a total of 3, all of them do not.        *)
OneLarger == [d \in Devices |-> IF d = c THEN 2 ELSE 1]

Case(service, requested, trusted, sequences, runs) ==
  [service |-> service, requested |-> requested, trusted |-> trusted,
   maxSequence |-> sequences, maxRuns |-> runs]

(* Three devices that publish once each and may die; two, of which one is   *)
(* requested, through the injected resolver; and, over a homeserver that    *)
(* lies and fails, one without a trusted relay that publishes once and one  *)
(* that publishes again and restarts.                                       *)
DeadDevicesOrFaults ==
  {Case("reliable", Devices, Devices, Same(1), Same(1)),
   Case("injected", {b}, Devices, [d \in Devices |-> IF d = c THEN 0 ELSE 1], Same(1)),
   Case("faulty", Devices, {b, c}, [d \in Devices |-> Order[d] % 3],
        [d \in Devices |-> IF d = b THEN 2 ELSE 1])}

OneDevice == {Case("reliable", Devices, Devices, Same(1), Same(1))}

(* No bytes in the first message, two parts of them in the second.          *)
EmptyAndLong == [m \in Messages |-> IF m = m1 THEN 0 ELSE 2]

=============================================================================
