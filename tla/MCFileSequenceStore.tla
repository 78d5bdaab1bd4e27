------------------------ MODULE MCFileSequenceStore ------------------------
(* TLC instances of FileSequenceStore.                                      *)
EXTENDS FileSequenceStore, TLC

CONSTANTS a1, p1, d1, d2, c1, c2, c3, i1, i2

(* One byte per entry: the byte limit is met with the entry limit.          *)
MCEncodedLen(v) == Cardinality(Entries(v))

(* Two processes: one with two concurrent calls, the other with one.       *)
MCInstanceOf == [c \in Callers |-> IF c = c3 THEN i2 ELSE i1]

Record(k, n, d) ==
  [type |-> "record", batch |-> {[key |-> k, counter |-> n, digest |-> d]}]

(* All of them allocate from one publisher counter, up to its exhaustion;   *)
(* c1 records a floor and raises it, c3 contradicts the first one, or rolls *)
(* back the second, and c2 initializes the publisher counter, for which     *)
(* there is room only while no floor is recorded.                           *)
MCRequests ==
  [c \in Callers |->
    {[type |-> "next", key |-> p1]} \cup
      CASE c = c1 -> {Record(a1, 1, d1), Record(a1, 2, d1)}
        [] c = c2 -> {[type |-> "initialize", key |-> p1]}
        [] c = c3 -> {Record(a1, 1, d2)}]

=============================================================================
