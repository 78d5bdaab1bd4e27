-------------------------- MODULE MCSequenceStore --------------------------
(* TLC instance of SequenceStore.                                           *)
EXTENDS SequenceStore, TLC

CONSTANTS a1, a2, p1, d1, d2

(* A stand-in for the JSON length: an entry costs bytes and grows with the  *)
(* magnitude of its counter, so that an update of an existing entry, too,   *)
(* can meet the byte limit.                                                 *)
MCEncodedLen(v) ==
  LET cost(k) == IF v[k] = Missing THEN 0
                 ELSE IF v[k].counter < 2 THEN 3 ELSE 4
  IN  cost(a1) + cost(a2) + cost(p1)

Symmetry == Permutations({d1, d2})

=============================================================================
