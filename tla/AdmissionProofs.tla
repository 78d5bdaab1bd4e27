--------------------------- MODULE AdmissionProofs ---------------------------
(***************************************************************************)
(* Proofs about Admission, for every number of connections, Hellos and     *)
(* callers, every limit and every clock: the structures of the queue of    *)
(* pending requests agree, consent and its timeout exclude each other, a   *)
(* replayed Hello is accepted once at most, and a single caller of         *)
(* next_incoming is never left asleep.                                     *)
(***************************************************************************)
EXTENDS Admission, FiniteSetTheorems, SequenceTheorems, NaturalsInduction,
        WellFoundedInduction, TLAPS

Elements(s) == {s[n] : n \in 1..Len(s)}
Distinct(s) == \A m, n \in 1..Len(s) : s[m] = s[n] => m = n

(* The tasks that have not inserted a request yet, and those that hold the  *)
(* reservation of their Hello.                                              *)
Early == {"none", "refused", "preauth", "verified", "reserved", "unreserve"}
Reserved(c) ==
  \/ handler[c] \in {"reserved", "unreserve", "inserted", "arming"}
  \/ request[c] \in {"queued", "held", "accepting", "peer"}

(* The connections whose request the application has accepted.              *)
Accepted(c) == request[c] \in {"accepting", "peer"}

(* A connection has a request once it is inserted, a timer once that is     *)
(* armed, and times out only after its deadline.                            *)
Phases(c) ==
  /\ handler[c] \in Early => request[c] = "none"
  /\ handler[c] # "done" => timer[c] = "off" /\ c \notin shut
  /\ timer[c] \in {"fired", "closing"} \/ c \in shut => clock > deadline[c]

(* The keys of the order are the keys of the entries, each once, and every  *)
(* entry is a queued request of its key.                                    *)
QueueShape ==
  /\ Elements(order) = Queued
  /\ Distinct(order)
  /\ \A i \in Identities :
       perIdentity[i] = Cardinality({h \in Queued : IdentityOf[h] = i})
  /\ \A h \in Queued : HelloOf[entries[h]] = h /\ request[entries[h]] = "queued"

(* A reservation stays in the cache for as long as its Hello lives, and two *)
(* connections share one only after that.                                   *)
ReplayGuards ==
  \A c \in Conns : Reserved(c) =>
    /\ HelloOf[c] \in replay \/ ExpiresAt[HelloOf[c]] <= Wall
    /\ \A d \in Conns \ {c} :
         HelloOf[d] = HelloOf[c] /\ Reserved(d) => ExpiresAt[HelloOf[c]] <= Wall

AInv ==
  /\ TypeOK
  /\ \A c \in Conns : Phases(c)
  /\ QueueShape
  /\ ReplayGuards
  /\ AcceptedIsNotTimedOut
  /\ AtMostOneAcceptedPerHello

-----------------------------------------------------------------------------
(***************************************************************************)
(* The order of the queue.                                                 *)
(***************************************************************************)

(* A nonempty set of natural numbers has a least element: induction.        *)
LEMMA LeastElement ==
  ASSUME NEW T \in SUBSET Nat, T # {}
  PROVE  \E x \in T : \A y \in T : x <= y
<1>1. IsWellFoundedOn(OpToRel(<, Nat), Nat)
  BY NatLessThanWellFounded
<1>2. PICK x \in T : \A y \in T : ~ (<<y, x>> \in OpToRel(<, Nat))
  BY <1>1, WFMin
<1>3. ASSUME NEW y \in T PROVE ~(y < x)
  <2>1. y \in Nat /\ x \in Nat
    OBVIOUS
  <2>2. y < x => <<y, x>> \in OpToRel(<, Nat)
    BY <2>1, Zenon DEF OpToRel
  <2>3. QED
    BY <1>2, <2>2, Zenon
<1>4. QED
  BY <1>3

(* Induction on 0..L, for a set of numbers that is closed under successor.  *)
LEMMA UpTo ==
  ASSUME NEW L \in Nat, NEW G, 0 \in G, \A m \in 1..L : m - 1 \in G => m \in G
  PROVE  0..L \subseteq G
<1> DEFINE T == {m \in 0..L : m \notin G}
<1>1. SUFFICES ASSUME T # {} PROVE FALSE
  OBVIOUS
<1>2. T \in SUBSET Nat
  OBVIOUS
<1>3. PICK m \in T : \A y \in T : m <= y
  <2> HIDE DEF T
  <2>1. QED
    BY <1>1, <1>2, LeastElement
<1>4. m \in 0..L /\ m \notin G
  OBVIOUS
<1>5. m \in 1..L
  BY <1>4
<1>6. m - 1 \notin T
  <2> HIDE DEF T
  <2>1. QED
    BY <1>3, <1>4
<1>7. QED
  BY <1>4, <1>5, <1>6

(* One step of retain.                                                      *)
Retain(s, ks, kept, n) ==
  IF n = 0 THEN <<>>
  ELSE IF s[n] \in ks THEN kept[n - 1] ELSE Append(kept[n - 1], s[n])

(* The recursion of Retained has a solution.                                *)
LEMMA RetainedExists ==
  ASSUME NEW S, NEW s \in Seq(S), NEW ks
  PROVE  \E f : f = [n \in 0..Len(s) |-> Retain(s, ks, f, n)]
<1> DEFINE Solved(m) == \E g \in [0..m -> Seq(S)] :
                          \A n \in 0..m : g[n] = Retain(s, ks, g, n)
           G == {m \in 0..Len(s) : Solved(m)}
<1>1. Len(s) \in Nat /\ \A n \in 1..Len(s) : s[n] \in S
  OBVIOUS
<1>2. 0 \in G
  <2> DEFINE g == [n \in 0..0 |-> <<>>]
  <2>1. g \in [0..0 -> Seq(S)] /\ \A n \in 0..0 : g[n] = Retain(s, ks, g, n)
    BY DEF Retain
  <2>2. Solved(0)
    BY <2>1
  <2> HIDE DEF Solved
  <2>3. QED
    BY <1>1, <2>2
<1>3. ASSUME NEW m \in 1..Len(s), m - 1 \in G
      PROVE  m \in G
  <2>1. PICK g \in [0..(m - 1) -> Seq(S)] :
          \A n \in 0..(m - 1) : g[n] = Retain(s, ks, g, n)
    BY <1>3
  <2> DEFINE h == [n \in 0..m |-> IF n = m THEN Retain(s, ks, g, m) ELSE g[n]]
  <2>2. Retain(s, ks, g, m) \in Seq(S)
    <3>1. g[m - 1] \in Seq(S) /\ s[m] \in S
      BY <1>1, <2>1
    <3>2. QED
      BY <3>1 DEF Retain
  <2>3. h \in [0..m -> Seq(S)]
    BY <1>1, <2>1, <2>2
  <2>4. ASSUME NEW n \in 0..m PROVE h[n] = Retain(s, ks, h, n)
    <3>1. CASE n = m
      BY <1>1, <3>1 DEF Retain
    <3>2. CASE n # m
      <4>1. n \in 0..(m - 1) /\ h[n] = g[n]
        BY <1>1, <3>2
      <4>2. n # 0 => h[n - 1] = g[n - 1]
        BY <1>1, <3>2
      <4>3. QED
        BY <4>1, <4>2, <2>1 DEF Retain
    <3>3. QED
      BY <3>1, <3>2
  <2>5. Solved(m)
    BY <2>3, <2>4
  <2> HIDE DEF Solved
  <2>6. QED
    BY <1>1, <2>5
<1>4. Len(s) \in G
  <2> HIDE DEF G
  <2>1. 0..Len(s) \subseteq G
    BY <1>1, <1>2, <1>3, UpTo, Zenon
  <2>2. QED
    BY <1>1, <2>1
<1>5. PICK g \in [0..Len(s) -> Seq(S)] :
        \A n \in 0..Len(s) : g[n] = Retain(s, ks, g, n)
  BY <1>4
<1>6. g = [n \in 0..Len(s) |-> Retain(s, ks, g, n)]
  BY <1>5
<1>7. QED
  BY <1>6

(* So Retained takes its step at every index.                               *)
LEMMA RetainedStep ==
  ASSUME NEW S, NEW s \in Seq(S), NEW ks, NEW n \in 0..Len(s)
  PROVE  Retained(s, ks)[n] = Retain(s, ks, Retained(s, ks), n)
<1> DEFINE P(f) == f = [m \in 0..Len(s) |-> Retain(s, ks, f, m)]
           F == Retained(s, ks)
<1>1. F = CHOOSE f : P(f)
  BY DEF Retained, Retain
<1>2. \E f : P(f)
  BY RetainedExists
<1>3. P(F)
  <2> HIDE DEF P, F
  <2>1. QED
    BY <1>1, <1>2, Zenon
<1> HIDE DEF F
<1>4. F[n] = Retain(s, ks, F, n)
  BY <1>3
<1>5. QED
  BY <1>4 DEF F

(* retain keeps exactly the keys outside ks, and repeats none.              *)
LEMMA RetainedKeeps ==
  ASSUME NEW S, NEW s \in Seq(S), NEW ks
  PROVE  /\ Retained(s, ks)[Len(s)] \in Seq(S)
         /\ Elements(Retained(s, ks)[Len(s)]) = Elements(s) \ ks
         /\ Distinct(s) => Distinct(Retained(s, ks)[Len(s)])
<1> DEFINE r(n) == Retained(s, ks)[n]
           Good(n) == /\ r(n) \in Seq(S)
                      /\ Elements(r(n)) = {s[k] : k \in 1..n} \ ks
                      /\ Distinct(s) => Distinct(r(n))
           G == {m \in 0..Len(s) : Good(m)}
<1>1. Len(s) \in Nat /\ \A n \in 1..Len(s) : s[n] \in S
  OBVIOUS
<1>2. Good(0)
  <2>1. r(0) = <<>>
    BY <1>1, RetainedStep DEF Retain
  <2>2. QED
    BY <2>1 DEF Distinct, Elements
<1>3. ASSUME NEW m \in 1..Len(s), Good(m - 1)
      PROVE  Good(m)
  <2>1. s[m] \in S /\ {s[k] : k \in 1..m} = {s[k] : k \in 1..(m - 1)} \cup {s[m]}
    BY <1>1
  <2>2. m \in 0..Len(s) /\ m # 0
    BY <1>1
  <2>3. Retained(s, ks)[m] = Retain(s, ks, Retained(s, ks), m)
    BY <2>2, RetainedStep
  <2>4. CASE s[m] \in ks
    <3>1. r(m) = r(m - 1)
      BY <2>2, <2>3, <2>4 DEF Retain
    <3> HIDE DEF r
    <3>2. QED
      BY <3>1, <2>1, <2>4, <1>3
  <2>5. CASE s[m] \notin ks
    <3>1. r(m) = Append(r(m - 1), s[m])
      BY <2>2, <2>3, <2>5 DEF Retain
    <3> HIDE DEF r
    <3>2. r(m) \in Seq(S)
      BY <3>1, <1>3, <2>1
    <3>3. Elements(r(m)) = Elements(r(m - 1)) \cup {s[m]}
      BY <3>1, <1>3, <2>1 DEF Elements
    <3>4. ASSUME Distinct(s) PROVE Distinct(r(m))
      <4>1. s[m] \notin {s[k] : k \in 1..(m - 1)}
        BY <1>1, <3>4 DEF Distinct
      <4>2. s[m] \notin Elements(r(m - 1))
        BY <4>1, <1>3
      <4>3. QED
        BY <4>2, <3>1, <3>4, <1>3, <2>1 DEF Distinct, Elements
    <3>5. QED
      BY <3>2, <3>3, <3>4, <2>1, <2>5, <1>3
  <2>6. QED
    BY <2>4, <2>5
<1> HIDE DEF Good
<1>4. Len(s) \in G
  <2>1. 0 \in G
    BY <1>1, <1>2
  <2>2. \A m \in 1..Len(s) : m - 1 \in G => m \in G
    BY <1>1, <1>3
  <2> HIDE DEF G
  <2>3. 0..Len(s) \subseteq G
    BY <1>1, <2>1, <2>2, UpTo, Zenon
  <2>4. QED
    BY <1>1, <2>3
<1>5. QED
  BY <1>4 DEF Good, Elements

(* Adding a new key at the end, and taking the first one off.               *)
LEMMA AppendElements ==
  ASSUME NEW S, NEW s \in Seq(S), NEW h \in S, h \notin Elements(s)
  PROVE  /\ Append(s, h) \in Seq(S)
         /\ Elements(Append(s, h)) = Elements(s) \cup {h}
         /\ Distinct(s) => Distinct(Append(s, h))
<1>1. Append(s, h) \in Seq(S) /\ Len(Append(s, h)) = Len(s) + 1
  OBVIOUS
<1>2. \A n \in 1..(Len(s) + 1) :
        Append(s, h)[n] = IF n <= Len(s) THEN s[n] ELSE h
  OBVIOUS
<1>3. Elements(Append(s, h)) = Elements(s) \cup {h}
  BY <1>1, <1>2 DEF Elements
<1>4. Distinct(s) => Distinct(Append(s, h))
  BY <1>1, <1>2 DEF Elements, Distinct
<1>5. QED
  BY <1>1, <1>3, <1>4

(* What pop_front leaves in the queue.                                      *)
LEMMA PopElements ==
  ASSUME NEW S, NEW s \in Seq(S), s # <<>>, Distinct(s)
  PROVE  /\ s[1] \in S
         /\ SubSeq(s, 2, Len(s)) \in Seq(S)
         /\ Elements(SubSeq(s, 2, Len(s))) = Elements(s) \ {s[1]}
         /\ Distinct(SubSeq(s, 2, Len(s)))
<1> DEFINE t == SubSeq(s, 2, Len(s))
<1>1. Len(s) \in Nat \ {0} /\ s[1] \in S
  <2>1. Len(s) \in Nat /\ Len(s) # 0
    BY EmptySeq
  <2>2. QED
    BY <2>1
<1>2. t \in Seq(S) /\ Len(t) = Len(s) - 1
  <2>1. 2 \in Int /\ Len(s) \in Int /\ \A n \in 2..Len(s) : s[n] \in S
    BY <1>1
  <2>2. t \in Seq(S) /\ Len(t) = IF 2 <= Len(s) THEN Len(s) - 2 + 1 ELSE 0
    BY <2>1, SubSeqProperties
  <2> HIDE DEF t
  <2>3. QED
    BY <1>1, <2>2
<1>3. \A n \in 1..(Len(s) - 1) : t[n] = s[n + 1]
  BY <1>1
<1> HIDE DEF t
<1>4. Distinct(t)
  BY <1>1, <1>2, <1>3 DEF Distinct
<1>5. Elements(t) = Elements(s) \ {s[1]}
  <2>1. ASSUME NEW x \in Elements(t) PROVE x \in Elements(s) \ {s[1]}
    BY <1>1, <1>2, <1>3 DEF Elements, Distinct
  <2>2. ASSUME NEW x \in Elements(s) \ {s[1]} PROVE x \in Elements(t)
    <3>1. PICK n \in 1..Len(s) : x = s[n]
      BY DEF Elements
    <3>2. n - 1 \in 1..(Len(s) - 1) /\ t[n - 1] = x
      BY <1>1, <1>3, <3>1
    <3>3. QED
      BY <1>2, <3>2 DEF Elements
  <2>3. QED
    BY <2>1, <2>2
<1>6. QED
  BY <1>1, <1>2, <1>4, <1>5 DEF t

(* A sequence without repetitions is as long as its set of elements.        *)
LEMMA DistinctLength ==
  ASSUME NEW S, NEW s \in Seq(S), Distinct(s)
  PROVE  /\ IsFiniteSet(Elements(s))
         /\ Len(s) = Cardinality(Elements(s))
<1>1. s \in Bijection(1..Len(s), Elements(s))
  BY DEF Elements, Distinct, Bijection, Injection, Surjection, IsInjective
<1>2. ExistsBijection(1..Len(s), Elements(s))
  BY <1>1 DEF ExistsBijection
<1>3. QED
  BY <1>2, FS_CountingElements, FS_NatBijection

-----------------------------------------------------------------------------
(***************************************************************************)
(* The clock and the cases a behaviour starts from.                        *)
(***************************************************************************)

(* The whole seconds of a later clock are no fewer.                         *)
LEMMA SecondsGrow ==
  ASSUME NEW t \in Nat \ {0}, NEW a \in Nat
  PROVE  a \div t \in Nat /\ a \div t <= (a + 1) \div t
OBVIOUS

(* What a load provides.                                                    *)
LEMMA LoadType ==
  ASSUME TypeOK
  PROVE  /\ HelloOf \in [Conns -> Hellos]
         /\ TicksPerSecond \in Nat \ {0}
         /\ clock \in Nat /\ Wall \in Nat
<1>1. load \in Load
  BY AdmissionAssumption DEF TypeOK
<1>2. HelloOf \in [Conns -> Hellos] /\ TicksPerSecond \in Nat \ {0} /\ clock \in Nat
  BY <1>1 DEF Load, HelloOf, TicksPerSecond, TypeOK
<1>3. QED
  BY <1>2, SecondsGrow DEF Wall

-----------------------------------------------------------------------------
(***************************************************************************)
(* What a removal leaves of the queue.                                     *)
(***************************************************************************)

(* The entries that stay are those whose key is not removed.                *)
LEMMA RemovedEntries ==
  ASSUME TypeOK, NEW ks \in SUBSET Hellos
  PROVE  /\ RemoveFromEntries(ks) \in [Hellos -> Conns \cup {NoConn}]
         /\ {h \in Hellos : RemoveFromEntries(ks)[h] # NoConn} = Queued \ ks
         /\ \A h \in Queued \ ks : RemoveFromEntries(ks)[h] = entries[h]
BY DEF TypeOK, RemoveFromEntries, Queued

(* So does their order.                                                     *)
LEMMA RemovedOrder ==
  ASSUME TypeOK, QueueShape, NEW ks \in SUBSET Hellos
  PROVE  /\ RemoveFromOrder(ks) \in Seq(Hellos)
         /\ Elements(RemoveFromOrder(ks)) = Queued \ ks
         /\ Distinct(RemoveFromOrder(ks))
BY RetainedKeeps DEF TypeOK, QueueShape, RemoveFromOrder

(* The queue is finite.                                                     *)
LEMMA QueueFinite ==
  ASSUME TypeOK, QueueShape
  PROVE  IsFiniteSet(Queued) /\ Len(order) = Cardinality(Queued)
BY DistinctLength DEF TypeOK, QueueShape

(* The counts lose exactly the removed requests of their identity.          *)
LEMMA RemovedCounts ==
  ASSUME TypeOK, QueueShape, NEW ks \in SUBSET Hellos
  PROVE  /\ RemoveFromCounts(ks) \in [Identities -> Nat]
         /\ \A i \in Identities :
              RemoveFromCounts(ks)[i]
                = Cardinality({h \in Queued \ ks : IdentityOf[h] = i})
<1> SUFFICES ASSUME NEW i \in Identities
             PROVE  /\ RemoveFromCounts(ks)[i] \in Nat
                    /\ RemoveFromCounts(ks)[i]
                         = Cardinality({h \in Queued \ ks : IdentityOf[h] = i})
  BY DEF RemoveFromCounts
<1> DEFINE all == {h \in Queued : IdentityOf[h] = i}
           gone == {h \in ks \cap Queued : IdentityOf[h] = i}
           left == {h \in Queued \ ks : IdentityOf[h] = i}
<1>1. IsFiniteSet(all)
  BY QueueFinite, FS_Subset
<1>2. IsFiniteSet(gone) /\ IsFiniteSet(left)
  BY <1>1, FS_Subset
<1>3. all = gone \cup left /\ gone \cap left = {}
  OBVIOUS
<1>4. Cardinality(all) = Cardinality(gone) + Cardinality(left)
  <2> HIDE DEF all, gone, left
  <2>1. Cardinality(gone \cup left)
          = Cardinality(gone) + Cardinality(left) - Cardinality(gone \cap left)
    BY <1>2, FS_Union
  <2>2. Cardinality(gone) \in Nat /\ Cardinality(left) \in Nat
    BY <1>2, FS_CardinalityType
  <2>3. Cardinality(gone \cap left) = 0
    BY <1>3, FS_EmptySet
  <2>4. QED
    BY <1>3, <2>1, <2>2, <2>3
<1>5. Cardinality(gone) \in Nat /\ Cardinality(left) \in Nat
  BY <1>2, FS_CardinalityType
<1>6. perIdentity[i] = Cardinality(all)
  BY DEF QueueShape
<1>7. RemoveFromCounts(ks)[i]
        = IF Cardinality(gone) > perIdentity[i] THEN 0
          ELSE perIdentity[i] - Cardinality(gone)
  BY DEF RemoveFromCounts
<1> HIDE DEF all, gone, left
<1>8. RemoveFromCounts(ks)[i] = Cardinality(left)
  BY <1>4, <1>5, <1>6, <1>7
<1>9. QED
  BY <1>5, <1>8 DEF left

(* The requests that stay are queued as before.                             *)
LEMMA RemovedRequests ==
  ASSUME TypeOK, QueueShape, NEW ks \in SUBSET Hellos
  PROVE  /\ DropRequests(ks) \in [Conns -> {"none", "queued", "held", "accepting",
                                            "peer", "dropped"}]
         /\ \A h \in Queued \ ks : DropRequests(ks)[entries[h]] = "queued"
         /\ \A c \in Conns :
              \/ DropRequests(ks)[c] = request[c]
              \/ DropRequests(ks)[c] = "dropped" /\ request[c] = "queued"
<1>1. DropRequests(ks) \in [Conns -> {"none", "queued", "held", "accepting",
                                      "peer", "dropped"}]
  BY DEF DropRequests, TypeOK
<1>2. ASSUME NEW h \in Queued \ ks
      PROVE  DropRequests(ks)[entries[h]] = "queued"
  <2>1. entries[h] \in Conns /\ request[entries[h]] = "queued"
        /\ HelloOf[entries[h]] = h
    BY DEF TypeOK, QueueShape, Queued
  <2>2. ~ \E g \in ks : entries[g] = entries[h]
    BY <2>1, AdmissionAssumption DEF QueueShape, Queued
  <2>3. QED
    BY <2>1, <2>2 DEF DropRequests
<1>3. ASSUME NEW c \in Conns, DropRequests(ks)[c] # request[c]
      PROVE  DropRequests(ks)[c] = "dropped" /\ request[c] = "queued"
  <2>1. PICK h \in ks : entries[h] = c
    BY <1>3 DEF DropRequests
  <2>2. h \in Queued
    BY <2>1, AdmissionAssumption DEF Queued
  <2>3. QED
    BY <2>1, <2>2 DEF DropRequests, QueueShape
<1>4. QED
  BY <1>1, <1>2, <1>3

-----------------------------------------------------------------------------
(***************************************************************************)
(* What most steps leave alone.                                            *)
(***************************************************************************)

(* The queue is consistent after a step that does not touch it.             *)
LEMMA QueueFrame ==
  ASSUME AInv, load' = load, UNCHANGED queueVars,
         \A c \in Conns : request[c] = "queued" => request'[c] = "queued"
  PROVE  QueueShape'
<1>1. UNCHANGED <<order, entries, perIdentity>> /\ Queued' = Queued
  BY DEF queueVars, Queued
<1>2. \A h \in Queued : entries[h] \in Conns
  BY DEF AInv, TypeOK, Queued
<1>3. HelloOf' = HelloOf
  BY DEF HelloOf
<1>4. \A h \in Queued' :
        HelloOf'[entries'[h]] = h /\ request'[entries'[h]] = "queued"
  BY <1>1, <1>2, <1>3 DEF AInv, QueueShape
<1>5. QED
  BY <1>1, <1>4 DEF AInv, QueueShape

(* A step that reserves and accepts nothing, and times out no accepted      *)
(* connection.                                                              *)
LEMMA Frame ==
  ASSUME AInv, TypeOK', \A c \in Conns : Phases(c)', QueueShape',
         load' = load, Wall <= Wall', replay \subseteq replay',
         \A c \in Conns : Reserved(c)' => Reserved(c),
         \A c \in Conns : Accepted(c)' =>
           /\ Accepted(c)
           /\ timer'[c] \in {"fired", "closing"} => timer[c] \in {"fired", "closing"}
           /\ c \in shut' => c \in shut
  PROVE  AInv'
<1>1. HelloOf' = HelloOf
  BY DEF HelloOf
<1>2. /\ \A c \in Conns : ExpiresAt[HelloOf[c]] \in Nat
      /\ Wall \in Nat /\ Wall' \in Nat
  <2>1. load' \in Load /\ clock' \in Nat
    BY AdmissionAssumption DEF TypeOK, Load
  <2>2. TicksPerSecond' \in Nat \ {0}
    BY <2>1 DEF TicksPerSecond, Load
  <2>3. Wall' \in Nat
    BY <2>1, <2>2, SecondsGrow DEF Wall
  <2>4. QED
    BY <2>3, LoadType, AdmissionAssumption DEF AInv
<1>3. ReplayGuards'
  BY <1>1, <1>2 DEF AInv, ReplayGuards
<1>4. AcceptedIsNotTimedOut'
  BY DEF AInv, AcceptedIsNotTimedOut, Accepted
<1>5. AtMostOneAcceptedPerHello'
  BY <1>1 DEF AInv, AtMostOneAcceptedPerHello, Accepted
<1>6. QED
  BY <1>3, <1>4, <1>5 DEF AInv

(* Initially nothing has connected.                                         *)
LEMMA InitAInv == Init => AInv
<1> SUFFICES ASSUME Init PROVE AInv
  OBVIOUS
<1>1. load \in Load
  BY AdmissionAssumption DEF Init
<1>2. TypeOK
  <2>1. missed \in [Callers -> BOOLEAN] /\ permit \in BOOLEAN
    BY Zenon DEF Init
  <2>2. clock \in 0..load.maxClock
    BY <1>1 DEF Init, Load
  <2>3. QED
    BY <2>1, <2>2 DEF Init, TypeOK
<1>3. \A c \in Conns : Phases(c)
  BY DEF Init, Phases, Early
<1>4. Queued = {}
  BY DEF Init, Queued
<1>5. QueueShape
  <2>1. order = <<>> /\ Elements(order) = {} /\ Distinct(order)
    BY DEF Init, Elements, Distinct
  <2>2. ASSUME NEW i \in Identities
        PROVE  perIdentity[i] = Cardinality({h \in Queued : IdentityOf[h] = i})
    <3>1. {h \in Queued : IdentityOf[h] = i} = {}
      BY <1>4
    <3>2. QED
      BY <3>1, FS_EmptySet DEF Init
  <2>3. QED
    BY <1>4, <2>1, <2>2 DEF QueueShape
<1>6. ReplayGuards /\ AcceptedIsNotTimedOut /\ AtMostOneAcceptedPerHello
  BY DEF Init, ReplayGuards, Reserved, AcceptedIsNotTimedOut,
         AtMostOneAcceptedPerHello
<1>7. QED
  BY <1>2, <1>3, <1>5, <1>6 DEF AInv

-----------------------------------------------------------------------------
(***************************************************************************)
(* The handler tasks.                                                      *)
(***************************************************************************)

(* The accept loop takes or refuses a connection, and a task that fails     *)
(* ends.                                                                    *)
LEMMA AcceptAInv ==
  ASSUME AInv, NEW c \in Conns, Accept(c) \/ Refuse(c) \/ HandlerFails(c)
  PROVE  AInv'
<1>1. /\ UNCHANGED <<load, clock, deadline, request, timer, shut, replay,
                     queueVars, closed, notifyVars>>
      /\ handler[c] \in {"none", "preauth", "verified", "reserved", "unreserve"}
      /\ \E to \in {"preauth", "refused", "done"} :
           /\ handler' = [handler EXCEPT ![c] = to]
           /\ to = "preauth" => handler[c] = "none"
  BY DEF Accept, Refuse, HandlerFails
<1>2. TypeOK'
  BY <1>1 DEF AInv, TypeOK, queueVars, notifyVars
<1>3. ASSUME NEW d \in Conns PROVE Phases(d)'
  BY <1>1 DEF AInv, TypeOK, Phases, Early
<1>4. QueueShape'
  BY <1>1, QueueFrame
<1>5. Wall' = Wall /\ Wall \in Nat
  BY <1>1, LoadType DEF Wall, TicksPerSecond, AInv
<1>6. \A d \in Conns : Reserved(d)' => Reserved(d)
  BY <1>1 DEF Reserved, AInv, TypeOK
<1>7. QED
  BY <1>1, <1>2, <1>3, <1>4, <1>5, <1>6, Frame DEF Accepted

(* A Hello verifies, and the deadline of its request is set.                *)
LEMMA AuthenticateAInv ==
  ASSUME AInv, NEW c \in Conns, Authenticate(c)
  PROVE  AInv'
<1> DEFINE left == ExpiresAt[HelloOf[c]] - Wall
<1>1. /\ UNCHANGED <<load, clock, request, timer, shut, replay, queueVars, closed,
                     notifyVars>>
      /\ handler[c] = "preauth"
      /\ left > 0
      /\ handler' = [handler EXCEPT ![c] = "verified"]
      /\ deadline' = [deadline EXCEPT
           ![c] = clock + TicksPerSecond * Min({HandshakeLimit, left})]
  BY DEF Authenticate
<1>2. left \in Nat /\ HandshakeLimit \in Nat
  BY <1>1, LoadType, AdmissionAssumption DEF AInv
<1>3. Min({HandshakeLimit, left}) \in Nat
  <2> HIDE DEF left
  <2>1. \E x \in {HandshakeLimit, left} : \A y \in {HandshakeLimit, left} : x <= y
    BY <1>2
  <2>2. QED
    BY <1>2, <2>1 DEF Min
<1>4. clock + TicksPerSecond * Min({HandshakeLimit, left}) \in Nat
  <2> HIDE DEF left
  <2>1. QED
    BY <1>3, LoadType DEF AInv
<1>5. TypeOK'
  <2> HIDE DEF left
  <2>1. QED
    BY <1>1, <1>4 DEF AInv, TypeOK, queueVars, notifyVars
<1>6. ASSUME NEW d \in Conns PROVE Phases(d)'
  BY <1>1 DEF AInv, TypeOK, Phases, Early
<1>7. QueueShape'
  BY <1>1, QueueFrame
<1>8. Wall' = Wall /\ Wall \in Nat
  BY <1>1, LoadType DEF Wall, TicksPerSecond, AInv
<1>9. \A d \in Conns : Reserved(d)' => Reserved(d)
  BY <1>1 DEF Reserved, AInv, TypeOK
<1>10. QED
  BY <1>1, <1>5, <1>6, <1>7, <1>8, <1>9, Frame DEF Accepted

(* The Hello is reserved: if another connection holds the reservation, the  *)
(* Hello has expired.                                                       *)
LEMMA ReserveReplayAInv ==
  ASSUME AInv, NEW c \in Conns, ReserveReplay(c)
  PROVE  AInv'
<1> DEFINE h == HelloOf[c]
           live == {g \in replay : ExpiresAt[g] > Wall}
           free == /\ h \notin live
                   /\ Cardinality(live) < ReplayCapacity
                   /\ Cardinality({g \in live : IdentityOf[g] = IdentityOf[h]})
                        < ReplayPerIdentity
<1>1. /\ UNCHANGED <<load, clock, deadline, request, timer, shut, queueVars, closed,
                     notifyVars>>
      /\ handler[c] = "verified"
      /\ replay' = IF free THEN live \cup {h} ELSE live
      /\ handler' = [handler EXCEPT ![c] = IF free THEN "reserved" ELSE "done"]
  BY DEF ReserveReplay
<1>2. h \in Hellos /\ \A g \in Hellos : ExpiresAt[g] \in Nat
  BY LoadType, AdmissionAssumption DEF AInv
<1>3. TypeOK'
  <2> HIDE DEF free
  <2>1. replay' \subseteq Hellos
    BY <1>1, <1>2 DEF AInv, TypeOK
  <2>2. QED
    BY <1>1, <2>1 DEF AInv, TypeOK, queueVars, notifyVars
<1>4. ASSUME NEW d \in Conns PROVE Phases(d)'
  <2> HIDE DEF free
  <2>1. QED
    BY <1>1 DEF AInv, TypeOK, Phases, Early
<1>5. QueueShape'
  BY <1>1, QueueFrame
<1>6. Wall' = Wall /\ HelloOf' = HelloOf /\ Wall \in Nat
  BY <1>1, LoadType DEF Wall, TicksPerSecond, HelloOf, AInv
<1>7. ReplayGuards'
  <2>1. \A d \in Conns \ {c} : Reserved(d)' <=> Reserved(d)
    BY <1>1 DEF Reserved, AInv, TypeOK
  <2>2. \A d \in Conns : HelloOf[d] \in Hellos
    BY LoadType DEF AInv
  <2>3. ASSUME NEW d \in Conns, Reserved(d)'
        PROVE  HelloOf[d] \in replay' \/ ExpiresAt[HelloOf[d]] <= Wall
    <3>1. CASE d = c
      <4>1. free
        BY <1>1, <2>3, <3>1 DEF Reserved, AInv, TypeOK, Phases, Early
      <4>2. QED
        BY <1>1, <3>1, <4>1
    <3>2. CASE d # c
      <4>1. HelloOf[d] \in replay \/ ExpiresAt[HelloOf[d]] <= Wall
        BY <2>1, <2>3, <3>2 DEF AInv, ReplayGuards
      <4>2. live \subseteq replay'
        BY <1>1
      <4>3. QED
        BY <1>2, <1>6, <2>2, <4>1, <4>2
    <3>3. QED
      BY <3>1, <3>2
  <2>4. ASSUME NEW d \in Conns, HelloOf[d] = h, d # c, Reserved(d)', Reserved(c)'
        PROVE  ExpiresAt[h] <= Wall
    <3>1. free
      BY <1>1, <2>4 DEF Reserved, AInv, TypeOK, Phases, Early
    <3>2. h \in replay \/ ExpiresAt[h] <= Wall
      BY <2>1, <2>4 DEF AInv, ReplayGuards
    <3>3. QED
      BY <1>2, <1>6, <3>1, <3>2
  <2>5. ASSUME NEW d \in Conns, Reserved(d)', NEW e \in Conns \ {d},
               HelloOf[e] = HelloOf[d], Reserved(e)'
        PROVE  ExpiresAt[HelloOf[d]] <= Wall
    BY <2>1, <2>4, <2>5 DEF AInv, ReplayGuards
  <2>6. QED
    BY <1>6, <2>3, <2>5 DEF ReplayGuards
<1>8. AcceptedIsNotTimedOut' /\ AtMostOneAcceptedPerHello'
  BY <1>1, <1>6 DEF AInv, AcceptedIsNotTimedOut, AtMostOneAcceptedPerHello
<1>9. QED
  BY <1>3, <1>4, <1>5, <1>7, <1>8 DEF AInv

(* A rejected request takes its reservation back.                           *)
LEMMA UnreserveAInv ==
  ASSUME AInv, NEW c \in Conns, Unreserve(c)
  PROVE  AInv'
<1>1. /\ UNCHANGED <<load, clock, deadline, request, timer, shut, queueVars, closed,
                     notifyVars>>
      /\ handler[c] = "unreserve"
      /\ replay' = replay \ {HelloOf[c]}
      /\ handler' = [handler EXCEPT ![c] = "done"]
  BY DEF Unreserve
<1>2. TypeOK'
  BY <1>1 DEF AInv, TypeOK, queueVars, notifyVars
<1>3. ASSUME NEW d \in Conns PROVE Phases(d)'
  BY <1>1 DEF AInv, TypeOK, Phases, Early
<1>4. QueueShape'
  BY <1>1, QueueFrame
<1>5. Wall' = Wall /\ HelloOf' = HelloOf
  BY <1>1 DEF Wall, TicksPerSecond, HelloOf
<1>6. ReplayGuards'
  <2>1. Reserved(c) /\ ~Reserved(c)' /\ \A d \in Conns \ {c} : Reserved(d)' <=> Reserved(d)
    BY <1>1 DEF Reserved, AInv, TypeOK, Phases, Early
  <2>2. ASSUME NEW d \in Conns, Reserved(d)', HelloOf[d] \notin replay'
        PROVE  ExpiresAt[HelloOf[d]] <= Wall
    <3>1. Reserved(d) /\ d # c
      BY <2>1, <2>2
    <3>2. CASE HelloOf[d] = HelloOf[c]
      BY <2>1, <3>1, <3>2 DEF AInv, ReplayGuards
    <3>3. CASE HelloOf[d] # HelloOf[c]
      BY <1>1, <2>2, <3>1, <3>3 DEF AInv, ReplayGuards
    <3>4. QED
      BY <3>2, <3>3
  <2>3. QED
    BY <1>5, <2>1, <2>2 DEF AInv, ReplayGuards
<1>7. AcceptedIsNotTimedOut' /\ AtMostOneAcceptedPerHello'
  BY <1>1, <1>5 DEF AInv, AcceptedIsNotTimedOut, AtMostOneAcceptedPerHello
<1>8. QED
  BY <1>2, <1>3, <1>4, <1>6, <1>7 DEF AInv

(* The queue after a removal, when nothing else changes.                    *)
LEMMA RemovalShape ==
  ASSUME AInv, NEW ks \in SUBSET Hellos, load' = load,
         order' = RemoveFromOrder(ks), entries' = RemoveFromEntries(ks),
         perIdentity' = RemoveFromCounts(ks), request' = DropRequests(ks)
  PROVE  QueueShape'
<1>1. TypeOK /\ QueueShape
  BY DEF AInv
<1>2. Queued' = Queued \ ks
  BY <1>1, RemovedEntries DEF Queued
<1>3. Elements(order)' = Queued' /\ Distinct(order)'
  BY <1>1, <1>2, RemovedOrder
<1>4. \A i \in Identities :
        perIdentity'[i] = Cardinality({h \in Queued' : IdentityOf[h] = i})
  BY <1>1, <1>2, RemovedCounts
<1>5. \A h \in Queued' : entries'[h] = entries[h] /\ request'[entries[h]] = "queued"
  BY <1>1, <1>2, RemovedEntries, RemovedRequests
<1>6. \A h \in Queued' :
        HelloOf'[entries'[h]] = h /\ request'[entries'[h]] = "queued"
  BY <1>1, <1>2, <1>5 DEF QueueShape, HelloOf
<1>7. QED
  BY <1>3, <1>4, <1>6 DEF QueueShape

(* The types of the queue after a removal.                                  *)
LEMMA RemovalTypes ==
  ASSUME AInv, NEW ks \in SUBSET Hellos
  PROVE  /\ RemoveFromOrder(ks) \in Seq(Hellos)
         /\ RemoveFromEntries(ks) \in [Hellos -> Conns \cup {NoConn}]
         /\ RemoveFromCounts(ks) \in [Identities -> Nat]
         /\ DropRequests(ks) \in [Conns -> {"none", "queued", "held", "accepting",
                                            "peer", "dropped"}]
BY RemovedOrder, RemovedEntries, RemovedCounts, RemovedRequests DEF AInv

(* The queue after an admission: the new request is last in the order.      *)
LEMMA AdmissionShape ==
  ASSUME AInv, NEW c \in Conns, NEW ks \in SUBSET Hellos, load' = load,
         RemoveFromEntries(ks)[HelloOf[c]] = NoConn,
         order' = Append(RemoveFromOrder(ks), HelloOf[c]),
         entries' = [RemoveFromEntries(ks) EXCEPT ![HelloOf[c]] = c],
         perIdentity' = [RemoveFromCounts(ks) EXCEPT ![IdentityOf[HelloOf[c]]] = @ + 1],
         request' = [DropRequests(ks) EXCEPT ![c] = "queued"]
  PROVE  QueueShape'
<1> DEFINE h == HelloOf[c]
<1>1. TypeOK /\ QueueShape /\ h \in Hellos /\ IdentityOf[h] \in Identities
  BY LoadType, AdmissionAssumption DEF AInv
<1>2. Queued' = (Queued \ ks) \cup {h} /\ h \notin Queued \ ks
  BY <1>1, RemovedEntries, AdmissionAssumption DEF Queued
<1>3. Elements(order)' = Queued' /\ Distinct(order)'
  BY <1>1, <1>2, RemovedOrder, AppendElements
<1>4. ASSUME NEW i \in Identities
      PROVE  perIdentity'[i] = Cardinality({g \in Queued' : IdentityOf[g] = i})
  <2> DEFINE old == {g \in Queued \ ks : IdentityOf[g] = i}
             new == {g \in Queued' : IdentityOf[g] = i}
  <2>1. RemoveFromCounts(ks)[i] = Cardinality(old) /\ IsFiniteSet(old)
    <3>1. IsFiniteSet(old)
      BY <1>1, QueueFinite, FS_Subset
    <3>2. QED
      BY <1>1, <3>1, RemovedCounts
  <2>2. CASE i = IdentityOf[h]
    <3>1. new = old \cup {h} /\ h \notin old
      BY <1>2, <2>2
    <3>2. perIdentity'[i] = RemoveFromCounts(ks)[i] + 1
      BY <1>1, <2>2, RemovedCounts
    <3> HIDE DEF old, new
    <3>3. Cardinality(new) = Cardinality(old) + 1
      BY <2>1, <3>1, FS_AddElement
    <3>4. QED
      BY <2>1, <3>2, <3>3 DEF new
  <2>3. CASE i # IdentityOf[h]
    <3>1. new = old
      BY <1>2, <2>3
    <3>2. perIdentity'[i] = RemoveFromCounts(ks)[i]
      BY <1>1, <2>3, RemovedCounts
    <3>3. QED
      BY <2>1, <3>1, <3>2
  <2>4. QED
    BY <2>2, <2>3
<1>5. ASSUME NEW g \in Queued'
      PROVE  HelloOf'[entries'[g]] = g /\ request'[entries'[g]] = "queued"
  <2>1. HelloOf' = HelloOf
    BY DEF HelloOf
  <2>2. CASE g = h
    BY <1>1, <2>1, <2>2, RemovedEntries, RemovedRequests
  <2>3. CASE g # h
    <3>1. g \in Queued \ ks
      BY <1>2, <2>3
    <3>2. entries'[g] = entries[g]
      <4>1. RemoveFromEntries(ks)[g] = entries[g] /\ g \in Hellos
        BY <1>1, <3>1, RemovedEntries DEF Queued
      <4>2. QED
        BY <1>1, <2>3, <4>1, RemovedEntries
    <3>3. entries[g] \in Conns /\ HelloOf[entries[g]] = g
      BY <1>1, <3>1 DEF QueueShape, TypeOK, Queued
    <3>4. DropRequests(ks)[entries[g]] = "queued"
      BY <1>1, <3>1, RemovedRequests, Zenon
    <3>5. request'[entries[g]] = "queued"
      BY <1>1, <2>3, <3>3, <3>4, RemovedRequests
    <3>6. QED
      BY <2>1, <3>2, <3>3, <3>5
  <2>4. QED
    BY <2>2, <2>3
<1>6. QED
  BY <1>3, <1>4, <1>5 DEF QueueShape

(* A request is queued or rejected; expired ones are dropped first.         *)
LEMMA InsertAInv ==
  ASSUME AInv, NEW c \in Conns, Insert(c)
  PROVE  AInv'
<1> DEFINE h == HelloOf[c]
           kept == RemoveFromEntries(Expired)
           counts == RemoveFromCounts(Expired)
           drop == DropRequests(Expired)
<1>1. /\ handler[c] = "reserved"
      /\ UNCHANGED <<load, clock, deadline, timer, shut, replay, closed, notifyVars>>
  BY DEF Insert
<1>2. \/ /\ kept[h] = NoConn
         /\ order' = Append(RemoveFromOrder(Expired), h)
         /\ entries' = [kept EXCEPT ![h] = c]
         /\ perIdentity' = [counts EXCEPT ![IdentityOf[h]] = @ + 1]
         /\ request' = [drop EXCEPT ![c] = "queued"]
         /\ handler' = [handler EXCEPT ![c] = "inserted"]
      \/ /\ order' = RemoveFromOrder(Expired)
         /\ entries' = kept
         /\ perIdentity' = counts
         /\ request' = drop
         /\ handler' = [handler EXCEPT ![c] = "unreserve"]
  BY DEF Insert
<1>3. Expired \in SUBSET Hellos /\ h \in Hellos /\ IdentityOf[h] \in Identities
  BY LoadType, AdmissionAssumption DEF Expired, Queued, AInv
<1>4. QueueShape'
  <2>1. CASE handler'[c] = "inserted"
    BY <1>1, <1>2, <1>3, <2>1, AdmissionShape DEF AInv, TypeOK
  <2>2. CASE handler'[c] # "inserted"
    BY <1>1, <1>2, <1>3, <2>2, RemovalShape DEF AInv, TypeOK
  <2>3. QED
    BY <2>1, <2>2
<1>5. \A d \in Conns : \/ drop[d] = request[d]
                       \/ drop[d] = "dropped" /\ request[d] = "queued"
  BY <1>3, RemovedRequests, Zenon DEF AInv
<1>6. /\ kept \in [Hellos -> Conns \cup {NoConn}]
      /\ counts \in [Identities -> Nat]
      /\ drop \in [Conns -> {"none", "queued", "held", "accepting", "peer", "dropped"}]
      /\ RemoveFromOrder(Expired) \in Seq(Hellos)
  BY <1>3, RemovalTypes
<1> HIDE DEF kept, counts, drop, h
<1>7. TypeOK'
  <2> DEFINE o == RemoveFromOrder(Expired)
  <2>1. order' \in Seq(Hellos)
    <3>1. order' = Append(o, h) \/ order' = o
      BY <1>2
    <3>2. o \in Seq(Hellos) /\ h \in Hellos
      BY <1>3, <1>6
    <3> HIDE DEF o
    <3>3. QED
      BY <3>1, <3>2
  <2>2. entries' \in [Hellos -> Conns \cup {NoConn}]
    BY <1>2, <1>3, <1>6
  <2>3. perIdentity' \in [Identities -> Nat]
    <3>1. counts[IdentityOf[h]] + 1 \in Nat
      BY <1>3, <1>6
    <3>2. QED
      BY <1>2, <1>3, <1>6, <3>1
  <2>4. request' \in [Conns -> {"none", "queued", "held", "accepting", "peer",
                                "dropped"}]
    BY <1>2, <1>6
  <2>5. QED
    BY <1>1, <1>2, <2>1, <2>2, <2>3, <2>4 DEF AInv, TypeOK, notifyVars
<1>8. ASSUME NEW d \in Conns PROVE Phases(d)'
  BY <1>1, <1>2, <1>5, <1>6 DEF AInv, TypeOK, Phases, Early
<1>9. Wall' = Wall /\ Wall \in Nat
  BY <1>1, LoadType DEF Wall, TicksPerSecond, AInv
<1>10. \A d \in Conns : Reserved(d)' => Reserved(d)
  BY <1>1, <1>2, <1>5, <1>6 DEF Reserved, AInv, TypeOK
<1>11. \A d \in Conns : Accepted(d)' => Accepted(d)
  BY <1>1, <1>2, <1>5, <1>6 DEF Accepted, AInv, TypeOK
<1>12. QED
  BY <1>1, <1>4, <1>7, <1>8, <1>9, <1>10, <1>11, Frame

(* The types of Notify.                                                     *)
NotifyType ==
  /\ caller \in [Callers -> {"idle", "looking", "polling", "waiting"}]
  /\ missed \in [Callers -> BOOLEAN]
  /\ waiters \in Seq(Callers)
  /\ permit \in BOOLEAN

(* notify_one and notify_waiters keep them.                                 *)
LEMMA NotifyOneType ==
  ASSUME NotifyType, NotifyOne
  PROVE  NotifyType'
<1>1. CASE waiters = <<>>
  BY <1>1 DEF NotifyOne, NotifyType
<1>2. CASE waiters # <<>>
  <2>1. Head(waiters) \in Callers /\ Tail(waiters) \in Seq(Callers)
    BY <1>2, HeadTailProperties DEF NotifyType
  <2>2. /\ caller' = [caller EXCEPT ![Head(waiters)] = "looking"]
        /\ missed' = [missed EXCEPT ![Head(waiters)] = FALSE]
        /\ waiters' = Tail(waiters)
        /\ permit' = permit
    BY <1>2 DEF NotifyOne
  <2>3. missed' \in [Callers -> BOOLEAN]
    BY <2>1, <2>2 DEF NotifyType
  <2>4. caller' \in [Callers -> {"idle", "looking", "polling", "waiting"}]
    BY <2>1, <2>2 DEF NotifyType
  <2>5. QED
    BY <2>1, <2>2, <2>3, <2>4 DEF NotifyType
<1>3. QED
  BY <1>1, <1>2

(* notify_waiters keeps the types of the Notify and its callers.            *)
LEMMA NotifyWaitersType ==
  ASSUME NotifyType, NotifyWaiters
  PROVE  NotifyType'
<1>1. caller' \in [Callers -> {"idle", "looking", "polling", "waiting"}]
  BY DEF NotifyWaiters, NotifyType
<1>2. missed' \in [Callers -> BOOLEAN]
  <2>1. \A u \in Callers : (caller[u] \in {"looking", "polling"}) \in BOOLEAN
    OBVIOUS
  <2>2. QED
    BY <2>1 DEF NotifyWaiters
<1>3. waiters' \in Seq(Callers) /\ permit' \in BOOLEAN
  BY DEF NotifyWaiters, NotifyType
<1>4. QED
  BY <1>1, <1>2, <1>3 DEF NotifyType

(* An inserted request is announced, and its expiry task is spawned.        *)
LEMMA AnnounceAInv ==
  ASSUME AInv, NEW c \in Conns, NotifyInserted(c) \/ ArmTimer(c)
  PROVE  AInv'
<1>1. /\ UNCHANGED <<load, clock, deadline, request, shut, replay, queueVars, closed>>
      /\ \/ /\ handler[c] = "inserted" /\ timer' = timer
            /\ handler' = [handler EXCEPT ![c] = "arming"]
         \/ /\ handler[c] = "arming" /\ timer' = [timer EXCEPT ![c] = "armed"]
            /\ handler' = [handler EXCEPT ![c] = "done"]
  BY DEF NotifyInserted, ArmTimer
<1>2. NotifyType
  BY DEF AInv, TypeOK, NotifyType
<1>3. NotifyType'
  <2>1. CASE NotifyInserted(c)
    BY <1>2, <2>1, NotifyOneType DEF NotifyInserted
  <2>2. CASE ArmTimer(c)
    BY <1>2, <2>2 DEF ArmTimer, NotifyType, notifyVars
  <2>3. QED
    BY <2>1, <2>2
<1>4. TypeOK'
  BY <1>1, <1>3 DEF AInv, TypeOK, queueVars, NotifyType
<1>5. ASSUME NEW d \in Conns PROVE Phases(d)'
  BY <1>1 DEF AInv, TypeOK, Phases, Early
<1>6. QueueShape'
  BY <1>1, QueueFrame
<1>7. Wall' = Wall /\ Wall \in Nat
  BY <1>1, LoadType DEF Wall, TicksPerSecond, AInv
<1>8. \A d \in Conns : Reserved(d)' => Reserved(d)
  BY <1>1 DEF Reserved, AInv, TypeOK
<1>9. \A d \in Conns :
        timer'[d] \in {"fired", "closing"} => timer[d] \in {"fired", "closing"}
  BY <1>1 DEF AInv, TypeOK
<1>10. QED
  BY <1>1, <1>4, <1>5, <1>6, <1>7, <1>8, <1>9, Frame DEF Accepted

-----------------------------------------------------------------------------
(***************************************************************************)
(* The expiry tasks.                                                       *)
(***************************************************************************)

(* A timer is cancelled, fires after the deadline, or closes.               *)
LEMMA TimerAInv ==
  ASSUME AInv, NEW c \in Conns,
         TimerCancelled(c) \/ TimerFires(c) \/ TimerCloses(c)
  PROVE  AInv'
<1>1. /\ UNCHANGED <<load, clock, handler, deadline, request, replay, queueVars,
                     closed, notifyVars>>
      /\ \/ /\ timer[c] = "armed" /\ timer' = [timer EXCEPT ![c] = "off"]
            /\ shut' = shut
         \/ /\ timer[c] = "armed" /\ timer' = [timer EXCEPT ![c] = "fired"]
            /\ request[c] \in {"queued", "held"} /\ clock > deadline[c]
            /\ shut' = shut
         \/ /\ timer[c] = "closing" /\ timer' = [timer EXCEPT ![c] = "off"]
            /\ shut' = shut \cup {c}
  BY DEF TimerCancelled, TimerFires, TimerCloses, Cancelled
<1>2. TypeOK'
  BY <1>1 DEF AInv, TypeOK, queueVars, notifyVars
<1>3. ASSUME NEW d \in Conns PROVE Phases(d)'
  BY <1>1 DEF AInv, TypeOK, Phases, Early
<1>4. QueueShape'
  BY <1>1, QueueFrame
<1>5. Wall' = Wall /\ Wall \in Nat
  BY <1>1, LoadType DEF Wall, TicksPerSecond, AInv
<1>6. \A d \in Conns : Reserved(d)' => Reserved(d)
  BY <1>1 DEF Reserved
<1>7. ASSUME NEW d \in Conns, Accepted(d)'
      PROVE  /\ Accepted(d)
             /\ timer'[d] \in {"fired", "closing"} => timer[d] \in {"fired", "closing"}
             /\ d \in shut' => d \in shut
  BY <1>1, <1>7 DEF Accepted, AInv, TypeOK, AcceptedIsNotTimedOut
<1>8. QED
  BY <1>1, <1>2, <1>3, <1>4, <1>5, <1>6, <1>7, Frame

(* An expiry task removes its key from the queue and wakes every caller.    *)
LEMMA TimerExpiresAInv ==
  ASSUME AInv, NEW c \in Conns, TimerExpires(c)
  PROVE  AInv'
<1> DEFINE ks == {HelloOf[c]} \cap Queued
<1>1. /\ timer[c] = "fired" /\ NotifyWaiters
      /\ timer' = [timer EXCEPT ![c] = "closing"]
      /\ UNCHANGED <<load, clock, handler, deadline, shut, replay, closed>>
      /\ order' = RemoveFromOrder(ks)
      /\ entries' = RemoveFromEntries(ks)
      /\ perIdentity' = RemoveFromCounts(ks)
      /\ request' = DropRequests(ks)
  BY DEF TimerExpires
<1>2. ks \in SUBSET Hellos
  BY DEF Queued
<1> HIDE DEF ks
<1>3. QueueShape'
  BY <1>1, <1>2, RemovalShape
<1>4. \A d \in Conns : \/ request'[d] = request[d]
                       \/ request'[d] = "dropped" /\ request[d] = "queued"
  BY <1>1, <1>2, RemovedRequests, Zenon, SMTT(20) DEF AInv
<1>5. NotifyType'
  BY <1>1, NotifyWaitersType DEF AInv, TypeOK, NotifyType
<1>6. TypeOK'
  BY <1>1, <1>2, <1>5, RemovalTypes DEF AInv, TypeOK, NotifyType
<1>7. ASSUME NEW d \in Conns PROVE Phases(d)'
  BY <1>1, <1>4 DEF AInv, TypeOK, Phases, Early
<1>8. Wall' = Wall /\ Wall \in Nat
  BY <1>1, LoadType DEF Wall, TicksPerSecond, AInv
<1>9. \A d \in Conns : (Reserved(d)' => Reserved(d)) /\ (Accepted(d)' => Accepted(d))
  BY <1>1, <1>4 DEF Reserved, Accepted
<1>10. \A d \in Conns :
         timer'[d] \in {"fired", "closing"} => timer[d] \in {"fired", "closing"}
  BY <1>1 DEF AInv, TypeOK
<1>11. QED
  BY <1>1, <1>3, <1>6, <1>7, <1>8, <1>9, <1>10, Frame

-----------------------------------------------------------------------------
(***************************************************************************)
(* The application.                                                        *)
(***************************************************************************)

(* Steps that only move calls of next_incoming, or the closing flag.        *)
LEMMA CallerAInv ==
  ASSUME AInv,
         (\E u \in Callers : CallNext(u) \/ Await(u)) \/ CloseNotifies
  PROVE  AInv'
<1>1. UNCHANGED <<load, clock, handler, deadline, request, timer, shut, replay,
                  queueVars>>
  BY DEF CallNext, Await, CloseNotifies
<1>2. NotifyType /\ closed \in {"open", "closed", "notified"}
  BY DEF AInv, TypeOK, NotifyType
<1>3. NotifyType'
  <2>1. ASSUME NEW u \in Callers, CallNext(u) PROVE NotifyType'
    <3>1. missed' \in [Callers -> BOOLEAN]
      BY <1>2, <2>1 DEF CallNext, NotifyType
    <3>2. QED
      BY <1>2, <2>1, <3>1 DEF CallNext, NotifyType
  <2>2. ASSUME NEW u \in Callers, Await(u) PROVE NotifyType'
    <3>1. missed' \in [Callers -> BOOLEAN]
      <4>1. missed' = missed \/ missed' = [missed EXCEPT ![u] = FALSE]
        BY <2>2 DEF Await
      <4>2. QED
        BY <1>2, <4>1 DEF NotifyType
    <3>2. caller' \in [Callers -> {"idle", "looking", "polling", "waiting"}]
      BY <1>2, <2>2 DEF Await, NotifyType
    <3>3. waiters' \in Seq(Callers) /\ permit' \in BOOLEAN
      <4>1. waiters' = waiters \/ waiters' = Append(waiters, u)
        BY <2>2 DEF Await
      <4>2. waiters' \in Seq(Callers)
        BY <1>2, <4>1 DEF NotifyType
      <4>3. permit' = permit \/ permit' = FALSE
        BY <2>2, Zenon DEF Await
      <4>4. permit' \in BOOLEAN
        BY <1>2, <4>3, Zenon DEF NotifyType
      <4>5. QED
        BY <4>2, <4>4
    <3>4. QED
      BY <3>1, <3>2, <3>3 DEF NotifyType
  <2>3. CASE CloseNotifies
    BY <1>2, <2>3, NotifyWaitersType DEF CloseNotifies
  <2>4. QED
    BY <2>1, <2>2, <2>3
<1>4. closed' \in {"open", "closed", "notified"}
  BY <1>2 DEF CallNext, Await, CloseNotifies
<1>5. TypeOK'
  BY <1>1, <1>3, <1>4 DEF AInv, TypeOK, NotifyType, queueVars
<1>6. ASSUME NEW d \in Conns PROVE Phases(d)'
  BY <1>1 DEF AInv, Phases
<1>7. QueueShape'
  BY <1>1, QueueFrame
<1>8. Wall' = Wall /\ Wall \in Nat
  BY <1>1, LoadType DEF Wall, TicksPerSecond, AInv
<1>9. QED
  BY <1>1, <1>5, <1>6, <1>7, <1>8, Frame DEF Reserved, Accepted

(* A call takes the oldest live request, after the expired ones are gone.   *)
(* The first key of the order always has an entry.                          *)
LEMMA LookFindsFirst ==
  ASSUME AInv
  PROVE  LET live == RemoveFromOrder(Expired)
             kept == RemoveFromEntries(Expired)
             found == {n \in 1..Len(live) : kept[live[n]] # NoConn}
         IN  /\ found = {} => live = <<>>
             /\ found # {} => Min(found) = 1 /\ live # <<>>
<1> DEFINE live == RemoveFromOrder(Expired)
           kept == RemoveFromEntries(Expired)
           found == {n \in 1..Len(live) : kept[live[n]] # NoConn}
<1>1. Expired \in SUBSET Hellos /\ TypeOK /\ QueueShape
  BY DEF Expired, Queued, AInv
<1>2. live \in Seq(Hellos) /\ Elements(live) = Queued \ Expired
  BY <1>1, RemovedOrder
<1>3. \A h \in Queued \ Expired : kept[h] # NoConn
  BY <1>1, RemovedEntries DEF Queued
<1> HIDE DEF live, kept
<1>4. found = 1..Len(live) /\ Len(live) \in Nat
  BY <1>2, <1>3 DEF Elements
<1> HIDE DEF found
<1>5. ASSUME found = {} PROVE live = <<>>
  <2>1. Len(live) = 0
    BY <1>4, <1>5
  <2>2. QED
    BY <1>2, <2>1, EmptySeq
<1>6. ASSUME found # {} PROVE Min(found) = 1 /\ live # <<>>
  <2>1. 1 \in found /\ \A n \in found : n \in Nat /\ 1 <= n
    BY <1>4, <1>6
  <2>2. Min(found) \in found /\ \A n \in found : Min(found) <= n
    BY <2>1 DEF Min
  <2>3. Min(found) = 1
    BY <2>1, <2>2
  <2>4. QED
    BY <1>4, <2>1, <2>3
<1>7. QED
  BY <1>5, <1>6 DEF found, live, kept

(* The queue after a call has taken the first live request.                 *)
LEMMA TakenShape ==
  ASSUME AInv, NEW ks \in SUBSET Hellos, load' = load,
         NEW h, RemoveFromOrder(ks) # <<>>, h = RemoveFromOrder(ks)[1],
         order' = SubSeq(RemoveFromOrder(ks), 2, Len(RemoveFromOrder(ks))),
         entries' = [RemoveFromEntries(ks) EXCEPT ![h] = NoConn],
         perIdentity' = RemoveFromCounts(ks \cup {h}),
         request' = [DropRequests(ks) EXCEPT ![RemoveFromEntries(ks)[h]] = "held"]
  PROVE  /\ QueueShape'
         /\ h \in Queued \ ks
         /\ RemoveFromEntries(ks)[h] = entries[h]
         /\ entries[h] \in Conns /\ request[entries[h]] = "queued"
         /\ order' \in Seq(Hellos)
         /\ perIdentity' \in [Identities -> Nat]
<1> DEFINE live == RemoveFromOrder(ks)
<1>1. TypeOK /\ QueueShape
  BY DEF AInv
<1>2. live \in Seq(Hellos) /\ Elements(live) = Queued \ ks /\ Distinct(live)
  BY <1>1, RemovedOrder
<1> HIDE DEF live
<1>3. h \in Hellos /\ order' \in Seq(Hellos)
      /\ Elements(order)' = (Queued \ ks) \ {h} /\ Distinct(order)'
  BY <1>2, PopElements DEF live
<1>4. h \in Queued \ ks
  <2>1. Len(live) \in Nat \ {0}
    BY <1>2, EmptySeq DEF live
  <2>2. h \in Elements(live)
    BY <2>1 DEF Elements, live
  <2>3. QED
    BY <1>2, <2>2
<1>5. /\ RemoveFromEntries(ks)[h] = entries[h]
      /\ entries[h] \in Conns
      /\ request[entries[h]] = "queued" /\ HelloOf[entries[h]] = h
  <2>1. RemoveFromEntries(ks)[h] = entries[h]
    BY <1>1, <1>4, RemovedEntries, Zenon
  <2>2. QED
    BY <1>1, <1>4, <2>1 DEF QueueShape, TypeOK, Queued
<1>6. Queued' = Queued \ (ks \cup {h})
  BY <1>1, <1>3, RemovedEntries DEF Queued
<1>7. /\ \A i \in Identities :
           perIdentity'[i] = Cardinality({g \in Queued' : IdentityOf[g] = i})
      /\ perIdentity' \in [Identities -> Nat]
  <2>1. ks \cup {h} \in SUBSET Hellos
    BY <1>3
  <2>2. QED
    BY <1>1, <1>6, <2>1, RemovedCounts
<1>8. ASSUME NEW g \in Queued'
      PROVE  HelloOf'[entries'[g]] = g /\ request'[entries'[g]] = "queued"
  <2>1. g \in Queued \ ks /\ g # h
    BY <1>6
  <2>2. RemoveFromEntries(ks)[g] = entries[g] /\ g \in Hellos
    BY <1>1, <2>1, RemovedEntries DEF Queued
  <2>3. entries'[g] = entries[g]
    BY <1>1, <2>1, <2>2, RemovedEntries
  <2>4. entries[g] \in Conns /\ HelloOf[entries[g]] = g
    BY <1>1, <2>1 DEF QueueShape, TypeOK, Queued
  <2>5. DropRequests(ks)[entries[g]] = "queued"
    BY <1>1, <2>1, RemovedRequests, Zenon
  <2>6. request'[entries[g]] = "queued"
    BY <1>1, <1>5, <2>1, <2>4, <2>5, RemovedRequests
  <2>7. QED
    BY <2>3, <2>4, <2>6 DEF HelloOf
<1>9. QueueShape'
  BY <1>3, <1>6, <1>7, <1>8 DEF QueueShape
<1>10. QED
  BY <1>3, <1>4, <1>5, <1>7, <1>9

(* One round of next().                                                     *)
LEMMA LookAInv ==
  ASSUME AInv, NEW u \in Callers, Look(u)
  PROVE  AInv'
<1> DEFINE ks == Expired
           live == RemoveFromOrder(ks)
           kept == RemoveFromEntries(ks)
           drop == DropRequests(ks)
           found == {n \in 1..Len(live) : kept[live[n]] # NoConn}
<1>1. /\ UNCHANGED <<load, clock, handler, deadline, timer, shut, replay, closed,
                     missed, waiters, permit>>
      /\ \/ /\ found # {}
            /\ order' = SubSeq(live, Min(found) + 1, Len(live))
            /\ entries' = [kept EXCEPT ![live[Min(found)]] = NoConn]
            /\ perIdentity' = RemoveFromCounts(ks \cup {live[Min(found)]})
            /\ request' = [drop EXCEPT ![kept[live[Min(found)]]] = "held"]
         \/ /\ found = {}
            /\ order' = <<>>
            /\ entries' = kept
            /\ perIdentity' = RemoveFromCounts(ks)
            /\ request' = drop
  BY DEF Look
<1>2. \E to \in {"idle", "polling"} : caller' = [caller EXCEPT ![u] = to]
  BY DEF Look
<1>3. ks \in SUBSET Hellos
  BY DEF Expired, Queued
<1>4. (found = {} => live = <<>>) /\ (found # {} => Min(found) = 1 /\ live # <<>>)
  BY LookFindsFirst
<1> HIDE DEF ks, found
<1>5. /\ kept \in [Hellos -> Conns \cup {NoConn}]
      /\ RemoveFromCounts(ks) \in [Identities -> Nat]
      /\ drop \in [Conns -> {"none", "queued", "held", "accepting", "peer", "dropped"}]
      /\ live \in Seq(Hellos)
  BY <1>3, RemovalTypes
<1>6. \A d \in Conns : \/ drop[d] = request[d]
                       \/ drop[d] = "dropped" /\ request[d] = "queued"
  BY <1>3, RemovedRequests, Zenon DEF AInv
<1>7. /\ QueueShape' /\ order' \in Seq(Hellos)
      /\ entries' \in [Hellos -> Conns \cup {NoConn}]
      /\ perIdentity' \in [Identities -> Nat]
      /\ \/ request' = drop
         \/ \E c \in Conns : request[c] = "queued" /\ request' = [drop EXCEPT ![c] = "held"]
  <2>1. CASE found # {}
    <3> DEFINE h == live[1]
    <3>1. /\ live # <<>>
          /\ order' = SubSeq(live, 2, Len(live))
          /\ entries' = [kept EXCEPT ![h] = NoConn]
          /\ perIdentity' = RemoveFromCounts(ks \cup {h})
          /\ request' = [drop EXCEPT ![kept[h]] = "held"]
      <4> HIDE DEF live, kept, drop
      <4>1. Min(found) = 1 /\ live # <<>>
        BY <1>4, <2>1
      <4>2. /\ order' = SubSeq(live, Min(found) + 1, Len(live))
            /\ entries' = [kept EXCEPT ![live[Min(found)]] = NoConn]
            /\ perIdentity' = RemoveFromCounts(ks \cup {live[Min(found)]})
            /\ request' = [drop EXCEPT ![kept[live[Min(found)]]] = "held"]
        BY <1>1, <2>1, Zenon
      <4>3. 1 + 1 = 2
        OBVIOUS
      <4>4. QED
        BY <4>1, <4>2, <4>3, Zenon
    <3>2. /\ QueueShape'
          /\ h \in Queued \ ks
          /\ kept[h] = entries[h]
          /\ entries[h] \in Conns /\ request[entries[h]] = "queued"
          /\ order' \in Seq(Hellos)
          /\ perIdentity' \in [Identities -> Nat]
      BY <1>1, <1>3, <3>1, TakenShape
    <3> HIDE DEF kept, drop, h
    <3>3. entries' \in [Hellos -> Conns \cup {NoConn}]
      BY <1>5, <3>1
    <3>4. QED
      BY <3>1, <3>2, <3>3
  <2>2. CASE found = {}
    <3>1. /\ order' = live /\ entries' = kept
          /\ perIdentity' = RemoveFromCounts(ks) /\ request' = drop
      <4> HIDE DEF live, kept, drop
      <4>1. QED
        BY <1>1, <1>4, <2>2, Zenon
    <3>2. QueueShape'
      BY <1>1, <1>3, <3>1, RemovalShape
    <3>3. QED
      BY <1>5, <3>1, <3>2
  <2>3. QED
    BY <2>1, <2>2
<1> HIDE DEF drop
<1>8. TypeOK'
  <2>1. request' \in [Conns -> {"none", "queued", "held", "accepting", "peer",
                                "dropped"}]
    BY <1>5, <1>7
  <2>2. caller' \in [Callers -> {"idle", "looking", "polling", "waiting"}]
    BY <1>2 DEF AInv, TypeOK
  <2>3. QED
    BY <1>1, <1>7, <2>1, <2>2 DEF AInv, TypeOK
<1>9. ASSUME NEW d \in Conns PROVE Phases(d)'
  BY <1>1, <1>5, <1>6, <1>7 DEF AInv, TypeOK, Phases, Early
<1>10. Wall' = Wall /\ Wall \in Nat
  BY <1>1, LoadType DEF Wall, TicksPerSecond, AInv
<1>11. \A d \in Conns : Reserved(d)' => Reserved(d)
  BY <1>1, <1>5, <1>6, <1>7 DEF Reserved
<1>12. \A d \in Conns : Accepted(d)' => Accepted(d)
  BY <1>5, <1>6, <1>7 DEF Accepted
<1>13. QED
  BY <1>1, <1>7, <1>8, <1>9, <1>10, <1>11, <1>12, Frame

(* The application accepts in time: no other connection of the Hello is     *)
(* reserved, so none is accepted, and the timer cannot fire any more.       *)
LEMMA ConsentAInv ==
  ASSUME AInv, NEW c \in Conns, Consent(c)
  PROVE  AInv'
<1> DEFINE timely == deadline[c] >= clock /\ ExpiresAt[HelloOf[c]] > Wall
<1>1. /\ UNCHANGED <<load, clock, handler, deadline, timer, shut, replay, queueVars,
                     closed, notifyVars>>
      /\ request[c] = "held"
      /\ request' = [request EXCEPT ![c] = IF timely THEN "accepting" ELSE "dropped"]
  BY DEF Consent
<1>2. Wall' = Wall /\ HelloOf' = HelloOf /\ Wall \in Nat
  BY <1>1, LoadType DEF Wall, TicksPerSecond, HelloOf, AInv
<1>3. /\ \A d \in Conns : HelloOf[d] \in Hellos /\ ExpiresAt[HelloOf[d]] \in Nat
      /\ clock \in Nat /\ \A d \in Conns : deadline[d] \in Nat
  BY LoadType, AdmissionAssumption DEF AInv, TypeOK
<1>4. QueueShape'
  <2> HIDE DEF timely
  <2>1. QED
    BY <1>1, QueueFrame DEF AInv, TypeOK
<1>5. timely => \A d \in Conns \ {c} : HelloOf[d] = HelloOf[c] => ~Reserved(d)
  <2>1. Reserved(c)
    BY <1>1 DEF Reserved
  <2>2. QED
    BY <1>2, <1>3, <2>1 DEF AInv, ReplayGuards
<1>6. timely => timer[c] \notin {"fired", "closing"} /\ c \notin shut
  BY <1>3 DEF AInv, Phases
<1> HIDE DEF timely
<1>7. TypeOK'
  BY <1>1 DEF AInv, TypeOK, queueVars, notifyVars
<1>8. ASSUME NEW d \in Conns PROVE Phases(d)'
  BY <1>1 DEF AInv, TypeOK, Phases, Early
<1>9. \A d \in Conns : Reserved(d)' => Reserved(d)
  BY <1>1 DEF Reserved, AInv, TypeOK
<1>10. ReplayGuards'
  BY <1>1, <1>2, <1>9 DEF AInv, ReplayGuards
<1>11. AcceptedIsNotTimedOut'
  BY <1>1, <1>6 DEF AInv, TypeOK, AcceptedIsNotTimedOut
<1>12. AtMostOneAcceptedPerHello'
  <2> SUFFICES ASSUME NEW d \in Conns, NEW e \in Conns,
                      HelloOf[d] = HelloOf[e], Accepted(d)', Accepted(e)', d # e
               PROVE  FALSE
    BY <1>2 DEF AtMostOneAcceptedPerHello, Accepted
  <2>1. CASE d # c /\ e # c
    BY <1>1, <2>1 DEF AInv, TypeOK, AtMostOneAcceptedPerHello, Accepted
  <2>2. ASSUME NEW f \in Conns \ {c}, HelloOf[f] = HelloOf[c], Accepted(f)',
               Accepted(c)'
        PROVE  FALSE
    <3>1. timely
      BY <1>1, <2>2 DEF Accepted, AInv, TypeOK
    <3>2. Reserved(f)
      BY <1>1, <2>2 DEF Accepted, Reserved, AInv, TypeOK
    <3>3. QED
      BY <1>5, <2>2, <3>1, <3>2
  <2>3. QED
    BY <2>1, <2>2
<1>13. QED
  BY <1>4, <1>7, <1>8, <1>10, <1>11, <1>12 DEF AInv

(* It rejects, or an accepted connection becomes a peer or fails.           *)
LEMMA AnswerAInv ==
  ASSUME AInv, NEW c \in Conns, Reject(c) \/ FinishAccept(c)
  PROVE  AInv'
<1>1. /\ UNCHANGED <<load, clock, handler, deadline, timer, shut, replay, queueVars,
                     closed, notifyVars>>
      /\ request[c] \in {"held", "accepting"}
      /\ \E to \in {"peer", "dropped"} :
           /\ request' = [request EXCEPT ![c] = to]
           /\ to = "peer" => request[c] = "accepting"
  BY DEF Reject, FinishAccept
<1>2. TypeOK'
  BY <1>1 DEF AInv, TypeOK, queueVars, notifyVars
<1>3. ASSUME NEW d \in Conns PROVE Phases(d)'
  BY <1>1 DEF AInv, TypeOK, Phases, Early
<1>4. QueueShape'
  BY <1>1, QueueFrame DEF AInv, TypeOK
<1>5. Wall' = Wall /\ Wall \in Nat
  BY <1>1, LoadType DEF Wall, TicksPerSecond, AInv
<1>6. \A d \in Conns : (Reserved(d)' => Reserved(d)) /\ (Accepted(d)' => Accepted(d))
  BY <1>1 DEF Reserved, Accepted, AInv, TypeOK
<1>7. QED
  BY <1>1, <1>2, <1>3, <1>4, <1>5, <1>6, Frame

(* The queue is closed, and everything in it dropped.                       *)
LEMMA CloseQueueAInv ==
  ASSUME AInv, CloseQueue
  PROVE  AInv'
<1>1. /\ UNCHANGED <<load, clock, handler, deadline, timer, shut, replay, notifyVars>>
      /\ closed' = "closed" /\ order' = <<>>
      /\ entries' = [h \in Hellos |-> NoConn]
      /\ perIdentity' = [i \in Identities |-> 0]
      /\ request' = DropRequests(Queued)
  BY DEF CloseQueue
<1>2. Queued \in SUBSET Hellos
  BY DEF Queued
<1>3. \A d \in Conns : \/ request'[d] = request[d]
                       \/ request'[d] = "dropped" /\ request[d] = "queued"
  BY <1>1, <1>2, RemovedRequests, Zenon DEF AInv
<1>4. Queued' = {}
  BY <1>1 DEF Queued
<1>5. QueueShape'
  <2>1. Elements(order)' = {} /\ Distinct(order)'
    BY <1>1 DEF Elements, Distinct
  <2>2. ASSUME NEW i \in Identities
        PROVE  perIdentity'[i] = Cardinality({h \in Queued' : IdentityOf[h] = i})
    <3>1. {h \in Queued' : IdentityOf[h] = i} = {}
      BY <1>4
    <3>2. QED
      BY <1>1, <3>1, FS_EmptySet
  <2>3. QED
    BY <1>4, <2>1, <2>2 DEF QueueShape
<1>6. TypeOK'
  <2>1. request' \in [Conns -> {"none", "queued", "held", "accepting", "peer",
                                "dropped"}]
    BY <1>1, <1>2, RemovalTypes
  <2>2. order' \in Seq(Hellos) /\ entries' \in [Hellos -> Conns \cup {NoConn}]
        /\ perIdentity' \in [Identities -> Nat]
    BY <1>1
  <2>3. QED
    BY <1>1, <2>1, <2>2 DEF AInv, TypeOK, notifyVars
<1>7. ASSUME NEW d \in Conns PROVE Phases(d)'
  BY <1>1, <1>3 DEF AInv, Phases, Early
<1>8. Wall' = Wall /\ Wall \in Nat
  BY <1>1, LoadType DEF Wall, TicksPerSecond, AInv
<1>9. \A d \in Conns : (Reserved(d)' => Reserved(d)) /\ (Accepted(d)' => Accepted(d))
  BY <1>1, <1>3 DEF Reserved, Accepted
<1>10. QED
  BY <1>1, <1>5, <1>6, <1>7, <1>8, <1>9, Frame

(* Time passes.                                                             *)
LEMMA TickAInv ==
  ASSUME AInv, Tick
  PROVE  AInv'
<1>1. /\ UNCHANGED <<load, handler, deadline, request, timer, shut, replay,
                     queueVars, closed, notifyVars>>
      /\ clock < load.maxClock /\ clock' = clock + 1
  BY DEF Tick
<1>2. load \in Load /\ clock \in Nat
  BY AdmissionAssumption, LoadType DEF AInv, TypeOK
<1>3. clock' \in 0..load.maxClock
  BY <1>1, <1>2 DEF Load, AInv, TypeOK
<1>4. TypeOK'
  BY <1>1, <1>3 DEF AInv, TypeOK, queueVars, notifyVars
<1>5. ASSUME NEW d \in Conns PROVE Phases(d)'
  BY <1>1, <1>2 DEF AInv, TypeOK, Phases
<1>6. QueueShape'
  BY <1>1, QueueFrame
<1>7. Wall <= Wall'
  BY <1>1, <1>2, LoadType, SecondsGrow DEF Wall, TicksPerSecond, AInv
<1>8. QED
  BY <1>1, <1>4, <1>5, <1>6, <1>7, Frame DEF Reserved, Accepted

(* Every step preserves the inductive invariant.                            *)
LEMMA NextAInv == AInv /\ [Next]_vars => AInv'
<1> SUFFICES ASSUME AInv, [Next]_vars PROVE AInv'
  OBVIOUS
<1>1. ASSUME NEW c \in Conns, HandlerStep(c) \/ TimerStep(c) PROVE AInv'
  BY <1>1, AuthenticateAInv, ReserveReplayAInv, InsertAInv, UnreserveAInv,
     AnnounceAInv, AcceptAInv, TimerAInv, TimerExpiresAInv
  DEF HandlerStep, TimerStep
<1>2. ASSUME NEW c \in Conns,
             Accept(c) \/ Refuse(c) \/ Answer(c) \/ FinishAccept(c)
      PROVE  AInv'
  BY <1>2, AcceptAInv, ConsentAInv, AnswerAInv DEF Answer
<1>3. ASSUME NEW u \in Callers, CallNext(u) \/ CallerStep(u) PROVE AInv'
  BY <1>3, CallerAInv, LookAInv DEF CallerStep
<1>4. CASE UNCHANGED vars
  <2>1. UNCHANGED <<load, clock, handler, deadline, request, timer, shut, replay,
                    queueVars, closed, notifyVars>>
    BY <1>4 DEF vars, queueVars, notifyVars
  <2>2. TypeOK'
    BY <2>1 DEF AInv, TypeOK, queueVars, notifyVars
  <2>3. QueueShape'
    BY <2>1, QueueFrame
  <2>4. Wall' = Wall /\ Wall \in Nat
    BY <2>1, LoadType DEF Wall, TicksPerSecond, AInv
  <2>5. \A d \in Conns : Phases(d)'
    BY <2>1 DEF AInv, Phases
  <2>6. QED
    BY <2>1, <2>2, <2>3, <2>4, <2>5, Frame DEF Reserved, Accepted
<1>5. QED
  BY <1>1, <1>2, <1>3, <1>4, CloseQueueAInv, CallerAInv, TickAInv DEF Next

-----------------------------------------------------------------------------
(* The invariant holds in every reachable state, whatever the order of the  *)
(* tasks, the timers, the calls and the clock.                              *)
THEOREM AdmissionInvariance == Spec => []AInv
<1>1. QED
  BY InitAInv, NextAInv, PTL DEF Spec

(* The order, the entries and the counts of PendingQueue always agree: no   *)
(* identity is locked out by a count that outlived its requests.            *)
THEOREM QueueIsConsistent == Spec => []QueueConsistent
<1>1. AInv => QueueConsistent
  BY QueueFinite DEF AInv, QueueShape, QueueConsistent, Elements
<1>2. QED
  BY <1>1, AdmissionInvariance, PTL

(* However often a Hello is sent, and however its copies race the expiry of *)
(* its entry in the replay cache, one connection at most is accepted.       *)
THEOREM ReplaysAreRefused == Spec => []AtMostOneAcceptedPerHello
<1>1. AInv => AtMostOneAcceptedPerHello
  BY DEF AInv
<1>2. QED
  BY <1>1, AdmissionInvariance, PTL

(* Consent and its timeout exclude each other: the expiry task never closes *)
(* a connection that the application has accepted.                          *)
THEOREM ConsentBeatsTimeout == Spec => []AcceptedIsNotTimedOut
<1>1. AInv => AcceptedIsNotTimedOut
  BY DEF AInv
<1>2. QED
  BY <1>1, AdmissionInvariance, PTL

-----------------------------------------------------------------------------
(***************************************************************************)
(* One caller of next_incoming.  With two, a wake-up can be lost: see the  *)
(* run lost_wakeup.                                                        *)
(***************************************************************************)

OneCaller == \A u, v \in Callers : u = v

Inserting == \E c \in Conns : handler[c] = "inserted"

(* A call that sleeps, or is about to, sees an empty queue or a task that   *)
(* is about to notify.                                                      *)
Wakeful(u) ==
  /\ waiters = IF caller[u] = "waiting" THEN <<u>> ELSE <<>>
  /\ (caller[u] = "waiting" \/ (caller[u] = "polling" /\ ~missed[u] /\ ~permit))
       => Queued = {} \/ Inserting

(* A step that wakes nobody, queues nothing and ends no announcement.       *)
LEMMA WakefulFrame ==
  ASSUME NEW u \in Callers, Wakeful(u), UNCHANGED notifyVars,
         Inserting' \/ (Queued' \subseteq Queued /\ ~Inserting)
  PROVE  Wakeful(u)'
<1>1. UNCHANGED <<caller, missed, waiters, permit>>
  BY DEF notifyVars
<1>2. QED
  BY <1>1 DEF Wakeful

(* The steps of the tasks that do not notify.                               *)
LEMMA QuietWakeful ==
  ASSUME AInv, NEW u \in Callers, Wakeful(u),
         \/ \E c \in Conns :
              \/ Accept(c) \/ Refuse(c) \/ HandlerFails(c) \/ Authenticate(c)
              \/ ReserveReplay(c) \/ Unreserve(c) \/ ArmTimer(c)
              \/ TimerCancelled(c) \/ TimerFires(c) \/ TimerCloses(c)
              \/ Answer(c) \/ FinishAccept(c)
         \/ Tick
  PROVE  Wakeful(u)'
<1>1. UNCHANGED <<queueVars, notifyVars>>
  BY DEF Accept, Refuse, HandlerFails, Authenticate, ReserveReplay, Unreserve,
         ArmTimer, TimerCancelled, TimerFires, TimerCloses, Answer, Consent, Reject,
         FinishAccept, Tick
<1>2. Queued' = Queued
  BY <1>1 DEF Queued, queueVars
<1>3. \A d \in Conns : handler[d] = "inserted" => handler'[d] = "inserted"
  <2>1. \/ handler' = handler
        \/ \E c \in Conns, to \in {"preauth", "refused", "done", "verified", "reserved"} :
             handler[c] # "inserted" /\ handler' = [handler EXCEPT ![c] = to]
    BY DEF Accept, Refuse, HandlerFails, Authenticate, ReserveReplay, Unreserve,
           ArmTimer, TimerCancelled, TimerFires, TimerCloses, Answer, Consent,
           Reject, FinishAccept, Tick
  <2>2. QED
    BY <2>1 DEF AInv, TypeOK
<1>4. QED
  BY <1>1, <1>2, <1>3, WakefulFrame DEF Inserting

(* The steps that change the queue.                                         *)
LEMMA QueueWakeful ==
  ASSUME AInv, NEW u \in Callers, Wakeful(u),
         (\E c \in Conns : Insert(c)) \/ CloseQueue
  PROVE  Wakeful(u)'
<1>1. UNCHANGED notifyVars
  BY DEF Insert, CloseQueue
<1>2. CASE CloseQueue
  <2>1. Queued' = {} /\ handler' = handler
    BY <1>2 DEF CloseQueue, Queued
  <2>2. QED
    BY <1>1, <2>1, WakefulFrame DEF Inserting
<1>3. ASSUME NEW c \in Conns, Insert(c) PROVE Wakeful(u)'
  <2>1. Expired \in SUBSET Hellos
    BY DEF Expired, Queued
  <2>2. \/ handler' = [handler EXCEPT ![c] = "inserted"]
        \/ /\ handler[c] = "reserved"
           /\ handler' = [handler EXCEPT ![c] = "unreserve"]
           /\ entries' = RemoveFromEntries(Expired)
    BY <1>3 DEF Insert
  <2>3. CASE handler' = [handler EXCEPT ![c] = "inserted"]
    <3>1. Inserting'
      BY <2>3 DEF AInv, TypeOK, Inserting
    <3>2. QED
      BY <1>1, <3>1, WakefulFrame
  <2>4. CASE /\ handler[c] = "reserved"
             /\ handler' = [handler EXCEPT ![c] = "unreserve"]
             /\ entries' = RemoveFromEntries(Expired)
    <3>1. Queued' \subseteq Queued
      BY <2>1, <2>4, RemovedEntries DEF AInv, Queued
    <3>2. Inserting => Inserting'
      BY <2>4 DEF AInv, TypeOK, Inserting
    <3>3. QED
      BY <1>1, <3>1, <3>2, WakefulFrame
  <2>5. QED
    BY <2>2, <2>3, <2>4
<1>4. QED
  BY <1>2, <1>3

(* The notifications reach the only caller.                                 *)
LEMMA NotifyWakeful ==
  ASSUME AInv, NEW u \in Callers, Wakeful(u), NotifyOne \/ NotifyWaiters
  PROVE  Wakeful(u)'
<1>1. NotifyType
  BY DEF AInv, TypeOK, NotifyType
<1>2. CASE NotifyWaiters
  BY <1>1, <1>2 DEF NotifyWaiters, NotifyType, Wakeful
<1>3. CASE NotifyOne /\ caller[u] # "waiting"
  <2>1. waiters = <<>>
    BY <1>3 DEF Wakeful
  <2>2. permit' = TRUE /\ UNCHANGED <<caller, missed, waiters>>
    BY <1>3, <2>1 DEF NotifyOne
  <2>3. QED
    BY <1>3, <2>1, <2>2 DEF Wakeful
<1>4. CASE NotifyOne /\ caller[u] = "waiting"
  <2>1. waiters = <<u>> /\ waiters # <<>> /\ Head(waiters) = u /\ Tail(waiters) = <<>>
    BY <1>4 DEF Wakeful
  <2>2. /\ caller' = [caller EXCEPT ![u] = "looking"]
        /\ waiters' = <<>>
    BY <1>4, <2>1 DEF NotifyOne
  <2>3. caller'[u] = "looking"
    BY <1>1, <2>2 DEF NotifyType
  <2>4. QED
    BY <2>2, <2>3 DEF Wakeful
<1>5. QED
  BY <1>2, <1>3, <1>4

(* The steps of the only caller itself.                                     *)
LEMMA CallerWakeful ==
  ASSUME AInv, NEW u \in Callers, Wakeful(u), CallNext(u) \/ CallerStep(u)
  PROVE  Wakeful(u)'
<1>1. caller \in [Callers -> {"idle", "looking", "polling", "waiting"}]
  BY DEF AInv, TypeOK
<1>2. CASE CallNext(u)
  BY <1>1, <1>2 DEF CallNext, Wakeful
<1>3. CASE Await(u)
  <2>1. handler' = handler /\ Queued' = Queued
    BY <1>3 DEF Await, Queued, queueVars
  <2>2. caller[u] = "polling" /\ waiters = <<>>
    BY <1>3 DEF Await, Wakeful
  <2>3. CASE caller' = [caller EXCEPT ![u] = "looking"]
    <3>1. waiters' = waiters /\ caller'[u] = "looking"
      BY <1>1, <1>3, <2>3 DEF Await
    <3>2. QED
      BY <2>2, <3>1 DEF Wakeful
  <2>4. CASE /\ ~missed[u] /\ ~permit
             /\ caller' = [caller EXCEPT ![u] = "waiting"]
             /\ waiters' = Append(waiters, u)
    <3>1. waiters' = <<u>> /\ caller'[u] = "waiting"
      BY <1>1, <2>2, <2>4
    <3>2. Queued = {} \/ Inserting
      BY <2>2, <2>4 DEF Wakeful
    <3>3. QED
      BY <2>1, <3>1, <3>2 DEF Wakeful, Inserting
  <2>5. QED
    BY <1>3, <2>3, <2>4 DEF Await
<1>4. CASE Look(u)
  <2> DEFINE live == RemoveFromOrder(Expired)
             found == {n \in 1..Len(live) : RemoveFromEntries(Expired)[live[n]] # NoConn}
  <2>1. /\ caller[u] = "looking" /\ waiters' = waiters
        /\ \/ caller' = [caller EXCEPT ![u] = "idle"]
           \/ /\ found = {} /\ entries' = RemoveFromEntries(Expired)
              /\ \E to \in {"idle", "polling"} : caller' = [caller EXCEPT ![u] = to]
    BY <1>4 DEF Look
  <2>2. found = {} => live = <<>>
    BY LookFindsFirst
  <2>3. Expired \in SUBSET Hellos /\ TypeOK /\ QueueShape
    BY DEF Expired, Queued, AInv
  <2>4. live = <<>> => Queued \ Expired = {}
    BY <2>3, RemovedOrder DEF Elements
  <2>5. entries' = RemoveFromEntries(Expired) => Queued' = Queued \ Expired
    BY <2>3, RemovedEntries DEF Queued
  <2> HIDE DEF live, found
  <2>6. QED
    BY <1>1, <2>1, <2>2, <2>4, <2>5 DEF Wakeful
<1>5. QED
  BY <1>2, <1>3, <1>4 DEF CallerStep

(* Every step keeps the only caller wakeful.                                *)
LEMMA NextWakeful ==
  ASSUME AInv, OneCaller, NEW u \in Callers, Wakeful(u), [Next]_vars
  PROVE  Wakeful(u)'
<1>1. ASSUME NEW c \in Conns, NotifyInserted(c) PROVE Wakeful(u)'
  BY <1>1, NotifyWakeful DEF NotifyInserted
<1>2. ASSUME NEW c \in Conns, TimerExpires(c) PROVE Wakeful(u)'
  BY <1>2, NotifyWakeful DEF TimerExpires
<1>3. CASE CloseNotifies
  BY <1>3, NotifyWakeful DEF CloseNotifies
<1>4. ASSUME NEW v \in Callers, CallNext(v) \/ CallerStep(v) PROVE Wakeful(u)'
  <2>1. v = u
    BY DEF OneCaller
  <2>2. QED
    BY <1>4, <2>1, CallerWakeful
<1>5. CASE UNCHANGED vars
  BY <1>5 DEF vars, Wakeful, Queued, Inserting
<1>6. QED
  BY <1>1, <1>2, <1>3, <1>4, <1>5, QuietWakeful, QueueWakeful
  DEF Next, HandlerStep, TimerStep

(* A single caller of next_incoming is never left asleep next to a queued   *)
(* request that can still be answered.                                      *)
THEOREM SingleCallerIsWoken ==
  ASSUME OneCaller
  PROVE  Spec => []NoLostWakeup
<1> DEFINE WInv == \A u \in Callers : Wakeful(u)
<1>1. Init => WInv
  BY DEF Init, Wakeful, Queued
<1>2. AInv /\ WInv /\ [Next]_vars => WInv'
  BY NextWakeful
<1>3. AInv /\ WInv => NoLostWakeup
  BY DEF Wakeful, NoLostWakeup, Inserting
<1>4. QED
  BY <1>1, <1>2, <1>3, AdmissionInvariance, PTL DEF Spec

=============================================================================
