--------------------------- MODULE OutboundProofs ---------------------------
(***************************************************************************)
(* What Dialling and PeerStream guarantee for any number of devices and    *)
(* messages: the safety properties follow from one inductive invariant,    *)
(* OInv, whose parts are about the devices, the dial and the stream.       *)
(***************************************************************************)
EXTENDS Outbound, FiniteSetTheorems, SequenceTheorems, TLAPS

(* No element is there twice.                                               *)
Distinct(s) == \A m, n \in 1..Len(s) : s[m] = s[n] => m = n

-----------------------------------------------------------------------------
(* The devices.                                                             *)

(* Sequences are signed after they were allocated, and each process is idle *)
(* when it starts.                                                          *)
DevicesOk ==
  /\ \A r \in signed : r.sequence <= counter[r.device]
  /\ \A d \in Devices :
       /\ d \notin up => publisher[d] = "idle"
       /\ publisher[d] = "allocated" =>
            \A r \in signed : r.device = d => r.sequence < counter[d]
       /\ publisher[d] = "signed" => CurrentRecord(d) \in signed
       /\ stored[d] # Nothing => stored[d].device = d
  /\ NoSequenceSignedTwice

-----------------------------------------------------------------------------
(* The dial.                                                                *)

Among(d, s) == \E n \in 1..Len(s) : s[n] = d

(* The listed devices differ, and stay apart from those already fetched.    *)
FetchingOk ==
  /\ paths # <<>> /\ tried = <<>> /\ spent < NegotiationTimeout
  /\ Distinct(paths)
  /\ \A m, n \in 1..Len(resolved) : resolved[m].device = resolved[n].device => m = n
  /\ \A m \in 1..Len(resolved), n \in 1..Len(paths) : resolved[m].device # paths[n]
  /\ Len(resolved) + Len(paths) <= MaxDevices

(* The candidates from place o on, and those that are done, are together    *)
(* the requested devices that were resolved, in the order of Rank.          *)
Trying(o, done) ==
  /\ resolved # <<>> /\ spent < NegotiationTimeout
  /\ \A d \in Devices :
       d \in offered \cap Requested <=>
         Among(d, done) \/ \E n \in o..Len(resolved) : resolved[n].device = d
  /\ \A m, n \in 1..Len(done) : m < n => Rank[done[m]] < Rank[done[n]]
  /\ \A m, n \in 1..Len(resolved) :
       m < n => Rank[resolved[m].device] < Rank[resolved[n].device]
  /\ \A m \in 1..Len(done), n \in o..Len(resolved) :
       Rank[done[m]] < Rank[resolved[n].device]

DialOk ==
  /\ dial \notin {"fetching", "trying", "handshaking"} =>
       paths = <<>> /\ resolved = <<>> /\ spent = 0
  /\ dial = "listing" => tried = <<>>
  /\ dial = "fetching" => FetchingOk
  /\ dial = "trying" => Trying(1, tried)
  /\ dial = "handshaking" => Trying(2, tried)
  /\ TriesEachDeviceOnce

-----------------------------------------------------------------------------
(* The stream.                                                              *)

Writing == \E m \in Messages : call[m] = "writing"

(* The calls that wait are queued, the first one may write, and the         *)
(* messages that were begun are those that wrote.                           *)
CallsOk ==
  /\ Distinct(queue)
  /\ \A x \in Calls : Contains(queue, x) <=> call[x] \in {"waiting", "writing"}
  /\ \A x \in Calls :
       call[x] = "writing" => /\ x \in Messages /\ Holds(x) /\ stream = "open"
                              /\ order # <<>> /\ order[Len(order)] = x
                              /\ written <= Parts[x]
  /\ ~Writing => written = 0
  /\ Distinct(order)
  /\ \A m \in Messages :
       /\ Contains(order, m) => call[m] \in {"writing", "done", "failed", "dropped"}
       /\ call[m] = "done" => Contains(order, m)
  /\ finished => stream = "taken"

(* The parts that are still to be read.                                     *)
Pipe == buffer \o flight

(* The part after p: the next of its message, or the first of the next one. *)
Follows(p, q) ==
  IF p.part < Parts[p.message]
    THEN q = Part(p.message, p.part + 1)
    ELSE /\ q.part = 0
         /\ \E k \in 1..(Len(order) - 1) : order[k] = p.message /\ order[k + 1] = q.message

Live == reader \in Messages \cup {"idle"}

Awaited == IF reader \in Messages THEN Len(bytes) + 1 ELSE 0

ReceivedOk ==
  /\ Len(received) <= Len(order)
  /\ \A k \in 1..Len(received) : received[k] = order[k]
  /\ Writing => Len(received) < Len(order)

ReadingOk ==
  reader \in Messages =>
    /\ Len(received) < Len(order) /\ reader = order[Len(received) + 1]
    /\ Len(bytes) < Parts[reader]
    /\ \A k \in 1..Len(bytes) : bytes[k] = Part(reader, k)
    /\ call[reader] = "writing" => Len(bytes) < written

(* What the far side reads next is what it waits for, each part is followed *)
(* by the next, and no part is there before its message began or before it  *)
(* was written.                                                             *)
PipeOk ==
  Live =>
    /\ Pipe # <<>> => /\ Len(received) < Len(order)
                      /\ Pipe[1] = Part(order[Len(received) + 1], Awaited)
    /\ \A n \in 1..(Len(Pipe) - 1) : Follows(Pipe[n], Pipe[n + 1])
    /\ \A n \in 1..Len(Pipe) :
         /\ Contains(order, Pipe[n].message)
         /\ Pipe[n].part <= Parts[Pipe[n].message]
         /\ call[Pipe[n].message] = "writing" => Pipe[n].part < written

(* What was read and what is on the way are the first k messages and n      *)
(* parts of the next one.                                                   *)
Reached(k, n) ==
  IF Pipe = <<>>
    THEN /\ Len(received) = k
         /\ IF n = 0 THEN reader = "idle" ELSE reader \in Messages /\ Len(bytes) + 1 = n
    ELSE IF n = 0
           THEN k >= 1 /\ Pipe[Len(Pipe)] = Part(order[k], Parts[order[k]])
           ELSE Pipe[Len(Pipe)] = Part(order[k + 1], n - 1)

Complete == IF Writing THEN Len(order) - 1 ELSE Len(order)

(* As long as nothing was torn, what was written is what is read.           *)
FlowOk ==
  ~torn =>
    /\ ReceivedOk
    /\ ReadingOk
    /\ PipeOk
    /\ Live /\ link # "closed" => Reached(Complete, written)
    /\ reader = "drained" =>
         finished /\ \A m \in Messages : call[m] = "done" => Contains(received, m)

(* Nothing was done on the stream before dial returned.                     *)
HandOverOk == dial # "returned" => StreamInit

OInv == TypeOK /\ DevicesOk /\ DialOk /\ CallsOk /\ FlowOk /\ HandOverOk

-----------------------------------------------------------------------------
(* Sorting.                                                                 *)

(* A finite set as a sequence: each element is there once.                  *)
LEMMA Listed ==
  ASSUME NEW S, IsFiniteSet(S)
  PROVE  /\ SetToSeq(S) \in Seq(S) /\ Len(SetToSeq(S)) = Cardinality(S)
         /\ Distinct(SetToSeq(S))
         /\ \A x \in S : \E n \in 1..Len(SetToSeq(S)) : SetToSeq(S)[n] = x
<1> DEFINE N == Cardinality(S)
           P(f) == f \in [1..N -> S] /\ IsInjective(f)
           l == SetToSeq(S)
<1>1. N \in Nat /\ ExistsBijection(1..N, S)
  BY FS_CardinalityType
<1>2. \E f : P(f)
  BY <1>1 DEF ExistsBijection, Bijection, Injection, IsInjective
<1>3. l = CHOOSE f : P(f)
  BY DEF SetToSeq
<1>4. P(l)
  BY <1>2, <1>3
<1> HIDE DEF l
<1>5. Len(l) = N /\ l \in Seq(S)
  BY <1>1, <1>4
<1>6. l \in Injection(1..N, S)
  BY <1>4 DEF Injection, IsInjective
<1>7. l \in Surjection(1..N, S)
  BY <1>1, <1>6, FS_Injection, FS_Interval
<1>8. QED
  BY <1>4, <1>5, <1>7 DEF l, Distinct, IsInjective, Surjection

(* t holds what s has at each of the places, once, in the order of ranks.   *)
SortedBy(t, s, places, rank) ==
  \E p \in [1..Len(t) -> places] :
    /\ \A k \in 1..Len(t) : t[k] = s[p[k]]
    /\ \A j, k \in 1..Len(t) : p[j] = p[k] => j = k
    /\ \A n \in places : \E k \in 1..Len(t) : p[k] = n
    /\ \A j, k \in 1..Len(t) : j < k => rank[p[j]] <= rank[p[k]]

(* Arranged takes each of the places once, in the order of their ranks.     *)
LEMMA Arranging ==
  ASSUME NEW S, NEW s \in Seq(S), NEW places \in SUBSET (1..Len(s)),
         NEW rank \in [1..Len(s) -> Nat]
  PROVE  /\ Arranged(s, places, rank) \in Seq(S)
         /\ Len(Arranged(s, places, rank)) = Cardinality(places)
         /\ Len(Arranged(s, places, rank)) <= Len(s)
         /\ SortedBy(Arranged(s, places, rank), s, places, rank)
<1> DEFINE Before(m, n) == rank[m] < rank[n] \/ (rank[m] = rank[n] /\ m <= n)
           UpTo(n) == {m \in places : Before(m, n)}
           N == Cardinality(places)
           count == [n \in places |-> Cardinality(UpTo(n))]
           At(k) == CHOOSE n \in places : Cardinality(UpTo(n)) = k
           p == [k \in 1..N |-> At(k)]
           t == Arranged(s, places, rank)
<1>1. /\ Len(s) \in Nat /\ \A n \in places : n \in 1..Len(s) /\ s[n] \in S
      /\ \A n \in 1..Len(s) : rank[n] \in Nat
  OBVIOUS
<1>2. IsFiniteSet(places) /\ N \in Nat /\ N <= Len(s)
  <2>1. IsFiniteSet(1..Len(s)) /\ Cardinality(1..Len(s)) = Len(s)
    BY <1>1, FS_Interval, SMTT(30)
  <2>2. IsFiniteSet(places) /\ Cardinality(places) <= Cardinality(1..Len(s))
    BY <2>1, FS_Subset
  <2>3. QED
    BY <2>1, <2>2, FS_CardinalityType
<1>3. ASSUME NEW n \in places
      PROVE  IsFiniteSet(UpTo(n)) /\ Cardinality(UpTo(n)) \in 1..N
  <2>1. UpTo(n) \in SUBSET places /\ n \in UpTo(n)
    BY <1>1, <1>3
  <2> HIDE DEF UpTo, N
  <2>2. IsFiniteSet(UpTo(n)) /\ Cardinality(UpTo(n)) <= N
    BY <1>2, <2>1, FS_Subset DEF N
  <2>3. Cardinality(UpTo(n)) \in Nat /\ Cardinality(UpTo(n)) # 0
    BY <2>1, <2>2, FS_CardinalityType, FS_EmptySet
  <2>4. QED
    BY <1>2, <2>2, <2>3
<1>4A. ASSUME NEW m \in places
      PROVE  m \in Nat /\ rank[m] \in Nat
  BY <1>1
<1>4. ASSUME NEW m \in places, NEW n \in places, m # n, Before(m, n)
      PROVE  count[m] < count[n]
  <2>1. UpTo(m) \in SUBSET UpTo(n) /\ n \in UpTo(n) /\ n \notin UpTo(m)
    <3>1. \A q \in places : Before(q, m) => Before(q, n)
      BY <1>4A, <1>4
    <3>2. Before(n, n) /\ ~Before(n, m)
      BY <1>4A, <1>4
    <3>3. QED
      BY <3>1, <3>2
  <2>2. count[m] = Cardinality(UpTo(m)) /\ count[n] = Cardinality(UpTo(n))
    OBVIOUS
  <2> HIDE DEF UpTo, count
  <2>3. /\ IsFiniteSet(UpTo(n)) /\ Cardinality(UpTo(m)) \in Nat
        /\ Cardinality(UpTo(n)) \in Nat
    BY <1>3
  <2>4. Cardinality(UpTo(m)) <= Cardinality(UpTo(n)) /\ UpTo(m) # UpTo(n)
    BY <2>1, <2>3, FS_Subset
  <2>5. Cardinality(UpTo(m)) # Cardinality(UpTo(n))
    BY <2>1, <2>3, <2>4, FS_Subset
  <2>6. QED
    BY <2>2, <2>3, <2>4, <2>5
<1>5. ASSUME NEW m \in places, NEW n \in places, m # n
      PROVE  Before(m, n) \/ Before(n, m)
  BY <1>4A
<1>6. count \in [places -> 1..N]
  <2> HIDE DEF UpTo, N
  <2>1. QED
    BY <1>3
<1>7. \A m, n \in places : count[m] = count[n] => m = n
  <2> HIDE DEF count, Before
  <2>1. QED
    BY <1>2, <1>4, <1>5, <1>6
<1>8. \A k \in 1..N : \E n \in places : count[n] = k
  <2> HIDE DEF count, N
  <2>1. count \in Injection(places, 1..N)
    BY <1>6, <1>7 DEF Injection, IsInjective
  <2>2. IsFiniteSet(1..N) /\ Cardinality(1..N) = N
    BY <1>2, FS_Interval
  <2>3. count \in Surjection(places, 1..N)
    BY <1>2, <2>1, <2>2, FS_Injection DEF N
  <2>4. QED
    BY <2>3 DEF Surjection
<1>9. \A k \in 1..N : p[k] \in places /\ count[p[k]] = k
  <2>1. \A k \in 1..N : \E n \in places : Cardinality(UpTo(n)) = k
    <3> HIDE DEF UpTo, N
    <3>1. QED
      BY <1>8
  <2> HIDE DEF UpTo, N
  <2>2. \A k \in 1..N : p[k] \in places /\ Cardinality(UpTo(p[k])) = k
    BY <2>1
  <2>3. QED
    BY <2>2
<1>10. t = [k \in 1..N |-> s[At(k)]]
  BY DEF Arranged
<1>10A. \A k \in 1..N : p[k] = At(k)
  OBVIOUS
<1> HIDE DEF t, p, count, N, At
<1>11. t \in Seq(S) /\ Len(t) = N /\ \A k \in 1..N : t[k] = s[p[k]]
  <2>1. \A k \in 1..N : s[At(k)] \in S /\ s[At(k)] = s[p[k]]
    BY <1>1, <1>9, <1>10A
  <2>2. QED
    BY <1>2, <1>10, <2>1
<1>12. p \in [1..N -> places]
  BY <1>9 DEF p
<1>13. ASSUME NEW j \in 1..N, NEW k \in 1..N, j < k
       PROVE  rank[p[j]] <= rank[p[k]]
  <2>1. p[j] \in places /\ p[k] \in places /\ count[p[j]] = j /\ count[p[k]] = k
    BY <1>9
  <2>2. CASE Before(p[j], p[k])
    <3>1. rank[p[j]] \in Nat /\ rank[p[k]] \in Nat
      BY <1>4A, <2>1
    <3>2. QED
      BY <2>2, <3>1
  <2>3. CASE ~Before(p[j], p[k])
    <3>1. p[j] # p[k]
      BY <1>13, <2>1
    <3>2. Before(p[k], p[j])
      BY <1>5, <2>1, <2>3, <3>1
    <3> HIDE DEF Before
    <3>3. count[p[k]] < count[p[j]]
      BY <1>4, <2>1, <3>1, <3>2
    <3>4. QED
      BY <1>2, <1>13, <2>1, <3>3
  <2>4. QED
    BY <2>2, <2>3
<1>14. \A j, k \in 1..N : p[j] = p[k] => j = k
  BY <1>9
<1>15. \A n \in places : \E k \in 1..N : p[k] = n
  BY <1>6, <1>7, <1>9
<1>16. Len(t) = Cardinality(places) /\ Len(t) <= Len(s)
  BY <1>2, <1>11 DEF N
<1>17. SortedBy(t, s, places, rank)
  BY <1>11, <1>12, <1>13, <1>14, <1>15 DEF SortedBy
<1>18. QED
  BY <1>11, <1>16, <1>17 DEF t

-----------------------------------------------------------------------------
(* The steps of the devices.                                                *)

(* What the other parts say, while they rest.                               *)
LEMMA DialRests ==
  ASSUME DialTypeOK, DialOk, signed \subseteq signed', UNCHANGED <<situation, dialVars>>
  PROVE  DialTypeOK' /\ DialOk'
<1>1. UNCHANGED <<situation, dial, paths, resolved, spent, offered, tried>>
  BY DEF dialVars
<1>2. resolved \in Seq(signed')
  BY SeqMonotonic DEF DialTypeOK
<1>3. DialTypeOK'
  BY <1>1, <1>2 DEF DialTypeOK
<1>4. FetchingOk => FetchingOk'
  BY <1>1 DEF FetchingOk, Distinct
<1>5. (Trying(1, tried) => Trying(1, tried)') /\ (Trying(2, tried) => Trying(2, tried)')
  BY <1>1 DEF Trying, Requested, Among
<1>6. TriesEachDeviceOnce'
  BY <1>1 DEF DialOk, TriesEachDeviceOnce, Requested
<1>7. QED
  BY <1>1, <1>3, <1>4, <1>5, <1>6 DEF DialOk

(* While the dial goes on, nothing happens on the stream.                   *)
LEMMA StreamRests ==
  ASSUME StreamTypeOK, CallsOk, FlowOk, UNCHANGED streamVars
  PROVE  StreamTypeOK' /\ CallsOk' /\ FlowOk'
<1>1. UNCHANGED <<call, queue, written, stream, finished, flight, buffer, link, reader,
                  bytes, received, order, torn>>
  BY DEF streamVars
<1>2. StreamTypeOK'
  BY <1>1 DEF StreamTypeOK
<1>3. Writing' = Writing /\ Pipe' = Pipe /\ Live' = Live /\ Awaited' = Awaited
  BY <1>1 DEF Writing, Pipe, Live, Awaited
<1>4. CallsOk'
  BY <1>1, <1>3 DEF CallsOk, Distinct, Contains, Holds
<1>5. \A p, q : Follows(p, q)' = Follows(p, q)
  BY <1>1 DEF Follows
<1>6. /\ ReceivedOk => ReceivedOk'
      /\ ReadingOk => ReadingOk'
      /\ PipeOk => PipeOk'
  BY <1>1, <1>3, <1>5 DEF ReceivedOk, ReadingOk, PipeOk
<1>7. Reached(Complete, written)' = Reached(Complete, written)
  BY <1>1, <1>3 DEF Reached, Complete
<1>8. FlowOk'
  BY <1>1, <1>3, <1>6, <1>7 DEF FlowOk, Contains
<1>9. QED
  BY <1>2, <1>4, <1>8

DeviceInv == DevicesTypeOK /\ DevicesOk

(* A sequence is allocated above all that were signed.                      *)
LEMMA AllocateStep ==
  ASSUME DeviceInv, NEW d \in Devices, Allocate(d)
  PROVE  DeviceInv'
<1>1. /\ UNCHANGED <<situation, run, up, active, signed, ended, stored, late>>
      /\ d \in up /\ counter[d] < situation.maxSequence[d]
      /\ counter' = [counter EXCEPT ![d] = @ + 1]
      /\ publisher' = [publisher EXCEPT ![d] = "allocated"]
  BY DEF Allocate
<1>2. DevicesTypeOK /\ situation.maxSequence \in [Devices -> Nat]
  BY DiallingAssumption DEF DeviceInv, DevicesTypeOK, Situation
<1>3. \A e \in Devices : /\ counter'[e] = IF e = d THEN counter[e] + 1 ELSE counter[e]
                         /\ publisher'[e] = IF e = d THEN "allocated" ELSE publisher[e]
                         /\ counter[e] \in Nat
  BY <1>1, <1>2 DEF DevicesTypeOK
<1>4. DevicesTypeOK'
  BY <1>1, <1>2, <1>3 DEF DevicesTypeOK
<1>5. \A r \in signed : r \in Record /\ r.device \in Devices /\ r.sequence \in Nat
  BY <1>2 DEF DevicesTypeOK, Record
<1>6. \A r \in signed' : r.sequence <= counter'[r.device]
  BY <1>1, <1>3, <1>5 DEF DeviceInv, DevicesOk
<1>7. ASSUME NEW e \in Devices
      PROVE  /\ e \notin up' => publisher'[e] = "idle"
             /\ publisher'[e] = "allocated" =>
                  \A r \in signed' : r.device = e => r.sequence < counter'[e]
             /\ publisher'[e] = "signed" => CurrentRecord(e)' \in signed'
             /\ stored'[e] # Nothing => stored'[e].device = e
  <2>1. /\ \A r \in signed : r.sequence <= counter[r.device]
        /\ publisher[e] = "allocated" =>
             \A r \in signed : r.device = e => r.sequence < counter[e]
        /\ publisher[e] = "signed" => CurrentRecord(e) \in signed
        /\ e \notin up => publisher[e] = "idle"
        /\ stored[e] # Nothing => stored[e].device = e
    BY DEF DeviceInv, DevicesOk
  <2>2. CASE e = d
    BY <1>1, <1>3, <1>5, <2>1, <2>2
  <2>3. CASE e # d
    <3>1. counter'[e] = counter[e] /\ publisher'[e] = publisher[e]
      BY <1>3, <2>3
    <3>2. CurrentRecord(e)' = CurrentRecord(e)
      BY <1>1, <3>1 DEF CurrentRecord
    <3>3. QED
      BY <1>1, <2>1, <3>1, <3>2
  <2>4. QED
    BY <2>2, <2>3
<1>8. NoSequenceSignedTwice'
  BY <1>1 DEF DeviceInv, DevicesOk, NoSequenceSignedTwice
<1>9. QED
  BY <1>4, <1>6, <1>7, <1>8 DEF DeviceInv, DevicesOk

(* The record that is signed is the only one with its sequence.             *)
LEMMA SignRecordStep ==
  ASSUME DeviceInv, NEW d \in Devices, SignRecord(d)
  PROVE  DeviceInv'
<1> DEFINE new == CurrentRecord(d)
<1>1. /\ UNCHANGED <<situation, run, up, counter, ended, stored, late>>
      /\ publisher[d] = "allocated"
      /\ signed' = signed \cup {new}
      /\ publisher' = [publisher EXCEPT ![d] = "signed"]
  BY DEF SignRecord
<1>2. PICK kept \in SUBSET active[d] : active' = [active EXCEPT ![d] = kept \cup {new}]
  BY DEF SignRecord
<1>3. DevicesTypeOK
  BY DEF DeviceInv
<1>4. /\ new \in Record /\ new.device = d /\ new.sequence = counter[d]
      /\ counter[d] \in Nat /\ run[d] \in Nat
  BY <1>3 DEF DevicesTypeOK, CurrentRecord, Record
<1>5. \A r \in signed : r \in Record /\ r.device \in Devices /\ r.sequence \in Nat
  BY <1>3 DEF DevicesTypeOK, Record
<1>6. \A r \in signed : r.device = d => r.sequence < counter[d]
  BY <1>1 DEF DeviceInv, DevicesOk
<1> HIDE DEF new
<1>7. DevicesTypeOK'
  <2>1. /\ signed' \subseteq Record /\ signed \subseteq signed'
        /\ active' \in [Devices -> SUBSET signed']
        /\ \A e \in Devices : \A r \in active'[e] : r.device = e
    BY <1>1, <1>2, <1>3, <1>4 DEF DevicesTypeOK
  <2>2. publisher' \in [Devices -> {"idle", "allocated", "signed"}]
    BY <1>1, <1>3 DEF DevicesTypeOK
  <2>3. stored' \in [Devices -> signed' \cup {Nothing}]
    BY <1>1, <1>3, <2>1 DEF DevicesTypeOK
  <2>4. QED
    BY <1>1, <1>3, <2>1, <2>2, <2>3 DEF DevicesTypeOK
<1>8. \A r \in signed' : r.sequence <= counter'[r.device]
  BY <1>1, <1>4, <1>5 DEF DeviceInv, DevicesOk
<1>9. \A e \in Devices : publisher'[e] = IF e = d THEN "signed" ELSE publisher[e]
  BY <1>1, <1>3 DEF DevicesTypeOK
<1>10. ASSUME NEW e \in Devices
       PROVE  /\ e \notin up' => publisher'[e] = "idle"
              /\ publisher'[e] = "allocated" =>
                   \A r \in signed' : r.device = e => r.sequence < counter'[e]
              /\ publisher'[e] = "signed" => CurrentRecord(e)' \in signed'
              /\ stored'[e] # Nothing => stored'[e].device = e
  <2>1. CurrentRecord(e)' = CurrentRecord(e)
    BY <1>1 DEF CurrentRecord
  <2>2. e \notin up' => publisher'[e] = "idle"
    BY <1>1, <1>9 DEF DeviceInv, DevicesOk
  <2>3. QED
    BY <1>1, <1>4, <1>9, <2>1, <2>2 DEF DeviceInv, DevicesOk, new
<1>11. NoSequenceSignedTwice'
  BY <1>1, <1>4, <1>5, <1>6 DEF DeviceInv, DevicesOk, NoSequenceSignedTwice
<1>12. QED
  BY <1>7, <1>8, <1>10, <1>11 DEF DeviceInv, DevicesOk

(* Records that move, between the devices and the homeserver, or expire.    *)
LEMMA RecordsMove ==
  ASSUME DeviceInv, UNCHANGED <<situation, run, up, counter, active, signed>>,
         publisher' \in [Devices -> {"idle", "allocated", "signed"}],
         \A d \in Devices : publisher'[d] \in {publisher[d], "idle"},
         ended' \cup late' \subseteq signed,
         stored' \in [Devices -> signed \cup {Nothing}],
         \A d \in Devices : stored'[d] # Nothing => stored'[d].device = d
  PROVE  DeviceInv'
<1>1. DevicesTypeOK'
  BY DEF DeviceInv, DevicesTypeOK
<1>2. \A r \in signed' : r.sequence <= counter'[r.device]
  BY DEF DeviceInv, DevicesOk
<1>3. ASSUME NEW d \in Devices
      PROVE  /\ d \notin up' => publisher'[d] = "idle"
             /\ publisher'[d] = "allocated" =>
                  \A r \in signed' : r.device = d => r.sequence < counter'[d]
             /\ publisher'[d] = "signed" => CurrentRecord(d)' \in signed'
  <2>1. CurrentRecord(d)' = CurrentRecord(d)
    BY DEF CurrentRecord
  <2>2. publisher'[d] # "idle" => publisher'[d] = publisher[d]
    OBVIOUS
  <2>3. QED
    BY <2>1, <2>2 DEF DeviceInv, DevicesOk
<1>4. NoSequenceSignedTwice'
  BY DEF DeviceInv, DevicesOk, NoSequenceSignedTwice
<1>5. QED
  BY <1>1, <1>2, <1>3, <1>4 DEF DeviceInv, DevicesOk

(* Whatever becomes of a PUT, it was about the device's last record.        *)
LEMMA PutRecordStep ==
  ASSUME DeviceInv, NEW d \in Devices, PutRecord(d) \/ InsertRecord(d)
  PROVE  DeviceInv'
<1> DEFINE r == CurrentRecord(d)
<1>1. DevicesTypeOK
  BY DEF DeviceInv
<1>2. /\ publisher[d] = "signed"
      /\ UNCHANGED <<situation, run, up, counter, active, signed, ended>>
      /\ publisher' = [publisher EXCEPT ![d] = "idle"]
      /\ stored' = stored \/ stored' = [stored EXCEPT ![d] = r]
      /\ late' = late \/ late' = late \cup {r}
  BY DEF PutRecord, InsertRecord
<1>3. r \in signed
  BY <1>2 DEF DeviceInv, DevicesOk
<1>4. r.device = d
  BY DEF CurrentRecord
<1>5. \A e \in Devices : stored[e] # Nothing => stored[e].device = e
  BY DEF DeviceInv, DevicesOk
<1> HIDE DEF r
<1>6. stored' \in [Devices -> signed \cup {Nothing}]
  BY <1>1, <1>2, <1>3 DEF DevicesTypeOK
<1>7. \A e \in Devices : stored'[e] # Nothing => stored'[e].device = e
  BY <1>1, <1>2, <1>4, <1>5 DEF DevicesTypeOK
<1>8. /\ publisher' \in [Devices -> {"idle", "allocated", "signed"}]
      /\ \A e \in Devices : publisher'[e] \in {publisher[e], "idle"}
  BY <1>1, <1>2 DEF DevicesTypeOK
<1>9. ended' \cup late' \subseteq signed
  BY <1>1, <1>2, <1>3 DEF DevicesTypeOK
<1>10. QED
  BY <1>2, <1>6, <1>7, <1>8, <1>9, RecordsMove

(* A late PUT, a deletion and an expiry touch no sequence.                  *)
LEMMA HomeserverStep ==
  ASSUME DeviceInv,
         \/ \E r \in signed : LatePut(r) \/ Expire(r)
         \/ \E d \in Devices : DeleteRecord(d)
  PROVE  DeviceInv'
<1>1. DevicesTypeOK
  BY DEF DeviceInv
<1>2. /\ UNCHANGED <<situation, run, up, counter, active, signed, publisher>>
      /\ ended' = ended \/ \E r \in signed : ended' = ended \cup {r}
      /\ late' \subseteq late
      /\ \/ stored' = stored
         \/ \E d \in Devices : stored' = [stored EXCEPT ![d] = Nothing]
         \/ \E r \in signed : stored' = [stored EXCEPT ![r.device] = r]
  BY DEF LatePut, Expire, DeleteRecord, deviceVars
<1>3. ended' \cup late' \subseteq signed
  BY <1>1, <1>2 DEF DevicesTypeOK
<1>4. \A e \in Devices : stored[e] # Nothing => stored[e].device = e
  BY DEF DeviceInv, DevicesOk
<1>5. \A r \in signed : r.device \in Devices
  BY <1>1 DEF DevicesTypeOK, Record
<1>6. /\ stored' \in [Devices -> signed \cup {Nothing}]
      /\ \A e \in Devices : stored'[e] # Nothing => stored'[e].device = e
  <2>1. CASE stored' = stored
    BY <1>1, <1>4, <2>1 DEF DevicesTypeOK
  <2>2. CASE \E d \in Devices : stored' = [stored EXCEPT ![d] = Nothing]
    BY <1>1, <1>4, <2>2 DEF DevicesTypeOK
  <2>3. CASE \E r \in signed : stored' = [stored EXCEPT ![r.device] = r]
    BY <1>1, <1>4, <1>5, <2>3 DEF DevicesTypeOK
  <2>4. QED
    BY <1>2, <2>1, <2>2, <2>3
<1>7. /\ publisher' \in [Devices -> {"idle", "allocated", "signed"}]
      /\ \A e \in Devices : publisher'[e] \in {publisher[e], "idle"}
  BY <1>1, <1>2 DEF DevicesTypeOK
<1>8. QED
  BY <1>2, <1>3, <1>6, <1>7, RecordsMove

(* A process that ends leaves its counter and its records behind.           *)
LEMMA CrashStep ==
  ASSUME DeviceInv, NEW d \in Devices, Crash(d)
  PROVE  DeviceInv'
<1>1. DevicesTypeOK
  BY DEF DeviceInv
<1>2. /\ UNCHANGED <<situation, run, counter, signed, ended, stored>>
      /\ up' = up \ {d}
      /\ active' = [active EXCEPT ![d] = {}]
      /\ publisher' = [publisher EXCEPT ![d] = "idle"]
      /\ \/ late' = late
         \/ publisher[d] = "signed" /\ late' = late \cup {CurrentRecord(d)}
  BY DEF Crash
<1>3. publisher[d] = "signed" => CurrentRecord(d) \in signed
  BY DEF DeviceInv, DevicesOk
<1>4. late' \subseteq signed
  BY <1>1, <1>2, <1>3 DEF DevicesTypeOK
<1>5. /\ active' \in [Devices -> SUBSET signed']
      /\ \A e \in Devices : \A r \in active'[e] : r.device = e
  BY <1>1, <1>2 DEF DevicesTypeOK
<1>6. /\ publisher' \in [Devices -> {"idle", "allocated", "signed"}]
      /\ \A e \in Devices : publisher'[e] = IF e = d THEN "idle" ELSE publisher[e]
  BY <1>1, <1>2 DEF DevicesTypeOK
<1>7. DevicesTypeOK'
  BY <1>1, <1>2, <1>4, <1>5, <1>6 DEF DevicesTypeOK
<1>8. ASSUME NEW e \in Devices
      PROVE  /\ e \notin up' => publisher'[e] = "idle"
             /\ publisher'[e] = "allocated" =>
                  \A r \in signed' : r.device = e => r.sequence < counter'[e]
             /\ publisher'[e] = "signed" => CurrentRecord(e)' \in signed'
  <2>1. CurrentRecord(e)' = CurrentRecord(e)
    BY <1>2 DEF CurrentRecord
  <2>2. QED
    BY <1>2, <1>6, <2>1 DEF DeviceInv, DevicesOk
<1>9. NoSequenceSignedTwice'
  BY <1>2 DEF DeviceInv, DevicesOk, NoSequenceSignedTwice
<1>10. /\ \A r \in signed' : r.sequence <= counter'[r.device]
       /\ \A e \in Devices : stored'[e] # Nothing => stored'[e].device = e
  BY <1>2 DEF DeviceInv, DevicesOk
<1>11. QED
  BY <1>7, <1>8, <1>9, <1>10 DEF DeviceInv, DevicesOk

(* A new process is idle when it starts.                                    *)
LEMMA RestartStep ==
  ASSUME DeviceInv, NEW d \in Devices, Restart(d)
  PROVE  DeviceInv'
<1>1. DevicesTypeOK /\ situation.maxRuns \in [Devices -> Nat \ {0}]
  BY DiallingAssumption DEF DeviceInv, DevicesTypeOK, Situation
<1>2. /\ UNCHANGED <<situation, counter, publisher, active, signed, ended, stored, late>>
      /\ d \notin up /\ run[d] < situation.maxRuns[d]
      /\ up' = up \cup {d}
      /\ run' = [run EXCEPT ![d] = @ + 1]
  BY DEF Restart
<1>3. /\ run' \in [Devices -> Nat \ {0}]
      /\ \A e \in Devices : run'[e] <= situation.maxRuns[e]
      /\ \A e \in Devices : e # d => run'[e] = run[e]
  BY <1>1, <1>2 DEF DevicesTypeOK
<1>4. DevicesTypeOK'
  BY <1>1, <1>2, <1>3 DEF DevicesTypeOK
<1>5. publisher[d] = "idle"
  BY <1>2 DEF DeviceInv, DevicesOk
<1>6. ASSUME NEW e \in Devices
      PROVE  /\ e \notin up' => publisher'[e] = "idle"
             /\ publisher'[e] = "signed" => CurrentRecord(e)' \in signed'
  <2>1. e # d => CurrentRecord(e)' = CurrentRecord(e)
    BY <1>2, <1>3 DEF CurrentRecord
  <2>2. QED
    BY <1>2, <1>5, <2>1 DEF DeviceInv, DevicesOk
<1>7. QED
  BY <1>2, <1>4, <1>6 DEF DeviceInv, DevicesOk, NoSequenceSignedTwice

(* Every step of a device preserves what is said of the devices.            *)
LEMMA DeviceSteps ==
  ASSUME TypeOK, DevicesOk, DialOk, DeviceStep
  PROVE  DevicesTypeOK' /\ DevicesOk' /\ DialTypeOK' /\ DialOk'
<1>1. DeviceInv
  BY DEF TypeOK, DeviceInv
<1>2. DeviceInv'
  BY <1>1, AllocateStep, SignRecordStep, PutRecordStep, HomeserverStep, CrashStep,
     RestartStep DEF DeviceStep
<1>3. UNCHANGED <<situation, dialVars>> /\ signed \subseteq signed'
  BY DEF DeviceStep, Allocate, SignRecord, PutRecord, InsertRecord, DeleteRecord, Crash,
         Restart, LatePut, Expire, deviceVars
<1>4. QED
  BY <1>2, <1>3, DialRests DEF DeviceInv, TypeOK

-----------------------------------------------------------------------------
(* The steps of the dial.                                                   *)

Outcomes == {"failed", "exhausted", "timed out", "peer"}

(* At the end, nothing is left of the resolution.                           *)
LEMMA Ending ==
  ASSUME DialTypeOK, NEW outcome \in Outcomes, DialEnds(outcome), UNCHANGED signed,
         offered' \subseteq Devices, tried' \in Seq(Devices),
         TriesEachDeviceOnce'
  PROVE  DialTypeOK' /\ DialOk'
<1>1. dial' = outcome /\ paths' = <<>> /\ resolved' = <<>> /\ spent' = 0
  BY DEF DialEnds
<1>2. NegotiationTimeout \in Nat /\ MaxDevices \in Nat
  BY DiallingAssumption
<1>3. <<>> \in Seq(signed') /\ <<>> \in Seq(Devices) /\ Len(<<>>) = 0
  BY EmptySeq
<1>4. /\ paths' \in Seq(Devices)
      /\ resolved' \in Seq(signed') /\ Len(resolved') <= MaxDevices
      /\ spent' \in 0..NegotiationTimeout
  <2>1. paths' \in Seq(Devices) /\ resolved' \in Seq(signed')
    BY <1>1, <1>3
  <2>2. Len(resolved') <= MaxDevices
    BY <1>1, <1>2, <1>3
  <2>3. spent' \in 0..NegotiationTimeout
    BY <1>1, <1>2
  <2>4. QED
    BY <2>1, <2>2, <2>3
<1>5. DialTypeOK'
  BY <1>1, <1>4 DEF DialTypeOK, Outcomes
<1>6. QED
  BY <1>1, <1>5 DEF DialOk, Outcomes

(* The candidates are all requested devices, each once, in their order.     *)
LEMMA Resolving ==
  ASSUME DevicesTypeOK, DialTypeOK, tried = <<>>, spent < NegotiationTimeout,
         NEW records \in Seq(signed), Len(records) <= MaxDevices,
         \A m, n \in 1..Len(records) : records[m].device = records[n].device => m = n,
         Resolved(records), UNCHANGED <<situation, signed>>
  PROVE  DialTypeOK' /\ DialOk'
<1> DEFINE places == {n \in 1..Len(records) : records[n].device \in Requested}
           rank == [n \in 1..Len(records) |-> Rank[records[n].device]]
           t == Arranged(records, places, rank)
           c == Candidates(records)
<1>1. /\ Len(records) \in Nat
      /\ \A n \in 1..Len(records) : /\ records[n] \in signed
                                    /\ records[n].device \in Devices
  BY DEF DevicesTypeOK, Record
<1>2. rank \in [1..Len(records) -> Nat] /\ places \in SUBSET (1..Len(records))
  BY <1>1, DiallingAssumption
<1>3. t \in Seq(signed) /\ Len(t) <= Len(records) /\ SortedBy(t, records, places, rank)
  <2> HIDE DEF t, places, rank
  <2>1. QED
    BY <1>2, Arranging DEF t
<1>4. c = t
  <2>1. c = SubSeq(t, 1, IF Len(t) < MaxActive THEN Len(t) ELSE MaxActive)
    BY DEF Candidates
  <2> HIDE DEF t, c
  <2>2. MaxActive \in Nat /\ MaxDevices \in Nat /\ MaxDevices <= MaxActive
    BY DiallingAssumption
  <2>3. (IF Len(t) < MaxActive THEN Len(t) ELSE MaxActive) = Len(t)
    BY <1>1, <1>3, <2>2
  <2>4. QED
    BY <1>3, <2>1, <2>3, SubSeqFull
<1>5. offered' = {records[n].device : n \in 1..Len(records)} /\ tried' = <<>>
  BY DEF Resolved
<1>6. Requested' = Requested /\ offered' \subseteq Devices /\ tried' \in Seq(Devices)
  BY <1>1, <1>5 DEF Requested
<1>7. CASE c = <<>>
  <2>1. DialEnds("failed")
    BY <1>7 DEF Resolved
  <2>2. TriesEachDeviceOnce'
    BY <2>1 DEF DialEnds, TriesEachDeviceOnce
  <2>3. QED
    BY <1>6, <2>1, <2>2, Ending DEF Outcomes
<1>8. CASE c # <<>>
  <2>1. /\ dial' = "trying" /\ resolved' = c /\ paths' = <<>> /\ spent' = spent
    BY <1>8 DEF Resolved
  <2> HIDE DEF c
  <2>2. PICK p \in [1..Len(t) -> places] :
           /\ \A k \in 1..Len(t) : t[k] = records[p[k]]
           /\ \A j, k \in 1..Len(t) : p[j] = p[k] => j = k
           /\ \A n \in places : \E k \in 1..Len(t) : p[k] = n
           /\ \A j, k \in 1..Len(t) : j < k => rank[p[j]] <= rank[p[k]]
    BY <1>3 DEF SortedBy
  <2> HIDE DEF t
  <2>3. \A k \in 1..Len(t) : /\ p[k] \in 1..Len(records)
                             /\ t[k].device = records[p[k]].device
                             /\ t[k].device \in Devices \cap Requested
                             /\ rank[p[k]] = Rank[t[k].device]
    BY <1>1, <2>2
  <2>4. \A d \in Devices : d \in offered' \cap Requested =>
          \E n \in 1..Len(t) : t[n].device = d
    <3> SUFFICES ASSUME NEW d \in Devices, d \in offered', d \in Requested
                 PROVE  \E n \in 1..Len(t) : t[n].device = d
      OBVIOUS
    <3>1. PICK n \in 1..Len(records) : records[n].device = d
      BY <1>5
    <3>2. PICK k \in 1..Len(t) : p[k] = n
      BY <2>2, <3>1
    <3>3. QED
      BY <2>3, <3>1, <3>2
  <2>5. ASSUME NEW n \in 1..Len(t)
        PROVE  t[n].device \in offered' \cap Requested
    <3>1. /\ p[n] \in 1..Len(records) /\ t[n].device = records[p[n]].device
          /\ t[n].device \in Requested
      BY <2>3
    <3>2. QED
      BY <1>5, <3>1
  <2> HIDE DEF rank, places
  <2>6. \A j, k \in 1..Len(t) : j < k => Rank[t[j].device] < Rank[t[k].device]
    <3> SUFFICES ASSUME NEW j \in 1..Len(t), NEW k \in 1..Len(t), j < k
                 PROVE  Rank[t[j].device] < Rank[t[k].device]
      OBVIOUS
    <3>1. Len(t) \in Nat
      BY <1>3
    <3>2. p[j] # p[k]
      BY <2>2, <3>1
    <3>3. t[j].device # t[k].device
      <4>1. /\ p[j] \in 1..Len(records) /\ t[j].device = records[p[j]].device
            /\ p[k] \in 1..Len(records) /\ t[k].device = records[p[k]].device
        BY <2>3
      <4>2. QED
        BY <3>2, <4>1
    <3>4. Rank[t[j].device] # Rank[t[k].device]
      BY <2>3, <3>3, DiallingAssumption
    <3>5. Rank[t[j].device] <= Rank[t[k].device]
      BY <2>2, <2>3, SMTT(30)
    <3>6. Rank[t[j].device] \in Nat /\ Rank[t[k].device] \in Nat
      BY <2>3, DiallingAssumption
    <3>7. QED
      BY <3>4, <3>5, <3>6
  <2>7. resolved' = t /\ t # <<>> /\ Len(t) <= MaxDevices
    BY <1>1, <1>3, <1>4, <1>8, <2>1, DiallingAssumption
  <2>8. DialTypeOK'
    BY <1>3, <1>6, <2>1, <2>7 DEF DialTypeOK
  <2>9. Trying(1, tried)'
    <3>1. \A d \in Devices : ~Among(d, tried')
      BY <1>5 DEF Among
    <3>2. \A d \in Devices :
            d \in offered' \cap Requested' <=>
              Among(d, tried') \/ \E n \in 1..Len(resolved') : resolved'[n].device = d
      BY <1>6, <2>4, <2>5, <2>7, <3>1
    <3>3. QED
      BY <1>5, <2>1, <2>6, <2>7, <3>2 DEF Trying, Among
  <2>10. QED
    BY <2>1, <2>8, <2>9 DEF DialOk, TriesEachDeviceOnce
<1>9. QED
  BY <1>7, <1>8

(* A call of dial starts anew.                                              *)
LEMMA DialCalled ==
  ASSUME DialTypeOK, DialOk, Dial
  PROVE  DialTypeOK' /\ DialOk'
<1>1. /\ dial' = "listing" /\ offered' = {} /\ tried' = <<>>
      /\ UNCHANGED <<situation, signed, paths, resolved, spent>>
      /\ paths = <<>> /\ resolved = <<>> /\ spent = 0
  BY DEF Dial, DialOk, deviceVars
<1>2. DialTypeOK'
  BY <1>1, EmptySeq DEF DialTypeOK
<1>3. QED
  BY <1>1, <1>2 DEF DialOk, TriesEachDeviceOnce

(* The listed devices are fetched in the order of their paths.              *)
LEMMA ListStep ==
  ASSUME DialTypeOK, DialOk, List
  PROVE  DialTypeOK' /\ DialOk'
<1>1. /\ dial = "listing" /\ tried = <<>> /\ resolved = <<>> /\ spent = 0
      /\ UNCHANGED <<situation, signed>>
  BY DEF List, DialOk, deviceVars
<1>2. PICK entries \in Listings :
        \/ /\ ListingOk(entries) /\ entries # <<>>
           /\ dial' = "fetching"
           /\ paths' = Arranged(entries, 1..Len(entries),
                                [n \in 1..Len(entries) |-> PathRank[entries[n]]])
           /\ UNCHANGED <<resolved, spent, offered, tried>>
        \/ /\ DialEnds("failed")
           /\ UNCHANGED <<offered, tried>>
  BY DEF List
<1>3. CASE DialEnds("failed") /\ UNCHANGED <<offered, tried>>
  <2>1. offered' \subseteq Devices /\ tried' \in Seq(Devices)
    BY <1>3 DEF DialTypeOK
  <2>2. TriesEachDeviceOnce'
    BY <1>3 DEF DialEnds, TriesEachDeviceOnce
  <2>3. QED
    BY <1>1, <1>3, <2>1, <2>2, Ending DEF Outcomes
<1>4. CASE /\ ListingOk(entries) /\ entries # <<>>
           /\ dial' = "fetching"
           /\ paths' = Arranged(entries, 1..Len(entries),
                                [n \in 1..Len(entries) |-> PathRank[entries[n]]])
           /\ UNCHANGED <<resolved, spent, offered, tried>>
  <2> DEFINE rank == [n \in 1..Len(entries) |-> PathRank[entries[n]]]
             listed == {d \in Devices : stored[d] # Nothing}
  <2>1. entries \in Seq(Devices)
    <3>1. CASE ~Faulty
      <4>1. entries = SetToSeq(listed)
        BY <1>2, <3>1 DEF Listings
      <4>2. listed \subseteq Devices
        OBVIOUS
      <4> HIDE DEF listed
      <4>3. IsFiniteSet(listed)
        BY <4>2, FS_Subset, DiallingAssumption
      <4>4. SetToSeq(listed) \in Seq(listed)
        BY <4>3, Listed
      <4>5. QED
        BY <4>1, <4>2, <4>4
    <3>2. CASE Faulty
      <4>1. entries \in BoundedSeq(Devices \cup {Foreign}, MaxDevices + 1)
        BY <1>2, <3>2 DEF Listings, AnyListing
      <4>2. MaxDevices + 1 \in Nat
        BY DiallingAssumption
      <4>3. PICK m \in 0..(MaxDevices + 1) : entries \in [1..m -> Devices \cup {Foreign}]
        BY <4>1 DEF BoundedSeq, SeqOf
      <4>4. Len(entries) = m
        BY <4>2, <4>3
      <4>5. \A n \in 1..m : entries[n] \in Devices
        BY <1>4, <4>3, <4>4 DEF ListingOk
      <4>6. QED
        BY <4>2, <4>3, <4>5
    <3>3. QED
      BY <3>1, <3>2
  <2>2. Len(entries) \in Nat /\ Len(entries) <= MaxDevices /\ Len(entries) # 0
    BY <1>4, <2>1 DEF ListingOk
  <2>3. rank \in [1..Len(entries) -> Nat]
    BY <2>1, DiallingAssumption
  <2> HIDE DEF rank, listed
  <2>4. paths' = Arranged(entries, 1..Len(entries), rank)
    BY <1>4 DEF rank
  <2>5. Cardinality(1..Len(entries)) = Len(entries)
    BY <2>2, FS_Interval
  <2>6. /\ paths' \in Seq(Devices) /\ Len(paths') = Len(entries)
        /\ SortedBy(paths', entries, 1..Len(entries), rank)
    BY <2>1, <2>3, <2>4, <2>5, Arranging
  <2>7. \A m, n \in 1..Len(entries) : entries[m] = entries[n] => m = n
    BY <1>4, <2>1 DEF ListingOk, IsInjective
  <2>8. Distinct(paths')
    <3>1. PICK p \in [1..Len(paths') -> 1..Len(entries)] :
            /\ \A k \in 1..Len(paths') : paths'[k] = entries[p[k]]
            /\ \A j, k \in 1..Len(paths') : p[j] = p[k] => j = k
      BY <2>6 DEF SortedBy
    <3>2. QED
      BY <2>7, <3>1 DEF Distinct
  <2>9. resolved' = <<>> /\ tried' = <<>> /\ spent' = 0 /\ dial' = "fetching"
    BY <1>1, <1>4
  <2>10. DialTypeOK'
    BY <1>1, <1>4, <2>6, <2>9, EmptySeq DEF DialTypeOK
  <2>11. FetchingOk'
    <3>1. paths' # <<>> /\ Len(resolved') = 0 /\ Len(paths') <= MaxDevices
      BY <2>2, <2>6, <2>9
    <3>2. spent' < NegotiationTimeout
      BY <2>9, DiallingAssumption
    <3>3. QED
      BY <2>2, <2>6, <2>8, <2>9, <3>1, <3>2 DEF FetchingOk
  <2>12. QED
    BY <2>9, <2>10, <2>11 DEF DialOk, TriesEachDeviceOnce
<1>5. QED
  BY <1>2, <1>3, <1>4

(* A record that is fetched belongs to the device it was fetched for.       *)
LEMMA FetchStep ==
  ASSUME DevicesTypeOK, DialTypeOK, DialOk, Fetch
  PROVE  DialTypeOK' /\ DialOk'
<1> DEFINE d == Head(paths)
<1>1. dial = "fetching" /\ UNCHANGED <<situation, signed>> /\ FetchingOk
  BY DEF Fetch, DialOk, deviceVars
<1>2. /\ paths \in Seq(Devices) /\ paths # <<>> /\ Len(paths) \in Nat /\ Len(paths) # 0
      /\ resolved \in Seq(signed) /\ Len(resolved) \in Nat
      /\ d = paths[1] /\ d \in Devices
  BY <1>1 DEF DialTypeOK, FetchingOk
<1>3. PICK r \in Served(d) :
        \/ /\ FetchOk(d, r)
           /\ Len(paths) > 1
           /\ paths' = Tail(paths)
           /\ resolved' = Append(resolved, r)
           /\ UNCHANGED <<dial, spent, offered, tried>>
        \/ /\ FetchOk(d, r)
           /\ Len(paths) = 1
           /\ Resolved(Append(resolved, r))
        \/ /\ DialEnds("failed")
           /\ UNCHANGED <<offered, tried>>
  BY DEF Fetch
<1> DEFINE records == Append(resolved, r)
<1> HIDE DEF d
<1>4. CASE DialEnds("failed") /\ UNCHANGED <<offered, tried>>
  <2>1. offered' \subseteq Devices /\ tried' \in Seq(Devices)
    BY <1>4 DEF DialTypeOK
  <2>2. TriesEachDeviceOnce'
    BY <1>4 DEF DialEnds, TriesEachDeviceOnce
  <2>3. QED
    BY <1>1, <1>4, <2>1, <2>2, Ending DEF Outcomes
<1>5. ASSUME FetchOk(d, r)
      PROVE  /\ r \in signed /\ r.device = d
             /\ records \in Seq(signed) /\ Len(records) = Len(resolved) + 1
             /\ \A n \in 1..Len(resolved) : records[n] = resolved[n]
             /\ records[Len(resolved) + 1] = r
  <2>1. r \in signed /\ r.device = d
    BY <1>2, <1>5 DEF FetchOk, Served, DevicesTypeOK
  <2>2. QED
    BY <1>2, <2>1, AppendProperties
<1>6. ASSUME FetchOk(d, r)
      PROVE  \A m, n \in 1..Len(records) : records[m].device = records[n].device => m = n
  <2>1. \A m \in 1..Len(resolved) : resolved[m].device # d
    BY <1>1, <1>2 DEF FetchingOk
  <2>2. \A m, n \in 1..Len(resolved) : resolved[m].device = resolved[n].device => m = n
    BY <1>1 DEF FetchingOk
  <2> HIDE DEF records
  <2>3. \A m \in 1..Len(records) : m \in 1..Len(resolved) \/ m = Len(resolved) + 1
    BY <1>2, <1>5, <1>6
  <2>4. QED
    BY <1>2, <1>5, <1>6, <2>1, <2>2, <2>3
<1>7. CASE FetchOk(d, r) /\ Len(paths) = 1 /\ Resolved(records)
  <2>1. tried = <<>> /\ spent < NegotiationTimeout /\ Len(records) <= MaxDevices
    BY <1>1, <1>2, <1>5, <1>7 DEF FetchingOk
  <2> HIDE DEF records
  <2>2. QED
    BY <1>1, <1>5, <1>6, <1>7, <2>1, Resolving
<1>8. CASE /\ FetchOk(d, r) /\ Len(paths) > 1
           /\ paths' = Tail(paths) /\ resolved' = records
           /\ UNCHANGED <<dial, spent, offered, tried>>
  <2>1. /\ paths' \in Seq(Devices) /\ Len(paths') = Len(paths) - 1 /\ paths' # <<>>
        /\ \A n \in 1..Len(paths') : paths'[n] = paths[n + 1] /\ n + 1 \in 1..Len(paths)
    <3>1. /\ Tail(paths) \in Seq(Devices) /\ Len(Tail(paths)) = Len(paths) - 1
          /\ \A n \in 1..Len(Tail(paths)) : Tail(paths)[n] = paths[n + 1]
      BY <1>2, HeadTailProperties
    <3>2. QED
      BY <1>2, <1>8, <3>1
  <2>2. resolved' \in Seq(signed) /\ Len(resolved') = Len(resolved) + 1
    BY <1>5, <1>8
  <2>3. Len(resolved') + Len(paths') <= MaxDevices /\ Len(resolved') <= MaxDevices
    BY <1>1, <1>2, <2>1, <2>2, DiallingAssumption DEF FetchingOk
  <2>4. DialTypeOK'
    BY <1>1, <1>8, <2>1, <2>2, <2>3 DEF DialTypeOK
  <2>5. Distinct(paths')
    <3>1. \A m, n \in 1..Len(paths) : paths[m] = paths[n] => m = n
      BY <1>1 DEF FetchingOk, Distinct
    <3>2. QED
      BY <1>2, <2>1, <3>1 DEF Distinct
  <2>6. \A m \in 1..Len(resolved'), n \in 1..Len(paths') :
          resolved'[m].device # paths'[n]
    <3> SUFFICES ASSUME NEW m \in 1..Len(resolved'), NEW n \in 1..Len(paths')
                 PROVE  resolved'[m].device # paths'[n]
      OBVIOUS
    <3>1. paths'[n] = paths[n + 1] /\ n + 1 \in 1..Len(paths) /\ n + 1 # 1
      BY <2>1
    <3>2. CASE m \in 1..Len(resolved)
      BY <1>1, <1>5, <1>8, <3>1, <3>2 DEF FetchingOk
    <3>3. CASE m = Len(resolved) + 1
      <4>1. resolved'[m].device = paths[1] /\ 1 \in 1..Len(paths)
        BY <1>2, <1>5, <1>8, <3>3
      <4>2. QED
        BY <1>1, <3>1, <4>1 DEF FetchingOk, Distinct
    <3>4. QED
      BY <1>2, <2>2, <3>2, <3>3
  <2>7. FetchingOk'
    BY <1>1, <1>6, <1>8, <2>1, <2>3, <2>5, <2>6 DEF FetchingOk
  <2>8. QED
    BY <1>1, <1>8, <2>4, <2>7 DEF DialOk, TriesEachDeviceOnce
<1>9. QED
  BY <1>3, <1>4, <1>7, <1>8

(* The injected records are those of different devices.                     *)
LEMMA ResolveInjectedStep ==
  ASSUME DevicesTypeOK, DevicesOk, DialTypeOK, DialOk, ResolveInjected
  PROVE  DialTypeOK' /\ DialOk'
<1> DEFINE held == {stored[d] : d \in Devices} \ {Nothing}
           records == SetToSeq(held)
<1>1. /\ dial = "listing" /\ tried = <<>> /\ spent = 0
      /\ UNCHANGED <<situation, signed>>
  BY DEF ResolveInjected, DialOk, deviceVars
<1>2. \/ Cardinality(held) <= MaxDevices /\ Resolved(records)
      \/ DialEnds("failed") /\ UNCHANGED <<offered, tried>>
  BY DEF ResolveInjected
<1>3. CASE DialEnds("failed") /\ UNCHANGED <<offered, tried>>
  <2>1. offered' \subseteq Devices /\ tried' \in Seq(Devices)
    BY <1>3 DEF DialTypeOK
  <2>2. TriesEachDeviceOnce'
    BY <1>3 DEF DialEnds, TriesEachDeviceOnce
  <2>3. QED
    BY <1>1, <1>3, <2>1, <2>2, Ending DEF Outcomes
<1>4. CASE Cardinality(held) <= MaxDevices /\ Resolved(records)
  <2>1. held \subseteq signed /\ \A r \in held : r = stored[r.device]
    BY DEF DevicesTypeOK, DevicesOk
  <2>2. IsFiniteSet(held)
    <3>1. IsFiniteSet({stored[d] : d \in Devices})
      <4> DEFINE image == {stored[d] : d \in Devices}
      <4>1. stored \in [Devices -> image] /\ \A r \in image : \E d \in Devices : stored[d] = r
        BY DEF DevicesTypeOK
      <4> HIDE DEF image
      <4>2. stored \in Surjection(Devices, image)
        BY <4>1 DEF Surjection
      <4>3. IsFiniteSet(image)
        BY <4>2, FS_Surjection, DiallingAssumption
      <4>4. QED
        BY <4>3 DEF image
    <3>2. held \subseteq {stored[d] : d \in Devices}
      OBVIOUS
    <3>3. QED
      BY <3>1, <3>2, FS_Subset
  <2> HIDE DEF held
  <2>3. /\ records \in Seq(held) /\ Len(records) <= MaxDevices
        /\ Distinct(records)
    BY <1>4, <2>2, Listed
  <2> HIDE DEF records
  <2>4. records \in Seq(signed)
    BY <2>1, <2>3
  <2>5. \A m, n \in 1..Len(records) : records[m].device = records[n].device => m = n
    BY <2>1, <2>3 DEF Distinct
  <2>6. spent < NegotiationTimeout
    BY <1>1, DiallingAssumption
  <2>7. QED
    BY <1>1, <1>4, <2>3, <2>4, <2>5, <2>6, Resolving
<1>5. QED
  BY <1>2, <1>3, <1>4

(* When the candidates are exhausted, all of them have been tried.          *)
LEMMA CandidateStep ==
  ASSUME DialTypeOK, Trying(2, tried'), tried' \in Seq(Devices),
         NEW cost \in Nat, CandidateFails(cost),
         UNCHANGED <<situation, signed, offered>>
  PROVE  DialTypeOK' /\ DialOk'
<1>1. /\ resolved \in Seq(signed) /\ resolved # <<>> /\ Len(resolved) \in Nat
      /\ Len(resolved) # 0 /\ Len(resolved) <= MaxDevices
      /\ offered' \subseteq Devices /\ Requested' = Requested
      /\ spent \in Nat /\ NegotiationTimeout \in Nat
  <2>1. NegotiationTimeout \in Nat
    BY DiallingAssumption
  <2>2. /\ resolved \in Seq(signed) /\ resolved # <<>> /\ Len(resolved) <= MaxDevices
        /\ offered' \subseteq Devices /\ Requested' = Requested
        /\ spent \in 0..NegotiationTimeout
    BY DEF Trying, DialTypeOK, Requested
  <2>3. QED
    BY <2>1, <2>2
<1>2. CASE DialEnds("timed out")
  <2>1. TriesEachDeviceOnce'
    BY <1>2 DEF DialEnds, TriesEachDeviceOnce
  <2>2. QED
    BY <1>1, <1>2, <2>1, Ending DEF Outcomes
<1>3. CASE Len(resolved) = 1 /\ DialEnds("exhausted")
  <2>1. ~\E n \in 2..Len(resolved) : TRUE
    BY <1>3
  <2>2. \A d \in Devices : d \in offered' \cap Requested' <=> Among(d, tried')
    BY <1>1, <2>1 DEF Trying
  <2>3. {tried'[n] : n \in 1..Len(tried')} = offered' \cap Requested'
    <3>1. \A n \in 1..Len(tried') : tried'[n] \in Devices
      OBVIOUS
    <3>2. QED
      BY <1>1, <2>2, <3>1 DEF Among
  <2>4. TriesEachDeviceOnce'
    BY <2>3 DEF Trying, TriesEachDeviceOnce
  <2>5. QED
    BY <1>1, <1>3, <2>4, Ending DEF Outcomes
<1>4. CASE /\ spent + cost < NegotiationTimeout /\ Len(resolved) > 1
           /\ dial' = "trying" /\ resolved' = Tail(resolved)
           /\ spent' = spent + cost /\ UNCHANGED paths
  <2>1. /\ resolved' \in Seq(signed) /\ Len(resolved') = Len(resolved) - 1
        /\ \A n \in 1..Len(resolved') : /\ resolved'[n] = resolved[n + 1]
                                        /\ n + 1 \in 2..Len(resolved)
    <3>1. /\ Tail(resolved) \in Seq(signed) /\ Len(Tail(resolved)) = Len(resolved) - 1
          /\ \A n \in 1..Len(Tail(resolved)) : Tail(resolved)[n] = resolved[n + 1]
      BY <1>1, HeadTailProperties
    <3>2. QED
      BY <1>1, <1>4, <3>1
  <2>2. ASSUME NEW n \in 2..Len(resolved)
        PROVE  n - 1 \in 1..Len(resolved') /\ resolved'[n - 1] = resolved[n]
    <3>1. n - 1 \in 1..Len(resolved') /\ (n - 1) + 1 = n
      BY <1>1, <2>1
    <3>2. QED
      BY <2>1, <3>1
  <2>3. resolved' # <<>> /\ Len(resolved') <= MaxDevices /\ spent' \in 0..NegotiationTimeout
    <3>1. resolved' # <<>>
      <4>1. Len(resolved) > 1 /\ Len(resolved) \in Nat
        BY <1>1, <1>4
      <4>2. Len(resolved') = Len(resolved) - 1
        BY <2>1
      <4>3. \A m, n \in Nat : m > 1 /\ n = m - 1 => n # 0
        OBVIOUS
      <4>4. Len(resolved') \in Nat
        BY <2>1
      <4>5. Len(resolved') # 0
        BY <4>1, <4>2, <4>3, <4>4, Zenon
      <4>6. QED
        BY <4>5, EmptySeq
    <3>2. MaxDevices \in Nat
      BY DiallingAssumption
    <3>3. Len(resolved') <= MaxDevices
      BY <1>1, <2>1, <3>2
    <3>4. spent' \in 0..NegotiationTimeout
      BY <1>1, <1>4
    <3>5. QED
      BY <3>1, <3>3, <3>4
  <2>4. DialTypeOK'
    BY <1>1, <1>4, <2>1, <2>3 DEF DialTypeOK
  <2>5. \A d \in Devices :
          (\E n \in 1..Len(resolved') : resolved'[n].device = d)
            <=> \E n \in 2..Len(resolved) : resolved[n].device = d
    <3>1. ASSUME NEW d \in Devices, NEW n \in 1..Len(resolved'), resolved'[n].device = d
          PROVE  \E k \in 2..Len(resolved) : resolved[k].device = d
      BY <2>1, <3>1
    <3>2. ASSUME NEW d \in Devices, NEW n \in 2..Len(resolved), resolved[n].device = d
          PROVE  \E k \in 1..Len(resolved') : resolved'[k].device = d
      BY <2>2, <3>2
    <3>3. QED
      BY <3>1, <3>2
  <2>6. \A d \in Devices :
          d \in offered' \cap Requested' <=>
            Among(d, tried') \/ \E n \in 1..Len(resolved') : resolved'[n].device = d
    BY <1>1, <2>5 DEF Trying
  <2>7. /\ \A m, n \in 1..Len(tried') : m < n => Rank[tried'[m]] < Rank[tried'[n]]
        /\ \A m \in 1..Len(tried'), n \in 1..Len(resolved') :
             Rank[tried'[m]] < Rank[resolved'[n].device]
    BY <2>1 DEF Trying
  <2>8. \A m, n \in 1..Len(resolved') :
          m < n => Rank[resolved'[m].device] < Rank[resolved'[n].device]
    <3> SUFFICES ASSUME NEW m \in 1..Len(resolved'), NEW n \in 1..Len(resolved'), m < n
                 PROVE  Rank[resolved'[m].device] < Rank[resolved'[n].device]
      OBVIOUS
    <3>1. /\ m + 1 \in 1..Len(resolved) /\ n + 1 \in 1..Len(resolved) /\ m + 1 < n + 1
          /\ resolved'[m] = resolved[m + 1] /\ resolved'[n] = resolved[n + 1]
      BY <1>1, <2>1
    <3>2. QED
      BY <3>1 DEF Trying
  <2>9. spent' < NegotiationTimeout
    BY <1>4
  <2>10. Trying(1, tried)'
    BY <2>3, <2>6, <2>7, <2>8, <2>9 DEF Trying, Among
  <2>11. QED
    BY <1>4, <2>4, <2>10 DEF DialOk, TriesEachDeviceOnce
<1>5. QED
  BY <1>2, <1>3, <1>4 DEF CandidateFails

(* The first candidate joins those that were tried.                         *)
LEMMA ConnectStep ==
  ASSUME DevicesTypeOK, DialTypeOK, DialOk, Connect
  PROVE  DialTypeOK' /\ DialOk'
<1> DEFINE d == Head(resolved).device
<1>1. /\ dial = "trying" /\ Trying(1, tried)
      /\ UNCHANGED <<situation, signed, offered>>
      /\ tried' = Append(tried, d)
      /\ \/ dial' = "handshaking" /\ UNCHANGED <<paths, resolved, spent>>
         \/ CandidateFails(HandshakeTimeout) \/ CandidateFails(0)
  BY DEF Connect, DialOk, deviceVars
<1>2. /\ resolved \in Seq(signed) /\ resolved # <<>> /\ Len(resolved) \in Nat
      /\ Len(resolved) # 0 /\ Head(resolved) = resolved[1]
      /\ \A n \in 1..Len(resolved) : resolved[n].device \in Devices
      /\ tried \in Seq(Devices) /\ Len(tried) \in Nat
  <2>1. resolved \in Seq(signed) /\ resolved # <<>> /\ tried \in Seq(Devices)
    BY <1>1 DEF Trying, DialTypeOK
  <2>2. \A n \in 1..Len(resolved) : resolved[n].device \in Devices
    BY <2>1, SMTT(30) DEF DevicesTypeOK, Record
  <2>3. QED
    BY <2>1, <2>2
<1>3. d \in Devices /\ d = resolved[1].device
  BY <1>2
<1> HIDE DEF d
<1>4. /\ tried' \in Seq(Devices) /\ Len(tried') = Len(tried) + 1
      /\ \A n \in 1..Len(tried) : tried'[n] = tried[n]
      /\ tried'[Len(tried) + 1] = d
  BY <1>1, <1>2, <1>3, AppendProperties
<1>5. \A n \in 1..Len(tried') : n \in 1..Len(tried) \/ n = Len(tried) + 1
  BY <1>2, <1>4
<1>6. Trying(2, tried')
  <2>1. \A e \in Devices : Among(e, tried') <=> Among(e, tried) \/ e = d
    <3>1. ASSUME NEW e \in Devices, Among(e, tried')
          PROVE  Among(e, tried) \/ e = d
      BY <1>4, <1>5, <3>1 DEF Among
    <3>2. ASSUME NEW e \in Devices, Among(e, tried)
          PROVE  Among(e, tried')
      BY <1>2, <1>4, <3>2 DEF Among
    <3>3. Among(d, tried')
      BY <1>2, <1>4 DEF Among
    <3>4. QED
      BY <3>1, <3>2, <3>3
  <2>2. \A e \in Devices :
          (\E n \in 1..Len(resolved) : resolved[n].device = e)
            <=> e = d \/ \E n \in 2..Len(resolved) : resolved[n].device = e
    <3>1. \A n \in 1..Len(resolved) : n = 1 \/ n \in 2..Len(resolved)
      BY <1>2
    <3>2. 1 \in 1..Len(resolved) /\ \A n \in 2..Len(resolved) : n \in 1..Len(resolved)
      BY <1>2
    <3>3. QED
      BY <1>3, <3>1, <3>2
  <2>3. \A e \in Devices :
          e \in offered \cap Requested <=>
            Among(e, tried') \/ \E n \in 2..Len(resolved) : resolved[n].device = e
    BY <1>1, <2>1, <2>2 DEF Trying
  <2>4. /\ \A m, n \in 1..Len(tried) : m < n => Rank[tried[m]] < Rank[tried[n]]
        /\ \A m, n \in 1..Len(resolved) :
             m < n => Rank[resolved[m].device] < Rank[resolved[n].device]
        /\ \A m \in 1..Len(tried), n \in 1..Len(resolved) :
             Rank[tried[m]] < Rank[resolved[n].device]
    BY <1>1 DEF Trying
  <2>5. \A m \in 1..Len(tried) : Rank[tried[m]] < Rank[d]
    BY <1>2, <1>3, <2>4
  <2>6. \A n \in 2..Len(resolved) : Rank[d] < Rank[resolved[n].device]
    BY <1>2, <1>3, <2>4
  <2>7. \A m, n \in 1..Len(tried') : m < n => Rank[tried'[m]] < Rank[tried'[n]]
    BY <1>2, <1>4, <1>5, <2>4, <2>5
  <2>8. \A m \in 1..Len(tried'), n \in 2..Len(resolved) :
          Rank[tried'[m]] < Rank[resolved[n].device]
    BY <1>2, <1>4, <1>5, <2>4, <2>6
  <2>9. QED
    BY <1>1, <2>3, <2>4, <2>7, <2>8 DEF Trying
<1>7. CASE CandidateFails(HandshakeTimeout) \/ CandidateFails(0)
  <2>1. HandshakeTimeout \in Nat /\ 0 \in Nat
    BY DiallingAssumption
  <2>2. QED
    BY <1>1, <1>4, <1>6, <1>7, <2>1, CandidateStep
<1>8. CASE dial' = "handshaking" /\ UNCHANGED <<paths, resolved, spent>>
  <2>1. DialTypeOK'
    BY <1>1, <1>4, <1>8 DEF DialTypeOK
  <2>2. Trying(2, tried)'
    BY <1>1, <1>6, <1>8 DEF Trying, Among, Requested
  <2>3. QED
    BY <1>8, <2>1, <2>2 DEF DialOk, TriesEachDeviceOnce
<1>9. QED
  BY <1>1, <1>7, <1>8

(* A Peer ends the dial; otherwise the candidate has failed.                *)
LEMMA HandshakeStep ==
  ASSUME DialTypeOK, DialOk, Handshake
  PROVE  DialTypeOK' /\ DialOk'
<1>1. /\ Trying(2, tried) /\ tried \in Seq(Devices) /\ offered \subseteq Devices
      /\ UNCHANGED <<situation, signed, offered, tried>>
      /\ DialEnds("peer") \/ CandidateFails(HandshakeTimeout) \/ CandidateFails(0)
  BY DEF Handshake, DialOk, DialTypeOK, deviceVars
<1>2. CASE CandidateFails(HandshakeTimeout) \/ CandidateFails(0)
  <2>1. HandshakeTimeout \in Nat /\ 0 \in Nat
    BY DiallingAssumption
  <2>2. QED
    BY <1>1, <1>2, <2>1, CandidateStep
<1>3. CASE DialEnds("peer")
  <2>1. TriesEachDeviceOnce'
    BY <1>3 DEF DialEnds, TriesEachDeviceOnce
  <2>2. QED
    BY <1>1, <1>3, <2>1, Ending DEF Outcomes
<1>4. QED
  BY <1>1, <1>2, <1>3

(* A timeout ends the dial and tells nothing of what was tried.             *)
LEMMA DialTimeoutStep ==
  ASSUME DialTypeOK, DialOk, DialTimeout
  PROVE  DialTypeOK' /\ DialOk'
<1>1. /\ UNCHANGED signed /\ DialEnds("timed out")
      /\ offered' \subseteq Devices /\ tried' \in Seq(Devices)
  BY EmptySeq DEF DialTimeout, deviceVars
<1>2. TriesEachDeviceOnce'
  BY <1>1 DEF DialEnds, TriesEachDeviceOnce
<1>3. QED
  BY <1>1, <1>2, Ending DEF Outcomes

(* Every step of the dial preserves what is said of the dial.               *)
LEMMA DialSteps ==
  ASSUME TypeOK, DevicesOk, DialOk, DialStep \/ DialTimeout
  PROVE  DevicesTypeOK' /\ DevicesOk' /\ DialTypeOK' /\ DialOk'
<1>1. DialTypeOK' /\ DialOk'
  BY DialCalled, ListStep, FetchStep, ResolveInjectedStep, ConnectStep, HandshakeStep,
     DialTimeoutStep DEF TypeOK, DialStep
<1>2. UNCHANGED <<situation, run, up, counter, publisher, active, signed, ended,
                  stored, late>>
  BY DEF DialStep, DialTimeout, Dial, List, Fetch, ResolveInjected, Connect, Handshake,
         deviceVars
<1>3. DeviceInv'
  BY <1>2, RecordsMove DEF TypeOK, DeviceInv, DevicesTypeOK, DevicesOk
<1>4. QED
  BY <1>1, <1>3 DEF DeviceInv

-----------------------------------------------------------------------------
(* The steps of the stream.                                                 *)

(* RemoveFirst takes one element out of a queue, and leaves the others.     *)
LEMMA Removing ==
  ASSUME NEW S, NEW s \in Seq(S), Distinct(s), NEW x
  PROVE  /\ RemoveFirst(s, x) \in Seq(S)
         /\ Distinct(RemoveFirst(s, x))
         /\ \A y : Contains(RemoveFirst(s, x), y) <=> Contains(s, y) /\ y # x
         /\ s # <<>> /\ Head(s) # x =>
              RemoveFirst(s, x) # <<>> /\ Head(RemoveFirst(s, x)) = Head(s)
<1> DEFINE t == RemoveFirst(s, x)
<1>1. Len(s) \in Nat /\ \A n \in 1..Len(s) : s[n] \in S
  OBVIOUS
<1>2. CASE ~\E n \in 1..Len(s) : s[n] = x
  BY <1>2 DEF RemoveFirst, Contains
<1>3. CASE \E n \in 1..Len(s) : s[n] = x
  <2>1. PICK i \in 1..Len(s) : s[i] = x
    BY <1>3
  <2>2. \A n \in 1..Len(s) : s[n] = x <=> n = i
    BY <2>1 DEF Distinct
  <2>3. SelectInSeq(s, LAMBDA v : v = x) = i
    BY <1>1, <2>1, <2>2 DEF SelectInSeq, Min
  <2>4. t = RemoveAt(s, i)
    BY <1>3, <2>3 DEF RemoveFirst
  <2> DEFINE front == SubSeq(s, 1, i - 1)
             back  == SubSeq(s, i + 1, Len(s))
  <2>5. /\ front \in Seq(S) /\ Len(front) = i - 1
        /\ \A n \in 1..(i - 1) : front[n] = s[n]
    BY <1>1, SubSeqProperties
  <2>6. /\ back \in Seq(S) /\ Len(back) = Len(s) - i
        /\ \A n \in 1..(Len(s) - i) : back[n] = s[i + n]
    BY <1>1, SubSeqProperties
  <2>7. t = front \o back
    BY <2>4 DEF RemoveAt
  <2> HIDE DEF t, front, back
  <2>8. /\ t \in Seq(S) /\ Len(t) = Len(s) - 1
        /\ \A n \in 1..Len(t) : t[n] = IF n < i THEN s[n] ELSE s[n + 1]
    <3>1. /\ t \in Seq(S) /\ Len(t) = Len(s) - 1
          /\ \A n \in 1..(Len(s) - 1) : t[n] = IF n <= i - 1 THEN front[n]
                                               ELSE back[n - (i - 1)]
      BY <1>1, <2>5, <2>6, <2>7, ConcatProperties
    <3>2. ASSUME NEW n \in 1..(Len(s) - 1)
          PROVE  t[n] = IF n < i THEN s[n] ELSE s[n + 1]
      <4>1. CASE n < i
        BY <1>1, <2>5, <3>1, <4>1
      <4>2. CASE n >= i
        <5>1. n - (i - 1) \in 1..(Len(s) - i) /\ i + (n - (i - 1)) = n + 1
          BY <1>1, <4>2
        <5>2. QED
          BY <1>1, <2>6, <3>1, <4>2, <5>1
      <4>3. QED
        BY <1>1, <4>1, <4>2
    <3>3. QED
      BY <3>1, <3>2
  <2>9. Distinct(t)
    <3> SUFFICES ASSUME NEW m \in 1..Len(t), NEW n \in 1..Len(t), t[m] = t[n]
                 PROVE  m = n
      BY DEF Distinct
    <3> DEFINE place(k) == IF k < i THEN k ELSE k + 1
    <3>1. /\ place(m) \in 1..Len(s) /\ place(n) \in 1..Len(s)
          /\ t[m] = s[place(m)] /\ t[n] = s[place(n)]
      BY <1>1, <2>8
    <3>2. place(m) = place(n)
      BY <3>1 DEF Distinct
    <3>3. QED
      BY <1>1, <2>8, <3>2
  <2>10. \A y : Contains(t, y) <=> Contains(s, y) /\ y # x
    <3>1. ASSUME NEW y, NEW n \in 1..Len(t), t[n] = y
          PROVE  Contains(s, y) /\ y # x
      BY <1>1, <2>2, <2>8, <3>1 DEF Contains
    <3>2. ASSUME NEW y, NEW n \in 1..Len(s), s[n] = y, y # x
          PROVE  Contains(t, y)
      <4>1. n # i
        BY <2>1, <3>2
      <4>2. CASE n < i
        BY <1>1, <2>8, <3>2, <4>2 DEF Contains
      <4>3. CASE n > i
        <5>1. n - 1 \in 1..Len(t) /\ ~(n - 1 < i) /\ (n - 1) + 1 = n
          BY <1>1, <2>8, <4>3
        <5>2. QED
          BY <2>8, <3>2, <5>1 DEF Contains
      <4>4. QED
        BY <1>1, <4>1, <4>2, <4>3
    <3>3. QED
      BY <3>1, <3>2 DEF Contains
  <2>11. s # <<>> /\ Head(s) # x => t # <<>> /\ Head(t) = Head(s)
    <3> SUFFICES ASSUME s # <<>>, Head(s) # x
                 PROVE  t # <<>> /\ Head(t) = Head(s)
      OBVIOUS
    <3>1. Head(s) = s[1] /\ i > 1
      BY <1>1, <2>1
    <3>2. 1 \in 1..Len(t) /\ t[1] = s[1]
      BY <1>1, <2>8, <3>1
    <3>3. QED
      BY <2>8, <3>1, <3>2
  <2>12. QED
    BY <2>8, <2>9, <2>10, <2>11 DEF t
<1>4. QED
  BY <1>2, <1>3

(* At most one call writes, and it is at the head of the queue.             *)
LEMMA OneWriter ==
  ASSUME StreamTypeOK, CallsOk
  PROVE  /\ \A x \in Calls : call[x] = "writing" => x \in Messages /\ Head(queue) = x
         /\ \A x \in Calls : Holds(x) /\ call[x] # "writing" => ~Writing /\ written = 0
         /\ Messages \subseteq Calls /\ FinishCall \in Calls \ Messages
         /\ CloseCall \in Calls \ Messages
<1>1. Messages \subseteq Calls /\ FinishCall \in Calls \ Messages
      /\ CloseCall \in Calls \ Messages
  BY PeerStreamAssumption DEF Calls
<1>2. QED
  BY <1>1 DEF CallsOk, Writing, Holds

(* The parts that are to be read are those in the buffer, then the others.  *)
LEMMA InPipe ==
  ASSUME StreamTypeOK
  PROVE  /\ Pipe \in Seq(Piece) /\ Len(Pipe) = Len(buffer) + Len(flight)
         /\ Len(buffer) \in Nat /\ Len(flight) \in Nat
         /\ \A n \in 1..Len(buffer) : Pipe[n] = buffer[n]
         /\ \A n \in 1..Len(flight) : Pipe[Len(buffer) + n] = flight[n]
<1>1. /\ buffer \in Seq(Piece) /\ flight \in Seq(Piece)
      /\ Len(buffer) \in Nat /\ Len(flight) \in Nat
  BY DEF StreamTypeOK
<1>2. /\ Pipe \in Seq(Piece) /\ Len(Pipe) = Len(buffer) + Len(flight)
      /\ \A n \in 1..(Len(buffer) + Len(flight)) :
           Pipe[n] = IF n <= Len(buffer) THEN buffer[n] ELSE flight[n - Len(buffer)]
  BY <1>1, ConcatProperties DEF Pipe
<1>3. \A n \in 1..Len(buffer) : Pipe[n] = buffer[n]
  BY <1>1, <1>2
<1>4. ASSUME NEW n \in 1..Len(flight)
      PROVE  Pipe[Len(buffer) + n] = flight[n]
  <2>1. Len(buffer) + n \in 1..(Len(buffer) + Len(flight)) /\ ~(Len(buffer) + n <= Len(buffer))
        /\ (Len(buffer) + n) - Len(buffer) = n
    BY <1>1
  <2>2. QED
    BY <1>2, <2>1
<1>5. QED
  BY <1>1, <1>2, <1>3, <1>4

(* What is left to read stays the same, or the connection is closed and     *)
(* takes away what was in flight.                                           *)
LEMMA FlowRests ==
  ASSUME StreamTypeOK, FlowOk, StreamTypeOK',
         UNCHANGED <<reader, bytes, received, order, torn>>,
         finished => finished',
         \A m \in Messages : call'[m] = "writing" => call[m] = "writing" /\ written' = written,
         \A m \in Messages : call'[m] = "done" => call[m] = "done",
         \/ /\ Pipe' = Pipe /\ (link = "closed" => link' = "closed")
            /\ written' = written /\ (Writing => Writing')
         \/ /\ link' = "closed"
            /\ Pipe' = Pipe \/ (UNCHANGED buffer /\ flight' = <<>>)
  PROVE  FlowOk'
<1> SUFFICES ASSUME ~torn
             PROVE  /\ ReceivedOk' /\ ReadingOk' /\ PipeOk'
                    /\ Live' /\ link' # "closed" => Reached(Complete, written)'
                    /\ reader' = "drained" =>
                         finished' /\ \A m \in Messages :
                                        call'[m] = "done" => Contains(received, m)'
  BY DEF FlowOk
<1>1. /\ ReceivedOk /\ ReadingOk /\ PipeOk
      /\ Live /\ link # "closed" => Reached(Complete, written)
      /\ reader = "drained" =>
           finished /\ \A m \in Messages : call[m] = "done" => Contains(received, m)
  BY DEF FlowOk
<1>2. Live' = Live /\ Awaited' = Awaited /\ (Writing' => Writing)
  BY DEF Live, Awaited, Writing
<1>3. /\ Len(Pipe) \in Nat /\ Len(Pipe') \in Nat /\ Len(Pipe') <= Len(Pipe)
      /\ \A n \in 1..Len(Pipe') : Pipe'[n] = Pipe[n]
  <2>1. /\ Pipe \in Seq(Piece) /\ Len(Pipe) = Len(buffer) + Len(flight)
        /\ Len(buffer) \in Nat /\ Len(flight) \in Nat
        /\ \A n \in 1..Len(buffer) : Pipe[n] = buffer[n]
    BY InPipe
  <2>2. CASE Pipe' = Pipe
    BY <2>1, <2>2
  <2>3. CASE UNCHANGED buffer /\ flight' = <<>>
    <3>1. Pipe' = buffer
      BY <2>3, ConcatEmptySeq DEF Pipe, StreamTypeOK
    <3>2. QED
      BY <2>1, <3>1
  <2>4. QED
    BY <2>2, <2>3
<1>4. ReceivedOk'
  BY <1>1, <1>2 DEF ReceivedOk
<1>5. ReadingOk'
  BY <1>1 DEF ReadingOk
<1>6. PipeOk'
  <2> SUFFICES ASSUME Live
               PROVE  /\ Pipe' # <<>> => /\ Len(received) < Len(order)
                                         /\ Pipe'[1] = Part(order[Len(received) + 1], Awaited)
                      /\ \A n \in 1..(Len(Pipe') - 1) : Follows(Pipe'[n], Pipe'[n + 1])
                      /\ \A n \in 1..Len(Pipe') :
                           /\ Contains(order, Pipe'[n].message)
                           /\ Pipe'[n].part <= Parts[Pipe'[n].message]
                           /\ call'[Pipe'[n].message] = "writing" =>
                                Pipe'[n].part < written'
    BY <1>2 DEF PipeOk, Follows, Part, Contains
  <2>1. /\ Pipe # <<>> => /\ Len(received) < Len(order)
                          /\ Pipe[1] = Part(order[Len(received) + 1], Awaited)
        /\ \A n \in 1..(Len(Pipe) - 1) : Follows(Pipe[n], Pipe[n + 1])
        /\ \A n \in 1..Len(Pipe) :
             /\ Contains(order, Pipe[n].message)
             /\ Pipe[n].part <= Parts[Pipe[n].message]
             /\ call[Pipe[n].message] = "writing" => Pipe[n].part < written
    BY <1>1 DEF PipeOk
  <2>2. Pipe \in Seq(Piece) /\ Pipe' \in Seq(Piece)
    <3>1. Pipe \in Seq(Piece)
      BY InPipe
    <3>2. Pipe' \in Seq(Piece)
      BY ConcatProperties DEF StreamTypeOK, Pipe
    <3>3. QED
      BY <3>1, <3>2
  <2>3. Pipe' # <<>> => Pipe # <<>> /\ Pipe'[1] = Pipe[1]
    BY <1>3, <2>2
  <2>4. ASSUME NEW n \in 1..(Len(Pipe') - 1)
        PROVE  Follows(Pipe'[n], Pipe'[n + 1])
    <3>1. /\ n \in 1..(Len(Pipe) - 1) /\ n \in 1..Len(Pipe') /\ n + 1 \in 1..Len(Pipe')
      BY <1>3
    <3>2. QED
      BY <1>3, <2>1, <3>1
  <2>5. ASSUME NEW n \in 1..Len(Pipe')
        PROVE  /\ Contains(order, Pipe'[n].message)
               /\ Pipe'[n].part <= Parts[Pipe'[n].message]
               /\ call'[Pipe'[n].message] = "writing" => Pipe'[n].part < written'
    <3>1. n \in 1..Len(Pipe) /\ Pipe'[n] = Pipe[n]
      BY <1>3
    <3>2. Pipe[n].message \in Messages
      <4>1. Pipe[n] \in Piece
        BY <2>2, <3>1, ElementOfSeq
      <4>2. QED
        BY <4>1 DEF Piece
    <3>3. /\ Contains(order, Pipe[n].message)
          /\ Pipe[n].part <= Parts[Pipe[n].message]
          /\ call[Pipe[n].message] = "writing" => Pipe[n].part < written
      BY <2>1, <3>1
    <3>4. call'[Pipe[n].message] = "writing" =>
            call[Pipe[n].message] = "writing" /\ written' = written
      BY <3>2
    <3>5. call'[Pipe'[n].message] = "writing" => Pipe'[n].part < written'
      BY <3>1, <3>3, <3>4
    <3>6. QED
      BY <3>1, <3>3, <3>5
  <2>6. QED
    BY <2>1, <2>3, <2>4, <2>5
<1>7. Live' /\ link' # "closed" => Reached(Complete, written)'
  <2> SUFFICES ASSUME Live', link' # "closed"
               PROVE  Reached(Complete, written)'
    OBVIOUS
  <2>1. Pipe' = Pipe /\ written' = written /\ link # "closed"
    OBVIOUS
  <2>2. Writing' <=> Writing
    BY <1>2, Zenon
  <2>3. Complete' = Complete
    BY <2>2 DEF Complete
  <2>4. Reached(Complete, written)
    BY <1>1, <1>2, <2>1
  <2>5. QED
    BY <2>1, <2>3, <2>4 DEF Reached
<1>8. QED
  BY <1>1, <1>4, <1>5, <1>6, <1>7 DEF Contains

(* What becomes of a call that gives up its place in the queue.             *)
Results == {"draining", "done", "failed", "dropped"}

(* It leaves the mutex to the next call, which has written nothing yet.     *)
LEMMA Leaving ==
  ASSUME StreamTypeOK, CallsOk, NEW x \in Calls, Holds(x), NEW result \in Results,
         Leave(x, result), UNCHANGED order,
         x \in Messages /\ result = "done" => Contains(order, x),
         Contains(order, x) => result # "draining",
         stream' = stream \/ stream' = "taken",
         finished' => stream' = "taken"
  PROVE  /\ CallsOk' /\ ~Writing' /\ written' = 0
         /\ call' \in [Calls -> {"idle", "waiting", "writing", "draining", "done",
                                 "failed", "dropped"}]
         /\ queue' \in Seq(Calls)
<1>1. /\ call' = [call EXCEPT ![x] = result] /\ queue' = RemoveFirst(queue, x)
      /\ written' = 0
  BY DEF Leave
<1>2. /\ call \in [Calls -> {"idle", "waiting", "writing", "draining", "done", "failed",
                             "dropped"}]
      /\ queue \in Seq(Calls) /\ Distinct(queue)
  BY DEF StreamTypeOK, CallsOk
<1>3. /\ queue' \in Seq(Calls) /\ Distinct(queue')
      /\ \A y : Contains(queue', y) <=> Contains(queue, y) /\ y # x
  BY <1>1, <1>2, Removing
<1>4. \A y \in Calls : call'[y] = IF y = x THEN result ELSE call[y]
  BY <1>1, <1>2
<1>5. result \notin {"idle", "waiting", "writing"}
  BY DEF Results
<1>6. call' \in [Calls -> {"idle", "waiting", "writing", "draining", "done", "failed",
                           "dropped"}]
  BY <1>1, <1>2 DEF Results
<1>7. \A y \in Calls : call'[y] # "writing"
  BY <1>4, <1>5, OneWriter DEF Holds
<1>8. ~Writing'
  BY <1>7, OneWriter DEF Writing
<1>9. \A y \in Calls : Contains(queue', y) <=> call'[y] \in {"waiting", "writing"}
  BY <1>3, <1>4, <1>5 DEF CallsOk
<1>10. ASSUME NEW m \in Messages
       PROVE  /\ Contains(order', m) =>
                   call'[m] \in {"writing", "done", "failed", "dropped"}
              /\ call'[m] = "done" => Contains(order', m)
  <2>1. m \in Calls
    BY OneWriter
  <2>2. CASE m = x
    BY <1>4, <2>1, <2>2 DEF Results, Contains
  <2>3. CASE m # x
    BY <1>4, <2>1, <2>3 DEF CallsOk
  <2>4. QED
    BY <2>2, <2>3
<1>11. Distinct(order')
  BY DEF CallsOk
<1>12. CallsOk'
  BY <1>1, <1>3, <1>7, <1>9, <1>10, <1>11 DEF CallsOk
<1>13. QED
  BY <1>1, <1>3, <1>6, <1>8, <1>12

StreamInv == StreamTypeOK /\ CallsOk /\ FlowOk

(* Nothing changes for the calls, while none of them moves.                 *)
LEMMA CallsRest ==
  ASSUME CallsOk, UNCHANGED <<callVars, order>>
  PROVE  CallsOk' /\ (Writing' <=> Writing)
<1>1. UNCHANGED <<call, queue, written, stream, finished, order>>
  BY DEF callVars
<1>2. QED
  BY <1>1 DEF CallsOk, Writing, Distinct, Contains, Holds

(* A call that asks for the mutex is put behind the others.                 *)
LEMMA AskStep ==
  ASSUME StreamInv, NEW x \in Calls, Ask(x)
  PROVE  StreamInv'
<1>1. /\ call[x] = "idle" /\ call' = [call EXCEPT ![x] = "waiting"]
      /\ queue' = Append(queue, x)
      /\ UNCHANGED <<written, stream, finished, flight, buffer, link, reader, bytes,
                     received, order, torn>>
  BY DEF Ask, farVars
<1>2. StreamTypeOK /\ CallsOk /\ FlowOk
  BY DEF StreamInv
<1>3. /\ queue' \in Seq(Calls) /\ Len(queue) \in Nat /\ Len(queue') = Len(queue) + 1
      /\ \A n \in 1..Len(queue) : queue'[n] = queue[n]
      /\ queue'[Len(queue) + 1] = x
  BY <1>1, <1>2, AppendProperties DEF StreamTypeOK
<1>4. \A y \in Calls : call'[y] = IF y = x THEN "waiting" ELSE call[y]
  BY <1>1, <1>2 DEF StreamTypeOK
<1>5. StreamTypeOK'
  BY <1>1, <1>2, <1>3 DEF StreamTypeOK
<1>6. \A n \in 1..Len(queue') : n \in 1..Len(queue) \/ n = Len(queue) + 1
  BY <1>3
<1>7. ~Contains(queue, x)
  BY <1>1, <1>2 DEF CallsOk
<1>8. \A y \in Calls : Contains(queue', y) <=> Contains(queue, y) \/ y = x
  <2>1. ASSUME NEW y \in Calls, Contains(queue', y)
        PROVE  Contains(queue, y) \/ y = x
    BY <1>3, <1>6, <2>1 DEF Contains
  <2>2. ASSUME NEW y \in Calls, Contains(queue, y)
        PROVE  Contains(queue', y)
    BY <1>3, <2>2 DEF Contains
  <2>3. Contains(queue', x)
    BY <1>3 DEF Contains
  <2>4. QED
    BY <2>1, <2>2, <2>3
<1>9. Distinct(queue')
  BY <1>2, <1>3, <1>6, <1>7 DEF CallsOk, Distinct, Contains
<1>10. \A y \in Calls : call'[y] = "writing" <=> call[y] = "writing"
  BY <1>1, <1>4
<1>11. Writing' <=> Writing
  BY <1>2, <1>10, OneWriter DEF Writing
<1>12. \A y \in Calls : call[y] = "writing" => Holds(y) /\ Holds(y)'
  <2> SUFFICES ASSUME NEW y \in Calls, call[y] = "writing"
               PROVE  Holds(y) /\ Holds(y)'
    OBVIOUS
  <2>1. Holds(y) /\ queue # <<>> /\ Head(queue) = y
    BY <1>2 DEF CallsOk, Holds
  <2>2. queue' # <<>> /\ Head(queue') = Head(queue)
    <3>1. queue \in Seq(Calls)
      BY <1>2 DEF StreamTypeOK
    <3>2. queue' # <<>>
      BY <1>1, <3>1, AppendProperties
    <3>3. QED
      BY <1>1, <2>1, <3>1, <3>2, HeadTailAppend
  <2>3. QED
    BY <2>1, <2>2 DEF Holds
<1>13. ASSUME NEW m \in Messages
       PROVE  /\ Contains(order, m) =>
                   call'[m] \in {"writing", "done", "failed", "dropped"}
              /\ call'[m] = "done" => Contains(order, m)
  <2>1. m \in Calls
    BY <1>2, OneWriter
  <2>2. QED
    BY <1>1, <1>2, <1>4, <2>1 DEF CallsOk
<1>14. CallsOk'
  <2>1. \A y \in Calls : Contains(queue', y) <=> call'[y] \in {"waiting", "writing"}
    BY <1>2, <1>4, <1>8 DEF CallsOk
  <2>2. \A y \in Calls :
          call'[y] = "writing" => /\ y \in Messages /\ stream = "open" /\ order # <<>>
                                  /\ order[Len(order)] = y /\ written <= Parts[y]
    BY <1>2, <1>10 DEF CallsOk
  <2>3. /\ ~Writing' => written = 0
        /\ Distinct(order) /\ (finished => stream = "taken")
    BY <1>2, <1>11 DEF CallsOk
  <2>4. QED
    BY <1>1, <1>9, <1>10, <1>12, <1>13, <2>1, <2>2, <2>3 DEF CallsOk
<1>15. FlowOk'
  <2>1. Pipe' = Pipe
    BY <1>1 DEF Pipe
  <2>2. \A m \in Messages : call'[m] = "done" => call[m] = "done"
    BY <1>2, <1>4, OneWriter
  <2>3. \A m \in Messages : call'[m] = "writing" => call[m] = "writing"
    BY <1>2, <1>10, OneWriter
  <2>4. QED
    BY <1>1, <1>2, <1>5, <1>11, <2>1, <2>2, <2>3, FlowRests
<1>16. QED
  BY <1>5, <1>14, <1>15 DEF StreamInv

(* A call gives up its place before it writes, or as the connection closes. *)
LEMMA LeavingStep ==
  ASSUME StreamInv, NEW x \in Calls, Holds(x), NEW result \in Results, Leave(x, result),
         UNCHANGED <<order, buffer, reader, bytes, received, torn>>,
         x \in Messages => result # "done",
         Contains(order, x) => result # "draining",
         stream' = stream \/ stream' = "taken",
         finished' = finished \/ finished' = TRUE,
         finished' => stream' = "taken",
         \/ UNCHANGED <<flight, link>> /\ call[x] # "writing"
         \/ link' = "closed" /\ (flight' = flight \/ flight' = <<>>)
  PROVE  StreamInv'
<1>1. StreamTypeOK /\ CallsOk /\ FlowOk
  BY DEF StreamInv
<1>2. /\ CallsOk' /\ ~Writing' /\ written' = 0
      /\ call' \in [Calls -> {"idle", "waiting", "writing", "draining", "done",
                              "failed", "dropped"}]
      /\ queue' \in Seq(Calls)
  BY <1>1, Leaving
<1>3. stream' \in {"open", "taken"} /\ finished' \in BOOLEAN
  BY <1>1 DEF StreamTypeOK
<1>4. /\ link' \in {"none", "open", "closed"} /\ flight' \in Seq(Piece)
      /\ Len(flight') + Len(buffer') <= Window
  <2>1. /\ flight \in Seq(Piece) /\ Len(flight) \in Nat /\ Len(buffer) \in Nat
        /\ Len(flight) + Len(buffer) <= Window /\ Window \in Nat
    BY <1>1, PeerStreamAssumption DEF StreamTypeOK
  <2>2. link' \in {"none", "open", "closed"}
    BY <1>1 DEF StreamTypeOK
  <2>3. CASE flight' = flight
    BY <2>1, <2>2, <2>3
  <2>4. CASE flight' = <<>>
    <3>1. Len(flight') = 0 /\ flight' \in Seq(Piece)
      BY <2>4, EmptySeq
    <3>2. QED
      BY <2>1, <2>2, <3>1
  <2>5. QED
    BY <2>3, <2>4
<1>5. StreamTypeOK'
  BY <1>1, <1>2, <1>3, <1>4 DEF StreamTypeOK
<1>6. \A y \in Calls : call'[y] = IF y = x THEN result ELSE call[y]
  BY <1>1 DEF Leave, StreamTypeOK
<1>7. \A m \in Messages : /\ call'[m] = "writing" => call[m] = "writing" /\ written' = written
                          /\ call'[m] = "done" => call[m] = "done"
  <2>1. \A m \in Messages : call'[m] # "writing"
    BY <1>2 DEF Writing
  <2>2. QED
    BY <1>1, <1>6, <2>1, OneWriter
<1>8. finished => finished'
  OBVIOUS
<1>9. FlowOk'
  <2>1. CASE UNCHANGED <<flight, link>> /\ call[x] # "writing"
    <3>1. ~Writing /\ written = 0
      BY <1>1, <2>1, OneWriter
    <3>2. Pipe' = Pipe
      BY <2>1 DEF Pipe
    <3>3. QED
      BY <1>1, <1>2, <1>5, <1>7, <1>8, <2>1, <3>1, <3>2, FlowRests
  <2>2. CASE link' = "closed" /\ (flight' = flight \/ flight' = <<>>)
    <3>1. Pipe' = Pipe \/ (UNCHANGED buffer /\ flight' = <<>>)
      <4>1. CASE flight' = flight
        <5>1. buffer' = buffer
          OBVIOUS
        <5>2. Pipe' = Pipe
          BY <4>1, <5>1 DEF Pipe
        <5>3. QED
          BY <5>2
      <4>2. CASE flight' = <<>>
        BY <4>2
      <4>3. QED
        BY <2>2, <4>1, <4>2
    <3>2. QED
      BY <1>1, <1>5, <1>7, <1>8, <2>2, <3>1, FlowRests
  <2>3. QED
    BY <2>1, <2>2
<1>10. QED
  BY <1>2, <1>5, <1>9 DEF StreamInv

(* finish gives the mutex back at once.                                     *)
LEMMA BeginFinishStep ==
  ASSUME StreamInv, BeginFinish
  PROVE  StreamInv'
<1>1. PICK result \in Results :
        /\ Holds(FinishCall) /\ Leave(FinishCall, result)
        /\ stream' = "taken" /\ (finished' = TRUE \/ finished' = finished)
        /\ UNCHANGED <<flight, buffer, link, reader, bytes, received, order, torn>>
  BY DEF BeginFinish, farVars, Results
<1>2. StreamTypeOK /\ CallsOk
  BY DEF StreamInv
<1>3. FinishCall \in Calls /\ FinishCall \notin Messages
  BY <1>2, OneWriter
<1>4. ~Contains(order, FinishCall)
  BY <1>2, <1>3 DEF Contains, StreamTypeOK
<1>5. call[FinishCall] # "writing"
  BY <1>2, <1>3, OneWriter
<1>6. QED
  BY <1>1, <1>3, <1>4, <1>5, LeavingStep

(* close gives the mutex back, and ends the connection.                     *)
LEMMA CloseStep ==
  ASSUME StreamInv, Close
  PROVE  StreamInv'
<1>1. /\ Holds(CloseCall) /\ Leave(CloseCall, "done")
      /\ stream' = "taken" /\ link' = "closed" /\ flight' = <<>>
      /\ UNCHANGED <<finished, buffer, reader, bytes, received, order, torn>>
  BY DEF Close, EndConnection, farVars
<1>2. StreamTypeOK /\ CallsOk
  BY DEF StreamInv
<1>3. CloseCall \in Calls /\ CloseCall \notin Messages
  BY <1>2, OneWriter
<1>4. ~Contains(order, CloseCall) /\ "done" \in Results
  BY <1>2, <1>3 DEF Contains, StreamTypeOK, Results
<1>5. QED
  BY <1>1, <1>3, <1>4, LeavingStep

(* The end of finish concerns no other call.                                *)
LEMMA EndFinishStep ==
  ASSUME StreamInv, EndFinish
  PROVE  StreamInv'
<1>1. PICK result \in Results :
        /\ call[FinishCall] = "draining" /\ result # "draining" /\ result # "dropped"
        /\ call' = [call EXCEPT ![FinishCall] = result]
        /\ UNCHANGED <<queue, written, stream, finished, flight, buffer, link, reader, bytes,
                       received, order, torn>>
  BY DEF EndFinish, farVars, Results
<1>2. StreamTypeOK /\ CallsOk /\ FlowOk
  BY DEF StreamInv
<1>3. Messages \subseteq Calls /\ FinishCall \in Calls /\ FinishCall \notin Messages
  BY <1>2, OneWriter
<1>4. \A y \in Calls : call'[y] = IF y = FinishCall THEN result ELSE call[y]
  BY <1>1, <1>2 DEF StreamTypeOK
<1>5. call' \in [Calls -> {"idle", "waiting", "writing", "draining", "done", "failed",
                           "dropped"}]
  BY <1>1, <1>2 DEF StreamTypeOK, Results
<1>6. StreamTypeOK'
  BY <1>1, <1>2, <1>5 DEF StreamTypeOK
<1>7. \A m \in Messages : call'[m] = call[m]
  BY <1>3, <1>4
<1>8. Writing' <=> Writing
  BY <1>7 DEF Writing
<1>9. \A y \in Calls : /\ call'[y] = "writing" => call[y] = "writing"
                       /\ call'[y] \in {"waiting", "writing"}
                            <=> call[y] \in {"waiting", "writing"}
  BY <1>1, <1>4 DEF Results
<1>10. CallsOk'
  <2>1. \A y \in Calls : Contains(queue, y) <=> call'[y] \in {"waiting", "writing"}
    BY <1>2, <1>9 DEF CallsOk
  <2>2. \A y \in Calls :
          call'[y] = "writing" => /\ y \in Messages /\ Holds(y) /\ stream = "open"
                                  /\ order # <<>> /\ order[Len(order)] = y
                                  /\ written <= Parts[y]
    BY <1>2, <1>9 DEF CallsOk
  <2>3. \A y \in Calls : Holds(y) => Holds(y)'
    BY <1>1 DEF Holds
  <2>4. \A y : /\ Contains(queue', y) = Contains(queue, y)
               /\ Contains(order', y) = Contains(order, y)
    BY <1>1 DEF Contains
  <2>5. QED
    BY <1>1, <1>2, <1>7, <1>8, <2>1, <2>2, <2>3, <2>4 DEF CallsOk
<1>11. Pipe' = Pipe
  BY <1>1 DEF Pipe
<1>12. FlowOk'
  BY <1>1, <1>2, <1>6, <1>7, <1>8, <1>11, FlowRests
<1>13. QED
  BY <1>6, <1>10, <1>12 DEF StreamInv

(* Whoever ends the connection takes away what is in flight.                *)
LEMMA EndConnectionStep ==
  ASSUME StreamInv, EndConnection, UNCHANGED <<callVars, buffer, farVars, order, torn>>
  PROVE  StreamInv'
<1>1. /\ link' = "closed" /\ flight' = <<>>
      /\ UNCHANGED <<call, queue, written, stream, finished, buffer, reader, bytes,
                     received, order, torn>>
  BY DEF EndConnection, callVars, farVars
<1>2. StreamTypeOK /\ CallsOk /\ FlowOk
  BY DEF StreamInv
<1>3. CallsOk'
  BY <1>2, CallsRest
<1>4. flight' \in Seq(Piece) /\ Len(flight') = 0
  BY <1>1, EmptySeq
<1>5. Len(flight') + Len(buffer') <= Window
  <2>1. /\ Len(flight) \in Nat /\ Len(buffer) \in Nat /\ Window \in Nat
        /\ Len(flight) + Len(buffer) <= Window
    BY <1>2, PeerStreamAssumption DEF StreamTypeOK
  <2>2. QED
    BY <1>1, <1>4, <2>1
<1>6. StreamTypeOK'
  BY <1>1, <1>2, <1>4, <1>5 DEF StreamTypeOK
<1>7. FlowOk'
  BY <1>1, <1>2, <1>6, FlowRests
<1>8. QED
  BY <1>3, <1>6, <1>7 DEF StreamInv

(* What is delivered stays in the pipe.                                     *)
LEMMA DeliverStep ==
  ASSUME StreamInv, Deliver
  PROVE  StreamInv'
<1>1. /\ flight # <<>> /\ buffer' = Append(buffer, Head(flight)) /\ flight' = Tail(flight)
      /\ UNCHANGED <<call, queue, written, stream, finished, link, reader, bytes,
                     received, order, torn>>
  BY DEF Deliver, callVars, farVars
<1>2. StreamTypeOK /\ CallsOk /\ FlowOk
  BY DEF StreamInv
<1>3. CallsOk'
  BY <1>2, CallsRest DEF Deliver
<1>4. /\ flight \in Seq(Piece) /\ buffer \in Seq(Piece)
      /\ Len(flight) \in Nat /\ Len(buffer) \in Nat /\ Len(flight) # 0
      /\ Len(flight) + Len(buffer) <= Window
  BY <1>1, <1>2 DEF StreamTypeOK
<1>5. /\ flight' \in Seq(Piece) /\ Len(flight') = Len(flight) - 1
      /\ \A n \in 1..Len(flight') : flight'[n] = flight[n + 1]
      /\ Head(flight) = flight[1] /\ Head(flight) \in Piece
  BY <1>1, <1>4, HeadTailProperties
<1>6. /\ buffer' \in Seq(Piece) /\ Len(buffer') = Len(buffer) + 1
      /\ \A n \in 1..Len(buffer) : buffer'[n] = buffer[n]
      /\ buffer'[Len(buffer) + 1] = flight[1]
  BY <1>1, <1>4, <1>5, AppendProperties
<1>7. StreamTypeOK'
  BY <1>1, <1>2, <1>4, <1>5, <1>6 DEF StreamTypeOK
<1>8. Pipe' = Pipe
  <2>1. /\ Pipe \in Seq(Piece) /\ Len(Pipe) = Len(buffer) + Len(flight)
        /\ \A n \in 1..(Len(buffer) + Len(flight)) :
             Pipe[n] = IF n <= Len(buffer) THEN buffer[n] ELSE flight[n - Len(buffer)]
    BY <1>4, ConcatProperties DEF Pipe
  <2>2. /\ Pipe' \in Seq(Piece) /\ Len(Pipe') = Len(buffer') + Len(flight')
        /\ \A n \in 1..(Len(buffer') + Len(flight')) :
             Pipe'[n] = IF n <= Len(buffer') THEN buffer'[n] ELSE flight'[n - Len(buffer')]
    BY <1>5, <1>6, ConcatProperties DEF Pipe
  <2>3. Len(Pipe') = Len(Pipe)
    BY <1>4, <1>5, <1>6, <2>1, <2>2
  <2>4. ASSUME NEW n \in 1..Len(Pipe)
        PROVE  Pipe'[n] = Pipe[n]
    <3> n \in 1..(Len(buffer') + Len(flight'))
      BY <2>2, <2>3
    <3>1. CASE n <= Len(buffer)
      <4>1. n \in 1..Len(buffer) /\ n <= Len(buffer')
        BY <1>4, <1>6, <3>1
      <4>2. Pipe[n] = buffer[n] /\ Pipe'[n] = buffer'[n]
        BY <2>1, <2>2, <3>1, <4>1
      <4>3. QED
        BY <1>6, <4>1, <4>2
    <3>2. CASE n = Len(buffer) + 1
      <4>1. n <= Len(buffer') /\ ~(n <= Len(buffer)) /\ n - Len(buffer) = 1
        BY <1>4, <1>6, <3>2
      <4>2. Pipe[n] = flight[1] /\ Pipe'[n] = buffer'[n]
        BY <2>1, <2>2, <4>1
      <4>3. QED
        BY <1>6, <3>2, <4>2
    <3>3. CASE n > Len(buffer) + 1
      <4>1. /\ n - (Len(buffer) + 1) \in 1..Len(flight')
            /\ (n - (Len(buffer) + 1)) + 1 = n - Len(buffer)
        BY <1>4, <1>5, <2>1, <3>3
      <4>2. Pipe'[n] = flight'[n - (Len(buffer) + 1)]
        BY <1>4, <1>6, <2>1, <2>2, <2>3, <3>3
      <4>3. Pipe[n] = flight[n - Len(buffer)]
        BY <1>4, <2>1, <3>3
      <4>4. QED
        BY <1>5, <4>1, <4>2, <4>3
    <3>4. QED
      BY <1>4, <2>1, <3>1, <3>2, <3>3
  <2>5. QED
    BY <2>1, <2>2, <2>3, <2>4, SeqEqual
<1>9. Writing' <=> Writing
  BY <1>2, CallsRest DEF Deliver
<1>10. FlowOk'
  BY <1>1, <1>2, <1>7, <1>8, <1>9, FlowRests
<1>11. QED
  BY <1>3, <1>7, <1>10 DEF StreamInv

(* A message that begins is new, and nothing of it is on the way.           *)
LEMMA BeginSendStep ==
  ASSUME StreamInv, NEW m \in Messages, BeginSend(m)
  PROVE  StreamInv'
<1>1. /\ Holds(m) /\ call[m] = "waiting"
      /\ UNCHANGED <<stream, finished, flight, buffer, link, reader, bytes, received, torn>>
  BY DEF BeginSend, farVars
<1>2. StreamTypeOK /\ CallsOk /\ FlowOk
  BY DEF StreamInv
<1>3. m \in Calls /\ ~Contains(order, m) /\ ~Writing /\ written = 0
  BY <1>1, <1>2, OneWriter DEF CallsOk
<1>4. CASE stream = "taken" /\ Leave(m, "failed") /\ UNCHANGED order
  <2>1. "failed" \in Results /\ finished' => stream' = "taken"
    BY <1>1, <1>4 DEF Results
  <2>2. QED
    BY <1>1, <1>3, <1>4, <2>1, LeavingStep DEF Results
<1>5. CASE /\ stream = "open" /\ call' = [call EXCEPT ![m] = "writing"]
           /\ order' = Append(order, m) /\ UNCHANGED <<queue, written>>
  <2>1. /\ order' \in Seq(Messages) /\ Len(order) \in Nat /\ Len(order') = Len(order) + 1
        /\ \A n \in 1..Len(order) : order'[n] = order[n]
        /\ order'[Len(order) + 1] = m
    BY <1>2, <1>5, AppendProperties DEF StreamTypeOK
  <2>2. \A y \in Calls : call'[y] = IF y = m THEN "writing" ELSE call[y]
    BY <1>2, <1>5 DEF StreamTypeOK
  <2>3. StreamTypeOK'
    BY <1>1, <1>2, <1>5, <2>1 DEF StreamTypeOK
  <2>4. \A n \in 1..Len(order') : n \in 1..Len(order) \/ n = Len(order) + 1
    BY <2>1
  <2>5. \A y : Contains(order', y) <=> Contains(order, y) \/ y = m
    <3>1. ASSUME NEW y, Contains(order', y)
          PROVE  Contains(order, y) \/ y = m
      BY <2>1, <2>4, <3>1 DEF Contains
    <3>2. ASSUME NEW y, Contains(order, y)
          PROVE  Contains(order', y)
      BY <2>1, <3>2 DEF Contains
    <3>3. Contains(order', m)
      BY <2>1 DEF Contains
    <3>4. QED
      BY <3>1, <3>2, <3>3
  <2>6. \A y \in Calls : call'[y] = "writing" <=> y = m
    BY <1>1, <1>2, <2>2, OneWriter DEF Holds
  <2>7. Writing'
    BY <1>3, <2>6 DEF Writing
  <2>8. CallsOk'
    <3>1. Distinct(order')
      BY <1>2, <1>3, <2>1, <2>4 DEF CallsOk, Distinct, Contains
    <3>2. \A y \in Calls : Contains(queue', y) <=> call'[y] \in {"waiting", "writing"}
      BY <1>1, <1>2, <1>5, <2>2 DEF CallsOk
    <3>3. ASSUME NEW y \in Calls, call'[y] = "writing"
          PROVE  /\ y \in Messages /\ Holds(y)' /\ stream' = "open"
                 /\ order' # <<>> /\ order'[Len(order')] = y /\ written' <= Parts[y]
      <4>1. y = m /\ Parts[m] \in Nat
        BY <2>6, <3>3, PeerStreamAssumption
      <4>2. Holds(m)'
        BY <1>1, <1>5 DEF Holds
      <4>3. order' # <<>>
        BY <1>2, <1>5, AppendProperties DEF StreamTypeOK
      <4>4. QED
        BY <1>1, <1>3, <1>5, <2>1, <4>1, <4>2, <4>3
    <3>4. ASSUME NEW y \in Messages
          PROVE  /\ Contains(order', y) =>
                      call'[y] \in {"writing", "done", "failed", "dropped"}
                 /\ call'[y] = "done" => Contains(order', y)
      <4>1. y \in Calls
        BY <1>2, OneWriter
      <4>2. QED
        BY <1>2, <2>2, <2>5, <4>1 DEF CallsOk
    <3>5. Distinct(queue') /\ (finished' => stream' = "taken")
      BY <1>1, <1>2, <1>5 DEF CallsOk
    <3>6. QED
      BY <2>7, <3>1, <3>2, <3>3, <3>4, <3>5 DEF CallsOk
  <2>9. FlowOk'
    <3> SUFFICES ASSUME ~torn
                 PROVE  /\ ReceivedOk' /\ ReadingOk' /\ PipeOk'
                        /\ Live' /\ link' # "closed" => Reached(Complete, written)'
                        /\ reader' = "drained" =>
                             finished' /\ \A y \in Messages :
                                            call'[y] = "done" => Contains(received, y)'
      BY <1>1 DEF FlowOk
    <3>1. /\ ReceivedOk /\ ReadingOk /\ PipeOk
          /\ Live /\ link # "closed" => Reached(Complete, written)
          /\ reader = "drained" =>
               finished /\ \A y \in Messages : call[y] = "done" => Contains(received, y)
      BY <1>2 DEF FlowOk
    <3>2. Pipe' = Pipe /\ Live' = Live /\ Awaited' = Awaited
      BY <1>1 DEF Pipe, Live, Awaited
    <3>3. Len(received) \in Nat
      BY <1>2 DEF StreamTypeOK
    <3>4. ReceivedOk'
      BY <1>1, <2>1, <3>1, <3>3 DEF ReceivedOk
    <3>5. ReadingOk'
      <4> SUFFICES ASSUME reader \in Messages
                   PROVE  ReadingOk'
        BY <1>1 DEF ReadingOk
      <4>1. /\ Len(received) < Len(order) /\ reader = order[Len(received) + 1]
            /\ Len(bytes) < Parts[reader]
            /\ \A k \in 1..Len(bytes) : bytes[k] = Part(reader, k)
        BY <3>1 DEF ReadingOk
      <4>2. Len(received) + 1 \in 1..Len(order)
        BY <2>1, <3>3, <4>1
      <4>3. Contains(order, reader)
        BY <4>1, <4>2 DEF Contains
      <4>4. call'[reader] # "writing"
        BY <1>2, <1>3, <2>6, <4>3, OneWriter
      <4>5. Len(received) < Len(order') /\ reader = order'[Len(received) + 1]
        BY <2>1, <3>3, <4>1, <4>2
      <4>6. QED
        BY <1>1, <4>1, <4>4, <4>5 DEF ReadingOk, Part
    <3>6. PipeOk'
      <4> SUFFICES ASSUME Live
                   PROVE  PipeOk'
        BY <3>2 DEF PipeOk
      <4>1. Pipe \in Seq(Piece) /\ Len(Pipe) \in Nat
        BY <1>2, InPipe
      <4>2. Pipe # <<>> => /\ Len(received) < Len(order')
                           /\ Pipe[1] = Part(order'[Len(received) + 1], Awaited)
        <5>1. Pipe # <<>> => /\ Len(received) < Len(order)
                             /\ Pipe[1] = Part(order[Len(received) + 1], Awaited)
          BY <3>1 DEF PipeOk
        <5>2. Len(received) < Len(order) => Len(received) + 1 \in 1..Len(order)
          BY <2>1, <3>3
        <5>3. QED
          BY <2>1, <3>3, <5>1, <5>2
      <4>3. ASSUME NEW n \in 1..(Len(Pipe) - 1)
            PROVE  Follows(Pipe[n], Pipe[n + 1])'
        <5>1. Follows(Pipe[n], Pipe[n + 1])
          BY <3>1 DEF PipeOk
        <5>2. ASSUME NEW k \in 1..(Len(order) - 1), order[k] = Pipe[n].message,
                     order[k + 1] = Pipe[n + 1].message
              PROVE  /\ k \in 1..(Len(order') - 1)
                     /\ order'[k] = Pipe[n].message /\ order'[k + 1] = Pipe[n + 1].message
          <6>1. k \in 1..Len(order) /\ k + 1 \in 1..Len(order) /\ k \in 1..(Len(order') - 1)
            BY <2>1
          <6>2. QED
            BY <2>1, <5>2, <6>1
        <5>3. QED
          BY <3>2, <5>1, <5>2 DEF Follows, Part
      <4>4. ASSUME NEW n \in 1..Len(Pipe)
            PROVE  /\ Contains(order', Pipe[n].message)
                   /\ Pipe[n].part <= Parts[Pipe[n].message]
                   /\ call'[Pipe[n].message] # "writing"
        <5>1. Contains(order, Pipe[n].message) /\ Pipe[n].part <= Parts[Pipe[n].message]
          BY <3>1 DEF PipeOk
        <5>2. Pipe[n] \in Piece
          BY <4>1, ElementOfSeq
        <5>3. Pipe[n].message \in Calls /\ Pipe[n].message # m
          BY <1>2, <1>3, <5>1, <5>2, OneWriter DEF Piece
        <5>4. QED
          BY <2>5, <2>6, <5>1, <5>3
      <4>5. QED
        BY <1>1, <3>2, <4>2, <4>3, <4>4 DEF PipeOk, Part
    <3>7. Live' /\ link' # "closed" => Reached(Complete, written)'
      <4> SUFFICES ASSUME Live, link # "closed"
                   PROVE  Reached(Complete, written)'
        BY <1>1, <3>2
      <4>1. Reached(Len(order), 0)
        BY <1>3, <3>1 DEF Complete
      <4>2. Complete' = Len(order) /\ written' = 0
        BY <1>3, <1>5, <2>1, <2>7 DEF Complete
      <4>3. Len(order) >= 1 => order'[Len(order)] = order[Len(order)]
        BY <2>1
      <4>4. QED
        BY <1>1, <3>2, <4>1, <4>2, <4>3 DEF Reached, Part
    <3>8. reader' = "drained" =>
            finished' /\ \A y \in Messages : call'[y] = "done" => Contains(received, y)'
      <4>1. \A y \in Messages : call'[y] = "done" => call[y] = "done"
        BY <1>2, <2>2, OneWriter
      <4>2. QED
        BY <1>1, <3>1, <4>1 DEF Contains
    <3>9. QED
      BY <3>4, <3>5, <3>6, <3>7, <3>8
  <2>10. QED
    BY <2>3, <2>8, <2>9 DEF StreamInv
<1>6. QED
  BY <1>1, <1>2, <1>4, <1>5 DEF BeginSend, StreamTypeOK

(* The part that is written comes after the last one that is on the way.    *)
LEMMA WritePartStep ==
  ASSUME StreamInv, NEW m \in Messages, WritePart(m)
  PROVE  StreamInv'
<1> DEFINE new == Part(m, written)
<1>1. /\ Holds(m) /\ call[m] = "writing"
      /\ UNCHANGED <<stream, finished, buffer, link, reader, bytes, received, order, torn>>
  BY DEF WritePart, farVars
<1>2. StreamTypeOK /\ CallsOk /\ FlowOk
  BY DEF StreamInv
<1>3. /\ m \in Calls /\ Contains(order, m) /\ order # <<>> /\ order[Len(order)] = m
      /\ written <= Parts[m] /\ stream = "open" /\ ~finished
  <2>1. m \in Calls
    BY <1>2, OneWriter
  <2>2. order # <<>> /\ order[Len(order)] = m /\ written <= Parts[m] /\ stream = "open"
    BY <1>1, <1>2, <2>1 DEF CallsOk
  <2>3. Len(order) \in 1..Len(order)
    BY <1>2, <2>2 DEF StreamTypeOK
  <2>4. QED
    BY <1>2, <2>1, <2>2, <2>3 DEF CallsOk, Contains
<1>4. /\ written \in Nat /\ Parts[m] \in Nat /\ Len(order) \in Nat /\ Len(order) # 0
      /\ Len(received) \in Nat
  BY <1>2, <1>3, PeerStreamAssumption DEF StreamTypeOK
<1>5. Writing /\ Complete = Len(order) - 1
  BY <1>1 DEF Writing, Complete
<1>6. CASE link = "closed" /\ Leave(m, "failed") /\ UNCHANGED flight
  <2>1. "failed" \in Results
    BY DEF Results
  <2>2. QED
    BY <1>1, <1>3, <1>6, <2>1, LeavingStep
<1>7. CASE /\ link = "open" /\ Len(flight) + Len(buffer) < Window
           /\ flight' = Append(flight, new)
           /\ IF written = Parts[m] THEN Leave(m, "done")
                                    ELSE written' = written + 1 /\ UNCHANGED <<call, queue>>
  <2>1. new \in Piece /\ new.message = m /\ new.part = written
    BY <1>4 DEF Part, Piece
  <2> HIDE DEF new
  <2>2. /\ flight \in Seq(Piece) /\ Len(flight) \in Nat /\ Len(buffer) \in Nat
        /\ flight' \in Seq(Piece) /\ Len(flight') = Len(flight) + 1
        /\ Len(flight') + Len(buffer') <= Window
        /\ \A n \in 1..Len(flight) : flight'[n] = flight[n]
        /\ flight'[Len(flight) + 1] = new
    <3>1. flight \in Seq(Piece) /\ Len(flight) \in Nat /\ Len(buffer) \in Nat
      BY <1>2 DEF StreamTypeOK
    <3>2. /\ flight' \in Seq(Piece) /\ Len(flight') = Len(flight) + 1
          /\ \A n \in 1..Len(flight) : flight'[n] = flight[n]
          /\ flight'[Len(flight) + 1] = new
      BY <1>7, <2>1, <3>1, AppendProperties
    <3>3. Len(flight') + Len(buffer') <= Window
      BY <1>1, <1>7, <3>1, <3>2, PeerStreamAssumption
    <3>4. QED
      BY <3>1, <3>2, <3>3
  <2>3. /\ Pipe \in Seq(Piece) /\ Len(Pipe) \in Nat /\ Len(Pipe') = Len(Pipe) + 1
        /\ Pipe' \in Seq(Piece) /\ \A n \in 1..Len(Pipe) : Pipe'[n] = Pipe[n]
        /\ Pipe'[Len(Pipe) + 1] = new
    <3>1. Pipe \in Seq(Piece) /\ Len(Pipe) \in Nat
      BY <1>2, InPipe
    <3>2. Pipe' = Append(Pipe, new)
      <4>1. buffer \in Seq(Piece) /\ flight \in Seq(Piece) /\ <<new>> \in Seq(Piece)
        BY <1>2, <2>1 DEF StreamTypeOK
      <4>2. flight' = flight \o <<new>> /\ Append(Pipe, new) = Pipe \o <<new>>
        BY <1>7, <2>1, <3>1, <4>1, AppendIsConcat
      <4>3. Pipe' = buffer \o (flight \o <<new>>) /\ Pipe = buffer \o flight
        BY <1>1, <4>2 DEF Pipe
      <4>4. QED
        BY <4>1, <4>2, <4>3, ConcatAssociative
    <3>3. QED
      BY <2>1, <3>1, <3>2, AppendProperties
  <2>4. /\ CallsOk' /\ written' \in Nat
        /\ call' \in [Calls -> {"idle", "waiting", "writing", "draining", "done",
                                "failed", "dropped"}]
        /\ queue' \in Seq(Calls)
        /\ \A y \in Messages : y # m => call'[y] = call[y]
        /\ \/ /\ written = Parts[m] /\ written' = 0 /\ ~Writing'
           \/ /\ written' = written + 1 /\ written' <= Parts[m] /\ call' = call
    <3>1. CASE written = Parts[m]
      <4>1. Leave(m, "done") /\ "done" \in Results
        BY <1>7, <3>1 DEF Results
      <4>2. /\ CallsOk' /\ ~Writing' /\ written' = 0
            /\ call' \in [Calls -> {"idle", "waiting", "writing", "draining", "done",
                                    "failed", "dropped"}]
            /\ queue' \in Seq(Calls)
        BY <1>1, <1>2, <1>3, <4>1, Leaving DEF Results
      <4>3. \A y \in Messages : y # m => call'[y] = call[y]
        BY <1>2, <4>1, OneWriter DEF Leave, StreamTypeOK
      <4>4. QED
        BY <3>1, <4>2, <4>3
    <3>2. CASE written # Parts[m]
      <4>1. written' = written + 1 /\ UNCHANGED <<call, queue>>
        BY <1>7, <3>2
      <4>2. written' <= Parts[m] /\ written' \in Nat
        BY <1>3, <1>4, <3>2, <4>1
      <4>3. \A y \in Calls : call[y] = "writing" => y = m
        BY <1>1, <1>2, OneWriter DEF Holds
      <4>4. Writing'
        BY <1>1, <4>1 DEF Writing
      <4>5. CallsOk'
        BY <1>1, <1>2, <4>1, <4>2, <4>3, <4>4 DEF CallsOk, Distinct, Contains, Holds
      <4>6. QED
        BY <1>2, <4>1, <4>2, <4>5 DEF StreamTypeOK
    <3>3. QED
      BY <3>1, <3>2
  <2>5. StreamTypeOK'
    BY <1>1, <1>2, <2>2, <2>4 DEF StreamTypeOK
  <2>6. \A y \in Messages : call'[y] = "writing" => y = m /\ written' = written + 1
    <3>1. \A y \in Messages : call[y] = "writing" => y = m
      BY <1>1, <1>2, OneWriter DEF Holds
    <3>2. QED
      BY <2>4, <3>1 DEF Writing
  <2>7. FlowOk'
    <3> SUFFICES ASSUME ~torn
                 PROVE  /\ ReceivedOk' /\ ReadingOk' /\ PipeOk'
                        /\ Live' /\ link' # "closed" => Reached(Complete, written)'
                        /\ reader' # "drained"
      BY <1>1 DEF FlowOk
    <3>1. /\ ReceivedOk /\ ReadingOk /\ PipeOk
          /\ Live => Reached(Len(order) - 1, written)
          /\ reader # "drained"
      BY <1>2, <1>3, <1>5, <1>7 DEF FlowOk
    <3>2. Live' = Live /\ Awaited' = Awaited
      BY <1>1 DEF Live, Awaited
    <3>3. ReceivedOk'
      BY <1>1, <1>5, <3>1 DEF ReceivedOk
    <3>4. ReadingOk'
      <4> SUFFICES ASSUME reader \in Messages
                   PROVE  ReadingOk'
        BY <1>1 DEF ReadingOk
      <4>1. Len(bytes) \in Nat /\ (call[reader] = "writing" => Len(bytes) < written)
        BY <1>2, <3>1 DEF ReadingOk, StreamTypeOK
      <4>2. call'[reader] = "writing" => Len(bytes) < written'
        BY <1>1, <1>4, <2>6, <4>1
      <4>3. QED
        BY <1>1, <3>1, <4>2 DEF ReadingOk, Part
    <3>5. PipeOk'
      <4> SUFFICES ASSUME Live
                   PROVE  PipeOk'
        BY <3>2 DEF PipeOk
      <4>1. Reached(Len(order) - 1, written)
        BY <3>1
      <4>2. /\ Len(received) < Len(order)
            /\ Pipe'[1] = Part(order[Len(received) + 1], Awaited)
        <5>1. CASE Pipe = <<>>
          <6>1. /\ Len(received) = Len(order) - 1
                /\ IF written = 0 THEN reader = "idle"
                   ELSE reader \in Messages /\ Len(bytes) + 1 = written
            BY <4>1, <5>1 DEF Reached
          <6>2. Awaited = written
            BY <6>1, PeerStreamAssumption DEF Awaited
          <6>3. Pipe'[1] = new
            BY <2>3, <5>1
          <6>4. Len(received) + 1 = Len(order)
            BY <1>4, <6>1
          <6>5. QED
            BY <1>3, <1>4, <6>1, <6>2, <6>3, <6>4 DEF new
        <5>2. CASE Pipe # <<>>
          <6>1. 1 \in 1..Len(Pipe)
            BY <2>3, <5>2
          <6>2. QED
            BY <2>3, <3>1, <5>2, <6>1 DEF PipeOk
        <5>3. QED
          BY <5>1, <5>2
      <4>3. ASSUME NEW n \in 1..Len(Pipe)
            PROVE  Follows(Pipe'[n], Pipe'[n + 1])
        <5>1. CASE n # Len(Pipe)
          <6>1. n \in 1..(Len(Pipe) - 1) /\ n + 1 \in 1..Len(Pipe)
            BY <2>3, <5>1
          <6>2. Follows(Pipe[n], Pipe[n + 1])
            BY <3>1, <6>1 DEF PipeOk
          <6>3. QED
            BY <2>3, <6>1, <6>2
        <5>2. CASE n = Len(Pipe)
          <6>1. Pipe'[n] = Pipe[Len(Pipe)] /\ Pipe'[n + 1] = new /\ Pipe # <<>>
            BY <2>3, <5>2
          <6>2. CASE written = 0
            <7>1. /\ Len(order) - 1 >= 1
                  /\ Pipe[Len(Pipe)] = Part(order[Len(order) - 1],
                                            Parts[order[Len(order) - 1]])
              BY <4>1, <6>1, <6>2 DEF Reached
            <7>2. /\ Len(order) - 1 \in 1..(Len(order) - 1)
                  /\ (Len(order) - 1) + 1 = Len(order)
              BY <1>4, <7>1
            <7>3. order[Len(order) - 1] \in Messages
              BY <1>2, <1>4, <7>1 DEF StreamTypeOK
            <7>4. Parts[order[Len(order) - 1]] \in Nat
              BY <7>3, PeerStreamAssumption
            <7>5. QED
              BY <1>3, <2>1, <6>1, <6>2, <7>1, <7>2, <7>4 DEF Follows, Part
          <6>3. CASE written # 0
            <7>1. Pipe[Len(Pipe)] = Part(order[(Len(order) - 1) + 1], written - 1)
              BY <4>1, <6>1, <6>3 DEF Reached
            <7>2. order[(Len(order) - 1) + 1] = m
              BY <1>3, <1>4
            <7>3. written - 1 < Parts[m] /\ (written - 1) + 1 = written
              BY <1>3, <1>4
            <7>4. QED
              BY <6>1, <7>1, <7>2, <7>3 DEF Follows, Part, new
          <6>4. QED
            BY <6>2, <6>3
        <5>3. QED
          BY <5>1, <5>2
      <4>4. ASSUME NEW n \in 1..(Len(Pipe) + 1)
            PROVE  /\ Contains(order, Pipe'[n].message)
                   /\ Pipe'[n].part <= Parts[Pipe'[n].message]
                   /\ call'[Pipe'[n].message] = "writing" => Pipe'[n].part < written'
        <5>1. CASE n = Len(Pipe) + 1
          BY <1>3, <1>4, <2>1, <2>3, <2>6, <5>1
        <5>2. CASE n # Len(Pipe) + 1
          <6>1. n \in 1..Len(Pipe) /\ Pipe'[n] = Pipe[n]
            BY <2>3, <5>2
          <6>2. /\ Contains(order, Pipe[n].message)
                /\ Pipe[n].part <= Parts[Pipe[n].message]
                /\ call[Pipe[n].message] = "writing" => Pipe[n].part < written
            BY <3>1, <6>1 DEF PipeOk
          <6>3. Pipe[n] \in Piece
            BY <2>3, <6>1, ElementOfSeq
          <6>4. Pipe[n].message \in Messages /\ Pipe[n].part \in Nat
            BY <6>3 DEF Piece
          <6>5. call'[Pipe[n].message] = "writing" => Pipe[n].part < written'
            BY <1>1, <1>4, <2>6, <6>2, <6>4
          <6>6. QED
            BY <6>1, <6>2, <6>5
        <5>3. QED
          BY <5>1, <5>2
      <4>5. order' = order /\ received' = received
        BY <1>1
      <4>6. \A n \in 1..Len(Pipe) : Follows(Pipe[n], Pipe[n + 1])' =
                                      Follows(Pipe'[n], Pipe'[n + 1])
        BY <4>5 DEF Follows
      <4>7. \A n \in 1..(Len(Pipe') - 1) : n \in 1..Len(Pipe)
        BY <2>3
      <4>8. QED
        BY <2>3, <3>2, <4>2, <4>3, <4>4, <4>5, <4>6, <4>7 DEF PipeOk, Part, Contains
    <3>6. Live' /\ link' # "closed" => Reached(Complete, written)'
      <4>1. /\ Pipe' # <<>> /\ Pipe'[Len(Pipe')] = new
        BY <2>3
      <4>2. CASE written = Parts[m] /\ written' = 0 /\ ~Writing'
        <5>1. Complete' = Len(order) /\ order' = order
          BY <1>1, <4>2 DEF Complete
        <5>2. new = Part(order[Len(order)], Parts[order[Len(order)]]) /\ Len(order) >= 1
          BY <1>3, <1>4, <4>2 DEF new
        <5>3. QED
          BY <4>1, <4>2, <5>1, <5>2 DEF Reached, Part
      <4>3. CASE written' = written + 1 /\ written' <= Parts[m] /\ call' = call
        <5>1. Complete' = Len(order) - 1 /\ order' = order
          BY <1>1, <1>5, <4>3 DEF Complete, Writing
        <5>2. new = Part(order[(Len(order) - 1) + 1], written' - 1) /\ written' # 0
          BY <1>3, <1>4, <4>3 DEF new
        <5>3. QED
          BY <4>1, <5>1, <5>2 DEF Reached, Part
      <4>4. QED
        BY <2>4, <4>2, <4>3
    <3>7. QED
      BY <1>1, <3>1, <3>3, <3>4, <3>5, <3>6
  <2>8. QED
    BY <2>4, <2>5, <2>7 DEF StreamInv
<1>8. QED
  BY <1>6, <1>7 DEF WritePart

(* A message that was begun and not written at all is as if it had not been *)
(* begun; otherwise the frame is torn.                                      *)
LEMMA DropSendStep ==
  ASSUME StreamInv, NEW m \in Messages, DropSend(m)
  PROVE  StreamInv'
<1>1. /\ call[m] \in {"waiting", "writing"} /\ call' = [call EXCEPT ![m] = "dropped"]
      /\ queue' = RemoveFirst(queue, m)
      /\ written' = IF Holds(m) THEN 0 ELSE written
      /\ torn' = (torn \/ (Holds(m) /\ written > 0))
      /\ order' = IF call[m] = "writing" /\ written = 0 THEN Front(order) ELSE order
      /\ UNCHANGED <<stream, finished, flight, buffer, link, reader, bytes, received>>
  BY DEF DropSend, farVars
<1>2. StreamTypeOK /\ CallsOk /\ FlowOk
  BY DEF StreamInv
<1>3. m \in Calls /\ "dropped" \in Results
  BY <1>2, OneWriter DEF Results
<1>4. torn' \in BOOLEAN /\ (torn => torn') /\ Len(order) \in Nat /\ Len(received) \in Nat
  BY <1>1, <1>2 DEF StreamTypeOK
<1>5. CASE Holds(m) /\ order' = order
  <2>1. Leave(m, "dropped")
    BY <1>1, <1>5 DEF Leave
  <2>2. finished' => stream' = "taken"
    BY <1>1, <1>2 DEF CallsOk
  <2>3. /\ CallsOk' /\ ~Writing' /\ written' = 0
        /\ call' \in [Calls -> {"idle", "waiting", "writing", "draining", "done",
                                "failed", "dropped"}]
        /\ queue' \in Seq(Calls)
    BY <1>1, <1>2, <1>3, <1>5, <2>1, <2>2, Leaving DEF Results
  <2>4. StreamTypeOK'
    BY <1>1, <1>2, <1>4, <1>5, <2>3 DEF StreamTypeOK
  <2>5. CASE torn'
    BY <2>3, <2>4, <2>5 DEF StreamInv, FlowOk
  <2>6. CASE ~torn'
    <3>1. torn' = torn /\ written = 0 /\ call[m] # "writing"
      <4>1. ~torn /\ ~(written > 0) /\ written \in Nat
        BY <1>1, <1>2, <1>5, <2>6 DEF StreamTypeOK
      <4>2. torn' = torn
        BY <1>2, <1>4, <2>6, <4>1 DEF StreamTypeOK
      <4>3. call[m] = "writing" => FALSE
        <5> SUFFICES ASSUME call[m] = "writing"
                     PROVE  FALSE
          OBVIOUS
        <5>1. order = Front(order) /\ order # <<>> /\ Len(order) \in Nat
          BY <1>1, <1>2, <1>3, <1>5, <4>1 DEF CallsOk, StreamTypeOK
        <5>2. \A i \in 1..(Len(order) - 1) : order[i] \in Messages
          BY <1>2, <5>1 DEF StreamTypeOK
        <5>3. Len(Front(order)) = IF 1 <= Len(order) - 1 THEN Len(order) - 1 ELSE 0
          BY <5>1, <5>2, SubSeqProperties DEF Front
        <5>4. Len(order) # 0
          BY <1>2, <5>1 DEF StreamTypeOK
        <5>5. QED
          BY <5>1, <5>3, <5>4
      <4>4. QED
        BY <4>1, <4>2, <4>3
    <3>2. UNCHANGED <<order, buffer, reader, bytes, received, torn>>
      BY <1>1, <1>5, <3>1
    <3>3. QED
      BY <1>1, <1>3, <1>5, <2>1, <2>2, <3>1, <3>2, LeavingStep DEF Results
  <2>7. QED
    BY <2>5, <2>6
<1>6. CASE ~Holds(m)
  <2>1. call[m] = "waiting" /\ order' = order /\ written' = written
    <3>1. call[m] # "writing"
      BY <1>2, <1>3, <1>6 DEF CallsOk
    <3>2. QED
      BY <1>1, <1>6, <3>1
  <2>2. torn' = torn
    BY <1>1, <1>2, <1>6 DEF StreamTypeOK
  <2>3. queue \in Seq(Calls) /\ Distinct(queue)
    BY <1>2 DEF StreamTypeOK, CallsOk
  <2>4. /\ queue' \in Seq(Calls) /\ Distinct(queue')
        /\ \A y : Contains(queue', y) <=> Contains(queue, y) /\ y # m
        /\ queue # <<>> /\ Head(queue) # m => queue' # <<>> /\ Head(queue') = Head(queue)
    BY <1>1, <2>3, Removing
  <2>5. \A y \in Calls : call'[y] = IF y = m THEN "dropped" ELSE call[y]
    BY <1>1, <1>2 DEF StreamTypeOK
  <2>6. call' \in [Calls -> {"idle", "waiting", "writing", "draining", "done",
                             "failed", "dropped"}]
    BY <1>1, <1>2 DEF StreamTypeOK
  <2>7. StreamTypeOK'
    BY <1>1, <1>2, <2>1, <2>2, <2>4, <2>6 DEF StreamTypeOK
  <2>8. \A y \in Calls : call'[y] = "writing" <=> call[y] = "writing"
    BY <2>1, <2>5
  <2>9. Writing' <=> Writing
    BY <1>2, <2>8, OneWriter DEF Writing
  <2>10. \A y \in Calls : call[y] = "writing" => Holds(y)'
    <3> SUFFICES ASSUME NEW y \in Calls, call[y] = "writing"
                 PROVE  Holds(y)'
      OBVIOUS
    <3>1. queue # <<>> /\ Head(queue) = y /\ y # m
      BY <1>2, <2>1 DEF CallsOk, Holds
    <3>2. QED
      BY <2>4, <3>1 DEF Holds
  <2>11. CallsOk'
    <3>1. \A y \in Calls : Contains(queue', y) <=> call'[y] \in {"waiting", "writing"}
      BY <1>2, <2>4, <2>5 DEF CallsOk
    <3>2. \A y \in Calls :
            call'[y] = "writing" => /\ y \in Messages /\ stream = "open" /\ order # <<>>
                                    /\ order[Len(order)] = y /\ written <= Parts[y]
      BY <1>2, <2>8 DEF CallsOk
    <3>3. ASSUME NEW y \in Messages
          PROVE  /\ Contains(order, y) =>
                      call'[y] \in {"writing", "done", "failed", "dropped"}
                 /\ call'[y] = "done" => Contains(order, y)
      <4>1. y \in Calls
        BY <1>2, OneWriter
      <4>2. QED
        BY <1>2, <2>5, <4>1 DEF CallsOk
    <3>4. /\ ~Writing' => written = 0
          /\ Distinct(order) /\ (finished => stream = "taken")
      BY <1>2, <2>9 DEF CallsOk
    <3>5. QED
      BY <1>1, <2>1, <2>4, <2>8, <2>10, <3>1, <3>2, <3>3, <3>4 DEF CallsOk
  <2>12. FlowOk'
    <3>1. Pipe' = Pipe
      BY <1>1 DEF Pipe
    <3>2. \A y \in Messages : /\ call'[y] = "writing" => call[y] = "writing"
                              /\ call'[y] = "done" => call[y] = "done"
      BY <1>2, <2>5, OneWriter
    <3>3. QED
      BY <1>1, <1>2, <2>1, <2>2, <2>7, <2>9, <3>1, <3>2, FlowRests
  <2>13. QED
    BY <2>7, <2>11, <2>12 DEF StreamInv
<1>7. CASE Holds(m) /\ call[m] = "writing" /\ written = 0 /\ order' = Front(order)
  <2>1. /\ order # <<>> /\ order[Len(order)] = m /\ Len(order) # 0 /\ order \in Seq(Messages)
        /\ Distinct(order)
    BY <1>2, <1>3, <1>7 DEF CallsOk, StreamTypeOK
  <2>2. /\ order' \in Seq(Messages) /\ Len(order') = Len(order) - 1
        /\ \A n \in 1..Len(order') : order'[n] = order[n] /\ n \in 1..Len(order)
    <3>1. \A i \in 1..(Len(order) - 1) : order[i] \in Messages
      BY <1>4, <2>1
    <3>2. /\ Front(order) \in Seq(Messages)
          /\ Len(Front(order)) = IF 1 <= Len(order) - 1 THEN Len(order) - 1 ELSE 0
          /\ \A n \in 1..(Len(order) - 1) : Front(order)[n] = order[1 + n - 1]
      BY <1>4, <3>1, SubSeqProperties DEF Front
    <3>3. order' \in Seq(Messages) /\ Len(order') = Len(order) - 1
      <4>1. \A l \in Nat : l # 0 => (IF 1 <= l - 1 THEN l - 1 ELSE 0) = l - 1
        OBVIOUS
      <4>2. Len(Front(order)) = Len(order) - 1
        <5>1. Len(order) \in Nat /\ Len(order) # 0
          BY <1>4, <2>1
        <5>2. QED
          BY <3>2, <4>1, <5>1
      <4>3. QED
        BY <1>7, <3>2, <4>2
    <3>4. ASSUME NEW n \in 1..Len(order')
          PROVE  order'[n] = order[n] /\ n \in 1..Len(order)
      <4>1. n \in 1..(Len(order) - 1) /\ 1 + n - 1 = n /\ n \in 1..Len(order)
        BY <1>4, <3>3
      <4>2. QED
        BY <1>7, <3>2, <4>1
    <3>5. QED
      BY <3>3, <3>4
  <2>3. \A n \in 1..Len(order) : order[n] # m => n \in 1..Len(order')
    BY <1>4, <2>1, <2>2
  <2>4. torn' = torn
    BY <1>1, <1>2, <1>7 DEF StreamTypeOK
  <2>5. queue \in Seq(Calls) /\ Distinct(queue) /\ written' = 0
    BY <1>1, <1>2, <1>7 DEF StreamTypeOK, CallsOk
  <2>6. /\ queue' \in Seq(Calls) /\ Distinct(queue')
        /\ \A y : Contains(queue', y) <=> Contains(queue, y) /\ y # m
    BY <1>1, <2>5, Removing
  <2>7. \A y \in Calls : call'[y] = IF y = m THEN "dropped" ELSE call[y]
    BY <1>1, <1>2 DEF StreamTypeOK
  <2>8. call' \in [Calls -> {"idle", "waiting", "writing", "draining", "done",
                             "failed", "dropped"}]
    BY <1>1, <1>2 DEF StreamTypeOK
  <2>9. StreamTypeOK'
    BY <1>1, <1>2, <2>2, <2>4, <2>5, <2>6, <2>8 DEF StreamTypeOK
  <2>10. \A y \in Calls : call'[y] # "writing"
    BY <1>2, <1>7, <2>7, OneWriter DEF Holds
  <2>11. ~Writing'
    BY <1>2, <2>10, OneWriter DEF Writing
  <2>12. \A y : /\ Contains(order', y) => Contains(order, y)
                /\ Contains(order, y) /\ y # m => Contains(order', y)
    <3>1. \A y : Contains(order', y) => Contains(order, y)
      BY <2>2 DEF Contains
    <3>2. ASSUME NEW y, NEW n \in 1..Len(order), order[n] = y, y # m
          PROVE  Contains(order', y)
      BY <2>2, <2>3, <3>2 DEF Contains
    <3>3. QED
      BY <3>1, <3>2 DEF Contains
  <2>13. CallsOk'
    <3>1. \A y \in Calls : Contains(queue', y) <=> call'[y] \in {"waiting", "writing"}
      BY <1>2, <2>6, <2>7 DEF CallsOk
    <3>2. ASSUME NEW y \in Messages
          PROVE  /\ Contains(order', y) =>
                      call'[y] \in {"writing", "done", "failed", "dropped"}
                 /\ call'[y] = "done" => Contains(order', y)
      <4>1. y \in Calls
        BY <1>2, OneWriter
      <4>2. QED
        BY <1>2, <2>7, <2>12, <4>1 DEF CallsOk
    <3>3. Distinct(order')
      BY <2>1, <2>2 DEF Distinct
    <3>4. finished' => stream' = "taken"
      BY <1>1, <1>2 DEF CallsOk
    <3>5. QED
      BY <2>5, <2>6, <2>10, <3>1, <3>2, <3>3, <3>4 DEF CallsOk
  <2>14. FlowOk'
    <3> SUFFICES ASSUME ~torn
                 PROVE  /\ ReceivedOk' /\ ReadingOk' /\ PipeOk'
                        /\ Live' /\ link' # "closed" => Reached(Complete, written)'
                        /\ reader' = "drained" =>
                             finished' /\ \A y \in Messages :
                                            call'[y] = "done" => Contains(received, y)'
      BY <2>4 DEF FlowOk
    <3>1. /\ ReceivedOk /\ ReadingOk /\ PipeOk
          /\ Live /\ link # "closed" => Reached(Len(order) - 1, 0)
          /\ reader = "drained" =>
               finished /\ \A y \in Messages : call[y] = "done" => Contains(received, y)
      BY <1>2, <1>7 DEF FlowOk, Complete, Writing
    <3>2. Pipe' = Pipe /\ Live' = Live /\ Awaited' = Awaited /\ Writing
      BY <1>1, <1>7 DEF Pipe, Live, Awaited, Writing
    <3>3. Len(received) <= Len(order')
      BY <1>4, <2>2, <3>1, <3>2 DEF ReceivedOk
    <3>4. ReceivedOk'
      <4>1. ASSUME NEW k \in 1..Len(received)
            PROVE  k \in 1..Len(order') /\ received[k] = order[k]
        <5>1. received[k] = order[k]
          BY <3>1 DEF ReceivedOk
        <5>2. Len(order') \in Nat
          BY <1>4, <2>1, <2>2
        <5>3. QED
          BY <1>4, <3>3, <5>1, <5>2
      <4>2. QED
        BY <1>1, <2>2, <2>11, <3>3, <4>1 DEF ReceivedOk
    <3>5. ASSUME Len(received) < Len(order), order[Len(received) + 1] # m
          PROVE  Len(received) < Len(order') /\ order'[Len(received) + 1]
                                                  = order[Len(received) + 1]
      <4>1. Len(received) + 1 \in 1..Len(order)
        BY <1>4, <3>5
      <4>2. Len(received) + 1 \in 1..Len(order')
        BY <2>3, <3>5, <4>1
      <4>3. QED
        BY <1>4, <2>2, <4>2
    <3>6. ReadingOk'
      <4> SUFFICES ASSUME reader \in Messages
                   PROVE  ReadingOk'
        BY <1>1 DEF ReadingOk
      <4>1. /\ Len(received) < Len(order) /\ reader = order[Len(received) + 1]
            /\ Len(bytes) < Parts[reader]
            /\ \A k \in 1..Len(bytes) : bytes[k] = Part(reader, k)
            /\ call[reader] = "writing" => Len(bytes) < written
        BY <3>1 DEF ReadingOk
      <4>2. reader # m
        BY <1>2, <1>7, <4>1 DEF StreamTypeOK
      <4>3. call'[reader] # "writing"
        BY <1>2, <2>10, OneWriter
      <4>4. Len(received) < Len(order') /\ reader = order'[Len(received) + 1]
        BY <3>5, <4>1, <4>2
      <4>5. QED
        BY <1>1, <4>1, <4>3, <4>4 DEF ReadingOk, Part
    <3>7. PipeOk'
      <4> SUFFICES ASSUME Live
                   PROVE  PipeOk'
        BY <3>2 DEF PipeOk
      <4>1. Pipe \in Seq(Piece) /\ Len(Pipe) \in Nat
        BY <1>2, InPipe
      <4>2. ASSUME NEW n \in 1..Len(Pipe)
            PROVE  /\ Contains(order', Pipe[n].message) /\ Pipe[n].message # m
                   /\ Pipe[n].part <= Parts[Pipe[n].message]
                   /\ call'[Pipe[n].message] # "writing"
        <5>1. /\ Contains(order, Pipe[n].message)
              /\ Pipe[n].part <= Parts[Pipe[n].message]
              /\ call[Pipe[n].message] = "writing" => Pipe[n].part < written
          BY <3>1 DEF PipeOk
        <5>2. Pipe[n] \in Piece
          BY <4>1, ElementOfSeq
        <5>3. Pipe[n].message \in Messages /\ Pipe[n].part \in Nat
          BY <5>2 DEF Piece
        <5>4. Pipe[n].message # m
          BY <1>7, <5>1, <5>3
        <5>5. call'[Pipe[n].message] # "writing"
          BY <1>2, <2>10, <5>3, OneWriter
        <5>6. QED
          BY <2>12, <5>1, <5>4, <5>5
      <4>3. Pipe # <<>> => /\ Len(received) < Len(order')
                           /\ Pipe[1] = Part(order'[Len(received) + 1], Awaited)
        <5> SUFFICES ASSUME Pipe # <<>>
                     PROVE  /\ Len(received) < Len(order')
                            /\ Pipe[1] = Part(order'[Len(received) + 1], Awaited)
          OBVIOUS
        <5>1. /\ Len(received) < Len(order)
              /\ Pipe[1] = Part(order[Len(received) + 1], Awaited)
          BY <3>1 DEF PipeOk
        <5>2. 1 \in 1..Len(Pipe)
          BY <4>1
        <5>3. order[Len(received) + 1] # m
          BY <4>2, <5>1, <5>2 DEF Part
        <5>4. QED
          BY <3>5, <5>1, <5>3
      <4>4. ASSUME NEW n \in 1..(Len(Pipe) - 1)
            PROVE  Follows(Pipe[n], Pipe[n + 1])'
        <5>1. Follows(Pipe[n], Pipe[n + 1]) /\ n + 1 \in 1..Len(Pipe)
          BY <3>1, <4>1 DEF PipeOk
        <5>2. Pipe[n + 1].message # m
          BY <4>2, <5>1
        <5>3. ASSUME NEW k \in 1..(Len(order) - 1), order[k] = Pipe[n].message,
                     order[k + 1] = Pipe[n + 1].message
              PROVE  /\ k \in 1..(Len(order') - 1)
                     /\ order'[k] = Pipe[n].message /\ order'[k + 1] = Pipe[n + 1].message
          <6>1. k + 1 \in 1..Len(order)
            BY <1>4
          <6>2. k + 1 \in 1..Len(order')
            BY <2>3, <5>2, <5>3, <6>1
          <6>3. k \in 1..(Len(order') - 1) /\ k \in 1..Len(order')
            BY <1>4, <2>2, <6>2
          <6>4. QED
            BY <2>2, <5>3, <6>2, <6>3
        <5>4. QED
          BY <3>2, <5>1, <5>3 DEF Follows, Part
      <4>5. QED
        BY <1>1, <3>2, <4>2, <4>3, <4>4 DEF PipeOk, Part
    <3>8. Live' /\ link' # "closed" => Reached(Complete, written)'
      <4> SUFFICES ASSUME Live, link # "closed"
                   PROVE  Reached(Complete, written)'
        BY <1>1, <3>2
      <4>1. Complete' = Len(order) - 1 /\ written' = 0
        BY <2>2, <2>5, <2>11 DEF Complete
      <4>2. Len(order) - 1 >= 1 => order'[Len(order) - 1] = order[Len(order) - 1]
        BY <1>4, <2>2
      <4>3. QED
        BY <1>1, <3>1, <3>2, <4>1, <4>2 DEF Reached, Part
    <3>9. reader' = "drained" =>
            finished' /\ \A y \in Messages : call'[y] = "done" => Contains(received, y)'
      <4>1. \A y \in Messages : call'[y] = "done" => call[y] = "done"
        BY <1>2, <2>7, OneWriter
      <4>2. QED
        BY <1>1, <3>1, <4>1 DEF Contains
    <3>10. QED
      BY <3>4, <3>6, <3>7, <3>8, <3>9
  <2>15. QED
    BY <2>9, <2>13, <2>14 DEF StreamInv
<1>8. QED
  BY <1>1, <1>5, <1>6, <1>7

(* Reading takes the first part out of the buffer, and leaves the others.   *)
LEMMA ReadShape ==
  ASSUME StreamTypeOK, buffer # <<>>, buffer' = Tail(buffer), UNCHANGED flight
  PROVE  /\ buffer' \in Seq(Piece) /\ Len(buffer') = Len(buffer) - 1
         /\ Len(flight') + Len(buffer') <= Window
         /\ Pipe # <<>> /\ Pipe \in Seq(Piece) /\ Pipe[1] = Head(buffer)
         /\ Pipe[1] \in Piece
         /\ Len(Pipe) \in Nat /\ Len(Pipe) # 0 /\ Len(Pipe') = Len(Pipe) - 1
         /\ Pipe' \in Seq(Piece)
         /\ \A n \in 1..Len(Pipe') : Pipe'[n] = Pipe[n + 1]
<1>1. /\ buffer \in Seq(Piece) /\ flight \in Seq(Piece)
      /\ Len(buffer) \in Nat /\ Len(buffer) # 0 /\ Len(flight) \in Nat
      /\ Len(flight) + Len(buffer) <= Window /\ Window \in Nat
  BY PeerStreamAssumption DEF StreamTypeOK
<1>2. /\ buffer' \in Seq(Piece) /\ Len(buffer') = Len(buffer) - 1
      /\ \A n \in 1..Len(buffer') : buffer'[n] = buffer[n + 1]
      /\ Head(buffer) = buffer[1]
  BY <1>1, HeadTailProperties
<1>3. /\ Pipe \in Seq(Piece) /\ Len(Pipe) = Len(buffer) + Len(flight)
      /\ \A n \in 1..(Len(buffer) + Len(flight)) :
           Pipe[n] = IF n <= Len(buffer) THEN buffer[n] ELSE flight[n - Len(buffer)]
  BY <1>1, ConcatProperties DEF Pipe
<1>4. /\ Pipe' \in Seq(Piece) /\ Len(Pipe') = Len(buffer') + Len(flight)
      /\ \A n \in 1..(Len(buffer') + Len(flight)) :
           Pipe'[n] = IF n <= Len(buffer') THEN buffer'[n] ELSE flight[n - Len(buffer')]
  BY <1>1, <1>2, ConcatProperties DEF Pipe
<1>5. Len(Pipe) \in Nat /\ Len(Pipe) # 0 /\ Len(Pipe') = Len(Pipe) - 1
  BY <1>1, <1>2, <1>3, <1>4
<1>6. 1 \in 1..Len(Pipe) /\ 1 <= Len(buffer)
  BY <1>1, <1>3
<1>7. Pipe[1] = Head(buffer) /\ Pipe[1] \in Piece
  BY <1>1, <1>2, <1>3, <1>6, ElementOfSeq
<1>8. ASSUME NEW n \in 1..Len(Pipe')
      PROVE  Pipe'[n] = Pipe[n + 1]
  <2>1. n + 1 \in 1..(Len(buffer) + Len(flight)) /\ n \in 1..(Len(buffer') + Len(flight))
    BY <1>1, <1>2, <1>4
  <2>2. CASE n <= Len(buffer')
    <3>1. n \in 1..Len(buffer') /\ n + 1 <= Len(buffer)
      BY <1>1, <1>2, <2>2
    <3>2. QED
      BY <1>2, <1>3, <1>4, <2>1, <2>2, <3>1
  <2>3. CASE ~(n <= Len(buffer'))
    <3>1. ~(n + 1 <= Len(buffer)) /\ (n + 1) - Len(buffer) = n - Len(buffer')
      BY <1>1, <1>2, <2>3
    <3>2. QED
      BY <1>3, <1>4, <2>1, <2>3, <3>1
  <2>4. QED
    BY <2>2, <2>3
<1>9. Pipe # <<>>
  BY <1>5, EmptySeq
<1>10. Len(flight') + Len(buffer') <= Window
  BY <1>1, <1>2
<1>11. QED
  BY <1>2, <1>3, <1>4, <1>5, <1>7, <1>8, <1>9, <1>10

(* After a part was read, the next one is the one that follows it, and if   *)
(* there is none, the writer has got as far as the reader.                  *)
LEMMA AfterReading ==
  ASSUME StreamTypeOK, CallsOk, ~torn, ReceivedOk, PipeOk, Live,
         link # "closed" => Reached(Complete, written),
         buffer # <<>>, buffer' = Tail(buffer),
         UNCHANGED <<callVars, flight, link, order, torn>>,
         NEW i, NEW m, i = Len(received) + 1, m = order[i]
  PROVE  /\ i \in 1..Len(order) /\ m \in Messages
         /\ Head(buffer) = Part(m, Awaited) /\ Awaited <= Parts[m]
         /\ call[m] = "writing" => Awaited < written /\ i = Len(order)
         /\ Pipe' # <<>> =>
              IF Awaited < Parts[m]
                THEN Pipe'[1] = Part(m, Awaited + 1)
                ELSE i + 1 \in 1..Len(order) /\ Pipe'[1] = Part(order[i + 1], 0)
         /\ \A n \in 1..(Len(Pipe') - 1) : Follows(Pipe'[n], Pipe'[n + 1])
         /\ \A n \in 1..Len(Pipe') :
              /\ Contains(order, Pipe'[n].message)
              /\ Pipe'[n].part <= Parts[Pipe'[n].message]
              /\ call[Pipe'[n].message] = "writing" => Pipe'[n].part < written
         /\ link # "closed" /\ Pipe' # <<>> => Reached(Complete, written)'
         /\ link # "closed" /\ Pipe' = <<>> =>
              IF Awaited < Parts[m] THEN written = Awaited + 1 /\ Complete = Len(received)
                                    ELSE written = 0 /\ Complete = i
<1>1. /\ Pipe # <<>> /\ Pipe \in Seq(Piece) /\ Pipe[1] = Head(buffer) /\ Pipe[1] \in Piece
      /\ Len(Pipe) \in Nat /\ Len(Pipe) # 0 /\ Len(Pipe') = Len(Pipe) - 1
      /\ Pipe' \in Seq(Piece)
      /\ \A n \in 1..Len(Pipe') : Pipe'[n] = Pipe[n + 1]
  BY ReadShape
<1>2. /\ order \in Seq(Messages) /\ Len(order) \in Nat /\ Len(received) \in Nat
      /\ Distinct(order) /\ written \in Nat
  BY DEF StreamTypeOK, CallsOk
<1>3. i \in 1..Len(order) /\ Pipe[1] = Part(m, Awaited)
  BY <1>1, <1>2 DEF PipeOk
<1>4. m \in Messages /\ Parts[m] \in Nat /\ Contains(order, m)
  BY <1>2, <1>3, PeerStreamAssumption DEF Contains
<1>5. Pipe[1].message = m /\ Pipe[1].part = Awaited /\ Awaited \in Nat
  BY <1>1, <1>3 DEF Part, Piece
<1>6. 1 \in 1..Len(Pipe)
  BY <1>1
<1>7. Awaited <= Parts[m] /\ (call[m] = "writing" => Awaited < written)
  BY <1>5, <1>6 DEF PipeOk
<1>8. call[m] = "writing" => i = Len(order)
  <2> SUFFICES ASSUME call[m] = "writing"
               PROVE  i = Len(order)
    OBVIOUS
  <2>1. m \in Calls
    BY <1>4, OneWriter
  <2>2. order[Len(order)] = m /\ Len(order) \in 1..Len(order)
    BY <1>2, <1>3, <2>1 DEF CallsOk
  <2>3. QED
    BY <1>2, <1>3, <2>2 DEF Distinct
<1>9. ASSUME Pipe' # <<>>
      PROVE  IF Awaited < Parts[m]
               THEN Pipe'[1] = Part(m, Awaited + 1)
               ELSE i + 1 \in 1..Len(order) /\ Pipe'[1] = Part(order[i + 1], 0)
  <2>1. 1 \in 1..Len(Pipe') /\ 1 \in 1..(Len(Pipe) - 1) /\ 1 + 1 = 2
    BY <1>1, <1>9
  <2>2. Follows(Pipe[1], Pipe[2]) /\ Pipe'[1] = Pipe[2]
    BY <1>1, <2>1 DEF PipeOk
  <2>3. Pipe'[1] \in Piece
    BY <1>1, <2>1, ElementOfSeq
  <2>4. CASE Awaited < Parts[m]
    BY <1>5, <2>2, <2>4 DEF Follows
  <2>5. CASE ~(Awaited < Parts[m])
    <3>1. /\ Pipe'[1].part = 0
          /\ \E k \in 1..(Len(order) - 1) : order[k] = m /\ order[k + 1] = Pipe'[1].message
      BY <1>5, <2>2, <2>5 DEF Follows
    <3>2. PICK k \in 1..(Len(order) - 1) : order[k] = m /\ order[k + 1] = Pipe'[1].message
      BY <3>1
    <3>3. k = i
      <4>1. k \in 1..Len(order)
        BY <1>2
      <4>2. QED
        BY <1>2, <1>3, <3>2, <4>1 DEF Distinct
    <3>4. i + 1 \in 1..Len(order)
      BY <1>2, <3>3
    <3>5. Pipe'[1] = Part(order[i + 1], 0)
      BY <2>3, <3>1, <3>2, <3>3 DEF Part, Piece
    <3>6. QED
      BY <2>5, <3>4, <3>5
  <2>6. QED
    BY <2>4, <2>5
<1>10. ASSUME NEW n \in 1..(Len(Pipe') - 1)
       PROVE  Follows(Pipe'[n], Pipe'[n + 1])
  <2>1. /\ n + 1 \in 1..(Len(Pipe) - 1) /\ n \in 1..Len(Pipe') /\ n + 1 \in 1..Len(Pipe')
    BY <1>1
  <2>2. QED
    BY <1>1, <2>1 DEF PipeOk
<1>11. ASSUME NEW n \in 1..Len(Pipe')
       PROVE  /\ Contains(order, Pipe'[n].message)
              /\ Pipe'[n].part <= Parts[Pipe'[n].message]
              /\ call[Pipe'[n].message] = "writing" => Pipe'[n].part < written
  <2>1. n + 1 \in 1..Len(Pipe) /\ Pipe'[n] = Pipe[n + 1]
    BY <1>1
  <2>2. QED
    BY <2>1 DEF PipeOk
<1>12. Writing' <=> Writing
  BY CallsRest
<1>13. Complete' = Complete /\ written' = written
  BY <1>12 DEF Complete, callVars
<1>14. ASSUME link # "closed", Pipe' # <<>>
       PROVE  Reached(Complete, written)'
  <2>1. Len(Pipe') \in 1..Len(Pipe') /\ Len(Pipe') + 1 = Len(Pipe)
    BY <1>1, <1>14
  <2>2. Pipe'[Len(Pipe')] = Pipe[Len(Pipe)]
    BY <1>1, <2>1
  <2>3. QED
    BY <1>1, <1>13, <1>14, <2>2 DEF Reached, Part
<1>15. ASSUME link # "closed", Pipe' = <<>>
       PROVE  IF Awaited < Parts[m] THEN written = Awaited + 1 /\ Complete = Len(received)
                                    ELSE written = 0 /\ Complete = i
  <2>1. Pipe[Len(Pipe)] = Part(m, Awaited)
    <3>1. Len(Pipe) = 1
      BY <1>1, <1>15
    <3>2. QED
      BY <1>3, <3>1
  <2>2. Complete \in Nat /\ Complete <= Len(order) /\ (written # 0 => Complete = Len(order) - 1)
    <3>1. Len(order) >= 1
      BY <1>2, <1>3
    <3>2. written # 0 => Writing
      BY DEF CallsOk
    <3>3. QED
      BY <1>2, <3>1, <3>2 DEF Complete
  <2>3. CASE written = 0
    <3>1. Complete >= 1 /\ Part(m, Awaited) = Part(order[Complete], Parts[order[Complete]])
      BY <1>1, <1>15, <2>1, <2>3 DEF Reached
    <3>2. m = order[Complete] /\ Awaited = Parts[m]
      BY <3>1 DEF Part
    <3>3. Complete \in 1..Len(order)
      BY <1>2, <2>2, <3>1
    <3>4. Complete = i
      BY <1>3, <1>2, <3>2, <3>3 DEF Distinct
    <3>5. QED
      BY <1>4, <2>3, <3>2, <3>4
  <2>4. CASE written # 0
    <3>1. Part(m, Awaited) = Part(order[Complete + 1], written - 1)
      BY <1>1, <1>15, <2>1, <2>4 DEF Reached
    <3>2. m = order[Complete + 1] /\ Awaited = written - 1
      BY <3>1 DEF Part
    <3>3. Complete + 1 \in 1..Len(order)
      BY <1>2, <2>2, <2>4
    <3>4. Complete + 1 = i
      BY <1>2, <1>3, <3>2, <3>3 DEF Distinct
    <3>5. Writing /\ Complete + 1 = Len(order)
      BY <1>2, <2>2, <2>4 DEF CallsOk
    <3>6. written <= Parts[m]
      <4>1. PICK w \in Messages : call[w] = "writing"
        BY <3>5 DEF Writing
      <4>2. w \in Calls
        BY <4>1, OneWriter
      <4>3. order[Len(order)] = w /\ written <= Parts[w]
        BY <4>1, <4>2 DEF CallsOk
      <4>4. QED
        BY <3>2, <3>5, <4>3
    <3>7. Awaited < Parts[m] /\ written = Awaited + 1
      BY <1>2, <1>4, <1>5, <3>2, <3>6
    <3>8. Complete = Len(received)
      BY <1>2, <2>2, <3>4
    <3>9. QED
      BY <3>7, <3>8
  <2>5. QED
    BY <2>3, <2>4
<1>16. QED
  BY <1>1, <1>3, <1>4, <1>7, <1>8, <1>9, <1>10, <1>11, <1>14, <1>15

(* The far side reads the next part of the message it is at.                *)
LEMMA ReadOn ==
  ASSUME StreamTypeOK, CallsOk, FlowOk, Live, ~torn,
         buffer # <<>>, buffer' = Tail(buffer),
         UNCHANGED <<callVars, flight, link, received, order, torn>>,
         NEW m, m = order[Len(received) + 1], Awaited < Parts[m], reader' = m,
         bytes' \in Seq(Piece), Len(bytes') = Awaited,
         \A k \in 1..Len(bytes') : bytes'[k] = Part(m, k)
  PROVE  FlowOk'
<1> DEFINE i == Len(received) + 1
<1>1. /\ ReceivedOk /\ ReadingOk /\ PipeOk
      /\ Live /\ link # "closed" => Reached(Complete, written)
  BY DEF FlowOk
<1>2. UNCHANGED <<call, queue, written, stream, finished, flight, link, received, order, torn>>
  BY DEF callVars
<1>3. /\ i \in 1..Len(order) /\ m \in Messages
      /\ call[m] = "writing" => Awaited < written
      /\ Pipe' # <<>> => Pipe'[1] = Part(m, Awaited + 1)
      /\ \A n \in 1..(Len(Pipe') - 1) : Follows(Pipe'[n], Pipe'[n + 1])
      /\ \A n \in 1..Len(Pipe') :
           /\ Contains(order, Pipe'[n].message)
           /\ Pipe'[n].part <= Parts[Pipe'[n].message]
           /\ call[Pipe'[n].message] = "writing" => Pipe'[n].part < written
      /\ link # "closed" /\ Pipe' # <<>> => Reached(Complete, written)'
      /\ link # "closed" /\ Pipe' = <<>> => written = Awaited + 1 /\ Complete = Len(received)
  BY <1>1, AfterReading
<1>4. Writing' <=> Writing
  BY CallsRest
<1>5. Len(received) \in Nat /\ Len(order) \in Nat /\ Awaited \in Nat
  BY DEF StreamTypeOK, Awaited
<1>6. Awaited' = Awaited + 1 /\ Live'
  BY <1>3 DEF Awaited, Live
<1>7. ReceivedOk'
  BY <1>1, <1>2, <1>4 DEF ReceivedOk
<1>8. ReadingOk'
  BY <1>2, <1>3, <1>5 DEF ReadingOk, Part
<1>9. PipeOk'
  <2>1. Pipe' # <<>> => /\ Len(received') < Len(order')
                        /\ Pipe'[1] = Part(order'[Len(received') + 1], Awaited')
    <3>1. Len(received') < Len(order') /\ order'[Len(received') + 1] = m
      BY <1>2, <1>3, <1>5
    <3>2. QED
      BY <1>3, <1>6, <3>1
  <2>2. (\A n \in 1..(Len(Pipe) - 1) : Follows(Pipe[n], Pipe[n + 1]))'
    <3>1. \A p, q : Follows(p, q)' <=> Follows(p, q)
      BY <1>2 DEF Follows, Part
    <3>2. QED
      BY <1>3, <3>1, Zenon
  <2>3. (\A n \in 1..Len(Pipe) :
           /\ Contains(order, Pipe[n].message)
           /\ Pipe[n].part <= Parts[Pipe[n].message]
           /\ call[Pipe[n].message] = "writing" => Pipe[n].part < written)'
    <3>1. order' = order /\ call' = call /\ written' = written
      BY <1>2
    <3>2. \A x : Contains(order, x)' <=> Contains(order, x)
      BY <3>1 DEF Contains
    <3>3. QED
      BY <1>3, <3>1, <3>2, Zenon DEF Contains
  <2>4. QED
    BY <2>1, <2>2, <2>3 DEF PipeOk, Part
<1>10. link' # "closed" => Reached(Complete, written)'
  <2>1. CASE Pipe' # <<>>
    BY <1>2, <1>3, <2>1
  <2>2. CASE Pipe' = <<>>
    <3>1. Complete' = Complete
      BY <1>2, <1>4 DEF Complete
    <3>2. Reached(Complete, written)' <=>
            /\ Len(received') = Complete'
            /\ IF written' = 0 THEN reader' = "idle"
                               ELSE reader' \in Messages /\ Len(bytes') + 1 = written'
      BY <2>2 DEF Reached
    <3>3. QED
      BY <1>2, <1>3, <1>5, <2>2, <3>1, <3>2
  <2>3. QED
    BY <2>1, <2>2
<1>11. reader' # "drained"
  BY <1>3, PeerStreamAssumption
<1>12. QED
  BY <1>7, <1>8, <1>9, <1>10, <1>11 DEF FlowOk

(* The far side has read a message: it was sent, and is the next in order.  *)
LEMMA ReadWhole ==
  ASSUME StreamTypeOK, CallsOk, FlowOk, Live, ~torn,
         buffer # <<>>, buffer' = Tail(buffer),
         UNCHANGED <<callVars, flight, link, order, torn>>,
         NEW m, m = order[Len(received) + 1], Awaited = Parts[m],
         reader' = "idle", received' = Append(received, m)
  PROVE  FlowOk'
<1> DEFINE i == Len(received) + 1
<1>1. /\ ReceivedOk /\ ReadingOk /\ PipeOk
      /\ Live /\ link # "closed" => Reached(Complete, written)
  BY DEF FlowOk
<1>2. UNCHANGED <<call, queue, written, stream, finished, flight, link, order, torn>>
  BY DEF callVars
<1>3. Len(received) \in Nat /\ Len(order) \in Nat /\ Awaited \in Nat /\ written \in Nat
  BY DEF StreamTypeOK, Awaited
<1>4. /\ i \in 1..Len(order) /\ m \in Messages
      /\ call[m] = "writing" => Awaited < written
      /\ Pipe' # <<>> => i + 1 \in 1..Len(order) /\ Pipe'[1] = Part(order[i + 1], 0)
      /\ \A n \in 1..(Len(Pipe') - 1) : Follows(Pipe'[n], Pipe'[n + 1])
      /\ \A n \in 1..Len(Pipe') :
           /\ Contains(order, Pipe'[n].message)
           /\ Pipe'[n].part <= Parts[Pipe'[n].message]
           /\ call[Pipe'[n].message] = "writing" => Pipe'[n].part < written
      /\ link # "closed" /\ Pipe' # <<>> => Reached(Complete, written)'
      /\ link # "closed" /\ Pipe' = <<>> => written = 0 /\ Complete = i
  BY <1>1, <1>3, AfterReading
<1>5. Writing' <=> Writing
  BY CallsRest
<1>6. Awaited' = 0 /\ Live' /\ reader' \notin Messages /\ reader' # "drained"
  BY PeerStreamAssumption DEF Awaited, Live
<1>7. /\ Len(received') = i /\ received'[i] = m
      /\ \A k \in 1..Len(received) : received'[k] = received[k]
  <2>1. received \in Seq(Messages \cup {Garbage}) /\ m \in Messages \cup {Garbage}
    BY <1>4 DEF StreamTypeOK
  <2>2. QED
    BY <2>1, AppendProperties
<1>8. Writing => i < Len(order)
  <2> SUFFICES ASSUME Writing
               PROVE  i < Len(order)
    OBVIOUS
  <2>1. PICK w \in Messages : call[w] = "writing"
    BY DEF Writing
  <2>2. w \in Calls
    BY <2>1, OneWriter
  <2>3. order[Len(order)] = w /\ written <= Parts[w]
    BY <2>1, <2>2 DEF CallsOk
  <2>4. i # Len(order)
    BY <1>3, <1>4, <2>1, <2>3
  <2>5. QED
    BY <1>3, <1>4, <2>4
<1>9. ReceivedOk'
  <2>1. \A k \in 1..Len(received') : received'[k] = order[k]
    BY <1>1, <1>3, <1>7 DEF ReceivedOk
  <2>2. QED
    BY <1>2, <1>3, <1>4, <1>5, <1>7, <1>8, <2>1 DEF ReceivedOk
<1>10. ReadingOk'
  BY <1>6 DEF ReadingOk
<1>11. PipeOk'
  <2>1. Pipe' # <<>> => /\ Len(received') < Len(order')
                        /\ Pipe'[1] = Part(order'[Len(received') + 1], Awaited')
    <3>1. i + 1 \in 1..Len(order) => i < Len(order)
      BY <1>3
    <3>2. QED
      BY <1>2, <1>4, <1>6, <1>7, <3>1
  <2>2. (\A n \in 1..(Len(Pipe) - 1) : Follows(Pipe[n], Pipe[n + 1]))'
    <3>1. \A p, q : Follows(p, q)' <=> Follows(p, q)
      BY <1>2 DEF Follows, Part
    <3>2. QED
      BY <1>4, <3>1, Zenon
  <2>3. (\A n \in 1..Len(Pipe) :
           /\ Contains(order, Pipe[n].message)
           /\ Pipe[n].part <= Parts[Pipe[n].message]
           /\ call[Pipe[n].message] = "writing" => Pipe[n].part < written)'
    <3>1. order' = order /\ call' = call /\ written' = written
      BY <1>2
    <3>2. \A x : Contains(order, x)' <=> Contains(order, x)
      BY <3>1 DEF Contains
    <3>3. QED
      BY <1>4, <3>1, <3>2, Zenon DEF Contains
  <2>4. QED
    BY <2>1, <2>2, <2>3 DEF PipeOk, Part
<1>12. link' # "closed" => Reached(Complete, written)'
  <2>1. CASE Pipe' # <<>>
    BY <1>2, <1>4, <2>1
  <2>2. CASE Pipe' = <<>>
    <3>1. Complete' = Complete
      BY <1>2, <1>5 DEF Complete
    <3>2. Reached(Complete, written)' <=>
            /\ Len(received') = Complete'
            /\ IF written' = 0 THEN reader' = "idle"
                               ELSE reader' \in Messages /\ Len(bytes') + 1 = written'
      BY <2>2 DEF Reached
    <3>3. QED
      BY <1>2, <1>4, <1>7, <2>2, <3>1, <3>2
  <2>3. QED
    BY <2>1, <2>2
<1>13. QED
  BY <1>6, <1>9, <1>10, <1>11, <1>12 DEF FlowOk

(* The length of a message tells the far side which it is; an empty one is  *)
(* complete with it.                                                        *)
LEMMA ReadLengthStep ==
  ASSUME StreamInv, ReadLength
  PROVE  StreamInv'
<1> DEFINE next == Head(buffer)
<1>1. /\ reader = "idle" /\ buffer # <<>> /\ buffer' = Tail(buffer) /\ bytes' = <<>>
      /\ UNCHANGED <<callVars, flight, link, order, torn>>
      /\ \/ /\ next.part = 0 /\ Parts[next.message] > 0
            /\ reader' = next.message /\ UNCHANGED received
         \/ /\ next.part = 0 /\ Parts[next.message] = 0
            /\ received' = Append(received, next.message) /\ UNCHANGED reader
         \/ /\ next.part > 0
            /\ reader' = "failed" /\ UNCHANGED received
         \/ /\ next.part > 0
            /\ received' = Append(received, Garbage) /\ UNCHANGED reader
  BY DEF ReadLength
<1>2. StreamTypeOK /\ CallsOk /\ FlowOk
  BY DEF StreamInv
<1>3. UNCHANGED <<call, queue, written, stream, finished>>
  BY <1>1 DEF callVars
<1>4. CallsOk'
  BY <1>1, <1>2, CallsRest
<1>5. /\ buffer' \in Seq(Piece) /\ Len(flight') + Len(buffer') <= Window
      /\ next \in Piece
  BY <1>1, <1>2, ReadShape
<1>6. received' \in Seq(Messages \cup {Garbage})
  <2>1. received \in Seq(Messages \cup {Garbage})
    BY <1>2 DEF StreamTypeOK
  <2>2. ASSUME NEW x \in Messages \cup {Garbage}, received' = Append(received, x)
        PROVE  received' \in Seq(Messages \cup {Garbage})
    BY <2>1, <2>2, AppendProperties
  <2>3. CASE UNCHANGED received
    BY <2>1, <2>3
  <2>4. QED
    BY <1>1, <1>5, <2>2, <2>3 DEF Piece
<1>7. reader' \in Messages \cup {"idle", "drained", "trailing", "failed"}
  BY <1>1, <1>5 DEF Piece
<1>8. bytes' \in Seq(Piece) /\ Len(bytes') = 0
  BY <1>1, EmptySeq
<1>9. StreamTypeOK'
  BY <1>1, <1>2, <1>3, <1>5, <1>6, <1>7, <1>8 DEF StreamTypeOK
<1>10. FlowOk'
  <2>1. CASE torn
    BY <1>1, <2>1 DEF FlowOk
  <2>2. CASE ~torn
    <3> DEFINE m == order[Len(received) + 1]
    <3>1. Live /\ Awaited = 0
      BY <1>1, PeerStreamAssumption DEF Live, Awaited
    <3>2. ReceivedOk /\ PipeOk /\ (link # "closed" => Reached(Complete, written))
      BY <1>2, <2>2, <3>1 DEF FlowOk
    <3>3. next = Part(m, 0) /\ m \in Messages
      BY <1>1, <1>2, <2>2, <3>1, <3>2, AfterReading
    <3> HIDE DEF next, m
    <3>4. /\ next.part = 0 /\ next.message = m /\ m = order[Len(received) + 1]
          /\ Parts[m] \in Nat
      BY <3>3, PeerStreamAssumption DEF Part, m
    <3>5. CASE Parts[m] > 0
      <4>1. reader' = m /\ UNCHANGED received /\ Awaited < Parts[m]
        BY <1>1, <3>1, <3>4, <3>5
      <4>2. QED
        BY <1>1, <1>2, <1>8, <2>2, <3>1, <3>4, <4>1, ReadOn
    <3>6. CASE Parts[m] = 0
      <4>1. received' = Append(received, m) /\ reader' = "idle" /\ Awaited = Parts[m]
        BY <1>1, <3>1, <3>4, <3>6
      <4>2. QED
        BY <1>1, <1>2, <2>2, <3>1, <3>4, <4>1, ReadWhole
    <3>7. QED
      BY <3>4, <3>5, <3>6
  <2>3. QED
    BY <2>1, <2>2
<1>11. QED
  BY <1>4, <1>9, <1>10 DEF StreamInv

(* The parts that follow make up the message.                               *)
LEMMA ReadPartStep ==
  ASSUME StreamInv, ReadPart
  PROVE  StreamInv'
<1> DEFINE read == Append(bytes, Head(buffer))
<1>1. /\ reader \in Messages /\ buffer # <<>> /\ buffer' = Tail(buffer)
      /\ UNCHANGED <<callVars, flight, link, order, torn>>
      /\ \/ /\ Len(read) < Parts[reader]
            /\ bytes' = read /\ UNCHANGED <<reader, received>>
         \/ /\ ~(Len(read) < Parts[reader])
            /\ received' = Append(received, IF read = Body(reader) THEN reader ELSE Garbage)
            /\ reader' = "idle" /\ bytes' = <<>>
  BY DEF ReadPart
<1>2. StreamTypeOK /\ CallsOk /\ FlowOk
  BY DEF StreamInv
<1>3. UNCHANGED <<call, queue, written, stream, finished>>
  BY <1>1 DEF callVars
<1>4. CallsOk'
  BY <1>1, <1>2, CallsRest
<1>5. /\ buffer' \in Seq(Piece) /\ Len(flight') + Len(buffer') <= Window
      /\ Head(buffer) \in Piece
  BY <1>1, <1>2, ReadShape
<1>6. /\ bytes \in Seq(Piece) /\ Len(bytes) \in Nat
      /\ received \in Seq(Messages \cup {Garbage})
  BY <1>2 DEF StreamTypeOK
<1>7. /\ read \in Seq(Piece) /\ Len(read) = Len(bytes) + 1
      /\ read[Len(bytes) + 1] = Head(buffer)
      /\ \A k \in 1..Len(bytes) : read[k] = bytes[k]
  BY <1>5, <1>6, AppendProperties
<1> HIDE DEF read
<1>8. bytes' \in Seq(Piece) /\ received' \in Seq(Messages \cup {Garbage})
  <2>1. CASE bytes' = read /\ UNCHANGED received
    BY <1>6, <1>7, <2>1
  <2>2. CASE /\ received' = Append(received, IF read = Body(reader) THEN reader ELSE Garbage)
             /\ bytes' = <<>>
    <3>1. (IF read = Body(reader) THEN reader ELSE Garbage) \in Messages \cup {Garbage}
      BY <1>1
    <3>2. QED
      BY <1>6, <2>2, <3>1, AppendProperties, EmptySeq
  <2>3. QED
    BY <1>1, <2>1, <2>2
<1>9. reader' \in Messages \cup {"idle", "drained", "trailing", "failed"}
  BY <1>1
<1>10. StreamTypeOK'
  BY <1>1, <1>2, <1>3, <1>5, <1>8, <1>9 DEF StreamTypeOK
<1>11. FlowOk'
  <2>1. CASE torn
    BY <1>1, <2>1 DEF FlowOk
  <2>2. CASE ~torn
    <3> DEFINE m == order[Len(received) + 1]
    <3>1. Live /\ Awaited = Len(bytes) + 1
      BY <1>1 DEF Live, Awaited
    <3>2. /\ ReceivedOk /\ ReadingOk /\ PipeOk
          /\ link # "closed" => Reached(Complete, written)
      BY <1>2, <2>2, <3>1 DEF FlowOk
    <3>3. /\ reader = m /\ \A k \in 1..Len(bytes) : bytes[k] = Part(m, k)
      BY <1>1, <3>2 DEF ReadingOk
    <3>4. Head(buffer) = Part(m, Awaited) /\ m \in Messages /\ Awaited <= Parts[m]
      BY <1>1, <1>2, <2>2, <3>1, <3>2, AfterReading
    <3> HIDE DEF m
    <3>5. Parts[m] \in Nat
      BY <3>4, PeerStreamAssumption
    <3>6. Len(read) = Awaited /\ \A k \in 1..Len(read) : read[k] = Part(m, k)
      BY <1>6, <1>7, <3>1, <3>3, <3>4
    <3>7. m = order[Len(received) + 1]
      BY DEF m
    <3>8. CASE Len(read) < Parts[reader]
      <4>1. bytes' = read /\ reader' = m /\ UNCHANGED received
        BY <1>1, <3>3, <3>8
      <4>2. QED
        BY <1>1, <1>2, <1>7, <2>2, <3>1, <3>3, <3>6, <3>7, <3>8, <4>1, ReadOn
    <3>9. CASE ~(Len(read) < Parts[reader])
      <4>1. Awaited = Parts[m]
        BY <1>6, <3>1, <3>3, <3>4, <3>5, <3>6, <3>9
      <4>2. read = Body(m)
        <5>1. /\ Len(read) = Parts[m] /\ Parts[m] \in Nat
              /\ read = [k \in 1..Len(read) |-> read[k]]
          BY <1>7, <3>5, <3>6, <4>1
        <5>2. QED
          BY <3>6, <5>1 DEF Body
      <4>3. received' = Append(received, m) /\ reader' = "idle"
        BY <1>1, <3>3, <3>9, <4>2
      <4>4. QED
        BY <1>1, <1>2, <2>2, <3>1, <3>7, <4>1, <4>3, ReadWhole
    <3>10. QED
      BY <3>8, <3>9
  <2>3. QED
    BY <2>1, <2>2
<1>12. QED
  BY <1>4, <1>10, <1>11 DEF StreamInv

(* A recv that is dropped half-way tears its message.                       *)
LEMMA DropRecvStep ==
  ASSUME StreamInv, DropRecv
  PROVE  StreamInv'
<1>1. /\ reader' = "idle" /\ bytes' = <<>> /\ torn'
      /\ UNCHANGED <<callVars, call, queue, written, stream, finished, flight, buffer, link,
                     received, order>>
  BY DEF DropRecv, callVars
<1>2. StreamTypeOK /\ CallsOk
  BY DEF StreamInv
<1>3. CallsOk'
  BY <1>1, <1>2, CallsRest
<1>4. torn' \in BOOLEAN /\ bytes' \in Seq(Piece)
  BY <1>1, EmptySeq DEF DropRecv
<1>5. StreamTypeOK'
  BY <1>1, <1>2, <1>4 DEF StreamTypeOK
<1>6. FlowOk'
  BY <1>1 DEF FlowOk
<1>7. QED
  BY <1>3, <1>5, <1>6 DEF StreamInv

(* A far side that has given up reads no more.                              *)
LEMMA GivesUp ==
  ASSUME CallsOk, FlowOk, UNCHANGED <<callVars, received, order, torn>>,
         reader' \in {"failed", "trailing"}
  PROVE  FlowOk'
<1> SUFFICES ASSUME ~torn
             PROVE  FlowOk'
  BY DEF FlowOk
<1>1. reader' \notin Messages /\ ~Live' /\ reader' # "drained"
  BY PeerStreamAssumption DEF Live
<1>2. Writing' <=> Writing
  BY CallsRest
<1>3. ReceivedOk
  BY DEF FlowOk
<1>4. ReceivedOk'
  BY <1>2, <1>3 DEF ReceivedOk
<1>5. ReadingOk' /\ PipeOk'
  BY <1>1 DEF ReadingOk, PipeOk
<1>6. QED
  BY <1>1, <1>4, <1>5 DEF FlowOk

(* A far side whose recv fails gives up.                                    *)
LEMMA RecvFailsStep ==
  ASSUME StreamInv, RecvFails
  PROVE  StreamInv'
<1>1. /\ reader' = "failed"
      /\ UNCHANGED <<callVars, call, queue, written, stream, finished, flight, buffer, link,
                     bytes, received, order, torn>>
  BY DEF RecvFails, callVars
<1>2. StreamTypeOK /\ CallsOk /\ FlowOk
  BY DEF StreamInv
<1>3. CallsOk'
  BY <1>1, <1>2, CallsRest
<1>4. StreamTypeOK'
  BY <1>1, <1>2 DEF StreamTypeOK
<1>5. FlowOk'
  BY <1>1, <1>2, GivesUp
<1>6. QED
  BY <1>3, <1>4, <1>5 DEF StreamInv

(* The end of the stream was sent when no call was writing, and with        *)
(* nothing left in the pipe all that was begun has been received.           *)
LEMMA DrainingStep ==
  ASSUME StreamTypeOK, CallsOk, FlowOk, ~torn, reader = "idle", AtEnd, link = "open"
  PROVE  \A m \in Messages : call[m] = "done" => Contains(received, m)
<1>1. Pipe = <<>>
  <2>1. buffer = <<>> /\ flight = <<>> /\ buffer \in Seq(Piece)
    BY DEF AtEnd, StreamTypeOK
  <2>2. QED
    BY <2>1, ConcatEmptySeq DEF Pipe
<1>2. ~Writing
  <2>1. stream = "taken"
    BY DEF AtEnd, CallsOk
  <2>2. \A x \in Calls : call[x] # "writing"
    BY <2>1 DEF CallsOk
  <2>3. QED
    BY <2>2, OneWriter DEF Writing
<1>3. Complete = Len(order) /\ written = 0
  BY <1>2 DEF Complete, CallsOk
<1>4. Reached(Complete, written) /\ ReceivedOk
  BY DEF FlowOk, Live
<1>5. Len(received) = Len(order)
  BY <1>1, <1>3, <1>4 DEF Reached
<1>6. ASSUME NEW m \in Messages, call[m] = "done"
      PROVE  Contains(received, m)
  <2>1. PICK k \in 1..Len(order) : order[k] = m
    BY <1>6 DEF CallsOk, Contains
  <2>2. received[k] = m /\ k \in 1..Len(received)
    BY <1>4, <1>5, <2>1 DEF ReceivedOk
  <2>3. QED
    BY <2>2 DEF Contains
<1>7. QED
  BY <1>6

(* wait_for_peer_finish finds the end, or bytes that trail.                 *)
LEMMA WaitForPeerFinishStep ==
  ASSUME StreamInv, WaitForPeerFinish
  PROVE  StreamInv'
<1>1. /\ reader = "idle"
      /\ \/ AtEnd /\ link = "open" /\ reader' = "drained"
         \/ buffer # <<>> /\ reader' = "trailing"
      /\ buffer' = IF buffer = <<>> THEN buffer ELSE Tail(buffer)
      /\ UNCHANGED <<callVars, call, queue, written, stream, finished, flight, link,
                     bytes, received, order, torn>>
  BY DEF WaitForPeerFinish, callVars
<1>2. StreamTypeOK /\ CallsOk /\ FlowOk
  BY DEF StreamInv
<1>3. CallsOk'
  BY <1>1, <1>2, CallsRest
<1>4. buffer' \in Seq(Piece) /\ Len(flight') + Len(buffer') <= Window
  <2>1. CASE buffer = <<>>
    BY <1>1, <1>2, <2>1 DEF StreamTypeOK
  <2>2. CASE buffer # <<>>
    BY <1>1, <1>2, <2>2, ReadShape
  <2>3. QED
    BY <2>1, <2>2
<1>5. StreamTypeOK'
  BY <1>1, <1>2, <1>4 DEF StreamTypeOK
<1>6. FlowOk'
  <2>1. CASE reader' = "trailing"
    BY <1>1, <1>2, <2>1, GivesUp
  <2>2. CASE AtEnd /\ link = "open" /\ reader' = "drained"
    <3>1. SUFFICES ASSUME ~torn
                   PROVE  FlowOk'
      BY <1>1 DEF FlowOk
    <3>2. finished' /\ \A m \in Messages : call'[m] = "done" => Contains(received', m)
      BY <1>1, <1>2, <2>2, <3>1, DrainingStep DEF AtEnd, Contains
    <3>3. reader' \notin Messages /\ ~Live'
      BY <2>2, PeerStreamAssumption DEF Live
    <3>4. Writing' <=> Writing
      BY <1>1, <1>2, CallsRest
    <3>5. ReceivedOk
      BY <1>2, <3>1 DEF FlowOk
    <3>6. ReceivedOk'
      BY <1>1, <3>4, <3>5 DEF ReceivedOk
    <3>7. ReadingOk' /\ PipeOk'
      BY <3>3 DEF ReadingOk, PipeOk
    <3>8. QED
      BY <3>2, <3>3, <3>6, <3>7 DEF FlowOk, Contains
  <2>3. QED
    BY <1>1, <2>1, <2>2
<1>7. QED
  BY <1>3, <1>5, <1>6 DEF StreamInv

(* Every step of the stream preserves its part of the invariant.            *)
LEMMA StreamSteps ==
  ASSUME StreamInv, StreamNext
  PROVE  StreamInv'
<1>1. ASSUME NEW x \in Calls, Ask(x)
      PROVE  StreamInv'
  BY <1>1, AskStep
<1>2. ASSUME NEW m \in Messages, SendStep(m) \/ DropSend(m)
      PROVE  StreamInv'
  BY <1>2, BeginSendStep, WritePartStep, DropSendStep DEF SendStep
<1>3. ASSUME NearStep
      PROVE  StreamInv'
  BY <1>3, BeginFinishStep, EndFinishStep, CloseStep DEF NearStep
<1>4. ASSUME DropPeer \/ ConnectionLost \/ FarClose
      PROVE  StreamInv'
  BY <1>4, EndConnectionStep DEF DropPeer, ConnectionLost, FarClose
<1>5. ASSUME Deliver
      PROVE  StreamInv'
  BY <1>5, DeliverStep
<1>6. ASSUME ReadLength \/ ReadPart \/ RecvFails \/ DropRecv \/ WaitForPeerFinish
      PROVE  StreamInv'
  BY <1>6, ReadLengthStep, ReadPartStep, RecvFailsStep, DropRecvStep, WaitForPeerFinishStep
<1>7. QED
  BY <1>1, <1>2, <1>3, <1>4, <1>5, <1>6 DEF StreamNext, RecvStep

-----------------------------------------------------------------------------
(* The whole connection.                                                    *)

(* Without a Peer there are no calls, and nothing arrives.                  *)
LEMMA NothingHappensBefore ==
  ASSUME StreamTypeOK, StreamInit
  PROVE  ~StreamNext
<1>1. /\ \A x \in Calls : call[x] = "idle"
      /\ queue = <<>> /\ ~finished /\ flight = <<>> /\ link = "none"
      /\ reader = "idle" /\ reader \notin Messages
  BY PeerStreamAssumption DEF StreamInit
<1>2. Messages \subseteq Calls /\ FinishCall \in Calls
  BY DEF Calls
<1>3. \A x \in Calls : ~Ask(x)
  BY <1>1 DEF Ask
<1>4. \A m \in Messages : ~SendStep(m) /\ ~DropSend(m)
  BY <1>1, <1>2 DEF SendStep, BeginSend, WritePart, DropSend, Holds
<1>5. ~NearStep
  BY <1>1, <1>2 DEF NearStep, BeginFinish, EndFinish, Close, Holds
<1>6. ~DropPeer /\ ~Deliver /\ ~ConnectionLost
  BY <1>1 DEF DropPeer, Deliver, ConnectionLost
<1>7. ~RecvStep
  BY <1>1 DEF RecvStep, ReadLength, ReadPart, RecvFails, FarClose, AtEnd
<1>8. ~DropRecv /\ ~WaitForPeerFinish
  BY <1>1 DEF DropRecv, WaitForPeerFinish
<1>9. QED
  BY <1>3, <1>4, <1>5, <1>6, <1>7, <1>8 DEF StreamNext

(* The hand-over forgets the dial, and opens the stream.                    *)
LEMMA NewPeerStep ==
  ASSUME OInv, NewPeer
  PROVE  OInv'
<1>1. /\ dial = "peer" /\ dial' = "returned" /\ link' = "open"
      /\ situation' = CHOOSE x \in Situations : TRUE
      /\ run' = [d \in Devices |-> 1] /\ up' = Devices
      /\ counter' = [d \in Devices |-> 0]
      /\ publisher' = [d \in Devices |-> "idle"]
      /\ active' = [d \in Devices |-> {}]
      /\ signed' = {} /\ ended' = {} /\ late' = {}
      /\ stored' = [d \in Devices |-> Nothing]
      /\ offered' = {} /\ tried' = <<>>
      /\ UNCHANGED <<paths, resolved, spent, call, queue, written, stream, finished,
                     flight, buffer, reader, bytes, received, order, torn>>
  BY DEF NewPeer, farVars
<1>2. /\ DevicesTypeOK /\ DialTypeOK /\ StreamTypeOK
      /\ DevicesOk /\ DialOk /\ CallsOk /\ FlowOk /\ StreamInit
  BY <1>1 DEF OInv, TypeOK, HandOverOk
<1>3. situation' \in Situations
  BY <1>1, <1>2 DEF DevicesTypeOK
<1>4. /\ situation'.maxRuns \in [Devices -> Nat \ {0}]
      /\ situation'.maxSequence \in [Devices -> Nat]
  BY <1>3, DiallingAssumption DEF Situation
<1>5. DevicesTypeOK'
  <2>1. /\ run' \in [Devices -> Nat \ {0}] /\ counter' \in [Devices -> Nat]
        /\ up' \subseteq Devices
    BY <1>1
  <2>2. ASSUME NEW d \in Devices
        PROVE  run'[d] <= situation'.maxRuns[d] /\ counter'[d] <= situation'.maxSequence[d]
    <3>1. situation'.maxRuns[d] \in Nat \ {0} /\ situation'.maxSequence[d] \in Nat
      BY <1>4
    <3>2. run'[d] = 1 /\ counter'[d] = 0
      BY <1>1
    <3>3. QED
      BY <3>1, <3>2
  <2>3. publisher' \in [Devices -> {"idle", "allocated", "signed"}]
    BY <1>1
  <2>4. /\ signed' \subseteq Record /\ ended' \cup late' \subseteq signed'
        /\ active' \in [Devices -> SUBSET signed']
        /\ \A d \in Devices : \A r \in active'[d] : r.device = d
    BY <1>1
  <2>5. stored' \in [Devices -> signed' \cup {Nothing}]
    BY <1>1
  <2>6. QED
    BY <1>3, <2>1, <2>2, <2>3, <2>4, <2>5 DEF DevicesTypeOK
<1>6. DevicesOk'
  BY <1>1 DEF DevicesOk, NoSequenceSignedTwice
<1>7. paths = <<>> /\ resolved = <<>> /\ spent = 0
  BY <1>1, <1>2 DEF DialOk
<1>8. DialTypeOK'
  <2>1. resolved' \in Seq(signed') /\ tried' \in Seq(Devices) /\ paths' \in Seq(Devices)
    BY <1>1, <1>7, EmptySeq
  <2>2. offered' \subseteq Devices
    BY <1>1
  <2>3. QED
    BY <1>1, <1>2, <2>1, <2>2 DEF DialTypeOK
<1>9. DialOk'
  BY <1>1, <1>7 DEF DialOk, TriesEachDeviceOnce
<1>10. StreamTypeOK'
  BY <1>1, <1>2 DEF StreamTypeOK
<1>11. UNCHANGED <<callVars, order>>
  BY <1>1 DEF callVars
<1>12. CallsOk' /\ (Writing' <=> Writing)
  BY <1>2, <1>11, CallsRest
<1>13. FlowOk'
  <2>1. Pipe' = Pipe /\ link # "closed"
    BY <1>1, <1>2 DEF Pipe, StreamInit
  <2>2. QED
    BY <1>1, <1>2, <1>10, <1>12, <2>1, FlowRests
<1>14. HandOverOk'
  BY <1>1 DEF HandOverOk
<1>15. QED
  BY <1>5, <1>6, <1>8, <1>9, <1>10, <1>12, <1>13, <1>14 DEF OInv, TypeOK

(* It begins with no record, no dial and an empty stream.                   *)
LEMMA InitOInv ==
  ASSUME Init
  PROVE  OInv
<1>1. DiallingInit /\ StreamInit
  BY DEF Init
<1>2. DevicesTypeOK
  <2>1. situation \in Situations
    BY <1>1 DEF DiallingInit
  <2>2. /\ situation.maxRuns \in [Devices -> Nat \ {0}]
        /\ situation.maxSequence \in [Devices -> Nat]
    BY <2>1, DiallingAssumption DEF Situation
  <2>3. ASSUME NEW d \in Devices
        PROVE  run[d] <= situation.maxRuns[d] /\ counter[d] <= situation.maxSequence[d]
    <3>1. situation.maxRuns[d] \in Nat \ {0} /\ situation.maxSequence[d] \in Nat
      BY <2>2
    <3>2. run[d] = 1 /\ counter[d] = 0
      BY <1>1 DEF DiallingInit
    <3>3. QED
      BY <3>1, <3>2
  <2>4. /\ run \in [Devices -> Nat \ {0}] /\ counter \in [Devices -> Nat]
        /\ up \subseteq Devices
        /\ publisher \in [Devices -> {"idle", "allocated", "signed"}]
    BY <1>1 DEF DiallingInit
  <2>5. /\ signed \subseteq Record /\ ended \cup late \subseteq signed
        /\ active \in [Devices -> SUBSET signed]
        /\ \A d \in Devices : \A r \in active[d] : r.device = d
        /\ stored \in [Devices -> signed \cup {Nothing}]
    BY <1>1 DEF DiallingInit
  <2>6. QED
    BY <2>1, <2>3, <2>4, <2>5 DEF DevicesTypeOK
<1>3. DevicesOk
  BY <1>1 DEF DiallingInit, DevicesOk, NoSequenceSignedTwice
<1>4. DialTypeOK
  <2>1. resolved \in Seq(signed) /\ tried \in Seq(Devices) /\ paths \in Seq(Devices)
    BY <1>1, EmptySeq DEF DiallingInit
  <2>2. NegotiationTimeout \in Nat /\ MaxDevices \in Nat /\ spent = 0
        /\ Len(resolved) = 0
    BY <1>1, DiallingAssumption, EmptySeq DEF DiallingInit
  <2>3. QED
    BY <1>1, <2>1, <2>2 DEF DialTypeOK, DiallingInit
<1>5. DialOk
  BY <1>1 DEF DiallingInit, DialOk, TriesEachDeviceOnce
<1>6. /\ Len(queue) = 0 /\ Len(order) = 0 /\ Len(received) = 0 /\ Len(bytes) = 0
      /\ Len(buffer) = 0 /\ Len(flight) = 0
      /\ queue \in Seq(Calls) /\ order \in Seq(Messages)
      /\ received \in Seq(Messages \cup {Garbage})
      /\ buffer \in Seq(Piece) /\ flight \in Seq(Piece) /\ bytes \in Seq(Piece)
  BY <1>1, EmptySeq DEF StreamInit
<1>7. StreamTypeOK
  <2>1. Len(flight) + Len(buffer) <= Window
    BY <1>6, PeerStreamAssumption
  <2>2. call \in [Calls -> {"idle", "waiting", "writing", "draining", "done", "failed",
                            "dropped"}]
    BY <1>1 DEF StreamInit
  <2>3. QED
    BY <1>1, <1>6, <2>1, <2>2 DEF StreamInit, StreamTypeOK
<1>8. /\ \A x \in Calls : call[x] = "idle"
      /\ ~Writing /\ written = 0 /\ ~finished
  <2>1. \A m \in Messages : m \in Calls
    BY DEF Calls
  <2>2. (\A x \in Calls : call[x] = "idle") /\ written = 0 /\ ~finished
    BY <1>1 DEF StreamInit
  <2>3. ~Writing
    BY <2>1, <2>2 DEF Writing
  <2>4. QED
    BY <2>2, <2>3
<1>9. CallsOk
  <2>1. \A x : ~Contains(queue, x) /\ ~Contains(order, x)
    BY <1>6 DEF Contains
  <2>2. Distinct(queue) /\ Distinct(order)
    BY <1>6 DEF Distinct
  <2>3. \A m \in Messages : m \in Calls
    BY DEF Calls
  <2>4. QED
    BY <1>8, <2>1, <2>2, <2>3 DEF CallsOk
<1>10. FlowOk
  <2>1. Pipe = <<>> /\ Len(Pipe) = 0
    BY <1>1, ConcatEmptySeq, EmptySeq DEF StreamInit, Pipe
  <2>2. reader = "idle" /\ reader \notin Messages
    BY <1>1, PeerStreamAssumption DEF StreamInit
  <2>3. ReceivedOk
    BY <1>6, <1>8 DEF ReceivedOk
  <2>4. ReadingOk
    BY <2>2 DEF ReadingOk
  <2>5. PipeOk
    BY <2>1 DEF PipeOk
  <2>6. Reached(Complete, written)
    BY <1>6, <1>8, <2>1, <2>2 DEF Reached, Complete
  <2>7. QED
    BY <2>2, <2>3, <2>4, <2>5, <2>6 DEF FlowOk
<1>11. HandOverOk
  BY <1>1 DEF HandOverOk
<1>12. QED
  BY <1>2, <1>3, <1>4, <1>5, <1>7, <1>9, <1>10, <1>11 DEF OInv, TypeOK

(* The invariant is inductive.                                              *)
LEMMA NextOInv ==
  ASSUME OInv, [Next]_vars
  PROVE  OInv'
<1>1. /\ TypeOK /\ DevicesOk /\ DialOk /\ HandOverOk /\ StreamInv
      /\ StreamTypeOK /\ CallsOk /\ FlowOk
  BY DEF OInv, StreamInv, TypeOK
<1>2. ASSUME dial # "returned", DialStep \/ DeviceStep \/ DialTimeout, UNCHANGED streamVars
      PROVE  OInv'
  <2>1. DevicesTypeOK' /\ DevicesOk' /\ DialTypeOK' /\ DialOk'
    BY <1>1, <1>2, DialSteps, DeviceSteps
  <2>2. StreamTypeOK' /\ CallsOk' /\ FlowOk'
    BY <1>1, <1>2, StreamRests
  <2>3. StreamInit'
    BY <1>1, <1>2 DEF HandOverOk, StreamInit, streamVars
  <2>4. QED
    BY <2>1, <2>2, <2>3 DEF OInv, TypeOK, HandOverOk
<1>3. ASSUME UNCHANGED diallingVars
      PROVE  DevicesTypeOK' /\ DevicesOk' /\ DialTypeOK' /\ DialOk'
  <2>1. /\ UNCHANGED <<situation, run, up, counter, publisher, active, signed, ended,
                       stored, late>>
        /\ UNCHANGED <<situation, dialVars>>
    BY <1>3 DEF diallingVars, dialVars
  <2>2. DevicesTypeOK' /\ DevicesOk'
    BY <1>1, <2>1 DEF TypeOK, DevicesTypeOK, DevicesOk, NoSequenceSignedTwice,
                      CurrentRecord
  <2>3. DialTypeOK' /\ DialOk'
    BY <1>1, <2>1, DialRests DEF TypeOK
  <2>4. QED
    BY <2>2, <2>3
<1>4. ASSUME InStream(StreamNext)
      PROVE  OInv'
  <2>1. StreamNext /\ UNCHANGED diallingVars
    BY <1>4 DEF InStream
  <2>2. dial = "returned"
    BY <1>1, <2>1, NothingHappensBefore DEF HandOverOk
  <2>3. dial' = "returned"
    BY <2>1, <2>2 DEF diallingVars
  <2>4. StreamTypeOK' /\ CallsOk' /\ FlowOk'
    BY <1>1, <2>1, StreamSteps DEF StreamInv
  <2>5. QED
    BY <1>3, <2>1, <2>3, <2>4 DEF OInv, TypeOK, HandOverOk
<1>5. ASSUME UNCHANGED vars
      PROVE  OInv'
  <2>1. UNCHANGED diallingVars /\ UNCHANGED streamVars
    BY <1>5 DEF vars
  <2>2. HandOverOk'
    BY <1>1, <2>1 DEF HandOverOk, StreamInit, diallingVars, streamVars
  <2>3. StreamTypeOK' /\ CallsOk' /\ FlowOk'
    BY <1>1, <2>1, StreamRests
  <2>4. QED
    BY <1>3, <2>1, <2>2, <2>3 DEF OInv, TypeOK
<1>6. CASE NewPeer
  BY <1>6, NewPeerStep
<1>7. QED
  BY <1>2, <1>4, <1>5, <1>6 DEF Next, DiallingStep

(* The invariant holds throughout.                                          *)
LEMMA OutboundInvariant == Spec => []OInv
<1>1. Init => OInv
  BY InitOInv
<1>2. OInv /\ [Next]_vars => OInv'
  BY NextOInv
<1>3. QED
  BY <1>1, <1>2, PTL DEF Spec

(* Type correctness of the dial, of the devices and of the stream.          *)
THEOREM OutboundTypes == Spec => []TypeOK
<1>1. OInv => TypeOK
  BY DEF OInv
<1>2. QED
  BY <1>1, OutboundInvariant, PTL

(* NoSequenceSignedTwice: whatever a process does when it dies between the  *)
(* allocation and the PUT, its successor signs with a new sequence          *)
(* (v1_peer.rs, next_record).                                               *)
THEOREM SequencesAreSignedOnce == Spec => []NoSequenceSignedTwice
<1>1. OInv => NoSequenceSignedTwice
  BY DEF OInv, DevicesOk
<1>2. QED
  BY <1>1, OutboundInvariant, PTL

(* TriesEachDeviceOnce: a dial that gave up has tried the requested devices *)
(* that it resolved, each once and in their order, whatever the homeserver  *)
(* listed and served (v1_peer.rs, dial_inner).                              *)
THEOREM DevicesAreTriedOnce == Spec => []TriesEachDeviceOnce
<1>1. OInv => TriesEachDeviceOnce
  BY DEF OInv, DialOk
<1>2. QED
  BY <1>1, OutboundInvariant, PTL

(* ReceivedInOrder: recv returns the messages whole and in the order in     *)
(* which send began to write them (peer.rs, send and read_bytes).           *)
THEOREM FramesArriveInOrder == Spec => []ReceivedInOrder
<1>1. ASSUME OInv, ~torn
      PROVE  IsPrefix(received, order)
  <2>1. /\ received \in Seq(Messages \cup {Garbage}) /\ order \in Seq(Messages)
        /\ Len(received) \in Nat /\ Len(order) \in Nat
    BY <1>1 DEF OInv, TypeOK, StreamTypeOK
  <2>2. /\ Len(received) <= Len(order)
        /\ \A k \in 1..Len(received) : received[k] = order[k]
    BY <1>1 DEF OInv, FlowOk, ReceivedOk
  <2> DEFINE n == Len(received)
             s == SubSeq(received, 1, n)
             t == SubSeq(order, 1, n)
  <2>3. \A k \in 1..n : received[k] \in Messages /\ order[k] \in Messages
    BY <2>1, <2>2
  <2>4. n \in Int /\ (n - 1) + 1 = n /\ (IF 1 <= n THEN (n - 1) + 1 ELSE 0) = n
    BY <2>1
  <2> HIDE DEF n
  <2>5. /\ s \in Seq(Messages) /\ Len(s) = n
        /\ \A k \in 1..n : s[k] = received[1 + k - 1]
    BY <2>3, <2>4, SubSeqProperties
  <2>6. /\ t \in Seq(Messages) /\ Len(t) = n
        /\ \A k \in 1..n : t[k] = order[1 + k - 1]
    BY <2>3, <2>4, SubSeqProperties
  <2> HIDE DEF s, t
  <2>7. ASSUME NEW k \in 1..n
        PROVE  s[k] = t[k]
    <3>1. 1 + k - 1 = k /\ received[k] = order[k]
      BY <2>2, <2>4 DEF n
    <3>2. QED
      BY <2>5, <2>6, <3>1
  <2>8. s = t
    BY <2>5, <2>6, <2>7, SeqEqual
  <2>9. QED
    BY <2>2, <2>8 DEF IsPrefix, n, s, t
<1>2. OInv => ReceivedInOrder
  BY <1>1 DEF ReceivedInOrder
<1>3. QED
  BY <1>2, OutboundInvariant, PTL

(* DrainedMeansComplete: when wait_for_peer_finish succeeds, no message     *)
(* whose send succeeded is missing, through any race of sends, finish and   *)
(* close (peer.rs, finish and wait_for_peer_finish).                        *)
THEOREM DrainedStreamsAreComplete == Spec => []DrainedMeansComplete
<1>1. OInv => DrainedMeansComplete
  BY DEF OInv, FlowOk, DrainedMeansComplete
<1>2. QED
  BY <1>1, OutboundInvariant, PTL

=============================================================================
