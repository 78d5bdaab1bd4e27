------------------------------ MODULE Dialling ------------------------------
(***************************************************************************)
(* How the devices of one identity are published, discovered and dialled   *)
(* (crates/client/src/v1_peer.rs, v1_discovery.rs): next_record with its   *)
(* durable sequence, the PUT and DELETE of a device record, processes that *)
(* die in between, resolve_devices over a homeserver, and dial with its    *)
(* bounded list of candidates.                                             *)
(*                                                                         *)
(* A device is its control key, and so the path of its record.  A record   *)
(* is named by its device, its sequence and the process that signed it     *)
(* (instance_nonce); time enters as the expiry of a record, which may come *)
(* at any moment, and as what silent devices cost the dialler.  What       *)
(* happens on a connection is the subject of Handshake: here it ends with  *)
(* a Peer or an error.                                                     *)
(***************************************************************************)
EXTENDS Integers, Sequences, FiniteSets, SequencesExt

CONSTANTS
  Devices,            \* record paths of the dialled identity
  PathRank,           \* the order of the paths
  Rank,               \* the order of device id, then control key
  Size,               \* encoded length of a device's records
  TotalMax,           \* total_record_max_bytes
  MaxDevices,         \* V1_MAX_DEVICES
  MaxActive,          \* MAX_ACTIVE_RECORDS
  HandshakeTimeout,   \* peer_handshake_timeout
  NegotiationTimeout, \* negotiation_timeout
  Situations,         \* what a behaviour starts from: see Situation
  Foreign,            \* a listed entry with another owner or an invalid path
  Nothing             \* no record, or bytes that do not decode

(* "reliable": the homeserver serves what is stored, devices consent, and   *)
(* only silent devices cost time.  "faulty": it lists and serves anything   *)
(* and every operation may fail.  "injected": StaticV1Resolver instead of a *)
(* homeserver.  Further, the devices with the requested id (all, if none is *)
(* requested), those that advertise a relay of the local allowlist, and     *)
(* bounds on the sequences and on the processes of each device.             *)
Situation == [service : {"reliable", "faulty", "injected"},
              requested : SUBSET Devices, trusted : SUBSET Devices,
              maxSequence : [Devices -> Nat], maxRuns : [Devices -> Nat \ {0}]]

ASSUME DiallingAssumption ==
  /\ IsFiniteSet(Devices) /\ Foreign \notin Devices
  /\ PathRank \in [Devices -> Nat] /\ Rank \in [Devices -> Nat]
  /\ \A d, e \in Devices : d # e => PathRank[d] # PathRank[e] /\ Rank[d] # Rank[e]
  /\ Size \in [Devices -> Nat] /\ TotalMax \in Nat
  /\ {MaxDevices, MaxActive, HandshakeTimeout, NegotiationTimeout}
       \subseteq Nat \ {0}
  /\ MaxDevices <= MaxActive
  /\ \A x \in Situations : x \in Situation

VARIABLES
  situation,  \* chosen once for every dial
  run,        \* the processes each device has had
  up,         \* devices whose process is running
  counter,    \* the durable publisher sequence of each device
  publisher,  \* where next_record and publish_v1_device_record are
  active,     \* active_records of each process
  signed,     \* every record that was signed
  ended,      \* records that have expired
  stored,     \* what the homeserver holds at each path
  late,       \* records of PUTs that were abandoned in flight
  dial,       \* where the dialler is
  paths,      \* paths that resolve_inner has still to fetch
  resolved,   \* devices: the records fetched so far, then the candidates
  spent,      \* time that this dial has waited for silent devices
  offered,    \* history: the devices that this dial resolved
  tried       \* history: the devices that this dial tried

deviceVars == <<run, up, counter, publisher, active, signed>>
Faulty == situation.service = "faulty"
Injected == situation.service = "injected"
Requested == situation.requested
Trusted == situation.trusted

dialVars == <<dial, paths, resolved, spent, offered, tried>>
diallingVars == <<situation, run, up, counter, publisher, active, signed, ended,
                  stored, late, dial, paths, resolved, spent, offered, tried>>

DiallingInit ==
  /\ situation \in Situations
  /\ run = [d \in Devices |-> 1]
  /\ up = Devices
  /\ counter = [d \in Devices |-> 0]
  /\ publisher = [d \in Devices |-> "idle"]
  /\ active = [d \in Devices |-> {}]
  /\ signed = {}
  /\ ended = {}
  /\ stored = [d \in Devices |-> Nothing]
  /\ late = {}
  /\ dial = "idle"
  /\ paths = <<>>
  /\ resolved = <<>>
  /\ spent = 0
  /\ offered = {}
  /\ tried = <<>>

-----------------------------------------------------------------------------
(* A device publishes its record.                                           *)

(* Variant: the sequence is used before the store has kept it.              *)
AllocateUnsaved(d) ==
  /\ d \in up /\ publisher[d] = "idle"
  /\ counter[d] < situation.maxSequence[d]
  /\ publisher' = [publisher EXCEPT ![d] = "allocated"]
  /\ UNCHANGED <<situation, run, up, counter, active, signed, ended, stored, late,
                 dialVars>>

(* next_record: the store allocates a sequence, durably.                    *)
Allocate(d) ==
  /\ d \in up /\ publisher[d] = "idle"
  /\ counter[d] < situation.maxSequence[d]
  /\ counter' = [counter EXCEPT ![d] = @ + 1]
  /\ publisher' = [publisher EXCEPT ![d] = "allocated"]
  /\ UNCHANGED <<situation, run, up, active, signed, ended, stored, late, dialVars>>

CurrentRecord(d) == [device |-> d, sequence |-> counter[d], run |-> run[d]]

(* current_record: sign, forget what has expired, make room, register.      *)
SignRecord(d) ==
  LET live == active[d] \ ended
      room == IF Cardinality(live) < MaxActive THEN {live}
                                               ELSE {live \ {r} : r \in live}
  IN  /\ publisher[d] = "allocated"
      /\ signed' = signed \cup {CurrentRecord(d)}
      /\ \E kept \in room :
           active' = [active EXCEPT ![d] = kept \cup {CurrentRecord(d)}]
      /\ publisher' = [publisher EXCEPT ![d] = "signed"]
      /\ UNCHANGED <<situation, run, up, counter, ended, stored, late, dialVars>>

(* publish_v1_device_record; an expired record is not sent.                 *)
PutRecord(d) ==
  LET r == CurrentRecord(d)
  IN  /\ publisher[d] = "signed" /\ ~Injected
      /\ publisher' = [publisher EXCEPT ![d] = "idle"]
      /\ \/ /\ r \notin ended
            /\ stored' = [stored EXCEPT ![d] = r]
            /\ UNCHANGED late
         \/ /\ r \notin ended /\ Faulty
            /\ late' = late \cup {r}
            /\ UNCHANGED stored
         \/ /\ r \in ended \/ Faulty
            /\ UNCHANGED <<stored, late>>
      /\ UNCHANGED <<situation, run, up, counter, active, signed, ended, dialVars>>

(* StaticV1Resolver::insert_record; nothing ever removes a record again.    *)
InsertRecord(d) ==
  LET r == CurrentRecord(d)
  IN  /\ publisher[d] = "signed" /\ Injected
      /\ publisher' = [publisher EXCEPT ![d] = "idle"]
      /\ stored' = IF r \in ended THEN stored ELSE [stored EXCEPT ![d] = r]
      /\ UNCHANGED <<situation, run, up, counter, active, signed, ended, late,
                     dialVars>>

(* A PUT whose caller is gone reaches the homeserver.                       *)
LatePut(r) ==
  /\ r \in late
  /\ stored' = [stored EXCEPT ![r.device] = r]
  /\ late' = late \ {r}
  /\ UNCHANGED <<situation, deviceVars, ended, dialVars>>

(* delete_v1_device_record takes the path away, whichever record it holds.  *)
DeleteRecord(d) ==
  /\ d \in up /\ publisher[d] = "idle"
  /\ stored[d] # Nothing /\ ~Injected
  /\ stored' = [stored EXCEPT ![d] = Nothing]
  /\ UNCHANGED <<situation, deviceVars, ended, late, dialVars>>

(* The process of a device ends at any point; its PUT may be on its way.    *)
Crash(d) ==
  /\ d \in up
  /\ up' = up \ {d}
  /\ active' = [active EXCEPT ![d] = {}]
  /\ publisher' = [publisher EXCEPT ![d] = "idle"]
  /\ \/ UNCHANGED late
     \/ /\ publisher[d] = "signed" /\ ~Injected
        /\ late' = late \cup {CurrentRecord(d)}
  /\ UNCHANGED <<situation, run, counter, signed, ended, stored, dialVars>>

(* V1Client::bind, with a new instance_nonce.                               *)
Restart(d) ==
  /\ d \notin up /\ run[d] < situation.maxRuns[d]
  /\ up' = up \cup {d}
  /\ run' = [run EXCEPT ![d] = @ + 1]
  /\ UNCHANGED <<situation, counter, publisher, active, signed, ended, stored, late,
                 dialVars>>

Expire(r) ==
  /\ r \in signed \ ended
  /\ ended' = ended \cup {r}
  /\ UNCHANGED <<situation, deviceVars, stored, late, dialVars>>

-----------------------------------------------------------------------------
(* resolve_devices.                                                         *)

(* The elements of s at some of its places, ordered by the ranks of these   *)
(* places as sort_by does it, which keeps the order of equal elements.      *)
Arranged(s, places, rank) ==
  LET upTo(n) == {m \in places : \/ rank[m] < rank[n]
                                 \/ rank[m] = rank[n] /\ m <= n}
  IN  [k \in 1..Cardinality(places) |->
         s[CHOOSE n \in places : Cardinality(upTo(n)) = k]]

DialEnds(outcome) ==
  /\ dial' = outcome
  /\ paths' = <<>>
  /\ resolved' = <<>>
  /\ spent' = 0

(* What a homeserver may list at all: any entries, repeated or foreign, up  *)
(* to one more than the limit.  Their order is of no concern, for           *)
(* resolve_inner sorts them.                                                *)
AnyListing ==
  {entries \in BoundedSeq(Devices \cup {Foreign}, MaxDevices + 1) :
     \A m, n \in 1..Len(entries) :
       m < n => \/ entries[n] = Foreign
                \/ /\ entries[m] # Foreign
                   /\ PathRank[entries[m]] <= PathRank[entries[n]]}

Listings ==
  IF ~Faulty THEN {SetToSeq({d \in Devices : stored[d] # Nothing})} ELSE AnyListing

(* What it may serve at a path.                                             *)
Served(d) == IF ~Faulty THEN {stored[d]} ELSE signed \cup {Nothing}

(* The listing is bounded, its entries belong to the identity, none twice.  *)
ListingOk(entries) ==
  /\ Len(entries) <= MaxDevices
  /\ \A n \in 1..Len(entries) : entries[n] # Foreign
  /\ IsInjective(entries)

(* Variant: whatever record of the identity is at the path will do.         *)
FetchesAnyPath(d, r) == r # Nothing /\ r \notin ended

(* fetch_record_inner: the record decodes, verifies and has this path.      *)
FetchOk(d, r) == r # Nothing /\ r \notin ended /\ r.device = d

Total(records) == FoldFunction(LAMBDA r, n : Size[r.device] + n, 0, records)

(* dial_inner: the resolved devices, sorted, filtered, and bounded.         *)
Candidates(records) ==
  LET wanted == Arranged(records,
                         {n \in 1..Len(records) : records[n].device \in Requested},
                         [n \in 1..Len(records) |-> Rank[records[n].device]])
  IN  SubSeq(wanted, 1, IF Len(wanted) < MaxActive THEN Len(wanted) ELSE MaxActive)

(* The resolution is over: the candidates are tried in turn.                *)
Resolved(records) ==
  /\ offered' = {records[n].device : n \in 1..Len(records)}
  /\ UNCHANGED tried
  /\ IF Candidates(records) = <<>>
       THEN DialEnds("failed")
       ELSE /\ dial' = "trying"
            /\ resolved' = Candidates(records)
            /\ paths' = <<>>
            /\ UNCHANGED spent

(* dial: a call of the application.                                         *)
Dial ==
  /\ dial \in {"idle", "failed", "exhausted", "timed out"}
  /\ dial' = "listing"
  /\ offered' = {}
  /\ tried' = <<>>
  /\ UNCHANGED <<situation, deviceVars, ended, stored, late, paths, resolved, spent>>

List ==
  /\ dial = "listing" /\ ~Injected
  /\ \E entries \in Listings :
       \/ /\ ListingOk(entries) /\ entries # <<>>
          /\ dial' = "fetching"
          /\ paths' = Arranged(entries, 1..Len(entries),
                               [n \in 1..Len(entries) |-> PathRank[entries[n]]])
          /\ UNCHANGED <<resolved, spent, offered, tried>>
       \/ /\ ~ListingOk(entries) \/ entries = <<>>
          /\ DialEnds("failed")
          /\ UNCHANGED <<offered, tried>>
  /\ UNCHANGED <<situation, deviceVars, ended, stored, late>>

(* One record after the other; the first that fails, fails them all.        *)
Fetch ==
  LET d == Head(paths)
  IN  /\ dial = "fetching"
      /\ \E r \in Served(d) :
           LET records == Append(resolved, r)
               ok      == FetchOk(d, r) /\ Total(records) <= TotalMax
           IN  \/ /\ ok
                  /\ \/ /\ Len(paths) > 1
                        /\ paths' = Tail(paths)
                        /\ resolved' = records
                        /\ UNCHANGED <<dial, spent, offered, tried>>
                     \/ /\ Len(paths) = 1
                        /\ Resolved(records)
               \/ /\ ~ok
                  /\ DialEnds("failed")
                  /\ UNCHANGED <<offered, tried>>
      /\ UNCHANGED <<situation, deviceVars, ended, stored, late>>

(* StaticV1Resolver::resolve_devices: all records at once, in the order of  *)
(* their paths, which the candidates do not keep.                           *)
ResolveInjected ==
  LET held == {stored[d] : d \in Devices} \ {Nothing}
  IN  /\ dial = "listing" /\ Injected
      /\ \/ /\ Cardinality(held) <= MaxDevices /\ held \cap ended = {}
            /\ Resolved(SetToSeq(held))
         \/ /\ Cardinality(held) > MaxDevices \/ held \cap ended # {}
            /\ DialEnds("failed")
            /\ UNCHANGED <<offered, tried>>
      /\ UNCHANGED <<situation, deviceVars, ended, stored, late>>

-----------------------------------------------------------------------------
(* dial_device, for one candidate after the other.                          *)

(* Variant: the first failure ends the dial.                                *)
CandidateFailsDial(cost) == DialEnds("exhausted")

(* The candidate failed, after cost: the next one, until none is left or    *)
(* the negotiation timeout has passed.                                      *)
CandidateFails(cost) ==
  \/ /\ spent + cost >= NegotiationTimeout
     /\ DialEnds("timed out")
  \/ /\ spent + cost < NegotiationTimeout
     /\ Len(resolved) > 1
     /\ dial' = "trying"
     /\ resolved' = Tail(resolved)
     /\ spent' = spent + cost
     /\ UNCHANGED paths
  \/ /\ spent + cost < NegotiationTimeout
     /\ Len(resolved) = 1
     /\ DialEnds("exhausted")

(* The record is verified again, and shares a relay with the allowlist,     *)
(* before anything is sent.  A device that is not running does not answer.  *)
Connect ==
  LET r == Head(resolved)
  IN  /\ dial = "trying"
      /\ tried' = Append(tried, r.device)
      /\ \/ /\ r \notin ended /\ r.device \in Trusted /\ r.device \in up
            /\ dial' = "handshaking"
            /\ UNCHANGED <<paths, resolved, spent>>
         \/ /\ r \notin ended /\ r.device \in Trusted
            /\ r.device \notin up \/ Faulty
            /\ CandidateFails(HandshakeTimeout)
         \/ /\ r \in ended \/ r.device \notin Trusted
            /\ CandidateFails(0)
      /\ UNCHANGED <<situation, deviceVars, ended, stored, late, offered>>

(* finish_outbound_handshake: the device must still be the one that signed  *)
(* the record, and agree; it may also fall silent.                          *)
Handshake ==
  LET r == Head(resolved)
  IN  /\ dial = "handshaking"
      /\ \/ /\ r \notin ended /\ r \in active[r.device]
            /\ DialEnds("peer")
         \/ /\ r \in ended \/ r \notin active[r.device] \/ Faulty
            /\ CandidateFails(0)
         \/ /\ r.device \notin up \/ Faulty
            /\ CandidateFails(HandshakeTimeout)
      /\ UNCHANGED <<situation, deviceVars, ended, stored, late, offered, tried>>

(* The timeout of resolve_devices or of the dial, at any await.             *)
DialTimeout ==
  /\ Faulty
  /\ dial \in {"listing", "fetching", "trying", "handshaking"}
  /\ DialEnds("timed out")
  /\ offered' = {}
  /\ tried' = <<>>
  /\ UNCHANGED <<situation, deviceVars, ended, stored, late>>

DeviceStep ==
  \/ \E d \in Devices : Allocate(d) \/ SignRecord(d)
  \/ \E d \in Devices : PutRecord(d) \/ InsertRecord(d)
  \/ \E d \in Devices : DeleteRecord(d) \/ Crash(d) \/ Restart(d)
  \/ \E r \in signed : LatePut(r) \/ Expire(r)

DialStep == Dial \/ List \/ Fetch \/ ResolveInjected \/ Connect \/ Handshake

-----------------------------------------------------------------------------
Record == [device : Devices, sequence : Nat, run : Nat]

DevicesTypeOK ==
  /\ situation \in Situations
  /\ run \in [Devices -> Nat \ {0}] /\ counter \in [Devices -> Nat]
  /\ \A d \in Devices : /\ run[d] <= situation.maxRuns[d]
                        /\ counter[d] <= situation.maxSequence[d]
  /\ up \subseteq Devices
  /\ publisher \in [Devices -> {"idle", "allocated", "signed"}]
  /\ signed \subseteq Record
  /\ active \in [Devices -> SUBSET signed]
  /\ \A d \in Devices : \A r \in active[d] : r.device = d
  /\ ended \cup late \subseteq signed
  /\ stored \in [Devices -> signed \cup {Nothing}]

DialTypeOK ==
  /\ dial \in {"idle", "listing", "fetching", "trying", "handshaking", "failed",
               "exhausted", "timed out", "peer", "returned"}
  /\ paths \in Seq(Devices)
  /\ resolved \in Seq(signed) /\ Len(resolved) <= MaxDevices
  /\ spent \in 0..NegotiationTimeout
  /\ offered \subseteq Devices /\ tried \in Seq(Devices)

(* A device that dies between the allocation of a sequence, the signature   *)
(* and the PUT, and publishes again after its restart, never signs another  *)
(* record with a sequence it has used: its peers' floors would reject it as *)
(* an equivocation (sequence.rs:396).                                       *)
NoSequenceSignedTwice ==
  \A r, q \in signed :
    r.device = q.device /\ r.sequence = q.sequence => r = q

(* A dial that gave up has tried every requested device that it resolved,   *)
(* each once and in the order of Rank, whatever the homeserver listed and   *)
(* served: no device stands in for another, hides it, or is tried again.    *)
TriesEachDeviceOnce ==
  dial = "exhausted" =>
    /\ {tried[n] : n \in 1..Len(tried)} = offered \cap Requested
    /\ \A m, n \in 1..Len(tried) : m < n => Rank[tried[m]] < Rank[tried[n]]

(* The device can be reached now: it runs, its published record is one that *)
(* its process knows, and the silent devices before it leave time for it.   *)
Reachable(d) ==
  /\ d \in up \cap Requested \cap Trusted
  /\ stored[d] \in active[d] \ ended
  /\ LET silent == {e \in (Requested \cap Trusted) \ up :
                      stored[e] # Nothing /\ Rank[e] < Rank[d]}
     IN  HandshakeTimeout * Cardinality(silent) < NegotiationTimeout

(* Dead devices and earlier processes whose records are still published do  *)
(* not keep a live device from being reached, provided that all published   *)
(* records together are within the limit and none has expired: one that has *)
(* fails the whole resolution (v1_discovery.rs:239), and nobody but its     *)
(* device deletes it.                                                       *)
DialsSucceed ==
  LET published == {d \in Devices : stored[d] # Nothing}
      lasting   == /\ \E d \in Devices : Reachable(d)
                   /\ \A d \in Devices : stored[d] \notin ended
                   /\ MapThenSumSet(LAMBDA d : Size[d], published) <= TotalMax
  IN  ~Faulty /\ <>[]lasting => <>(dial = "peer")

=============================================================================
