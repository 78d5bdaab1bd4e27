--------------------------- MODULE BrowserPackage ---------------------------
(***************************************************************************)
(* The JavaScript package around BrowserCore (packages/browser/index.js):  *)
(* one network operation at a time, the leader lock of the account, and    *)
(* what becomes of the events of the core.  The other tabs of the browser  *)
(* are known by the lock only: one of them may hold it.                    *)
(***************************************************************************)
EXTENDS BrowserCore

VARIABLES
  online,     \* #online
  leader,     \* who holds the network-leader lock: "free", "this" or "other"
  operation,  \* the operation that has the network tail, and its epoch
  destroyed   \* #destroyed

packageVars == <<online, leader, operation, destroyed>>
allVars == <<vars, packageVars>>

NoOperation == [type |-> "none", epoch |-> 0]

PackageInit ==
  /\ Init
  /\ online = FALSE
  /\ leader = "free"
  /\ operation = NoOperation
  /\ destroyed = FALSE

(* #releaseLeader: nothing happens unless this tab holds the lock.          *)
ReleaseLeader == leader' = IF leader = "this" THEN "free" ELSE leader

(* publishAndGoOnline: refused while online; the lock is taken first, and   *)
(* kept if this tab already has it.                                         *)
PublishAndGoOnline ==
  /\ ~destroyed /\ operation = NoOperation
  /\ ~online
  /\ leader # "other"
  /\ Publish
  /\ leader' = "this"
  /\ operation' = [type |-> "publish", epoch |-> epoch']
  /\ UNCHANGED <<online, destroyed>>

(* The core refuses the call, or prepare_device fails: the lock is given    *)
(* back, even one that this tab had before.                                 *)
PublishRefused ==
  /\ ~destroyed /\ operation = NoOperation
  /\ ~online
  /\ leader # "other"
  /\ leader' = "free"
  /\ UNCHANGED <<vars, online, operation, destroyed>>

PublishReturns ==
  /\ operation.type = "publish"
  /\ \/ /\ publisher[operation.epoch] = "online"
        /\ online' = TRUE
        /\ UNCHANGED leader
     \/ /\ publisher[operation.epoch] = "failed"
        /\ ReleaseLeader
        /\ UNCHANGED online
  /\ operation' = NoOperation
  /\ UNCHANGED <<vars, destroyed>>

(* disconnect, and destroy, which also ends all further calls.              *)
DisconnectOrDestroy ==
  /\ ~destroyed /\ operation = NoOperation
  /\ Disconnect
  /\ operation' = [type |-> "disconnect", epoch |-> epoch']
  /\ destroyed' \in BOOLEAN
  /\ UNCHANGED <<online, leader>>

DisconnectReturns ==
  /\ operation.type = "disconnect"
  /\ teardown[operation.epoch].step = "done"
  /\ online' = FALSE
  /\ ReleaseLeader
  /\ operation' = NoOperation
  /\ UNCHANGED <<vars, destroyed>>

(* What JavaScript gets for a JSON object: serde_wasm_bindgen makes it a    *)
(* Map.  Only emit_message, for received messages, builds a plain object.   *)
EmitJson == "Map"

IsPlainRecord(kind) == kind = "plain object"

(* #handleCoreEvent for the event of a failed endpoint: one that is no      *)
(* plain record is refused, with an error event in its place.               *)
HandleOffline(e) ==
  /\ ReportOffline(e)
  /\ IF IsPlainRecord(EmitJson)
       THEN online' = FALSE /\ ReleaseLeader
       ELSE UNCHANGED <<online, leader>>
  /\ UNCHANGED <<operation, destroyed>>

(* Another tab of the account takes the lock and gives it back.             *)
OtherTab ==
  /\ \/ leader = "free" /\ leader' = "other"
     \/ leader = "other" /\ leader' = "free"
  /\ UNCHANGED <<vars, online, operation, destroyed>>

PackageNext ==
  \/ PublishAndGoOnline
  \/ PublishRefused
  \/ PublishReturns
  \/ DisconnectOrDestroy
  \/ DisconnectReturns
  \/ \E e \in Endpoints : HandleOffline(e)
  \/ OtherTab
  \/ Background /\ UNCHANGED packageVars
  \/ \E c \in Conns : ~destroyed /\ RequestPeer(c) /\ UNCHANGED packageVars

PackageSpec == PackageInit /\ [][PackageNext]_allVars

(* "An online device publishes one self-contained JSON record"              *)
(* (docs/v1.md:38): when every request to the homeserver had a known        *)
(* outcome, the record of the endpoint that is online is there.             *)
OnlineIsPublished == client # 0 /\ certain => published = client

=============================================================================
