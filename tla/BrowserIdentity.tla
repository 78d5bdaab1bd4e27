-------------------------- MODULE BrowserIdentity --------------------------
(***************************************************************************)
(* The accounts of a browser: signing in with Ring, restoring, removing    *)
(* and cancelling (crates/browser-wasm/src/lib.rs), the device that an     *)
(* account goes online with, and the locks and the serialisation around    *)
(* them (packages/browser/index.js), in several tabs over one              *)
(* BrowserStore.                                                           *)
(*                                                                         *)
(* A tab has one authorization in progress (connectWithRing or the restore *)
(* of initialize) and beside it one network operation.  One action is what *)
(* a tab does between two awaits, with the transaction it awaits.  The     *)
(* endpoint of BrowserCore is known here only by whether the tab is        *)
(* online; a tab may be closed at any time, which ends all it was doing,  *)
(* and be opened again.                                                    *)
(***************************************************************************)
EXTENDS BrowserStore

CONSTANTS
  Tabs,
  Calls,     \* what a tab's user calls, or does to the tab
  MaxEpoch   \* bound on the authorization epoch of a tab

ASSUME TabAssumption ==
  /\ MaxEpoch \in Nat
  /\ Calls \in [Tabs -> SUBSET {"signIn", "restore", "cancel", "remove",
                                "publish", "disconnect", "destroy", "reopen"}]
  /\ Nothing \notin Tabs

VARIABLES
  state,      \* what BrowserState keeps of the authorization, per tab
  auth,       \* the authorization in progress
  operation,  \* the network operation in progress
  cleanup,    \* grant keys whose deletion a tab has started
  call,       \* an update of the sequences in flight
  online,     \* tabs whose endpoint is online
  destroyed,  \* tabs that destroy() ended
  locks,      \* who holds the network-leader lock of an account
  used,       \* grant keys and control keys that were ever generated
  expired,    \* grants that have expired, by their key
  abandoned,  \* history: the authorization in progress was cancelled
  purged,     \* history: accounts that a cancelled authorization erased
  lost,       \* history: keys that a closed tab, a removal or an undo that
              \* failed left behind, or will take from a stored identity
  allocated   \* history: the last locator sequence of each control key

tabVars == <<state, auth, operation, cleanup, call, online, destroyed, locks>>
worldVars == <<used, expired>>
historyVars == <<abandoned, purged, lost, allocated>>
vars == <<storeVars, tabVars, worldVars, historyVars>>

Session == [account : Accounts, key : GrantKeys]

PendingAuth == [key : GrantKeys, epoch : 1..MaxEpoch]

ASSUME NothingIsNoSession == Nothing \notin Session \cup PendingAuth

Signing == {"creating", "created", "discarding", "pending", "approving",
            "validating", "saving", "saved", "erasing"}
Restoring == {"loading", "restoring", "restored"}

NoAuth == [step |-> "idle", key |-> Nothing, epoch |-> 0, account |-> Nothing,
           sealed |-> Nothing, victim |-> Nothing]

NoOperation == [step |-> "none", account |-> Nothing, victim |-> Nothing,
                old |-> Nothing, device |-> Nothing, sealed |-> Nothing]

(* A tab that was just opened.                                              *)
NewState == [busy |-> FALSE, epoch |-> 0, pending |-> Nothing,
             identityBusy |-> FALSE, session |-> Nothing, device |-> Nothing]

Init ==
  /\ StoreInit
  /\ state = [t \in Tabs |-> NewState]
  /\ auth = [t \in Tabs |-> NoAuth]
  /\ operation = [t \in Tabs |-> NoOperation]
  /\ cleanup = [t \in Tabs |-> {}]
  /\ call = [t \in Tabs |-> Nothing]
  /\ online = {} /\ destroyed = {}
  /\ locks = [a \in Accounts |-> Nothing]
  /\ used = {} /\ expired = {}
  /\ abandoned = [t \in Tabs |-> FALSE]
  /\ purged = {} /\ lost = {}
  /\ allocated = [x \in PublisherKeys |-> 0]

-----------------------------------------------------------------------------
(* Grant keys, and who has them.                                            *)

SessionKey(t) ==
  IF state[t].session = Nothing THEN Nothing ELSE state[t].session.key

IdentityKeys ==
  {identities[a].key : a \in {b \in Accounts : identities[b] # Nothing}}

(* A removal deletes the record that is there now, but the key of the one   *)
(* that it read before: a key that was saved in between stays.              *)
MissesKey(a, victim) ==
  lost' = IF identities[a] = Nothing THEN lost
          ELSE lost \cup ({identities[a].key} \ {victim})

-----------------------------------------------------------------------------
(* Authorizations.                                                          *)

(* What begin_auth and restore_identity both ask for.                       *)
MayAuthorize(t) ==
  /\ t \notin destroyed
  /\ auth[t] = NoAuth
  /\ ~state[t].busy /\ ~state[t].identityBusy
  /\ state[t].pending = Nothing /\ state[t].session = Nothing
  /\ state[t].epoch < MaxEpoch

StartAuth(t, step, a) ==
  /\ MayAuthorize(t)
  /\ state' = [state EXCEPT ![t].busy = TRUE, ![t].epoch = @ + 1]
  /\ auth' = [auth EXCEPT ![t] =
       [NoAuth EXCEPT !.step = step, !.epoch = state[t].epoch + 1,
                      !.account = a]]
  /\ abandoned' = [abandoned EXCEPT ![t] = FALSE]
  /\ UNCHANGED <<storeVars, operation, cleanup, call, online, destroyed,
                 locks, worldVars, purged, lost, allocated>>

(* begin_auth up to the key, and restore_identity up to the store.          *)
BeginAuth(t) == StartAuth(t, "creating", Nothing)
RestoreIdentity(t, a) == StartAuth(t, "loading", a)

AuthStep(t, step) == auth' = [auth EXCEPT ![t].step = step]

Current(t) == auth[t].epoch = state[t].epoch

(* The authorization ends with an error, and its key, if it has one, is     *)
(* deleted without waiting for it.                                          *)
AuthFails(t) ==
  /\ state' = [state EXCEPT ![t].busy = FALSE]
  /\ auth' = [auth EXCEPT ![t] = NoAuth]
  /\ cleanup' = [cleanup EXCEPT ![t] =
       IF auth[t].step \in Signing
         THEN @ \cup ({auth[t].key} \ {Nothing}) ELSE @]

(* An authorization changes nothing but these.                              *)
AuthKeeps ==
  UNCHANGED <<operation, call, online, destroyed, locks, expired,
              abandoned, allocated>>

(* New keys are all alike: one of them stands for the others.               *)
One(S) == IF S = {} THEN {} ELSE {CHOOSE x \in S : TRUE}

(* ensure_grant_key: a key that nobody ever had.                            *)
StoreGrantKey(t) ==
  /\ auth[t].step = "creating"
  /\ \/ /\ \E k \in One(GrantKeys \ used) :
             /\ AddGrantKey(k)
             /\ used' = used \cup {k}
             /\ auth' = [auth EXCEPT ![t].step = "created", ![t].key = k]
        /\ UNCHANGED <<state, cleanup>>
     \/ /\ AuthFails(t)
        /\ UNCHANGED <<storeVars, used>>
  /\ UNCHANGED <<purged, lost>>
  /\ AuthKeeps

(* begin_auth after the key: the flow does not start, its URL is refused,   *)
(* the authorization was cancelled, or it is pending.                       *)
BeginReturns(t) ==
  /\ auth[t].step = "created"
  /\ \/ /\ AuthStep(t, "discarding")
        /\ UNCHANGED <<state, cleanup>>
     \/ AuthFails(t)
     \/ /\ Current(t)
        /\ state' = [state EXCEPT ![t].busy = FALSE,
             ![t].pending = [key |-> auth[t].key, epoch |-> auth[t].epoch]]
        /\ AuthStep(t, "pending")
        /\ UNCHANGED cleanup
  /\ UNCHANGED <<storeVars, used, purged, lost>>
  /\ AuthKeeps

(* A flow that did not start: the key goes before the tab is free again.    *)
Discard(t) ==
  /\ auth[t].step = "discarding"
  /\ DeleteGrantKey(auth[t].key)
  /\ state' = [state EXCEPT ![t].busy = FALSE]
  /\ auth' = [auth EXCEPT ![t] = NoAuth]
  /\ UNCHANGED <<cleanup, used, purged, lost>>
  /\ AuthKeeps

(* complete_auth takes the pending authorization, or finds it cancelled.    *)
CompleteAuth(t) ==
  LET pending == state[t].pending
  IN  /\ auth[t].step = "pending"
      /\ state' = [state EXCEPT ![t].pending = Nothing,
           ![t].busy = pending # Nothing /\ pending.epoch = state[t].epoch]
      /\ IF state'[t].busy THEN AuthStep(t, "approving")
                           ELSE auth' = [auth EXCEPT ![t] = NoAuth]
      /\ UNCHANGED <<storeVars, cleanup, used, purged, lost>>
      /\ AuthKeeps

(* The user approves in Ring, as some account.                              *)
Approve(t, a) ==
  /\ auth[t].step = "approving"
  /\ Current(t)
  /\ auth' = [auth EXCEPT ![t].step = "validating", ![t].account = a]
  /\ UNCHANGED <<storeVars, state, cleanup, used, purged, lost>>
  /\ AuthKeeps

(* The session and its grant are validated, and the key that will seal the  *)
(* restore state is looked up.                                              *)
Validate(t) ==
  /\ auth[t].step = "validating"
  /\ auth[t].key \in grantKeys \ expired
  /\ Current(t)
  /\ EnsureEncryptionKey(auth[t].account)
  /\ auth' = [auth EXCEPT ![t].step = "saving",
                          ![t].sealed = EncryptionKeyOf(auth[t].account)]
  /\ UNCHANGED <<state, cleanup, used, purged, lost>>
  /\ AuthKeeps

Save(t) ==
  /\ auth[t].step = "saving"
  /\ SaveIdentityOk(auth[t].account, expired)
  /\ SaveIdentity(auth[t].account, auth[t].key, auth[t].sealed)
  /\ AuthStep(t, "saved")
  /\ UNCHANGED <<state, cleanup, used, purged, lost>>
  /\ AuthKeeps

(* Ring or the homeserver refuse or the user waits no longer; the session   *)
(* is not the expected one; the store fails, or holds a valid grant.        *)
SigningFails(t) ==
  /\ auth[t].step \in {"approving", "validating", "saving"}
  /\ AuthFails(t)
  /\ UNCHANGED <<storeVars, used, purged, lost>>
  /\ AuthKeeps

(* The tab gets its session.                                                *)
Install(t) ==
  /\ state' = [state EXCEPT ![t].busy = FALSE,
       ![t].session = [account |-> auth[t].account, key |-> auth[t].key]]
  /\ auth' = [auth EXCEPT ![t] = NoAuth]

(* Variant: a cancelled authorization that was saved is installed.          *)
InstallAnyway(t) ==
  /\ auth[t].step = "saved"
  /\ Install(t)
  /\ UNCHANGED <<storeVars, cleanup, used, purged, lost>>
  /\ AuthKeeps

(* The removal finds no identity, or the store fails, which is ignored: the *)
(* key is deleted all the same, even if an identity still has it.           *)
UndoFails(t) ==
  /\ AuthFails(t)
  /\ lost' = lost \cup ({auth[t].key} \cap IdentityKeys)
  /\ UNCHANGED <<storeVars, purged>>

(* The end of complete_auth: a cancelled one removes the identity again,    *)
(* and first reads the record.                                              *)
CompleteReturns(t) ==
  /\ auth[t].step = "saved"
  /\ \/ /\ Current(t)
        /\ Install(t)
        /\ UNCHANGED <<storeVars, cleanup, purged, lost>>
     \/ /\ ~Current(t) /\ identities[auth[t].account] # Nothing
        /\ auth' = [auth EXCEPT ![t].step = "erasing",
                      ![t].victim = identities[auth[t].account].key]
        /\ UNCHANGED <<storeVars, state, cleanup, purged, lost>>
     \/ /\ ~Current(t)
        /\ UndoFails(t)
  /\ UNCHANGED used
  /\ AuthKeeps

(* The transaction of the removal, then the error.                          *)
Erase(t) ==
  /\ auth[t].step = "erasing"
  /\ \/ /\ RemoveIdentity(auth[t].account, auth[t].victim)
        /\ AuthFails(t)
        /\ MissesKey(auth[t].account, auth[t].victim)
        /\ purged' = purged \cup {auth[t].account}
     \/ UndoFails(t)
  /\ UNCHANGED used
  /\ AuthKeeps

-----------------------------------------------------------------------------
(* restore_identity.                                                        *)

LoadIdentity(t) ==
  /\ auth[t].step = "loading"
  /\ Opens(auth[t].account, identities[auth[t].account])
  /\ auth' = [auth EXCEPT ![t].step = "restoring",
                          ![t].key = identities[auth[t].account].key]
  /\ UNCHANGED <<storeVars, state, cleanup, used, purged, lost>>
  /\ AuthKeeps

(* The key is there and signs for a session of a grant that is valid.       *)
RestoreSession(t) ==
  /\ auth[t].step = "restoring"
  /\ auth[t].key \in grantKeys \ expired
  /\ AuthStep(t, "restored")
  /\ UNCHANGED <<storeVars, state, cleanup, used, purged, lost>>
  /\ AuthKeeps

RestoreReturns(t) ==
  /\ auth[t].step = "restored"
  /\ Current(t)
  /\ Install(t)
  /\ UNCHANGED <<storeVars, cleanup, used, purged, lost>>
  /\ AuthKeeps

(* Aborted, or refused by the store or the homeserver.                      *)
RestoreFails(t) ==
  /\ auth[t].step \in Restoring
  /\ AuthFails(t)
  /\ UNCHANGED <<storeVars, used, purged, lost>>
  /\ AuthKeeps

-----------------------------------------------------------------------------
(* Cancelling, and the deletions that nobody waits for.                     *)

(* Variant: the key of a pending authorization is not deleted.              *)
CancelKeepsKey(t) ==
  /\ state[t].epoch < MaxEpoch
  /\ state' = [state EXCEPT ![t].epoch = @ + 1, ![t].pending = Nothing]
  /\ abandoned' = [abandoned EXCEPT ![t] = auth[t] # NoAuth]
  /\ UNCHANGED cleanup

(* cancel_auth: a pending authorization ends here, the one in progress when *)
(* it looks at the epoch or when its await is aborted.                      *)
CancelState(t) ==
  LET pending == state[t].pending
  IN  /\ state[t].epoch < MaxEpoch
      /\ state' = [state EXCEPT ![t].epoch = @ + 1, ![t].pending = Nothing]
      /\ cleanup' = [cleanup EXCEPT ![t] =
           @ \cup (IF pending = Nothing THEN {} ELSE {pending.key})]
      /\ abandoned' = [abandoned EXCEPT ![t] = auth[t] # NoAuth]

CancelAuth(t) ==
  /\ t \notin destroyed
  /\ CancelState(t)
  /\ UNCHANGED <<storeVars, auth, operation, call, online, destroyed,
                 locks, worldVars, purged, lost, allocated>>

CleanUp(t) ==
  \E k \in cleanup[t] :
    /\ DeleteGrantKey(k)
    /\ cleanup' = [cleanup EXCEPT ![t] = @ \ {k}]
    /\ UNCHANGED <<state, auth, operation, call, online, destroyed,
                   locks, worldVars, historyVars>>

-----------------------------------------------------------------------------
(* Network operations: one at a time in a tab, under the lock of the        *)
(* account.                                                                 *)

Operation(step, a) == [NoOperation EXCEPT !.step = step, !.account = a]

StartOperation(t, op) ==
  /\ t \notin destroyed
  /\ operation[t] = NoOperation
  /\ operation' = [operation EXCEPT ![t] = op]

Lock(t, a) ==
  /\ locks[a] = Nothing
  /\ locks' = [locks EXCEPT ![a] = t]

(* A tab gives back what it holds as a leader, or all that it holds.        *)
Unlock(t) ==
  locks' = [a \in Accounts |-> IF locks[a] = t THEN Nothing ELSE locks[a]]

(* A network operation changes nothing but these.                           *)
OperationKeeps ==
  UNCHANGED <<auth, cleanup, call, destroyed, abandoned, purged>>

(* The tab itself is online with the account.                               *)
Active(t, a) == t \in online /\ state[t].session.account = a

(* Variant: removeLocalIdentity without the lock.                           *)
RemoveUnlocked(t, a) ==
  /\ identities[a] # Nothing
  /\ ~state[t].busy /\ ~state[t].identityBusy /\ state[t].pending = Nothing
  /\ ~Active(t, a)
  /\ StartOperation(t, [Operation("removing", a) EXCEPT
       !.victim = identities[a].key])
  /\ state' = [state EXCEPT ![t].identityBusy = TRUE]
  /\ UNCHANGED <<storeVars, online, locks, worldVars, lost, allocated>>
  /\ OperationKeeps

(* removeLocalIdentity up to the record that tells which key to delete.     *)
RemoveLocalIdentity(t, a) ==
  /\ identities[a] # Nothing
  /\ ~state[t].busy /\ ~state[t].identityBusy /\ state[t].pending = Nothing
  /\ ~Active(t, a)
  /\ StartOperation(t, [Operation("removing", a) EXCEPT
       !.victim = identities[a].key])
  /\ Lock(t, a)
  /\ state' = [state EXCEPT ![t].identityBusy = TRUE]
  /\ UNCHANGED <<storeVars, online, worldVars, lost, allocated>>
  /\ OperationKeeps

(* The removal, or an error of the store.  A tab that was signed in with    *)
(* the account is signed out.  The lock of the account is given back; one   *)
(* that the tab holds as the leader of another account stays.               *)
RemoveReturns(t) ==
  LET a == operation[t].account
      signedIn == state[t].session # Nothing /\ state[t].session.account = a
  IN  /\ operation[t].step = "removing"
      /\ \/ /\ RemoveIdentity(a, operation[t].victim)
            /\ MissesKey(a, operation[t].victim)
            /\ state' = [state EXCEPT ![t].identityBusy = FALSE,
                 ![t].session = IF signedIn THEN Nothing ELSE @,
                 ![t].device = IF signedIn THEN Nothing ELSE @]
         \/ /\ state' = [state EXCEPT ![t].identityBusy = FALSE]
            /\ UNCHANGED <<storeVars, lost>>
      /\ operation' = [operation EXCEPT ![t] = NoOperation]
      /\ locks' = [locks EXCEPT ![a] = Nothing]
      /\ UNCHANGED <<online, worldVars, allocated>>
      /\ OperationKeeps

-----------------------------------------------------------------------------
(* publishAndGoOnline: the device, then the first record.                   *)

(* A certificate is valid at most as long as its grant.                     *)
Valid(device) == device.key \notin expired

Account(t) == state[t].session.account

Publish(t) ==
  /\ t \notin online
  /\ state[t].session # Nothing /\ ~state[t].identityBusy
  /\ StartOperation(t, Operation("loading", Account(t)))
  /\ Lock(t, Account(t))
  /\ UNCHANGED <<storeVars, state, online, worldVars, lost, allocated>>
  /\ OperationKeeps

(* A stored device may be used again if it is valid and has its counter.    *)
Reusable(found) ==
  /\ Valid(found.device)
  /\ sequences[found.device.control].kind = "publisher"

(* prepare_device up to the certificate.  The stored device is replaced     *)
(* when it is not reusable, has ended or will soon, or has another id.  A   *)
(* tab that had a device does not go on if the store has lost it.           *)
LoadDevice(t) ==
  LET found == deviceStates[operation[t].account]
  IN  /\ operation[t].step = "loading"
      /\ \/ /\ Opens(operation[t].account, found) /\ Reusable(found)
            /\ state' = [state EXCEPT ![t].device = found.device]
            /\ operation' = [operation EXCEPT ![t].step = "publishing"]
         \/ /\ Opens(operation[t].account, found)
            /\ operation' = [operation EXCEPT ![t].step = "issuing",
                 ![t].old = found.device.control]
            /\ UNCHANGED state
         \/ /\ found = Nothing /\ state[t].device = Nothing
            /\ operation' = [operation EXCEPT ![t].step = "issuing"]
            /\ UNCHANGED state
      /\ UNCHANGED <<storeVars, online, locks, worldVars, lost, allocated>>
      /\ OperationKeeps

(* Variant: a control key that is not in the store any more is used again.  *)
AnyControls(a) == {x \in PublisherKeys : AccountOf[x] = a}

(* Control keys are random: none is ever generated twice.                   *)
FreshControls(a) == One({x \in PublisherKeys \ used : AccountOf[x] = a})

(* issue_device: the grant key of the session signs a new certificate.      *)
IssueDevice(t) ==
  LET a == operation[t].account
  IN  /\ operation[t].step = "issuing"
      /\ state[t].session.key \in grantKeys \ expired
      /\ EnsureEncryptionKey(a)
      /\ \E x \in FreshControls(a) :
           /\ operation' = [operation EXCEPT ![t].step = "storing",
                ![t].device = [control |-> x, key |-> state[t].session.key],
                ![t].sealed = EncryptionKeyOf(a)]
           /\ used' = used \cup {x}
      /\ UNCHANGED <<state, online, locks, expired, lost, allocated>>
      /\ OperationKeeps

StoreDevice(t) ==
  LET op == operation[t]
  IN  /\ op.step = "storing"
      /\ IF op.old = Nothing
           THEN SaveNewDeviceOk(op.account, op.device.control)
           ELSE ReplaceDeviceOk(op.account, op.old, op.device.control)
      /\ SaveDevice(op.account, op.device, op.sealed)
      /\ state' = [state EXCEPT ![t].device = op.device]
      /\ operation' = [operation EXCEPT ![t].step = "publishing"]
      /\ UNCHANGED <<online, locks, worldVars, lost, allocated>>
      /\ OperationKeeps

Allocation(t) == [type |-> "next", key |-> state[t].device.control]

(* What a finished update hands out.                                        *)
Allocates(op) ==
  allocated' =
    IF op.type = "next" /\ Commits(sequences, op)
      THEN [allocated EXCEPT ![op.key] = sequences[op.key].counter + 1]
      ELSE allocated

(* The first record gets its sequence and is published.                     *)
GoOnline(t) ==
  /\ operation[t].step = "publishing"
  /\ Valid(state[t].device)
  /\ Commits(sequences, Allocation(t))
  /\ UpdateSequences(Allocation(t))
  /\ Allocates(Allocation(t))
  /\ online' = online \cup {t}
  /\ operation' = [operation EXCEPT ![t] = NoOperation]
  /\ UNCHANGED <<state, locks, worldVars, lost>>
  /\ OperationKeeps

(* The store, the relay or the homeserver fail: the lock is given back.     *)
PublishFails(t) ==
  /\ operation[t].step \in {"loading", "issuing", "storing", "publishing"}
  /\ operation' = [operation EXCEPT ![t] = NoOperation]
  /\ Unlock(t)
  /\ UNCHANGED <<storeVars, state, online, worldVars, lost, allocated>>
  /\ OperationKeeps

Disconnect(t) ==
  /\ t \in online
  /\ StartOperation(t, NoOperation)
  /\ online' = online \ {t}
  /\ Unlock(t)
  /\ UNCHANGED <<storeVars, state, worldVars, lost, allocated>>
  /\ OperationKeeps

-----------------------------------------------------------------------------
(* The endpoint of an online tab allocates sequences and records floors.    *)

Floors(a) ==
  LET observed == {o \in Observation : AccountOf[o.key] = a}
  IN  [type : {"record"}, batch : {{o} : o \in observed}]

StartCall(t) ==
  /\ t \in online /\ call[t] = Nothing
  /\ \E op \in {Allocation(t)} \cup Floors(Account(t)) :
       call' = [call EXCEPT ![t] = op]
  /\ UNCHANGED <<storeVars, state, auth, operation, cleanup, online, destroyed,
                 locks, worldVars, historyVars>>

(* The transaction is not taken back when the tab goes offline.             *)
FinishCall(t) ==
  /\ call[t] # Nothing
  /\ UpdateSequences(call[t])
  /\ Allocates(call[t])
  /\ call' = [call EXCEPT ![t] = Nothing]
  /\ UNCHANGED <<state, auth, operation, cleanup, online, destroyed,
                 locks, worldVars, abandoned, purged, lost>>

-----------------------------------------------------------------------------
(* The end of a tab, and time.                                              *)

(* destroy: what is still suspended goes on without the package.            *)
Destroy(t) ==
  /\ StartOperation(t, NoOperation)
  /\ CancelState(t)
  /\ online' = online \ {t}
  /\ destroyed' = destroyed \cup {t}
  /\ Unlock(t)
  /\ UNCHANGED <<storeVars, auth, call, worldVars, purged, lost, allocated>>

(* The tab is closed or crashes, and opened again: everything in it is gone *)
(* and its locks are free, but the store stays as it is.                    *)
Reopen(t) ==
  /\ state' = [state EXCEPT ![t] = NewState]
  /\ auth' = [auth EXCEPT ![t] = NoAuth]
  /\ operation' = [operation EXCEPT ![t] = NoOperation]
  /\ cleanup' = [cleanup EXCEPT ![t] = {}]
  /\ call' = [call EXCEPT ![t] = Nothing]
  /\ online' = online \ {t}
  /\ destroyed' = destroyed \ {t}
  /\ Unlock(t)
  /\ abandoned' = [abandoned EXCEPT ![t] = FALSE]
  /\ lost' = lost \cup cleanup[t] \cup
       ({auth[t].key, SessionKey(t)} \ (IdentityKeys \cup {Nothing}))
  /\ UNCHANGED <<storeVars, worldVars, purged, allocated>>

(* A stored grant expires.                                                  *)
ExpireGrant(k) ==
  /\ \E a \in Accounts : identities[a] # Nothing /\ identities[a].key = k
  /\ k \notin expired
  /\ expired' = expired \cup {k}
  /\ UNCHANGED <<storeVars, tabVars, used, historyVars>>

-----------------------------------------------------------------------------
(* What goes on in a tab without anybody calling.                           *)
AuthTask(t) ==
  \/ StoreGrantKey(t)
  \/ BeginReturns(t)
  \/ Discard(t)
  \/ CompleteAuth(t)
  \/ \E a \in Accounts : Approve(t, a)
  \/ Validate(t)
  \/ Save(t)
  \/ SigningFails(t)
  \/ CompleteReturns(t)
  \/ Erase(t)
  \/ LoadIdentity(t)
  \/ RestoreSession(t)
  \/ RestoreReturns(t)
  \/ RestoreFails(t)

OperationTask(t) ==
  \/ RemoveReturns(t)
  \/ LoadDevice(t)
  \/ IssueDevice(t)
  \/ StoreDevice(t)
  \/ GoOnline(t)
  \/ PublishFails(t)

Call(t) ==
  \/ "signIn" \in Calls[t] /\ BeginAuth(t)
  \/ "restore" \in Calls[t] /\ \E a \in Accounts : RestoreIdentity(t, a)
  \/ "cancel" \in Calls[t] /\ CancelAuth(t)
  \/ "remove" \in Calls[t] /\ \E a \in Accounts : RemoveLocalIdentity(t, a)
  \/ "publish" \in Calls[t] /\ Publish(t)
  \/ "disconnect" \in Calls[t] /\ Disconnect(t)
  \/ "destroy" \in Calls[t] /\ Destroy(t)
  \/ "reopen" \in Calls[t] /\ Reopen(t)

Next ==
  \/ \E t \in Tabs : Call(t)
  \/ \E t \in Tabs : AuthTask(t) \/ OperationTask(t) \/ CleanUp(t)
  \/ \E t \in Tabs : StartCall(t) \/ FinishCall(t)
  \/ \E k \in GrantKeys : ExpireGrant(k)

Spec == Init /\ [][Next]_vars

-----------------------------------------------------------------------------
(* Properties.                                                              *)

TypeOK ==
  /\ StoreTypeOK
  /\ state \in [Tabs ->
       [busy : BOOLEAN, epoch : 0..MaxEpoch, identityBusy : BOOLEAN,
        pending : PendingAuth \cup {Nothing},
        session : Session \cup {Nothing}, device : Device \cup {Nothing}]]
  /\ auth \in [Tabs ->
       [step : Signing \cup Restoring \cup {"idle"},
        key : GrantKeys \cup {Nothing}, epoch : 0..MaxEpoch,
        account : Accounts \cup {Nothing},
        sealed : EncryptionKeys \cup {Nothing},
        victim : GrantKeys \cup {Nothing}]]
  /\ operation \in [Tabs ->
       [step : {"none", "removing", "loading", "issuing", "storing",
                "publishing"},
        account : Accounts \cup {Nothing}, victim : GrantKeys \cup {Nothing},
        old : PublisherKeys \cup {Nothing}, device : Device \cup {Nothing},
        sealed : EncryptionKeys \cup {Nothing}]]
  /\ cleanup \in [Tabs -> SUBSET GrantKeys]
  /\ call \in [Tabs -> Ops \cup {Nothing}]
  /\ {online, destroyed} \subseteq SUBSET Tabs
  /\ locks \in [Accounts -> Tabs \cup {Nothing}]
  /\ used \subseteq GrantKeys \cup PublisherKeys
  /\ expired \subseteq GrantKeys
  /\ abandoned \in [Tabs -> BOOLEAN]
  /\ purged \subseteq Accounts
  /\ lost \subseteq GrantKeys
  /\ allocated \in [PublisherKeys -> 0..MaxCounter]

(* Whatever complete_auth and restore_identity were waiting for when        *)
(* cancel_auth or destroy came, they do not sign the tab in afterwards.     *)
CancelledAuthIsNotInstalled ==
  [][\A t \in Tabs :
       state'[t].session # Nothing /\ state[t].session = Nothing
         => ~abandoned[t] /\ t \notin destroyed]_vars

(* A tab that is online with a valid device is alone with its account, and  *)
(* nothing that another tab does takes away what it runs on: the device,    *)
(* which can be opened, its counter and the grant key.  An account that a   *)
(* cancelled complete_auth erased is excepted: that removal takes no lock.  *)
(* So is a grant key that a removal missed, or whose identity was to be     *)
(* removed again when the store failed: the cancelled sign-in that saved it *)
(* deletes it.                                                              *)
OnlineKeepsItsDevice ==
  \A t \in online :
    LET a == Account(t)
        device == state[t].device
    IN  /\ \A u \in online : Account(u) = a => u = t
        /\ Valid(device) /\ a \notin purged =>
             /\ Opens(a, deviceStates[a])
             /\ deviceStates[a].device = device
             /\ device.key \in grantKeys \cup lost
             /\ sequences[device.control].kind = "publisher"

(* A stored device always has its publisher counter, across rotations,      *)
(* removals and closed tabs.                                                *)
DevicesHaveCounters ==
  \A a \in Accounts : deviceStates[a] # Nothing =>
    sequences[deviceStates[a].device.control].kind = "publisher"

(* A counter of the store never stands below a sequence that was handed out *)
(* for its control key: after a removal the next device has a new key.      *)
CountersNeverRestart ==
  \A x \in PublisherKeys :
    sequences[x] # Missing => sequences[x].counter >= allocated[x]

(* cancel_auth says that it discards any unpublished key: a grant key of no *)
(* identity and no session is stored only while an authorization uses it or *)
(* a tab is about to delete it, however the authorization ended.            *)
NoKeyIsForgotten ==
  \A k \in grantKeys \ (lost \cup IdentityKeys) : \E t \in Tabs :
    \/ k = SessionKey(t)
    \/ k \in cleanup[t]
    \/ auth[t].key = k /\ auth[t].step \in Signing

(* What the package says of destroy(): local identity material is erased    *)
(* only by a removal of the identity.                                       *)
ErasedOnlyByRemoval ==
  [][\A a \in Accounts :
       deviceStates[a] # Nothing /\ deviceStates'[a] = Nothing
         => \E t \in Tabs :
              operation[t].step = "removing" /\ operation[t].account = a]_vars
=============================================================================
