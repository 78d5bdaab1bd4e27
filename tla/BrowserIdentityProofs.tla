------------------------ MODULE BrowserIdentityProofs ------------------------
(***************************************************************************)
(* What the tabs of a browser keep of their accounts, for any number of    *)
(* tabs, accounts and keys and whatever their users call: the invariants   *)
(* of BrowserIdentity and its action property follow from one inductive    *)
(* invariant, DInv.                                                        *)
(***************************************************************************)
EXTENDS BrowserIdentity, SequenceStateProofs, FiniteSetTheorems, TLAPS

(* Steps of an authorization before its key is saved, and after it; those   *)
(* at which its account is known; those of a tab that is going online.      *)
Unsaved == {"created", "discarding", "pending", "approving", "validating", "saving"}
Saved == {"saved", "erasing", "restoring", "restored"}
Named == {"validating", "saving", "loading"} \cup Saved
Going == {"loading", "issuing", "storing", "publishing"}

-----------------------------------------------------------------------------
(* The tabs.                                                                *)

(* An authorization has what its step needs; it is of an earlier epoch if   *)
(* it was cancelled, and a tab that has a session has no authorization.     *)
AuthOk(t) ==
  /\ auth[t].step = "idle" => auth[t] = NoAuth
  /\ auth[t].step \in {"creating", "loading"} => auth[t].key = Nothing
  /\ auth[t].step \in Unsaved \cup Saved => auth[t].key \in GrantKeys
  /\ auth[t].step \in Named => auth[t].account \in Accounts
  /\ auth[t].step = "saving" => auth[t].sealed \in EncryptionKeys
  /\ auth[t].step = "erasing" => auth[t].victim \in GrantKeys
  /\ auth[t].step # "idle" => state[t].session = Nothing
  /\ auth[t].step # "idle" => auth[t].epoch > 0
  /\ auth[t].epoch <= state[t].epoch
  /\ auth[t].step # "idle" /\ Current(t) => ~abandoned[t] /\ t \notin destroyed
  /\ state[t].pending # Nothing =>
       /\ auth[t].step = "pending" /\ Current(t)
       /\ state[t].pending.key = auth[t].key
       /\ state[t].pending.epoch = state[t].epoch

(* The tab has the device that the store has for its account, and the store *)
(* can open it.                                                             *)
RunsOn(t, a) ==
  /\ state[t].device \in Device
  /\ a \notin purged => /\ Opens(a, deviceStates[a])
                        /\ deviceStates[a].device = state[t].device

(* A network operation has the lock of its account.                         *)
OperationOk(t) ==
  LET op == operation[t] IN
    /\ op.step = "none" => op = NoOperation
    /\ op.step # "none" => op.account \in Accounts /\ locks[op.account] = t
    /\ op.step = "removing" => /\ op.victim \in GrantKeys
                               /\ t \in online => Account(t) # op.account
    /\ op.step \in Going => /\ t \notin online
                            /\ state[t].session # Nothing
                            /\ Account(t) = op.account
    /\ op.step = "storing" => /\ op.device \in Device
                              /\ op.sealed \in EncryptionKeys
                              /\ op.account \notin purged =>
                                   encryptionKeys[op.account] = op.sealed
    /\ op.device # Nothing => AccountOf[op.device.control] = op.account
    /\ op.step = "publishing" => RunsOn(t, op.account)

(* A tab that is online has the lock of its account.                        *)
OnlineOk(t) ==
  t \in online => /\ state[t].session # Nothing
                  /\ locks[Account(t)] = t
                  /\ RunsOn(t, Account(t))

(* An endpoint allocates sequences and records floors, nothing else.        *)
CallShape == \A t \in Tabs : call[t] # Nothing => call[t].type \in {"next", "record"}

TabsInv ==
  /\ \A t \in Tabs : AuthOk(t) /\ OperationOk(t) /\ OnlineOk(t)
  /\ CallShape

-----------------------------------------------------------------------------
(* Devices and their counters.                                              *)

DevicesAreTheirs ==
  \A a \in Accounts :
    deviceStates[a] # Nothing => AccountOf[deviceStates[a].device.control] = a

(* A control key is fresh until its device is stored.                       *)
ControlsAreFresh ==
  /\ \A x \in PublisherKeys \ used : allocated[x] = 0 /\ sequences[x] = Missing
  /\ \A t \in Tabs : operation[t].device # Nothing => operation[t].device.control \in used
  /\ \A t, u \in Tabs :
       /\ operation[t].device # Nothing /\ operation[u].device # Nothing
       /\ operation[t].device.control = operation[u].device.control
       => t = u
  /\ \A t \in Tabs : operation[t].step = "storing" =>
       LET x == operation[t].device.control
       IN  allocated[x] = 0 /\ sequences[x] = Missing

CountersInv ==
  DevicesAreTheirs /\ DevicesHaveCounters /\ ControlsAreFresh /\ CountersNeverRestart

-----------------------------------------------------------------------------
(* Grant keys.                                                              *)

(* A key that is, or was, the one of an account's identity: no other        *)
(* account will have it, and it is stored only while it still is, unless a  *)
(* removal missed it.                                                       *)
Tied(k, a) ==
  /\ k \in used
  /\ \A b \in Accounts : identities[b] # Nothing /\ identities[b].key = k => b = a
  /\ \A t \in Tabs : auth[t].step \in Unsaved => auth[t].key # k
  /\ k \in grantKeys \ lost => identities[a] # Nothing /\ identities[a].key = k

(* A key that no identity has, and none will have.                          *)
Dead(k) ==
  /\ k \in used
  /\ k \notin IdentityKeys
  /\ \A t \in Tabs : auth[t].step \in Unsaved /\ auth[t].key = k =>
                       auth[t].step = "pending" /\ state[t].pending = Nothing

(* What every key that somebody knows is.                                   *)
KeysAreKnown ==
  /\ grantKeys \subseteq used
  /\ \A t, u \in Tabs : /\ auth[t].step \in Unsaved /\ auth[u].step \in Unsaved
                        /\ auth[t].key = auth[u].key
                        => t = u
  /\ \A t \in Tabs : auth[t].step \in Unsaved => auth[t].key \in used
  /\ \A t \in Tabs : auth[t].step \in Saved => Tied(auth[t].key, auth[t].account)
  /\ \A t \in Tabs : auth[t].step = "erasing" => Tied(auth[t].victim, auth[t].account)
  /\ \A t \in Tabs : state[t].session # Nothing =>
                       Tied(state[t].session.key, state[t].session.account)
  /\ \A a \in Accounts : identities[a] # Nothing => Tied(identities[a].key, a)
  /\ \A t \in Tabs : operation[t].step = "removing" =>
                       Tied(operation[t].victim, operation[t].account)
  /\ \A t \in Tabs : operation[t].step = "storing" =>
                       Tied(operation[t].device.key, operation[t].account)
  /\ \A a \in Accounts : deviceStates[a] # Nothing => Tied(deviceStates[a].device.key, a)
  /\ \A t \in Tabs : \A k \in cleanup[t] : Dead(k) \/ k \in lost

(* The key of a device that may be used is stored.                          *)
Kept(k, a) == k \in expired \cup lost \cup grantKeys \/ a \in purged

DeviceKeysAreKept ==
  /\ \A a \in Accounts : deviceStates[a] # Nothing => Kept(deviceStates[a].device.key, a)
  /\ \A t \in Tabs : operation[t].step = "storing" =>
                       Kept(operation[t].device.key, operation[t].account)

(* A pending authorization that was cancelled has its key deleted.          *)
CancelledKeyGoes(t) ==
  auth[t].step = "pending" /\ state[t].pending = Nothing =>
    auth[t].key \in cleanup[t] \/ auth[t].key \notin grantKeys

(* The tab has key k in use, or is about to delete it.                      *)
Holds(k, t) ==
  \/ k = SessionKey(t)
  \/ k \in cleanup[t]
  \/ auth[t].key = k /\ auth[t].step \in Signing

KeysInv ==
  /\ KeysAreKnown /\ DeviceKeysAreKept /\ NoKeyIsForgotten
  /\ \A t \in Tabs : CancelledKeyGoes(t)

DInv == TypeOK /\ TabsInv /\ CountersInv /\ KeysInv

-----------------------------------------------------------------------------
(* What a step leaves as it is.                                             *)

(* A tied key stays tied, if no identity gets it.                           *)
LEMMA TiedStays ==
  ASSUME NEW k, NEW a \in Accounts, Tied(k, a), used \subseteq used',
         \A t \in Tabs : auth'[t].step \in Unsaved =>
            \/ auth[t].step \in Unsaved /\ auth'[t].key = auth[t].key
            \/ auth'[t].key \notin used,
         \A b \in Accounts : identities'[b] # Nothing /\ identities'[b].key = k =>
                               identities[b] # Nothing /\ identities[b].key = k,
         k \in grantKeys' \ lost' => /\ k \in grantKeys \ lost
                                     /\ identities'[a] = identities[a]
  PROVE  Tied(k, a)'
BY DEF Tied

(* A dead key stays dead.                                                   *)
LEMMA DeadStays ==
  ASSUME NEW k, Dead(k), used \subseteq used',
         \A b \in Accounts : identities'[b] # Nothing /\ identities'[b].key = k =>
                               identities[b] # Nothing /\ identities[b].key = k,
         \A t \in Tabs : auth'[t].step \in Unsaved /\ auth'[t].key \in used =>
            /\ auth[t].step \in Unsaved /\ auth'[t].key = auth[t].key
            /\ auth[t].step = "pending" /\ state[t].pending = Nothing =>
                 auth'[t].step = "pending" /\ state'[t].pending = Nothing
  PROVE  Dead(k)'
<1>1. k \notin IdentityKeys'
  <2>. SUFFICES ASSUME k \in IdentityKeys' PROVE FALSE
    OBVIOUS
  <2>1. PICK b \in Accounts : identities'[b] # Nothing /\ identities'[b].key = k
    BY DEF IdentityKeys
  <2>. QED BY <2>1 DEF Dead, IdentityKeys
<1>. QED BY <1>1 DEF Dead

(* The network operation of a tab and its endpoint go on, whatever happens  *)
(* to accounts that the tab has not locked.                                 *)
LEMMA NetworkStays ==
  ASSUME NEW t \in Tabs, OperationOk(t), OnlineOk(t), TypeOK,
         operation'[t] = operation[t], t \in online' <=> t \in online,
         state'[t].session = state[t].session \/ state[t].session = Nothing,
         state'[t].device = state[t].device,
         \A a \in Accounts : locks[a] = t =>
            /\ locks'[a] = t
            /\ a \notin purged' =>
                 /\ a \notin purged /\ deviceStates'[a] = deviceStates[a]
                 /\ encryptionKeys[a] # Nothing => encryptionKeys'[a] = encryptionKeys[a]
  PROVE  OperationOk(t)' /\ OnlineOk(t)'
<1>0. Nothing \notin EncryptionKeys /\ Nothing \notin DeviceState
  BY StoreAssumption, NothingIsNoRecord DEF EncryptionKeys
<1>1. \A a \in Accounts : locks[a] = t /\ RunsOn(t, a) => RunsOn(t, a)'
  <2>. SUFFICES ASSUME NEW a \in Accounts, locks[a] = t, RunsOn(t, a), a \notin purged'
                PROVE  Opens(a, deviceStates[a])' /\ deviceStates'[a].device = state'[t].device
    BY DEF RunsOn
  <2>1. deviceStates[a] # Nothing /\ deviceStates[a] \in DeviceState
    BY DEF RunsOn, Opens, TypeOK, StoreTypeOK
  <2>. QED BY <1>0, <2>1 DEF RunsOn, Opens, DeviceState
<1>2. OnlineOk(t)'
  <2>1. t \in online => state[t].session.account \in Accounts
    BY NothingIsNoSession DEF OnlineOk, TypeOK, Session
  <2>. QED BY <1>1, <2>1 DEF OnlineOk, Account
<1>3. OperationOk(t)'
  <2>1. operation[t].step = "storing" /\ operation[t].account \notin purged' =>
          encryptionKeys'[operation[t].account] = operation[t].sealed
    BY <1>0 DEF OperationOk
  <2>2. t \in online => state'[t].session = state[t].session
    BY DEF OnlineOk
  <2>3. operation[t].step \in Going => state'[t].session = state[t].session
    BY DEF OperationOk
  <2>4. operation[t].step = "publishing" => RunsOn(t, operation[t].account)'
    BY <1>1 DEF OperationOk
  <2>5. operation[t].step # "none" => locks'[operation[t].account] = t
    BY DEF OperationOk
  <2>. QED BY <2>1, <2>2, <2>3, <2>4, <2>5 DEF OperationOk, Account
<1>. QED BY <1>2, <1>3

(* Steps that store no device and update no sequences keep the counters.    *)
LEMMA CountersStay ==
  ASSUME CountersInv, UNCHANGED <<deviceStates, sequences, allocated>>,
         used \subseteq used',
         \A t \in Tabs :
            /\ operation'[t].device \in {operation[t].device, Nothing}
            /\ operation'[t].step = "storing" =>
                 operation[t].step = "storing" /\ operation'[t].device = operation[t].device
  PROVE  CountersInv'
<1>1. DevicesAreTheirs' /\ DevicesHaveCounters' /\ CountersNeverRestart'
  BY DEF CountersInv, DevicesAreTheirs, DevicesHaveCounters, CountersNeverRestart
<1>2. ControlsAreFresh'
  BY DEF CountersInv, ControlsAreFresh
<1>. QED BY <1>1, <1>2 DEF CountersInv

(* Steps that store no key, no identity and no device keep what is known of *)
(* the keys, as long as a key that a tab takes over is tied to its account  *)
(* and one that it gives up is dead.                                        *)
LEMMA KnownStays ==
  ASSUME KeysAreKnown, TypeOK, TypeOK', TabsInv', grantKeys' \subseteq grantKeys,
         UNCHANGED <<identities, used>>, lost \subseteq lost',
         \A t \in Tabs :
            /\ auth'[t].step \in Unsaved =>
                 /\ auth[t].step \in Unsaved /\ auth'[t].key = auth[t].key
                 /\ auth[t].step = "pending" /\ state[t].pending = Nothing =>
                      auth'[t].step = "pending" /\ state'[t].pending = Nothing
            /\ auth'[t].step \in Saved => Tied(auth'[t].key, auth'[t].account)
            /\ auth'[t].step = "erasing" => Tied(auth'[t].victim, auth'[t].account)
            /\ state'[t].session # Nothing =>
                 Tied(state'[t].session.key, state'[t].session.account)
            /\ operation'[t].step = "removing" =>
                 Tied(operation'[t].victim, operation'[t].account)
            /\ operation'[t].step = "storing" =>
                 Tied(operation'[t].device.key, operation'[t].account)
            /\ \A k \in cleanup'[t] : k \in cleanup[t] \/ Dead(k)' \/ k \in lost',
         \A a \in Accounts : deviceStates'[a] # Nothing =>
            Tied(deviceStates'[a].device.key, a)
  PROVE  KeysAreKnown'
<1>1. ASSUME NEW k, NEW a \in Accounts, Tied(k, a) PROVE Tied(k, a)'
  BY <1>1, TiedStays
<1>2. ASSUME NEW k, Dead(k) PROVE Dead(k)'
  BY <1>2, DeadStays
<1>3. \A t \in Tabs :
        /\ auth'[t].step \in Saved => Tied(auth[t].key, auth[t].account)'
        /\ auth'[t].step = "erasing" => Tied(auth[t].victim, auth[t].account)'
        /\ operation'[t].step = "removing" => Tied(operation[t].victim, operation[t].account)'
        /\ operation'[t].step = "storing" => Tied(operation[t].device.key, operation[t].account)'
  BY <1>1 DEF TabsInv, AuthOk, OperationOk, Named, Saved
<1>4. \A t \in Tabs : state'[t].session # Nothing =>
                        Tied(state[t].session.key, state[t].session.account)'
  BY <1>1, NothingIsNoSession DEF TypeOK, Session
<1>5. \A a \in Accounts : /\ identities'[a] # Nothing => Tied(identities[a].key, a)'
                          /\ deviceStates'[a] # Nothing => Tied(deviceStates[a].device.key, a)'
  BY <1>1 DEF KeysAreKnown
<1>6. \A t \in Tabs : \A k \in cleanup'[t] : Dead(k)' \/ k \in lost'
  BY <1>2 DEF KeysAreKnown
<1>7. /\ grantKeys' \subseteq used'
      /\ \A t, u \in Tabs : /\ auth'[t].step \in Unsaved /\ auth'[u].step \in Unsaved
                            /\ auth'[t].key = auth'[u].key
                            => t = u
      /\ \A t \in Tabs : auth'[t].step \in Unsaved => auth'[t].key \in used'
  BY DEF KeysAreKnown
<1>. QED BY <1>3, <1>4, <1>5, <1>6, <1>7 DEF KeysAreKnown

(* A key that a tab holds on to is not forgotten.                           *)
LEMMA NoneForgotten ==
  ASSUME NoKeyIsForgotten, grantKeys' \subseteq grantKeys, lost \subseteq lost',
         UNCHANGED identities,
         \A t \in Tabs : \A k \in grantKeys' :
            Holds(k, t) => Holds(k, t)' \/ k \in lost' \cup IdentityKeys
  PROVE  NoKeyIsForgotten'
<1>1. IdentityKeys' = IdentityKeys
  BY DEF IdentityKeys
<1>2. ASSUME NEW k \in grantKeys' \ (lost' \cup IdentityKeys')
      PROVE  \E t \in Tabs : Holds(k, t)'
  <2>1. PICK t \in Tabs : Holds(k, t)
    BY <1>1 DEF NoKeyIsForgotten, Holds
  <2>2. k \in grantKeys' /\ k \notin lost' \cup IdentityKeys
    BY <1>1
  <2>3. Holds(k, t)' \/ k \in lost' \cup IdentityKeys
    BY <2>1, <2>2
  <2>. QED BY <2>2, <2>3
<1>. QED BY <1>2 DEF NoKeyIsForgotten, Holds

-----------------------------------------------------------------------------
(* Authorizations.                                                          *)

(* What a tab keeps, as TypeOK has it.                                      *)
TabState ==
  [busy : BOOLEAN, epoch : 0..MaxEpoch, identityBusy : BOOLEAN,
   pending : PendingAuth \cup {Nothing},
   session : Session \cup {Nothing}, device : Device \cup {Nothing}]

TabAuth ==
  [step : Signing \cup Restoring \cup {"idle"},
   key : GrantKeys \cup {Nothing}, epoch : 0..MaxEpoch,
   account : Accounts \cup {Nothing},
   sealed : EncryptionKeys \cup {Nothing},
   victim : GrantKeys \cup {Nothing}]

TabOperation ==
  [step : {"none", "removing", "loading", "issuing", "storing", "publishing"},
   account : Accounts \cup {Nothing}, victim : GrantKeys \cup {Nothing},
   old : PublisherKeys \cup {Nothing}, device : Device \cup {Nothing},
   sealed : EncryptionKeys \cup {Nothing}]

(* A tab that was just opened has its type.                                 *)
LEMMA NewTabType == /\ NoAuth \in TabAuth /\ NoOperation \in TabOperation
                    /\ NewState \in TabState
BY TabAssumption DEF NoAuth, NoOperation, NewState, TabAuth, TabOperation, TabState

(* A tab has its type.                                                      *)
LEMMA TabTypes ==
  ASSUME TypeOK
  PROVE  /\ state \in [Tabs -> TabState] /\ auth \in [Tabs -> TabAuth]
         /\ operation \in [Tabs -> TabOperation]
BY DEF TypeOK, TabState, TabAuth, TabOperation

(* A step that stores no key, no identity, no device and no sequence.       *)
LEMMA TabMoves ==
  ASSUME DInv, TypeOK', TabsInv', expired \subseteq expired',
         UNCHANGED <<grantKeys, identities, deviceStates, sequences, used, purged, allocated>>,
         lost \subseteq lost',
         \A t \in Tabs :
            /\ operation'[t].device \in {operation[t].device, Nothing}
            /\ operation'[t].step = "storing" =>
                 /\ operation[t].step = "storing"
                 /\ operation'[t].device = operation[t].device
                 /\ operation'[t].account = operation[t].account,
         \A t \in Tabs :
            /\ auth'[t].step \in Unsaved =>
                 /\ auth[t].step \in Unsaved /\ auth'[t].key = auth[t].key
                 /\ auth[t].step = "pending" /\ state[t].pending = Nothing =>
                      auth'[t].step = "pending" /\ state'[t].pending = Nothing
            /\ auth'[t].step \in Saved => Tied(auth'[t].key, auth'[t].account)
            /\ auth'[t].step = "erasing" => Tied(auth'[t].victim, auth'[t].account)
            /\ state'[t].session # Nothing =>
                 Tied(state'[t].session.key, state'[t].session.account)
            /\ operation'[t].step = "removing" =>
                 Tied(operation'[t].victim, operation'[t].account)
            /\ \A k \in cleanup'[t] : k \in cleanup[t] \/ Dead(k)' \/ k \in lost',
         \A t \in Tabs : CancelledKeyGoes(t)',
         \A t \in Tabs : \A k \in grantKeys :
            Holds(k, t) => Holds(k, t)' \/ k \in lost' \cup IdentityKeys
  PROVE  DInv'
<1>1. CountersInv'
  BY CountersStay DEF DInv
<1>2. KeysAreKnown'
  <2>1. KeysAreKnown /\ TypeOK
    BY DEF DInv, KeysInv
  <2>2. \A t \in Tabs : operation'[t].step = "storing" =>
          Tied(operation'[t].device.key, operation'[t].account)
    BY <2>1 DEF KeysAreKnown
  <2>3. \A a \in Accounts : deviceStates'[a] # Nothing =>
          Tied(deviceStates'[a].device.key, a)
    BY <2>1 DEF KeysAreKnown
  <2>. QED BY <2>1, <2>2, <2>3, KnownStays
<1>3. DeviceKeysAreKept'
  BY DEF DInv, KeysInv, DeviceKeysAreKept, Kept
<1>4. NoKeyIsForgotten'
  BY NoneForgotten DEF DInv, KeysInv
<1>. QED BY <1>1, <1>2, <1>3, <1>4 DEF DInv, KeysInv

(* A step of the authorization of tab t that stores nothing but a new       *)
(* encryption key.                                                          *)
LEMMA AuthMoves ==
  ASSUME DInv, NEW t \in Tabs, TypeOK',
         UNCHANGED <<grantKeys, identities, deviceStates, sequences, operation, call,
                     online, destroyed, locks, used, expired, purged, allocated>>,
         lost \subseteq lost',
         \A a \in Accounts : encryptionKeys[a] # Nothing =>
                               encryptionKeys'[a] = encryptionKeys[a],
         \A u \in Tabs \ {t} :
            /\ state'[u] = state[u] /\ auth'[u] = auth[u]
            /\ cleanup'[u] = cleanup[u] /\ abandoned'[u] = abandoned[u],
         AuthOk(t)', CancelledKeyGoes(t)',
         state'[t].device = state[t].device,
         state'[t].session = state[t].session \/ state[t].session = Nothing,
         auth'[t].step \in Unsaved =>
            /\ auth[t].step \in Unsaved /\ auth'[t].key = auth[t].key
            /\ auth[t].step = "pending" /\ state[t].pending = Nothing =>
                 auth'[t].step = "pending" /\ state'[t].pending = Nothing,
         auth'[t].step \in Saved => Tied(auth'[t].key, auth'[t].account),
         auth'[t].step = "erasing" => Tied(auth'[t].victim, auth'[t].account),
         state'[t].session # Nothing =>
            Tied(state'[t].session.key, state'[t].session.account),
         \A k \in cleanup'[t] : k \in cleanup[t] \/ Dead(k)' \/ k \in lost',
         \A k \in grantKeys : Holds(k, t) => Holds(k, t)'
  PROVE  DInv'
<1>1. TabsInv'
  <2>1. ASSUME NEW u \in Tabs \ {t} PROVE AuthOk(u)'
    BY <2>1 DEF DInv, TabsInv, AuthOk, Current
  <2>2. ASSUME NEW u \in Tabs PROVE OperationOk(u)' /\ OnlineOk(u)'
    <3>1. /\ state'[u].session = state[u].session \/ state[u].session = Nothing
          /\ state'[u].device = state[u].device
      OBVIOUS
    <3>. QED BY <2>2, <3>1, NetworkStays DEF DInv, TabsInv
  <2>3. CallShape'
    BY DEF DInv, TabsInv, CallShape
  <2>. QED BY <2>1, <2>2, <2>3 DEF TabsInv
<1>2. \A u \in Tabs :
        /\ auth'[u].step \in Unsaved =>
             /\ auth[u].step \in Unsaved /\ auth'[u].key = auth[u].key
             /\ auth[u].step = "pending" /\ state[u].pending = Nothing =>
                  auth'[u].step = "pending" /\ state'[u].pending = Nothing
        /\ auth'[u].step \in Saved => Tied(auth'[u].key, auth'[u].account)
        /\ auth'[u].step = "erasing" => Tied(auth'[u].victim, auth'[u].account)
        /\ state'[u].session # Nothing =>
             Tied(state'[u].session.key, state'[u].session.account)
        /\ operation'[u].step = "removing" =>
             Tied(operation'[u].victim, operation'[u].account)
        /\ \A k \in cleanup'[u] : k \in cleanup[u] \/ Dead(k)' \/ k \in lost'
  BY DEF DInv, KeysInv, KeysAreKnown
<1>3. \A u \in Tabs : \A k \in grantKeys : Holds(k, u) => Holds(k, u)'
  BY DEF Holds, SessionKey
<1>4. \A u \in Tabs : CancelledKeyGoes(u)'
  BY DEF DInv, KeysInv, CancelledKeyGoes
<1>. QED BY <1>1, <1>2, <1>3, <1>4, TabMoves

(* An authorization that fails: its key, if it has one, is dead, or is lost *)
(* with the identity that still has it.                                     *)
LEMMA FailMoves ==
  ASSUME DInv, NEW t \in Tabs, AuthFails(t), auth[t].step \notin {"idle", "pending"},
         auth[t].step \in Saved \cap Signing =>
            auth[t].key \notin IdentityKeys \/ auth[t].key \in lost',
         lost \subseteq lost', lost' \ lost \subseteq GrantKeys,
         UNCHANGED <<storeVars, used, purged>>, AuthKeeps
  PROVE  DInv'
<1>0. PICK k : k = auth[t].key
  OBVIOUS
<1>1. TypeOK'
  <2>1. state' \in [Tabs -> TabState]
    BY TabTypes, ZenonT(30) DEF DInv, TabState, AuthFails
  <2>2. auth' \in [Tabs -> TabAuth]
    BY TabTypes, NewTabType DEF DInv, AuthFails
  <2>3. cleanup' \in [Tabs -> SUBSET GrantKeys]
    BY DEF DInv, TypeOK, AuthFails
  <2>. QED BY <2>1, <2>2, <2>3 DEF DInv, TypeOK, StoreTypeOK, TabState, TabAuth,
                                   AuthKeeps, storeVars
<1>2. /\ auth'[t] = NoAuth
      /\ cleanup'[t] = IF auth[t].step \in Signing
                         THEN cleanup[t] \cup ({k} \ {Nothing}) ELSE cleanup[t]
      /\ \A u \in Tabs \ {t} : /\ state'[u] = state[u] /\ auth'[u] = auth[u]
                               /\ cleanup'[u] = cleanup[u]
  BY <1>0 DEF DInv, TypeOK, AuthFails
<1>3. NoAuth.step = "idle" /\ NoAuth.key = Nothing /\ NoAuth.epoch = 0
  BY DEF NoAuth
<1>4. /\ state'[t].pending = state[t].pending /\ state'[t].session = state[t].session
      /\ state'[t].device = state[t].device /\ state'[t].epoch = state[t].epoch
  BY DEF DInv, TypeOK, AuthFails
<1>5. AuthOk(t)'
  <2>1. state[t].pending = Nothing /\ state[t].epoch \in Nat
    BY DEF DInv, TypeOK, TabsInv, AuthOk
  <2>. QED BY <1>2, <1>3, <1>4, <2>1
    DEF AuthOk, Current, Named, Unsaved, Saved
<1>6. ASSUME auth[t].step \in Signing, k # Nothing, k \notin lost' PROVE Dead(k)'
  <2>1. k \in GrantKeys /\ auth[t].step \in Unsaved \cup Saved
    BY <1>0, <1>6 DEF DInv, TypeOK, TabsInv, AuthOk, Signing, Unsaved, Saved
  <2>2. KeysAreKnown
    BY DEF DInv, KeysInv
  <2>3. k \in used
    BY <1>0, <2>1, <2>2 DEF KeysAreKnown, Tied
  <2>4. k \notin IdentityKeys
    <3>2. CASE auth[t].step \in Unsaved
      <4>. SUFFICES ASSUME NEW b \in Accounts, identities[b] # Nothing, identities[b].key = k
                    PROVE  FALSE
        BY DEF IdentityKeys
      <4>1. Tied(k, b)
        BY <2>2 DEF KeysAreKnown
      <4>. QED BY <1>0, <3>2, <4>1 DEF Tied
    <3>3. CASE auth[t].step \in Saved
      BY <1>0, <1>6, <3>3
    <3>. QED BY <2>1, <3>2, <3>3
  <2>5. \A u \in Tabs : auth'[u].step \in Unsaved => auth'[u].key # k
    <3>. SUFFICES ASSUME NEW u \in Tabs, auth'[u].step \in Unsaved, auth'[u].key = k
                  PROVE  FALSE
      OBVIOUS
    <3>1. u # t
      BY <1>2, <1>3 DEF Unsaved
    <3>2. auth[u].step \in Unsaved /\ auth[u].key = k
      BY <1>2, <3>1
    <3>3. auth[t].step \in Saved
      BY <1>0, <2>1, <2>2, <3>1, <3>2 DEF KeysAreKnown
    <3>4. Tied(k, auth[t].account)
      BY <1>0, <2>2, <3>3 DEF KeysAreKnown
    <3>. QED BY <3>2, <3>4 DEF Tied
  <2>. QED BY <2>3, <2>4, <2>5 DEF Dead, IdentityKeys, storeVars
<1>7. \A j \in cleanup'[t] : j \in cleanup[t] \/ Dead(j)' \/ j \in lost'
  BY <1>2, <1>6
<1>8. \A j \in grantKeys : Holds(j, t) => Holds(j, t)'
  <2>1. \A j \in grantKeys : j # Nothing
    BY StoreAssumption DEF DInv, TypeOK, StoreTypeOK
  <2>. QED BY <1>0, <1>2, <1>3, <1>4, <2>1 DEF Holds, SessionKey
<1>9. CancelledKeyGoes(t)'
  BY <1>2, <1>3 DEF CancelledKeyGoes
<1>10. /\ auth'[t].step \notin Unsaved /\ auth'[t].step \notin Saved
       /\ auth'[t].step # "erasing"
  BY <1>2, <1>3 DEF Unsaved, Saved
<1>11. state'[t].session # Nothing =>
         Tied(state'[t].session.key, state'[t].session.account)
  BY <1>4 DEF DInv, KeysInv, KeysAreKnown
<1>12. abandoned' = abandoned /\ encryptionKeys' = encryptionKeys
  BY DEF AuthKeeps, storeVars
<1>. QED BY <1>1, <1>2, <1>4, <1>5, <1>7, <1>8, <1>9, <1>10, <1>11, <1>12, AuthMoves
  DEF AuthKeeps, storeVars

(* A step that stores nothing but an encryption key keeps the types of the  *)
(* store.                                                                   *)
LEMMA AuthTypes ==
  ASSUME TypeOK, state' \in [Tabs -> TabState], auth' \in [Tabs -> TabAuth],
         cleanup' \in [Tabs -> SUBSET GrantKeys], abandoned' \in [Tabs -> BOOLEAN],
         UNCHANGED <<storeVars, operation, call, online, destroyed, locks, used, expired,
                     purged, lost, allocated>>
  PROVE  TypeOK'
BY DEF TypeOK, StoreTypeOK, TabState, TabAuth, storeVars

(* begin_auth and restore_identity start with nothing in hand.              *)
LEMMA StartAuthStep ==
  ASSUME DInv, NEW t \in Tabs, NEW step, NEW a, StartAuth(t, step, a),
         \/ step = "creating" /\ a = Nothing
         \/ step = "loading" /\ a \in Accounts
  PROVE  DInv'
<1> DEFINE new == [NoAuth EXCEPT !.step = step, !.epoch = state[t].epoch + 1, !.account = a]
<1>0. /\ state \in [Tabs -> TabState] /\ auth \in [Tabs -> TabAuth] /\ TypeOK
      /\ state[t].epoch \in 0..MaxEpoch
  BY TabTypes DEF DInv, TabState
<1>1. /\ MayAuthorize(t)
      /\ state' = [state EXCEPT ![t].busy = TRUE, ![t].epoch = @ + 1]
      /\ auth' = [auth EXCEPT ![t] = new]
      /\ abandoned' = [abandoned EXCEPT ![t] = FALSE]
      /\ UNCHANGED <<storeVars, operation, cleanup, call, online, destroyed,
                     locks, used, expired, purged, lost, allocated>>
  BY DEF StartAuth, worldVars
<1>2. /\ new.step = step /\ new.key = Nothing /\ new.epoch = state[t].epoch + 1
      /\ new.account = a /\ new.sealed = Nothing /\ new.victim = Nothing
      /\ new \in TabAuth
  <2>1. state[t].epoch + 1 \in 0..MaxEpoch
    BY <1>0, <1>1, TabAssumption DEF MayAuthorize
  <2>. QED BY <2>1 DEF NoAuth, TabAuth, Signing, Restoring
<1>. HIDE DEF new
<1>3. /\ auth'[t] = new /\ abandoned'[t] = FALSE
      /\ state'[t].pending = Nothing /\ state'[t].session = Nothing
      /\ state'[t].device = state[t].device /\ state'[t].epoch = state[t].epoch + 1
      /\ state[t].session = Nothing /\ auth[t] = NoAuth /\ t \notin destroyed
      /\ \A u \in Tabs \ {t} : /\ state'[u] = state[u] /\ auth'[u] = auth[u]
                               /\ abandoned'[u] = abandoned[u]
  BY <1>0, <1>1 DEF MayAuthorize, TabState, TypeOK
<1>4. TypeOK'
  <2>1. state' \in [Tabs -> TabState]
    BY <1>0, <1>1, TabAssumption DEF TabState, MayAuthorize
  <2>2. auth' \in [Tabs -> TabAuth] /\ abandoned' \in [Tabs -> BOOLEAN]
    BY <1>0, <1>1, <1>2 DEF TypeOK
  <2>3. cleanup' \in [Tabs -> SUBSET GrantKeys]
    BY <1>0, <1>1 DEF TypeOK
  <2>. QED BY <1>0, <1>1, <2>1, <2>2, <2>3, AuthTypes
<1>5. new.step \notin Unsaved \cup Saved \cup (Signing \ {"creating"})
  BY <1>2 DEF Unsaved, Saved, Signing
<1>6. AuthOk(t)'
  BY <1>0, <1>1, <1>2, <1>3, <1>5 DEF AuthOk, Current, Named, Saved
<1>7. CancelledKeyGoes(t)'
  BY <1>2, <1>3 DEF CancelledKeyGoes
<1>8. \A k \in grantKeys : Holds(k, t) => Holds(k, t)'
  <2>1. \A k \in grantKeys : k # Nothing
    BY StoreAssumption DEF DInv, TypeOK, StoreTypeOK
  <2>2. NoAuth.step \notin Signing
    BY DEF NoAuth, Signing
  <2>. QED BY <1>1, <1>3, <2>1, <2>2 DEF Holds, SessionKey
<1>9. new.step \notin Saved /\ new.step \notin Unsaved /\ new.step # "erasing"
  BY <1>2 DEF Unsaved, Saved
<1>. QED BY <1>1, <1>3, <1>4, <1>6, <1>7, <1>8, <1>9, AuthMoves DEF storeVars

(* An authorization that goes on, with its key and its state as they were.  *)
LEMMA AuthGoesOn ==
  ASSUME DInv, NEW t \in Tabs, NEW new \in TabAuth, auth' = [auth EXCEPT ![t] = new],
         auth[t].step \notin {"idle", "pending"}, new.step \notin {"idle", "pending"},
         new.epoch = auth[t].epoch,
         new.step \in {"creating", "loading"} => new.key = Nothing,
         new.step \in Unsaved \cup Saved => new.key \in GrantKeys,
         new.step \in Named => new.account \in Accounts,
         new.step = "saving" => new.sealed \in EncryptionKeys,
         new.step = "erasing" => new.victim \in GrantKeys /\ Tied(new.victim, new.account),
         new.step \in Unsaved => auth[t].step \in Unsaved /\ new.key = auth[t].key,
         new.step \in Saved => Tied(new.key, new.account),
         auth[t].step \in Signing => new.step \in Signing /\ new.key = auth[t].key,
         \A a \in Accounts : encryptionKeys[a] # Nothing =>
                               encryptionKeys'[a] = encryptionKeys[a],
         encryptionKeys' \in [Accounts -> EncryptionKeys \cup {Nothing}],
         generated' \in 0..MaxGenerated,
         UNCHANGED <<grantKeys, identities, deviceStates, sequences, state, cleanup, used,
                     purged, lost>>,
         AuthKeeps
  PROVE  DInv'
<1>0. /\ auth \in [Tabs -> TabAuth] /\ TypeOK /\ AuthOk(t)
  BY TabTypes DEF DInv, TabsInv
<1>1. /\ auth'[t] = new /\ \A u \in Tabs \ {t} : auth'[u] = auth[u]
      /\ auth' \in [Tabs -> TabAuth]
  BY <1>0
<1>2. TypeOK'
  BY <1>0, <1>1 DEF TypeOK, StoreTypeOK, TabAuth, AuthKeeps
<1>3. AuthOk(t)'
  BY <1>0, <1>1 DEF AuthOk, Current, AuthKeeps
<1>4. CancelledKeyGoes(t)'
  BY <1>1 DEF CancelledKeyGoes
<1>5. \A k \in grantKeys : Holds(k, t) => Holds(k, t)'
  BY <1>1 DEF Holds, SessionKey
<1>6. state'[t].session # Nothing =>
        Tied(state'[t].session.key, state'[t].session.account)
  BY DEF DInv, KeysInv, KeysAreKnown
<1>. QED BY <1>1, <1>2, <1>3, <1>4, <1>5, <1>6, AuthMoves DEF AuthKeeps

(* ensureEncryptionKey replaces no key.                                     *)
LEMMA Ensured ==
  ASSUME TypeOK, NEW a \in Accounts, EnsureEncryptionKey(a)
  PROVE  /\ EncryptionKeyOf(a) \in EncryptionKeys
         /\ encryptionKeys' \in [Accounts -> EncryptionKeys \cup {Nothing}]
         /\ encryptionKeys'[a] = EncryptionKeyOf(a)
         /\ \A b \in Accounts : encryptionKeys[b] # Nothing =>
                                  encryptionKeys'[b] = encryptionKeys[b]
         /\ generated' \in 0..MaxGenerated
         /\ UNCHANGED <<grantKeys, identities, deviceStates, sequences>>
<1>1. generated \in 0..MaxGenerated /\ MaxGenerated \in Nat
  BY StoreAssumption DEF TypeOK, StoreTypeOK
<1>2. generated' \in 0..MaxGenerated
  BY <1>1 DEF EnsureEncryptionKey, EncryptionKeyOf, EncryptionKeys
<1>3. encryptionKeys \in [Accounts -> EncryptionKeys \cup {Nothing}]
  BY DEF TypeOK, StoreTypeOK
<1>4. PICK e : e = EncryptionKeyOf(a)
  OBVIOUS
<1>5. /\ e \in EncryptionKeys /\ encryptionKeys' = [encryptionKeys EXCEPT ![a] = e]
      /\ encryptionKeys[a] # Nothing => e = encryptionKeys[a]
  BY <1>4 DEF EnsureEncryptionKey, EncryptionKeyOf
<1>. QED BY <1>2, <1>3, <1>4, <1>5 DEF EnsureEncryptionKey

(* complete_auth and restore_identity install the session that they have.   *)
LEMMA InstallMoves ==
  ASSUME DInv, NEW t \in Tabs, auth[t].step \in {"saved", "restored"}, Install(t),
         UNCHANGED <<storeVars, cleanup, used, purged, lost>>, AuthKeeps
  PROVE  DInv'
<1> DEFINE s == [account |-> auth[t].account, key |-> auth[t].key]
<1>0. /\ state \in [Tabs -> TabState] /\ auth \in [Tabs -> TabAuth] /\ TypeOK /\ AuthOk(t)
  BY TabTypes DEF DInv, TabsInv
<1>1. /\ s \in Session /\ Tied(s.key, s.account) /\ s # Nothing
      /\ state[t].session = Nothing /\ state[t].pending = Nothing
      /\ s.key = auth[t].key /\ state[t].epoch \in Nat
  <2>1. auth[t].step \in Saved /\ auth[t].step \in Named
    BY DEF Saved, Named
  <2>2. s \in Session
    BY <1>0, <2>1 DEF AuthOk, Session
  <2>3. Tied(s.key, s.account)
    BY <2>1 DEF DInv, KeysInv, KeysAreKnown
  <2>. QED BY <1>0, <2>2, <2>3, NothingIsNoSession DEF AuthOk, TabState
<1>. HIDE DEF s
<1>2. /\ state' = [state EXCEPT ![t].busy = FALSE, ![t].session = s]
      /\ auth' = [auth EXCEPT ![t] = NoAuth]
  BY DEF Install, s
<1>3. /\ auth'[t] = NoAuth /\ state'[t].session = s /\ state'[t].pending = Nothing
      /\ state'[t].device = state[t].device /\ state'[t].epoch = state[t].epoch
      /\ \A u \in Tabs \ {t} : state'[u] = state[u] /\ auth'[u] = auth[u]
  BY <1>0, <1>1, <1>2 DEF TabState
<1>4. NoAuth.step = "idle" /\ NoAuth.key = Nothing /\ NoAuth.epoch = 0
  BY DEF NoAuth
<1>5. TypeOK'
  <2>1. state' \in [Tabs -> TabState]
    BY <1>0, <1>1, <1>2 DEF TabState
  <2>2. auth' \in [Tabs -> TabAuth]
    BY <1>0, <1>2, NewTabType
  <2>. QED BY <1>0, <2>1, <2>2, AuthTypes DEF AuthKeeps, TypeOK
<1>6. AuthOk(t)' /\ CancelledKeyGoes(t)'
  BY <1>1, <1>3, <1>4 DEF AuthOk, CancelledKeyGoes, Current, Unsaved, Saved, Named
<1>7. \A k \in grantKeys : Holds(k, t) => Holds(k, t)'
  <2>1. \A k \in grantKeys : k # Nothing
    BY <1>0, StoreAssumption DEF TypeOK, StoreTypeOK
  <2>. QED BY <1>1, <1>3, <2>1 DEF Holds, SessionKey
<1>8. /\ auth'[t].step \notin Unsaved /\ auth'[t].step \notin Saved
      /\ auth'[t].step # "erasing"
  BY <1>3, <1>4 DEF Unsaved, Saved
<1>. QED BY <1>1, <1>3, <1>5, <1>6, <1>7, <1>8, AuthMoves DEF AuthKeeps, storeVars

(* begin_auth after the key was stored.                                     *)
LEMMA BeginReturnsStep ==
  ASSUME DInv, NEW t \in Tabs, BeginReturns(t)
  PROVE  DInv'
<1>0. /\ state \in [Tabs -> TabState] /\ auth \in [Tabs -> TabAuth] /\ TypeOK /\ AuthOk(t)
      /\ auth[t].step = "created" /\ auth[t].step \in Unsaved
      /\ auth[t].key \in GrantKeys
  BY TabTypes DEF DInv, TabsInv, BeginReturns, Unsaved, AuthOk
<1>1. UNCHANGED <<storeVars, used, purged, lost>> /\ AuthKeeps
  BY DEF BeginReturns
<1>2. CASE AuthFails(t)
  <2>1. auth[t].step \notin Saved
    BY <1>0 DEF Saved
  <2>. QED BY <1>0, <1>1, <1>2, <2>1, FailMoves
<1>3. CASE AuthStep(t, "discarding") /\ UNCHANGED <<state, cleanup>>
  <2> DEFINE new == [auth[t] EXCEPT !.step = "discarding"]
  <2>1. /\ new \in TabAuth /\ new.step = "discarding" /\ new.key = auth[t].key
        /\ new.epoch = auth[t].epoch
    BY <1>0 DEF TabAuth, Signing
  <2>2. auth' = [auth EXCEPT ![t] = new]
    BY <1>0, <1>3 DEF AuthStep
  <2>. HIDE DEF new
  <2>3. /\ new.step \in Unsaved /\ new.step \notin Saved /\ new.step \notin Named
        /\ new.step \in Signing
    BY <2>1 DEF Unsaved, Saved, Named, Signing
  <2>. QED BY <1>0, <1>1, <1>3, <2>1, <2>2, <2>3, AuthGoesOn DEF storeVars, TypeOK, StoreTypeOK
<1>4. CASE /\ Current(t)
           /\ state' = [state EXCEPT ![t].busy = FALSE,
                ![t].pending = [key |-> auth[t].key, epoch |-> auth[t].epoch]]
           /\ AuthStep(t, "pending")
           /\ UNCHANGED cleanup
  <2> DEFINE p == [key |-> auth[t].key, epoch |-> auth[t].epoch]
             new == [auth[t] EXCEPT !.step = "pending"]
  <2>1. /\ new \in TabAuth /\ new.step = "pending" /\ new.key = auth[t].key
        /\ new.epoch = auth[t].epoch
    BY <1>0 DEF TabAuth, Signing
  <2>2. auth' = [auth EXCEPT ![t] = new]
    BY <1>0, <1>4 DEF AuthStep
  <2>. HIDE DEF new
  <2>3. p.key = auth[t].key /\ p.epoch = auth[t].epoch
    OBVIOUS
  <2>4. state' = [state EXCEPT ![t].busy = FALSE, ![t].pending = p]
    BY <1>4
  <2>5. p \in PendingAuth \cup {Nothing} /\ p # Nothing
    BY <1>0, NothingIsNoSession DEF PendingAuth, AuthOk, TabAuth
  <2>. HIDE DEF p
  <2>6. /\ auth'[t] = new /\ state'[t].pending = p /\ state'[t].session = state[t].session
        /\ state'[t].device = state[t].device /\ state'[t].epoch = state[t].epoch
        /\ \A u \in Tabs \ {t} : state'[u] = state[u] /\ auth'[u] = auth[u]
    BY <1>0, <2>2, <2>4 DEF TabState
  <2>7. TypeOK'
    <3>1. state' \in [Tabs -> TabState] /\ auth' \in [Tabs -> TabAuth]
      BY <1>0, <2>1, <2>2, <2>4, <2>5, ZenonT(30) DEF TabState
    <3>. QED BY <1>0, <1>1, <1>4, <3>1, AuthTypes DEF AuthKeeps, TypeOK
  <2>8. AuthOk(t)' /\ CancelledKeyGoes(t)'
    BY <1>0, <1>1, <1>4, <2>1, <2>3, <2>5, <2>6
    DEF AuthOk, CancelledKeyGoes, Current, Unsaved, Saved, Named, AuthKeeps
  <2>9. \A k \in grantKeys : Holds(k, t) => Holds(k, t)'
    BY <1>0, <1>4, <2>1, <2>6 DEF Holds, SessionKey, Signing
  <2>10. /\ auth'[t].step \notin Saved /\ auth'[t].step # "erasing"
         /\ auth'[t].key = auth[t].key
    BY <2>1, <2>6 DEF Saved
  <2>11. state'[t].session # Nothing =>
           Tied(state'[t].session.key, state'[t].session.account)
    BY <1>0, <2>6 DEF DInv, KeysInv, KeysAreKnown
  <2>. QED BY <1>0, <1>1, <1>4, <2>6, <2>7, <2>8, <2>9, <2>10, <2>11, AuthMoves
    DEF AuthKeeps, storeVars
<1>. QED BY <1>2, <1>3, <1>4 DEF BeginReturns

(* complete_auth takes the pending authorization; the key of one that was   *)
(* cancelled is deleted already, or will be.                                *)
LEMMA CompleteAuthStep ==
  ASSUME DInv, NEW t \in Tabs, CompleteAuth(t)
  PROVE  DInv'
<1>0. /\ state \in [Tabs -> TabState] /\ auth \in [Tabs -> TabAuth] /\ TypeOK /\ AuthOk(t)
      /\ auth[t].step = "pending" /\ auth[t].step \in Unsaved
      /\ auth[t].key \in GrantKeys /\ CancelledKeyGoes(t)
  BY TabTypes DEF DInv, TabsInv, KeysInv, CompleteAuth, Unsaved, AuthOk
<1>1. UNCHANGED <<storeVars, cleanup, used, purged, lost>> /\ AuthKeeps
  BY DEF CompleteAuth
<1> DEFINE taken == state[t].pending # Nothing /\ state[t].pending.epoch = state[t].epoch
           new == IF taken THEN [auth[t] EXCEPT !.step = "approving"] ELSE NoAuth
<1>2. taken \in BOOLEAN /\ taken = (state[t].pending # Nothing)
  BY <1>0 DEF AuthOk
<1>3. /\ state' = [state EXCEPT ![t].pending = Nothing, ![t].busy = taken]
      /\ auth' = [auth EXCEPT ![t] = new]
  <2>1. state' = [state EXCEPT ![t].pending = Nothing, ![t].busy = taken]
    BY DEF CompleteAuth
  <2>2. state'[t].busy = taken
    BY <1>0, <2>1 DEF TabState
  <2>. QED BY <1>0, <2>1, <2>2 DEF CompleteAuth, AuthStep
<1>4. /\ new \in TabAuth
      /\ taken => /\ new.step = "approving" /\ new.key = auth[t].key
                  /\ new.epoch = auth[t].epoch
      /\ ~taken => new = NoAuth
  BY <1>0, NewTabType DEF TabAuth, Signing
<1>. HIDE DEF taken, new
<1>5. /\ auth'[t] = new /\ state'[t].pending = Nothing
      /\ state'[t].session = state[t].session
      /\ state'[t].device = state[t].device /\ state'[t].epoch = state[t].epoch
      /\ \A u \in Tabs \ {t} : state'[u] = state[u] /\ auth'[u] = auth[u]
  BY <1>0, <1>3 DEF TabState
<1>6. TypeOK'
  <2>1. PICK b \in BOOLEAN : state' = [state EXCEPT ![t].pending = Nothing, ![t].busy = b]
    BY <1>2, <1>3, Zenon
  <2>2. state' \in [Tabs -> TabState]
    BY <1>0, <2>1, ZenonT(30) DEF TabState
  <2>3. auth' \in [Tabs -> TabAuth]
    BY <1>0, <1>3, <1>4
  <2>. QED BY <1>0, <1>1, <2>2, <2>3, AuthTypes DEF AuthKeeps, TypeOK
<1>7. NoAuth.step = "idle" /\ NoAuth.key = Nothing /\ NoAuth.epoch = 0
  BY DEF NoAuth
<1>8. AuthOk(t)' /\ CancelledKeyGoes(t)'
  <2>1. CASE taken
    BY <1>0, <1>1, <1>4, <1>5, <2>1
    DEF AuthOk, CancelledKeyGoes, Current, Unsaved, Saved, Named, AuthKeeps
  <2>2. CASE ~taken
    <3>1. state[t].epoch \in Nat
      BY <1>0 DEF TabState
    <3>. QED BY <1>4, <1>5, <1>7, <2>2, <3>1
      DEF AuthOk, CancelledKeyGoes, Current, Unsaved, Saved, Named
  <2>. QED BY <2>1, <2>2
<1>9. \A k \in grantKeys : Holds(k, t) => Holds(k, t)'
  <2>1. CASE taken
    BY <1>1, <1>4, <1>5, <2>1 DEF Holds, SessionKey, Signing
  <2>2. CASE ~taken
    <3>1. \A k \in grantKeys : auth[t].key = k => k \in cleanup[t]
      BY <1>0, <1>2, <2>2 DEF CancelledKeyGoes
    <3>. QED BY <1>1, <1>5, <3>1 DEF Holds, SessionKey
  <2>. QED BY <2>1, <2>2
<1>10. /\ auth'[t].step \notin Saved /\ auth'[t].step # "erasing"
       /\ auth'[t].step \in Unsaved => auth'[t].key = auth[t].key /\ state[t].pending # Nothing
  BY <1>2, <1>4, <1>5, <1>7 DEF Saved, Unsaved
<1>11. state'[t].session # Nothing =>
         Tied(state'[t].session.key, state'[t].session.account)
  BY <1>5 DEF DInv, KeysInv, KeysAreKnown
<1>. QED BY <1>0, <1>1, <1>5, <1>6, <1>8, <1>9, <1>10, <1>11, AuthMoves
  DEF AuthKeeps, storeVars

(* The steps of complete_auth between the pending authorization and the     *)
(* saved identity.                                                          *)
LEMMA SigningSteps ==
  ASSUME DInv, NEW t \in Tabs,
         (\E a \in Accounts : Approve(t, a)) \/ Validate(t) \/ SigningFails(t)
  PROVE  DInv'
<1>0. /\ auth \in [Tabs -> TabAuth] /\ TypeOK /\ AuthOk(t)
  BY TabTypes DEF DInv, TabsInv
<1>1. CASE SigningFails(t)
  <2>1. /\ auth[t].step \notin Saved /\ auth[t].step \notin {"idle", "pending"}
    BY <1>1 DEF Saved, SigningFails
  <2>. QED BY <1>1, <2>1, FailMoves DEF SigningFails
<1>2. ASSUME NEW a \in Accounts, Approve(t, a) PROVE DInv'
  <2> DEFINE new == [auth[t] EXCEPT !.step = "validating", !.account = a]
  <2>0. auth[t].step = "approving" /\ auth[t].key \in GrantKeys
    BY <1>0, <1>2 DEF Approve, AuthOk, Unsaved
  <2>1. /\ new \in TabAuth /\ new.step = "validating" /\ new.key = auth[t].key
        /\ new.epoch = auth[t].epoch /\ new.account = a
    BY <1>0 DEF TabAuth, Signing
  <2>2. auth' = [auth EXCEPT ![t] = new]
    BY <1>0, <1>2 DEF Approve
  <2>. HIDE DEF new
  <2>3. /\ new.step \in Unsaved /\ new.step \notin Saved /\ new.step \in Signing
        /\ auth[t].step \in Unsaved
    BY <2>0, <2>1 DEF Unsaved, Saved, Signing
  <2>4. UNCHANGED <<storeVars, state, cleanup, used, purged, lost>> /\ AuthKeeps
    BY <1>2 DEF Approve
  <2>. QED BY <1>0, <2>0, <2>1, <2>2, <2>3, <2>4, AuthGoesOn DEF storeVars, TypeOK, StoreTypeOK
<1>3. CASE Validate(t)
  <2>0. /\ auth[t].step = "validating" /\ auth[t].key \in GrantKeys
        /\ auth[t].account \in Accounts
    BY <1>0, <1>3 DEF Validate, AuthOk, Unsaved, Named
  <2>1. PICK e : e = EncryptionKeyOf(auth[t].account)
    OBVIOUS
  <2>2. /\ e \in EncryptionKeys
        /\ encryptionKeys' \in [Accounts -> EncryptionKeys \cup {Nothing}]
        /\ \A b \in Accounts : encryptionKeys[b] # Nothing =>
                                 encryptionKeys'[b] = encryptionKeys[b]
        /\ generated' \in 0..MaxGenerated
        /\ UNCHANGED <<grantKeys, identities, deviceStates, sequences>>
    BY <1>0, <1>3, <2>0, <2>1, Ensured DEF Validate
  <2> DEFINE new == [auth[t] EXCEPT !.step = "saving", !.sealed = e]
  <2>3. /\ new \in TabAuth /\ new.step = "saving" /\ new.key = auth[t].key
        /\ new.epoch = auth[t].epoch /\ new.account = auth[t].account /\ new.sealed = e
    BY <1>0, <2>2 DEF TabAuth, Signing
  <2>4. auth' = [auth EXCEPT ![t] = new]
    BY <1>0, <1>3, <2>1 DEF Validate
  <2>. HIDE DEF new
  <2>5. /\ new.step \in Unsaved /\ new.step \notin Saved /\ new.step \in Signing
        /\ auth[t].step \in Unsaved
    BY <2>0, <2>3 DEF Unsaved, Saved, Signing
  <2>6. UNCHANGED <<state, cleanup, used, purged, lost>> /\ AuthKeeps
    BY <1>3 DEF Validate
  <2>. QED BY <1>0, <2>0, <2>2, <2>3, <2>4, <2>5, <2>6, AuthGoesOn
<1>. QED BY <1>1, <1>2, <1>3

(* An undo that fails: the identity that still has the key loses it.        *)
LEMMA UndoFailsStep ==
  ASSUME DInv, NEW t \in Tabs, auth[t].step \in {"saved", "erasing"}, UndoFails(t),
         UNCHANGED used, AuthKeeps
  PROVE  DInv'
<1>1. auth[t].key \in GrantKeys
  BY DEF DInv, TabsInv, AuthOk, Saved
<1>2. lost \subseteq lost' /\ lost' \ lost \subseteq GrantKeys
  BY <1>1 DEF UndoFails
<1>3. auth[t].key \notin IdentityKeys \/ auth[t].key \in lost'
  BY DEF UndoFails
<1>. QED BY <1>2, <1>3, FailMoves DEF UndoFails

(* complete_auth after the identity was saved: the session, or the removal. *)
LEMMA CompleteReturnsStep ==
  ASSUME DInv, NEW t \in Tabs, CompleteReturns(t)
  PROVE  DInv'
<1>0. /\ auth \in [Tabs -> TabAuth] /\ TypeOK /\ AuthOk(t) /\ KeysAreKnown
      /\ auth[t].step = "saved" /\ auth[t].step \in Saved
      /\ auth[t].key \in GrantKeys /\ auth[t].account \in Accounts
  BY TabTypes DEF DInv, TabsInv, KeysInv, CompleteReturns, AuthOk, Saved, Named
<1>1. UNCHANGED used /\ AuthKeeps
  BY DEF CompleteReturns
<1>2. CASE Install(t) /\ UNCHANGED <<storeVars, cleanup, purged, lost>>
  BY <1>0, <1>1, <1>2, InstallMoves
<1>3. CASE UndoFails(t)
  BY <1>0, <1>1, <1>3, UndoFailsStep
<1>4. CASE /\ identities[auth[t].account] # Nothing
           /\ auth' = [auth EXCEPT ![t].step = "erasing",
                                   ![t].victim = identities[auth[t].account].key]
           /\ UNCHANGED <<storeVars, state, cleanup, purged, lost>>
  <2>1. PICK v : v = identities[auth[t].account].key
    OBVIOUS
  <2>2. v \in GrantKeys /\ Tied(v, auth[t].account)
    <3>1. identities[auth[t].account] \in Identity
      BY <1>0, <1>4 DEF TypeOK, StoreTypeOK
    <3>. QED BY <1>0, <1>4, <2>1, <3>1 DEF Identity, KeysAreKnown
  <2> DEFINE new == [auth[t] EXCEPT !.step = "erasing", !.victim = v]
  <2>3. /\ new \in TabAuth /\ new.step = "erasing" /\ new.key = auth[t].key
        /\ new.epoch = auth[t].epoch /\ new.account = auth[t].account /\ new.victim = v
    BY <1>0, <2>2 DEF TabAuth, Signing
  <2>4. auth' = [auth EXCEPT ![t] = new]
    BY <1>0, <1>4, <2>1
  <2>. HIDE DEF new
  <2>5. new.step \notin Unsaved /\ new.step \in Signing /\ auth[t].step \notin Unsaved
    BY <1>0, <2>3 DEF Unsaved, Signing
  <2>6. Tied(auth[t].key, auth[t].account)
    BY <1>0 DEF KeysAreKnown
  <2>7. /\ UNCHANGED <<grantKeys, identities, encryptionKeys, deviceStates, sequences,
                       state, cleanup, used, purged, lost>>
        /\ encryptionKeys' \in [Accounts -> EncryptionKeys \cup {Nothing}]
        /\ generated' \in 0..MaxGenerated
    BY <1>0, <1>1, <1>4 DEF storeVars, TypeOK, StoreTypeOK
  <2>. QED BY <1>0, <1>1, <2>2, <2>3, <2>4, <2>5, <2>6, <2>7, AuthGoesOn
<1>. QED BY <1>2, <1>3, <1>4 DEF CompleteReturns

(* The steps of restore_identity.                                           *)
LEMMA RestoreSteps ==
  ASSUME DInv, NEW t \in Tabs,
         LoadIdentity(t) \/ RestoreSession(t) \/ RestoreReturns(t) \/ RestoreFails(t)
  PROVE  DInv'
<1>0. /\ auth \in [Tabs -> TabAuth] /\ TypeOK /\ AuthOk(t) /\ KeysAreKnown
  BY TabTypes DEF DInv, TabsInv, KeysInv
<1>1. CASE RestoreFails(t)
  <2>1. auth[t].step \notin Signing /\ auth[t].step \notin {"idle", "pending"}
    BY <1>1 DEF RestoreFails, Restoring, Signing
  <2>. QED BY <1>1, <2>1, FailMoves DEF RestoreFails
<1>2. CASE RestoreReturns(t)
  BY <1>2, InstallMoves DEF RestoreReturns
<1>3. CASE LoadIdentity(t)
  <2>0. auth[t].step = "loading" /\ auth[t].account \in Accounts
    BY <1>0, <1>3 DEF LoadIdentity, AuthOk, Named
  <2>1. PICK k : k = identities[auth[t].account].key
    OBVIOUS
  <2>2. k \in GrantKeys /\ Tied(k, auth[t].account)
    <3>1. identities[auth[t].account] # Nothing /\ identities[auth[t].account] \in Identity
      BY <1>0, <1>3, <2>0 DEF LoadIdentity, Opens, TypeOK, StoreTypeOK
    <3>. QED BY <1>0, <2>0, <2>1, <3>1 DEF Identity, KeysAreKnown
  <2> DEFINE new == [auth[t] EXCEPT !.step = "restoring", !.key = k]
  <2>3. /\ new \in TabAuth /\ new.step = "restoring" /\ new.key = k
        /\ new.epoch = auth[t].epoch /\ new.account = auth[t].account
    BY <1>0, <2>2 DEF TabAuth, Restoring
  <2>4. auth' = [auth EXCEPT ![t] = new]
    BY <1>0, <1>3, <2>1 DEF LoadIdentity
  <2>. HIDE DEF new
  <2>5. new.step \notin Unsaved /\ auth[t].step \notin Signing
    BY <2>0, <2>3 DEF Unsaved, Signing
  <2>6. UNCHANGED <<storeVars, state, cleanup, used, purged, lost>> /\ AuthKeeps
    BY <1>3 DEF LoadIdentity
  <2>. QED BY <1>0, <2>0, <2>2, <2>3, <2>4, <2>5, <2>6, AuthGoesOn
    DEF storeVars, TypeOK, StoreTypeOK
<1>4. CASE RestoreSession(t)
  <2>0. /\ auth[t].step = "restoring" /\ auth[t].account \in Accounts
        /\ auth[t].key \in GrantKeys /\ Tied(auth[t].key, auth[t].account)
    BY <1>0, <1>4 DEF RestoreSession, AuthOk, Named, Saved, KeysAreKnown
  <2> DEFINE new == [auth[t] EXCEPT !.step = "restored"]
  <2>1. /\ new \in TabAuth /\ new.step = "restored" /\ new.key = auth[t].key
        /\ new.epoch = auth[t].epoch /\ new.account = auth[t].account
    BY <1>0 DEF TabAuth, Restoring
  <2>2. auth' = [auth EXCEPT ![t] = new]
    BY <1>0, <1>4 DEF RestoreSession, AuthStep
  <2>. HIDE DEF new
  <2>3. new.step \notin Unsaved /\ auth[t].step \notin Signing
    BY <2>0, <2>1 DEF Unsaved, Signing
  <2>4. UNCHANGED <<storeVars, state, cleanup, used, purged, lost>> /\ AuthKeeps
    BY <1>4 DEF RestoreSession
  <2>. QED BY <1>0, <2>0, <2>1, <2>2, <2>3, <2>4, AuthGoesOn
    DEF storeVars, TypeOK, StoreTypeOK
<1>. QED BY <1>1, <1>2, <1>3, <1>4

-----------------------------------------------------------------------------
(* Cancelling.                                                              *)

(* What cancel_auth and destroy do to the authorization of a tab.           *)
LEMMA Cancelled ==
  ASSUME DInv, NEW t \in Tabs, CancelState(t),
         UNCHANGED <<auth, grantKeys, identities, used>>
  PROVE  /\ state' \in [Tabs -> TabState] /\ cleanup' \in [Tabs -> SUBSET GrantKeys]
         /\ abandoned' \in [Tabs -> BOOLEAN]
         /\ \A u \in Tabs \ {t} : /\ state'[u] = state[u] /\ cleanup'[u] = cleanup[u]
                                  /\ abandoned'[u] = abandoned[u]
         /\ state'[t].session = state[t].session /\ state'[t].device = state[t].device
         /\ state'[t].pending = Nothing
         /\ AuthOk(t)' /\ CancelledKeyGoes(t)'
         /\ \A k \in cleanup'[t] : k \in cleanup[t] \/ Dead(k)'
         /\ cleanup[t] \subseteq cleanup'[t]
<1>0. /\ state \in [Tabs -> TabState] /\ auth \in [Tabs -> TabAuth] /\ TypeOK /\ AuthOk(t)
      /\ KeysAreKnown /\ CancelledKeyGoes(t) /\ MaxEpoch \in Nat
      /\ cleanup \in [Tabs -> SUBSET GrantKeys] /\ abandoned \in [Tabs -> BOOLEAN]
  BY TabTypes, TabAssumption DEF DInv, TabsInv, KeysInv, TypeOK
<1>1. PICK new : new = IF state[t].pending = Nothing THEN {} ELSE {state[t].pending.key}
  OBVIOUS
<1>2. state[t].pending # Nothing => state[t].pending \in PendingAuth
  BY <1>0 DEF TabState
<1>3. new \subseteq GrantKeys
  BY <1>1, <1>2 DEF PendingAuth
<1>4. /\ state[t].epoch < MaxEpoch
      /\ state' = [state EXCEPT ![t].epoch = @ + 1, ![t].pending = Nothing]
      /\ cleanup' = [cleanup EXCEPT ![t] = @ \cup new]
  BY <1>1 DEF CancelState
<1>5. state' \in [Tabs -> TabState] /\ cleanup' \in [Tabs -> SUBSET GrantKeys]
  <2>1. state[t].epoch + 1 \in 0..MaxEpoch
    BY <1>0, <1>4 DEF TabState
  <2>2. state' \in [Tabs -> TabState]
    <3> DEFINE s == [state[t] EXCEPT !.epoch = state[t].epoch + 1, !.pending = Nothing]
    <3>1. state \in [Tabs -> TabState] /\ state[t] \in TabState
      BY <1>0
    <3>2. s \in TabState
      BY <2>1, <3>1 DEF TabState
    <3>3. state' = [state EXCEPT ![t] = s]
      BY <1>4, <3>1
    <3>. HIDE DEF s
    <3>. QED BY <3>1, <3>2, <3>3
  <2>3. cleanup[t] \cup new \in SUBSET GrantKeys
    BY <1>0, <1>3
  <2>. QED BY <1>0, <1>4, <2>2, <2>3
<1>6. PICK b \in BOOLEAN : abandoned' = [abandoned EXCEPT ![t] = b]
  BY Zenon DEF CancelState
<1>7. abandoned' \in [Tabs -> BOOLEAN] /\ \A u \in Tabs \ {t} : abandoned'[u] = abandoned[u]
  BY <1>0, <1>6
<1>8. /\ state'[t].session = state[t].session /\ state'[t].device = state[t].device
      /\ state'[t].pending = Nothing /\ state'[t].epoch = state[t].epoch + 1
      /\ cleanup'[t] = cleanup[t] \cup new
      /\ \A u \in Tabs \ {t} : state'[u] = state[u] /\ cleanup'[u] = cleanup[u]
  BY <1>0, <1>4 DEF TabState
<1>9. AuthOk(t)'
  <2>1. auth[t].epoch \in Int /\ state[t].epoch \in Int /\ auth[t].epoch <= state[t].epoch
    BY <1>0 DEF TabState, TabAuth, AuthOk
  <2>. QED BY <1>0, <1>8, <2>1 DEF AuthOk, Current
<1>10. CancelledKeyGoes(t)'
  BY <1>0, <1>1, <1>8 DEF CancelledKeyGoes, AuthOk
<1>11. ASSUME NEW k \in new PROVE Dead(k)'
  <2>1. auth[t].step = "pending" /\ auth[t].key = k
    BY <1>0, <1>1, <1>11 DEF AuthOk
  <2>2. auth[t].step \in Unsaved
    BY <2>1 DEF Unsaved
  <2>3. k \in used
    BY <1>0, <2>1, <2>2 DEF KeysAreKnown
  <2>4. k \notin IdentityKeys
    <3>. SUFFICES ASSUME NEW a \in Accounts, identities[a] # Nothing, identities[a].key = k
                  PROVE  FALSE
      BY DEF IdentityKeys
    <3>1. Tied(k, a)
      BY <1>0 DEF KeysAreKnown
    <3>. QED BY <2>1, <2>2, <3>1 DEF Tied
  <2>5. \A u \in Tabs : auth[u].step \in Unsaved /\ auth[u].key = k => u = t
    BY <1>0, <2>1, <2>2 DEF KeysAreKnown
  <2>. QED BY <1>8, <2>1, <2>3, <2>4, <2>5 DEF Dead, IdentityKeys
<1>. QED BY <1>5, <1>7, <1>8, <1>9, <1>10, <1>11

(* cancel_auth.                                                             *)
LEMMA CancelAuthStep ==
  ASSUME DInv, NEW t \in Tabs, CancelAuth(t)
  PROVE  DInv'
<1>0. /\ UNCHANGED <<storeVars, auth, operation, call, online, destroyed,
                     locks, used, expired, purged, lost, allocated>>
      /\ CancelState(t) /\ auth \in [Tabs -> TabAuth] /\ TypeOK
  BY TabTypes DEF CancelAuth, worldVars, DInv
<1>1. /\ state' \in [Tabs -> TabState] /\ cleanup' \in [Tabs -> SUBSET GrantKeys]
      /\ abandoned' \in [Tabs -> BOOLEAN]
      /\ \A u \in Tabs \ {t} : /\ state'[u] = state[u] /\ cleanup'[u] = cleanup[u]
                               /\ abandoned'[u] = abandoned[u]
      /\ state'[t].session = state[t].session /\ state'[t].device = state[t].device
      /\ state'[t].pending = Nothing
      /\ AuthOk(t)' /\ CancelledKeyGoes(t)'
      /\ \A k \in cleanup'[t] : k \in cleanup[t] \/ Dead(k)'
      /\ cleanup[t] \subseteq cleanup'[t]
  BY <1>0, Cancelled DEF storeVars
<1>2. TypeOK'
  BY <1>0, <1>1, AuthTypes
<1>3. \A k \in grantKeys : Holds(k, t) => Holds(k, t)'
  BY <1>0, <1>1 DEF Holds, SessionKey
<1>4. /\ auth'[t].step \in Saved => Tied(auth'[t].key, auth'[t].account)
      /\ auth'[t].step = "erasing" => Tied(auth'[t].victim, auth'[t].account)
      /\ state'[t].session # Nothing =>
           Tied(state'[t].session.key, state'[t].session.account)
  BY <1>0, <1>1 DEF DInv, KeysInv, KeysAreKnown
<1>. QED BY <1>0, <1>1, <1>2, <1>3, <1>4, AuthMoves DEF storeVars

-----------------------------------------------------------------------------
(* Network operations.                                                      *)

(* A step of the network operation of tab t that stores nothing and leaves  *)
(* the locks of the other tabs alone.                                       *)
LEMMA OperationMoves ==
  ASSUME DInv, NEW t \in Tabs, TypeOK', CallShape', OperationOk(t)', OnlineOk(t)',
         UNCHANGED <<storeVars, auth, cleanup, destroyed, used, expired, abandoned, purged,
                     lost, allocated>>,
         \A u \in Tabs \ {t} :
            /\ state'[u] = state[u] /\ operation'[u] = operation[u]
            /\ u \in online' <=> u \in online
            /\ \A a \in Accounts : locks[a] = u => locks'[a] = u,
         /\ state'[t].session = state[t].session /\ state'[t].pending = state[t].pending
         /\ state'[t].epoch = state[t].epoch,
         operation'[t].device \in {operation[t].device, Nothing},
         operation'[t].step # "storing",
         operation'[t].step = "removing" => Tied(operation'[t].victim, operation'[t].account)
  PROVE  DInv'
<1>1. TabsInv'
  <2>1. ASSUME NEW u \in Tabs PROVE AuthOk(u)'
    BY DEF DInv, TabsInv, AuthOk, Current
  <2>2. ASSUME NEW u \in Tabs \ {t} PROVE OperationOk(u)' /\ OnlineOk(u)'
    <3>1. OperationOk(u) /\ OnlineOk(u) /\ TypeOK
      BY DEF DInv, TabsInv
    <3>. QED BY <3>1, NetworkStays DEF storeVars
  <2>. QED BY <2>1, <2>2 DEF TabsInv
<1>2. \A u \in Tabs :
        /\ auth'[u].step \in Saved => Tied(auth'[u].key, auth'[u].account)
        /\ auth'[u].step = "erasing" => Tied(auth'[u].victim, auth'[u].account)
        /\ state'[u].session # Nothing =>
             Tied(state'[u].session.key, state'[u].session.account)
        /\ operation'[u].step = "removing" =>
             Tied(operation'[u].victim, operation'[u].account)
  BY DEF DInv, KeysInv, KeysAreKnown
<1>3. \A u \in Tabs : CancelledKeyGoes(u)'
  BY DEF DInv, KeysInv, CancelledKeyGoes, storeVars
<1>4. \A u \in Tabs : \A k \in grantKeys : Holds(k, u) => Holds(k, u)'
  BY DEF Holds, SessionKey
<1>5. \A u \in Tabs : state'[u].pending = state[u].pending
  OBVIOUS
<1>. QED BY <1>1, <1>2, <1>3, <1>4, <1>5, TabMoves DEF storeVars

(* A network operation that stores nothing keeps the types of the rest.     *)
LEMMA OperationTypes ==
  ASSUME TypeOK, state' \in [Tabs -> TabState], operation' \in [Tabs -> TabOperation],
         online' \subseteq Tabs, locks' \in [Accounts -> Tabs \cup {Nothing}],
         UNCHANGED <<storeVars, auth, cleanup, call, destroyed, used, expired, abandoned,
                     purged, lost, allocated>>
  PROVE  TypeOK'
BY DEF TypeOK, StoreTypeOK, TabState, TabOperation, storeVars

(* What a tab has before any step of its network operation.                 *)
LEMMA TabHas ==
  ASSUME DInv, NEW t \in Tabs
  PROVE  /\ state \in [Tabs -> TabState] /\ auth \in [Tabs -> TabAuth]
         /\ operation \in [Tabs -> TabOperation] /\ TypeOK
         /\ online \subseteq Tabs /\ locks \in [Accounts -> Tabs \cup {Nothing}]
         /\ AuthOk(t) /\ OperationOk(t) /\ OnlineOk(t) /\ CallShape /\ KeysAreKnown
         /\ state[t].session # Nothing =>
              state[t].session.account \in Accounts /\ state[t].session.key \in GrantKeys
<1>1. TypeOK /\ TabsInv /\ KeysAreKnown
  BY DEF DInv, KeysInv
<1>2. state[t].session \in Session \cup {Nothing}
  BY <1>1 DEF TypeOK
<1>. QED BY <1>1, <1>2, TabTypes DEF TypeOK, TabsInv, Session

(* A lock that is taken or given back is nobody else's.                     *)
LEMMA LocksOfOthers ==
  ASSUME TypeOK, NEW t \in Tabs, Unlock(t) \/ \E a \in Accounts : Lock(t, a)
  PROVE  /\ locks' \in [Accounts -> Tabs \cup {Nothing}]
         /\ \A u \in Tabs \ {t} : \A a \in Accounts : locks[a] = u => locks'[a] = u
BY TabAssumption DEF TypeOK, Lock, Unlock

(* removeLocalIdentity takes the lock of the account and notes its key.     *)
LEMMA RemoveLocalIdentityStep ==
  ASSUME DInv, NEW t \in Tabs, NEW a \in Accounts, RemoveLocalIdentity(t, a)
  PROVE  DInv'
<1>0. /\ state \in [Tabs -> TabState] /\ operation \in [Tabs -> TabOperation]
      /\ TypeOK /\ OnlineOk(t) /\ KeysAreKnown
      /\ online \subseteq Tabs /\ locks \in [Accounts -> Tabs \cup {Nothing}]
  BY TabHas
<1>1. PICK v : v = identities[a].key
  OBVIOUS
<1>2. v \in GrantKeys /\ Tied(v, a)
  <2>1. identities[a] # Nothing /\ identities[a] \in Identity
    BY <1>0 DEF RemoveLocalIdentity, TypeOK, StoreTypeOK
  <2>. QED BY <1>0, <1>1, <2>1 DEF Identity, KeysAreKnown
<1> DEFINE new == [Operation("removing", a) EXCEPT !.victim = v]
<1>3. /\ new \in TabOperation /\ new.step = "removing" /\ new.account = a
      /\ new.victim = v /\ new.device = Nothing
  BY <1>2 DEF Operation, NoOperation, TabOperation
<1>. HIDE DEF new
<1>4. /\ operation' = [operation EXCEPT ![t] = new] /\ Lock(t, a) /\ ~Active(t, a)
      /\ state' = [state EXCEPT ![t].identityBusy = TRUE]
      /\ UNCHANGED <<storeVars, auth, cleanup, call, destroyed, online, used, expired,
                     abandoned, purged, lost, allocated>>
  BY <1>1 DEF RemoveLocalIdentity, StartOperation, OperationKeeps, worldVars, new
<1>5. /\ operation'[t] = new /\ locks'[a] = t /\ locks[a] = Nothing
      /\ state'[t].session = state[t].session /\ state'[t].pending = state[t].pending
      /\ state'[t].epoch = state[t].epoch /\ state'[t].device = state[t].device
      /\ \A u \in Tabs \ {t} : state'[u] = state[u] /\ operation'[u] = operation[u]
      /\ \A b \in Accounts : locks[b] = t => locks'[b] = t
  BY <1>0, <1>4 DEF TabState, Lock
<1>6. /\ locks' \in [Accounts -> Tabs \cup {Nothing}]
      /\ \A u \in Tabs \ {t} : \A b \in Accounts : locks[b] = u => locks'[b] = u
  BY <1>0, <1>4, LocksOfOthers
<1>7. TypeOK'
  <2>1. state' \in [Tabs -> TabState]
    BY <1>0, <1>4, ZenonT(30) DEF TabState
  <2>2. operation' \in [Tabs -> TabOperation]
    BY <1>0, <1>3, <1>4
  <2>. QED BY <1>0, <1>4, <1>6, <2>1, <2>2, OperationTypes
<1>8. OperationOk(t)'
  BY <1>2, <1>3, <1>4, <1>5 DEF OperationOk, Active, Account, Going
<1>9. OnlineOk(t)'
  <2>1. t \in online => state[t].session.account \in Accounts
    BY TabHas DEF OnlineOk
  <2>. QED BY <1>0, <1>4, <1>5, <2>1 DEF OnlineOk, Account, RunsOn, Opens, storeVars
<1>10. CallShape'
  BY <1>4, TabHas DEF CallShape
<1>11. Tied(operation'[t].victim, operation'[t].account)
  BY <1>2, <1>3, <1>5
<1>12. operation'[t].step # "storing" /\ operation'[t].device = Nothing
  BY <1>3, <1>5
<1>. QED BY <1>4, <1>5, <1>6, <1>7, <1>8, <1>9, <1>10, <1>11, <1>12, OperationMoves

(* publishAndGoOnline takes the lock of the account of the session.         *)
LEMMA PublishStep ==
  ASSUME DInv, NEW t \in Tabs, Publish(t)
  PROVE  DInv'
<1> DEFINE a == Account(t)
           new == Operation("loading", a)
<1>0. /\ state \in [Tabs -> TabState] /\ operation \in [Tabs -> TabOperation]
      /\ TypeOK /\ online \subseteq Tabs /\ locks \in [Accounts -> Tabs \cup {Nothing}]
  BY TabHas
<1>1. /\ operation' = [operation EXCEPT ![t] = new] /\ Lock(t, a) /\ t \notin online
      /\ state[t].session # Nothing
      /\ UNCHANGED <<storeVars, auth, cleanup, call, destroyed, online, used, expired,
                     abandoned, purged, lost, allocated, state>>
  BY DEF Publish, StartOperation, OperationKeeps, worldVars
<1>2. a \in Accounts
  BY <1>1, TabHas DEF Account
<1>3. /\ new \in TabOperation /\ new.step = "loading" /\ new.account = a
      /\ new.device = Nothing
  BY <1>2 DEF Operation, NoOperation, TabOperation
<1>4. PICK op : op = new
  OBVIOUS
<1>5. PICK acc : acc = a
  OBVIOUS
<1>. HIDE DEF new, a
<1>6. /\ operation'[t] = op /\ locks'[acc] = t
      /\ \A u \in Tabs \ {t} : operation'[u] = operation[u]
      /\ operation' \in [Tabs -> TabOperation]
  BY <1>0, <1>1, <1>2, <1>3, <1>4, <1>5 DEF Lock
<1>7. /\ locks' \in [Accounts -> Tabs \cup {Nothing}]
      /\ \A u \in Tabs \ {t} : \A b \in Accounts : locks[b] = u => locks'[b] = u
  BY <1>0, <1>1, <1>2, LocksOfOthers
<1>8. TypeOK'
  BY <1>0, <1>1, <1>6, <1>7, OperationTypes
<1>9. OperationOk(t)' /\ OnlineOk(t)'
  <2>1. state[t].session.account = acc
    BY <1>5 DEF a, Account
  <2>. QED BY <1>1, <1>2, <1>3, <1>4, <1>5, <1>6, <2>1 DEF OperationOk, OnlineOk, Account, Going
<1>10. CallShape'
  BY <1>1, TabHas DEF CallShape
<1>. QED BY <1>1, <1>3, <1>4, <1>6, <1>7, <1>8, <1>9, <1>10, OperationMoves

(* prepare_device takes the stored device, or sets out to issue one.        *)
LEMMA LoadDeviceStep ==
  ASSUME DInv, NEW t \in Tabs, LoadDevice(t)
  PROVE  DInv'
<1>0. /\ state \in [Tabs -> TabState] /\ operation \in [Tabs -> TabOperation]
      /\ TypeOK /\ online \subseteq Tabs /\ locks \in [Accounts -> Tabs \cup {Nothing}]
      /\ OperationOk(t)
  BY TabHas
<1>1. PICK a : a = operation[t].account
  OBVIOUS
<1>2. /\ operation[t].step = "loading" /\ operation[t].step \in Going
      /\ a \in Accounts /\ locks[a] = t /\ t \notin online
      /\ state[t].session # Nothing /\ state[t].session.account = a
      /\ UNCHANGED <<storeVars, auth, cleanup, call, destroyed, online, locks, used, expired,
                     abandoned, purged, lost, allocated>>
  BY <1>0, <1>1 DEF LoadDevice, OperationKeeps, worldVars, OperationOk, Going, Account
<1>3. PICK found : found = deviceStates[a]
  OBVIOUS
<1>4. found # Nothing => /\ found \in DeviceState /\ found.device \in Device
                         /\ found.device # Nothing /\ found.device.control \in PublisherKeys
  BY <1>0, <1>2, <1>3, NothingIsNoRecord DEF TypeOK, StoreTypeOK, DeviceState, Device
<1>5. CallShape'
  BY <1>2, TabHas DEF CallShape
<1>6. CASE /\ Opens(a, found)
           /\ state' = [state EXCEPT ![t].device = found.device]
           /\ operation' = [operation EXCEPT ![t].step = "publishing"]
  <2>1. found # Nothing
    BY <1>6 DEF Opens
  <2>2. /\ state'[t].session = state[t].session /\ state'[t].pending = state[t].pending
        /\ state'[t].epoch = state[t].epoch /\ state'[t].device = found.device
        /\ operation'[t].step = "publishing" /\ operation'[t].account = a
        /\ operation'[t].device = operation[t].device
        /\ \A u \in Tabs \ {t} : state'[u] = state[u] /\ operation'[u] = operation[u]
    BY <1>0, <1>1, <1>6 DEF TabState, TabOperation
  <2>3. state' \in [Tabs -> TabState]
    BY <1>0, <1>4, <1>6, <2>1, SMTT(20) DEF TabState
  <2>4. operation' \in [Tabs -> TabOperation]
    BY <1>0, <1>6, SMTT(20) DEF TabOperation
  <2>5. TypeOK'
    BY <1>0, <1>2, <2>3, <2>4, OperationTypes
  <2>6. RunsOn(t, a)'
    BY <1>2, <1>3, <1>4, <1>6, <2>1, <2>2 DEF RunsOn, Opens, storeVars
  <2>7. operation[t].device # Nothing => AccountOf[operation[t].device.control] = a
    BY <1>0, <1>1 DEF OperationOk
  <2>8. OperationOk(t)' /\ OnlineOk(t)'
    BY <1>2, <2>2, <2>6, <2>7 DEF OperationOk, OnlineOk, Account, Going
  <2>. QED BY <1>2, <1>5, <2>2, <2>5, <2>8, OperationMoves
<1>7. ASSUME NEW old \in PublisherKeys \cup {Nothing}, UNCHANGED state,
             operation' = [operation EXCEPT ![t].step = "issuing", ![t].old = old]
      PROVE  DInv'
  <2>1. /\ operation'[t].step = "issuing" /\ operation'[t].account = a
        /\ operation'[t].device = operation[t].device
        /\ \A u \in Tabs \ {t} : operation'[u] = operation[u]
        /\ operation' \in [Tabs -> TabOperation]
    <3> DEFINE new == [operation[t] EXCEPT !.step = "issuing", !.old = old]
    <3>1. operation \in [Tabs -> TabOperation] /\ operation[t] \in TabOperation
      BY <1>0
    <3>2. /\ new \in TabOperation /\ new.step = "issuing"
          /\ new.account = a /\ new.device = operation[t].device
      BY <1>1, <3>1 DEF TabOperation
    <3>3. operation' = [operation EXCEPT ![t] = new]
      BY <1>7, <3>1
    <3>. HIDE DEF new
    <3>. QED BY <3>1, <3>2, <3>3
  <2>2. TypeOK'
    BY <1>0, <1>2, <1>7, <2>1, OperationTypes
  <2>3. operation[t].device # Nothing => AccountOf[operation[t].device.control] = a
    BY <1>0, <1>1 DEF OperationOk
  <2>4. OperationOk(t)' /\ OnlineOk(t)'
    BY <1>2, <1>7, <2>1, <2>3 DEF OperationOk, OnlineOk, Account, Going
  <2>. QED BY <1>2, <1>5, <1>7, <2>1, <2>2, <2>4, OperationMoves
<1>8. CASE /\ Opens(a, found)
           /\ operation' = [operation EXCEPT ![t].step = "issuing",
                ![t].old = found.device.control]
           /\ UNCHANGED state
  BY <1>4, <1>7, <1>8 DEF Opens
<1>9. CASE /\ operation' = [operation EXCEPT ![t].step = "issuing"]
           /\ UNCHANGED state
  <2>1. PICK old : old = operation[t].old
    OBVIOUS
  <2>2. /\ old \in PublisherKeys \cup {Nothing}
        /\ operation' = [operation EXCEPT ![t].step = "issuing", ![t].old = old]
    BY <1>0, <1>9, <2>1 DEF TabOperation
  <2>. QED BY <1>7, <1>9, <2>2
<1>. QED BY <1>1, <1>3, <1>6, <1>8, <1>9 DEF LoadDevice

(* A tab that gives its locks back has no operation and is not online.      *)
LEMMA UnlockMoves ==
  ASSUME DInv, NEW t \in Tabs, Unlock(t), operation' = [operation EXCEPT ![t] = NoOperation],
         online' = online \ {t},
         UNCHANGED <<storeVars, state, auth, cleanup, call, destroyed, used, expired,
                     abandoned, purged, lost, allocated>>
  PROVE  DInv'
<1>0. /\ state \in [Tabs -> TabState] /\ operation \in [Tabs -> TabOperation]
      /\ TypeOK /\ online \subseteq Tabs /\ locks \in [Accounts -> Tabs \cup {Nothing}]
  BY TabHas
<1>1. /\ operation'[t] = NoOperation
      /\ \A u \in Tabs \ {t} : operation'[u] = operation[u] /\ (u \in online' <=> u \in online)
      /\ operation' \in [Tabs -> TabOperation] /\ t \notin online' /\ online' \subseteq Tabs
  BY <1>0, NewTabType
<1>2. /\ locks' \in [Accounts -> Tabs \cup {Nothing}]
      /\ \A u \in Tabs \ {t} : \A b \in Accounts : locks[b] = u => locks'[b] = u
  BY <1>0, LocksOfOthers
<1>3. TypeOK'
  BY <1>0, <1>1, <1>2, OperationTypes
<1>4. NoOperation.step = "none" /\ NoOperation.device = Nothing
  BY DEF NoOperation
<1>5. OperationOk(t)' /\ OnlineOk(t)' /\ CallShape'
  BY <1>1, <1>4, TabHas DEF OperationOk, OnlineOk, Going, CallShape
<1>. QED BY <1>1, <1>2, <1>3, <1>4, <1>5, OperationMoves

(* The failures of publishAndGoOnline, and disconnect.                      *)
LEMMA UnlockSteps ==
  ASSUME DInv, NEW t \in Tabs, PublishFails(t) \/ Disconnect(t)
  PROVE  DInv'
<1>1. CASE PublishFails(t)
  <2>1. OperationOk(t) /\ operation[t].step \in Going
    BY <1>1, TabHas DEF PublishFails, Going
  <2>2. online' = online \ {t}
    BY <1>1, <2>1 DEF PublishFails, OperationOk
  <2>. QED BY <1>1, <2>2, UnlockMoves DEF PublishFails, OperationKeeps, worldVars
<1>2. CASE Disconnect(t)
  BY <1>2, UnlockMoves DEF Disconnect, StartOperation, OperationKeeps, worldVars
<1>. QED BY <1>1, <1>2

(* An online tab calls the store, with the control key of its device.       *)
LEMMA StartCallStep ==
  ASSUME DInv, NEW t \in Tabs, StartCall(t)
  PROVE  DInv'
<1>0. TypeOK /\ CallShape /\ OnlineOk(t) /\ call \in [Tabs -> Ops \cup {Nothing}]
  BY TabHas DEF TypeOK
<1>1. PICK op \in {Allocation(t)} \cup Floors(Account(t)) : call' = [call EXCEPT ![t] = op]
  BY DEF StartCall
<1>2. UNCHANGED <<storeVars, state, auth, operation, cleanup, online, destroyed,
                  locks, used, expired, abandoned, purged, lost, allocated>>
  BY DEF StartCall, worldVars, historyVars
<1>3. op \in Ops /\ op.type \in {"next", "record"}
  <2>1. CASE op = Allocation(t)
    <3>1. state[t].device \in Device
      BY <1>0 DEF StartCall, OnlineOk, RunsOn
    <3>. QED BY <2>1, <3>1 DEF Allocation, Ops, Device
  <2>2. CASE op \in Floors(Account(t))
    BY <2>2 DEF Floors, Ops
  <2>. QED BY <1>1, <2>1, <2>2
<1>4. call' \in [Tabs -> Ops \cup {Nothing}] /\ CallShape'
  BY <1>0, <1>1, <1>3 DEF CallShape
<1>5. TypeOK'
  BY <1>0, <1>2, <1>4 DEF TypeOK, StoreTypeOK, storeVars
<1>6. OperationOk(t)' /\ OnlineOk(t)'
  BY <1>2, TabHas DEF OperationOk, OnlineOk, RunsOn, Opens, Account, storeVars
<1>7. /\ operation'[t].step = "removing" => Tied(operation'[t].victim, operation'[t].account)
      /\ operation'[t].step # "storing"
  BY <1>2, TabHas DEF StartCall, OperationOk, Going, KeysAreKnown
<1>. QED BY <1>2, <1>4, <1>5, <1>6, <1>7, OperationMoves

-----------------------------------------------------------------------------
(* The end of a tab, and time.                                              *)

(* destroy cancels, and ends the endpoint.                                  *)
LEMMA DestroyStep ==
  ASSUME DInv, NEW t \in Tabs, Destroy(t)
  PROVE  DInv'
<1>0. /\ operation \in [Tabs -> TabOperation] /\ TypeOK /\ online \subseteq Tabs
  BY TabHas
<1>1. /\ CancelState(t) /\ Unlock(t) /\ operation[t] = NoOperation
      /\ operation' = [operation EXCEPT ![t] = NoOperation]
      /\ online' = online \ {t} /\ destroyed' = destroyed \cup {t}
      /\ UNCHANGED <<storeVars, auth, call, used, expired, purged, lost, allocated>>
  BY DEF Destroy, StartOperation, worldVars
<1>2. /\ state' \in [Tabs -> TabState] /\ cleanup' \in [Tabs -> SUBSET GrantKeys]
      /\ abandoned' \in [Tabs -> BOOLEAN]
      /\ \A u \in Tabs \ {t} : /\ state'[u] = state[u] /\ cleanup'[u] = cleanup[u]
                               /\ abandoned'[u] = abandoned[u]
      /\ state'[t].session = state[t].session /\ state'[t].device = state[t].device
      /\ state'[t].pending = Nothing
      /\ AuthOk(t)' /\ CancelledKeyGoes(t)'
      /\ \A k \in cleanup'[t] : k \in cleanup[t] \/ Dead(k)'
      /\ cleanup[t] \subseteq cleanup'[t]
  BY <1>1, Cancelled DEF storeVars
<1>3. operation' = operation
  BY <1>0, <1>1
<1>4. /\ locks' \in [Accounts -> Tabs \cup {Nothing}]
      /\ \A u \in Tabs \ {t} : \A b \in Accounts : locks[b] = u => locks'[b] = u
  BY <1>0, <1>1, LocksOfOthers
<1>5. TypeOK'
  <2>1. online' \subseteq Tabs /\ destroyed' \subseteq Tabs
    BY <1>0, <1>1 DEF TypeOK
  <2>2. UNCHANGED <<storeVars, auth, operation, call, used, expired, purged, lost, allocated>>
    BY <1>1, <1>3
  <2>. QED BY <1>0, <1>2, <1>4, <2>1, <2>2 DEF TypeOK, StoreTypeOK, storeVars, TabState
<1>6. TabsInv'
  <2>1. ASSUME NEW u \in Tabs \ {t} PROVE AuthOk(u)' /\ OperationOk(u)' /\ OnlineOk(u)'
    <3>1. AuthOk(u) /\ OperationOk(u) /\ OnlineOk(u)
      BY TabHas
    <3>2. AuthOk(u)'
      BY <1>1, <1>2, <3>1 DEF AuthOk, Current
    <3>3. u \in online' <=> u \in online
      BY <1>1
    <3>. QED BY <1>0, <1>1, <1>2, <1>3, <1>4, <3>1, <3>2, <3>3, NetworkStays DEF storeVars
  <2>2. OperationOk(t)' /\ OnlineOk(t)'
    BY <1>1, <1>3 DEF OperationOk, OnlineOk, NoOperation, Going
  <2>3. CallShape'
    BY <1>1, TabHas DEF CallShape
  <2>. QED BY <1>2, <2>1, <2>2, <2>3 DEF TabsInv
<1>7. \A u \in Tabs :
        /\ auth'[u].step \in Saved => Tied(auth'[u].key, auth'[u].account)
        /\ auth'[u].step = "erasing" => Tied(auth'[u].victim, auth'[u].account)
        /\ state'[u].session # Nothing =>
             Tied(state'[u].session.key, state'[u].session.account)
        /\ operation'[u].step = "removing" =>
             Tied(operation'[u].victim, operation'[u].account)
        /\ \A k \in cleanup'[u] : k \in cleanup[u] \/ Dead(k)'
        /\ state[u].pending = Nothing => state'[u].pending = Nothing
  BY <1>1, <1>2, <1>3 DEF DInv, KeysInv, KeysAreKnown
<1>8. \A u \in Tabs : CancelledKeyGoes(u)'
  BY <1>1, <1>2 DEF DInv, KeysInv, CancelledKeyGoes, storeVars
<1>9. \A u \in Tabs : \A k \in grantKeys : Holds(k, u) => Holds(k, u)'
  BY <1>1, <1>2 DEF Holds, SessionKey
<1>. QED BY <1>1, <1>3, <1>5, <1>6, <1>7, <1>8, <1>9, TabMoves DEF storeVars

(* A tab that is closed leaves nothing but what it has stored.              *)
LEMMA ReopenStep ==
  ASSUME DInv, NEW t \in Tabs, Reopen(t)
  PROVE  DInv'
<1>0. /\ state \in [Tabs -> TabState] /\ auth \in [Tabs -> TabAuth]
      /\ operation \in [Tabs -> TabOperation] /\ TypeOK /\ online \subseteq Tabs
      /\ cleanup \in [Tabs -> SUBSET GrantKeys] /\ call \in [Tabs -> Ops \cup {Nothing}]
      /\ abandoned \in [Tabs -> BOOLEAN] /\ destroyed \subseteq Tabs
      /\ KeysAreKnown /\ AuthOk(t)
  BY TabHas DEF TypeOK
<1> DEFINE left == cleanup[t] \cup ({auth[t].key, SessionKey(t)} \ (IdentityKeys \cup {Nothing}))
<1>1. /\ state' = [state EXCEPT ![t] = NewState] /\ auth' = [auth EXCEPT ![t] = NoAuth]
      /\ operation' = [operation EXCEPT ![t] = NoOperation]
      /\ cleanup' = [cleanup EXCEPT ![t] = {}] /\ call' = [call EXCEPT ![t] = Nothing]
      /\ online' = online \ {t} /\ destroyed' = destroyed \ {t} /\ Unlock(t)
      /\ abandoned' = [abandoned EXCEPT ![t] = FALSE] /\ lost' = lost \cup left
      /\ UNCHANGED <<storeVars, used, expired, purged, allocated>>
  BY DEF Reopen, worldVars
<1>2. /\ state'[t] = NewState /\ auth'[t] = NoAuth /\ operation'[t] = NoOperation
      /\ cleanup'[t] = {} /\ call'[t] = Nothing /\ abandoned'[t] = FALSE
      /\ t \notin online' /\ t \notin destroyed'
      /\ \A u \in Tabs \ {t} :
           /\ state'[u] = state[u] /\ auth'[u] = auth[u] /\ operation'[u] = operation[u]
           /\ cleanup'[u] = cleanup[u] /\ call'[u] = call[u] /\ abandoned'[u] = abandoned[u]
           /\ u \in online' <=> u \in online
           /\ u \in destroyed' <=> u \in destroyed
  BY <1>0, <1>1
<1>3. /\ NoAuth.step = "idle" /\ NoAuth.key = Nothing /\ NoAuth.epoch = 0
      /\ NoOperation.step = "none" /\ NoOperation.device = Nothing
      /\ NewState.pending = Nothing /\ NewState.session = Nothing /\ NewState.epoch = 0
      /\ NoAuth.step \notin Unsaved \cup Saved \cup Signing
  BY DEF NoAuth, NoOperation, NewState, Unsaved, Saved, Signing
<1>4. /\ locks' \in [Accounts -> Tabs \cup {Nothing}]
      /\ \A u \in Tabs \ {t} : \A b \in Accounts : locks[b] = u => locks'[b] = u
  BY <1>0, <1>1, LocksOfOthers
<1>5. left \subseteq GrantKeys
  <2>1. auth[t].key \in GrantKeys \cup {Nothing}
    BY <1>0 DEF TabAuth
  <2>2. SessionKey(t) \in GrantKeys \cup {Nothing}
    BY <1>0 DEF TabState, Session, SessionKey
  <2>. QED BY <1>0, <2>1, <2>2
<1>6. TypeOK'
  <2>1. state' \in [Tabs -> TabState] /\ auth' \in [Tabs -> TabAuth]
    BY <1>0, <1>1, NewTabType
  <2>2. operation' \in [Tabs -> TabOperation]
    BY <1>0, <1>1, NewTabType
  <2>3. /\ cleanup' \in [Tabs -> SUBSET GrantKeys] /\ call' \in [Tabs -> Ops \cup {Nothing}]
        /\ abandoned' \in [Tabs -> BOOLEAN]
    BY <1>0, <1>1
  <2>4. online' \subseteq Tabs /\ destroyed' \subseteq Tabs
    BY <1>0, <1>1
  <2>5. lost' \subseteq GrantKeys
    BY <1>0, <1>1, <1>5 DEF TypeOK
  <2>. HIDE DEF left
  <2>. QED BY <1>0, <1>1, <1>4, <2>1, <2>2, <2>3, <2>4, <2>5
    DEF TypeOK, StoreTypeOK, storeVars, TabState, TabAuth, TabOperation
<1>. HIDE DEF left
<1>7. TabsInv'
  <2>1. ASSUME NEW u \in Tabs \ {t} PROVE AuthOk(u)' /\ OperationOk(u)' /\ OnlineOk(u)'
    <3>1. AuthOk(u) /\ OperationOk(u) /\ OnlineOk(u)
      BY TabHas
    <3>2. AuthOk(u)'
      BY <1>2, <3>1 DEF AuthOk, Current
    <3>. QED BY <1>0, <1>1, <1>2, <1>4, <3>1, <3>2, NetworkStays DEF storeVars
  <2>2. AuthOk(t)' /\ OperationOk(t)' /\ OnlineOk(t)'
    BY <1>2, <1>3 DEF AuthOk, OperationOk, OnlineOk, Going, Named, Current, Unsaved, Saved
  <2>3. CallShape'
    BY <1>2, TabHas DEF CallShape
  <2>. QED BY <2>1, <2>2, <2>3 DEF TabsInv
<1>8. \A u \in Tabs :
         /\ auth'[u].step \in Unsaved =>
              /\ auth[u].step \in Unsaved /\ auth'[u].key = auth[u].key
              /\ auth[u].step = "pending" /\ state[u].pending = Nothing =>
                   auth'[u].step = "pending" /\ state'[u].pending = Nothing
         /\ auth'[u].step \in Saved => Tied(auth'[u].key, auth'[u].account)
         /\ auth'[u].step = "erasing" => Tied(auth'[u].victim, auth'[u].account)
         /\ state'[u].session # Nothing =>
              Tied(state'[u].session.key, state'[u].session.account)
         /\ operation'[u].step = "removing" =>
              Tied(operation'[u].victim, operation'[u].account)
         /\ \A k \in cleanup'[u] : k \in cleanup[u] \/ Dead(k)'
  BY <1>0, <1>2, <1>3 DEF KeysAreKnown
<1>9. \A u \in Tabs : CancelledKeyGoes(u)'
  BY <1>1, <1>2, <1>3 DEF DInv, KeysInv, CancelledKeyGoes, storeVars
<1>10. \A u \in Tabs : \A k \in grantKeys :
         Holds(k, u) => Holds(k, u)' \/ k \in lost' \cup IdentityKeys
  <2>1. \A k \in grantKeys : k # Nothing
    BY <1>0, StoreAssumption DEF TypeOK, StoreTypeOK
  <2>2. \A k \in grantKeys : Holds(k, t) => k \in left \cup IdentityKeys
    BY <2>1 DEF Holds, left
  <2>. QED BY <1>1, <1>2, <2>2 DEF Holds, SessionKey
<1>11. \A u \in Tabs :
         /\ operation'[u].device \in {operation[u].device, Nothing}
         /\ operation'[u].step = "storing" =>
              /\ operation[u].step = "storing"
              /\ operation'[u].device = operation[u].device
              /\ operation'[u].account = operation[u].account
  BY <1>2, <1>3
<1>. QED BY <1>1, <1>6, <1>7, <1>8, <1>9, <1>10, <1>11, TabMoves DEF storeVars

(* A grant expires.                                                         *)
LEMMA ExpireGrantStep ==
  ASSUME DInv, NEW k \in GrantKeys, ExpireGrant(k)
  PROVE  DInv'
<1>1. /\ expired' = expired \cup {k}
      /\ UNCHANGED <<storeVars, state, auth, operation, cleanup, call, online, destroyed, locks,
                     used, abandoned, purged, lost, allocated>>
  BY DEF ExpireGrant, tabVars, historyVars
<1>2. TypeOK'
  BY <1>1 DEF DInv, TypeOK, StoreTypeOK, storeVars
<1>3. TabsInv'
  <2>1. ASSUME NEW u \in Tabs PROVE AuthOk(u)' /\ OperationOk(u)' /\ OnlineOk(u)'
    BY <1>1, TabHas
    DEF AuthOk, OperationOk, OnlineOk, RunsOn, Opens, Account, Current, storeVars
  <2>2. CallShape'
    BY <1>1 DEF DInv, TabsInv, CallShape
  <2>. QED BY <2>1, <2>2 DEF TabsInv
<1>4. \A u \in Tabs :
        /\ auth'[u].step \in Saved => Tied(auth'[u].key, auth'[u].account)
        /\ auth'[u].step = "erasing" => Tied(auth'[u].victim, auth'[u].account)
        /\ state'[u].session # Nothing =>
             Tied(state'[u].session.key, state'[u].session.account)
        /\ operation'[u].step = "removing" =>
             Tied(operation'[u].victim, operation'[u].account)
  BY <1>1 DEF DInv, KeysInv, KeysAreKnown
<1>5. \A u \in Tabs : CancelledKeyGoes(u)'
  BY <1>1 DEF DInv, KeysInv, CancelledKeyGoes, storeVars
<1>6. \A u \in Tabs : \A j \in grantKeys : Holds(j, u) => Holds(j, u)'
  BY <1>1 DEF Holds, SessionKey
<1>. QED BY <1>1, <1>2, <1>3, <1>4, <1>5, <1>6, TabMoves DEF storeVars

-----------------------------------------------------------------------------
(* Steps that store or delete keys.                                         *)

(* What is known of the keys follows, if tied keys stay tied and dead ones  *)
(* stay dead, from what is new.                                             *)
LEMMA KnownFollows ==
  ASSUME KeysAreKnown, TypeOK', TabsInv',
         \A k : \A a \in Accounts : Tied(k, a) => Tied(k, a)',
         \A k : Dead(k) => Dead(k)',
         grantKeys' \subseteq used',
         \A t, u \in Tabs : /\ auth'[t].step \in Unsaved /\ auth'[u].step \in Unsaved
                            /\ auth'[t].key = auth'[u].key
                            => t = u,
         \A t \in Tabs : auth'[t].step \in Unsaved => auth'[t].key \in used',
         \A t \in Tabs :
            /\ auth'[t].step \in Saved =>
                 Tied(auth'[t].key, auth'[t].account) \/ Tied(auth[t].key, auth[t].account)'
            /\ auth'[t].step = "erasing" => Tied(auth'[t].victim, auth'[t].account)
            /\ state'[t].session # Nothing =>
                 Tied(state'[t].session.key, state'[t].session.account)
            /\ operation'[t].step = "removing" =>
                 Tied(operation'[t].victim, operation'[t].account)
            /\ operation'[t].step = "storing" =>
                 Tied(operation'[t].device.key, operation'[t].account)
            /\ \A k \in cleanup'[t] : k \in cleanup[t] \/ Dead(k)' \/ k \in lost',
         \A a \in Accounts :
            /\ identities'[a] # Nothing =>
                 Tied(identities'[a].key, a) \/ Tied(identities[a].key, a)'
            /\ deviceStates'[a] # Nothing => Tied(deviceStates'[a].device.key, a),
         lost \subseteq lost'
  PROVE  KeysAreKnown'
<1>1. \A t \in Tabs :
        /\ auth'[t].step \in Saved => Tied(auth[t].key, auth[t].account)'
        /\ auth'[t].step = "erasing" => Tied(auth[t].victim, auth[t].account)'
        /\ operation'[t].step = "removing" => Tied(operation[t].victim, operation[t].account)'
        /\ operation'[t].step = "storing" => Tied(operation[t].device.key, operation[t].account)'
  BY DEF TabsInv, AuthOk, OperationOk, Named, Saved
<1>2. \A t \in Tabs : state'[t].session # Nothing =>
                        Tied(state[t].session.key, state[t].session.account)'
  BY NothingIsNoSession DEF TypeOK, Session
<1>3. \A a \in Accounts : /\ identities'[a] # Nothing => Tied(identities[a].key, a)'
                          /\ deviceStates'[a] # Nothing => Tied(deviceStates[a].device.key, a)'
  OBVIOUS
<1>4. \A t \in Tabs : \A k \in cleanup'[t] : Dead(k)' \/ k \in lost'
  BY DEF KeysAreKnown
<1>. QED BY <1>1, <1>2, <1>3, <1>4 DEF KeysAreKnown

(* One of a set is in it.                                                   *)
LEMMA OneIsIn == \A S : \A x \in One(S) : x \in S
BY DEF One

(* ensure_grant_key.                                                        *)
LEMMA StoreGrantKeyStep ==
  ASSUME DInv, NEW t \in Tabs, StoreGrantKey(t)
  PROVE  DInv'
<1>0. /\ auth \in [Tabs -> TabAuth] /\ TypeOK /\ AuthOk(t) /\ KeysAreKnown
      /\ auth[t].step = "creating" /\ auth[t].key = Nothing
  BY TabHas DEF StoreGrantKey, AuthOk
<1>1. UNCHANGED <<purged, lost>> /\ AuthKeeps
  BY DEF StoreGrantKey
<1>2. CASE AuthFails(t) /\ UNCHANGED <<storeVars, used>>
  <2>1. auth[t].step \notin Saved
    BY <1>0 DEF Saved
  <2>. QED BY <1>0, <1>1, <1>2, <2>1, FailMoves
<1>3. CASE /\ \E k \in One(GrantKeys \ used) :
                /\ AddGrantKey(k)
                /\ used' = used \cup {k}
                /\ auth' = [auth EXCEPT ![t].step = "created", ![t].key = k]
           /\ UNCHANGED <<state, cleanup>>
  <2>1. PICK k \in GrantKeys \ used :
          /\ AddGrantKey(k)
          /\ used' = used \cup {k}
          /\ auth' = [auth EXCEPT ![t].step = "created", ![t].key = k]
    BY <1>3, OneIsIn
  <2> DEFINE new == [auth[t] EXCEPT !.step = "created", !.key = k]
  <2>2. /\ new \in TabAuth /\ new.step = "created" /\ new.key = k
        /\ new.epoch = auth[t].epoch
    <3>1. auth[t] \in TabAuth /\ k \in GrantKeys
      BY <1>0, <2>1
    <3>2. new \in TabAuth
      BY <3>1 DEF TabAuth, Signing
    <3>. QED BY <3>1, <3>2 DEF TabAuth
  <2>3. auth' = [auth EXCEPT ![t] = new]
    <3>1. auth' = [auth EXCEPT ![t].step = "created", ![t].key = k]
      BY <2>1
    <3>2. auth \in [Tabs -> TabAuth]
      BY <1>0
    <3>. QED BY <3>1, <3>2
  <2>. HIDE DEF new
  <2>4. /\ auth'[t] = new /\ \A u \in Tabs \ {t} : auth'[u] = auth[u]
        /\ auth' \in [Tabs -> TabAuth]
    BY <1>0, <2>2, <2>3
  <2>5. /\ grantKeys' = grantKeys \cup {k} /\ used' = used \cup {k}
        /\ UNCHANGED <<identities, encryptionKeys, deviceStates, sequences, generated, state,
                       cleanup, purged, lost, operation, call, online, destroyed, locks,
                       expired, abandoned, allocated>>
    BY <1>1, <1>3, <2>1 DEF AddGrantKey, AuthKeeps
  <2>6. new.step \in Unsaved /\ new.step \notin Saved /\ new.step \notin Named
    BY <2>2 DEF Unsaved, Saved, Named
  <2>7. TypeOK'
    <3>1. grantKeys' \subseteq GrantKeys /\ used' \subseteq GrantKeys \cup PublisherKeys
      BY <1>0, <2>5 DEF TypeOK, StoreTypeOK
    <3>. QED BY <1>0, <2>4, <2>5, <3>1 DEF TypeOK, StoreTypeOK, TabAuth
  <2>8. TabsInv'
    <3>1. ASSUME NEW u \in Tabs \ {t} PROVE AuthOk(u)'
      <4>1. AuthOk(u)
        BY TabHas
      <4>. QED BY <2>4, <2>5, <4>1 DEF AuthOk, Current
    <3>2. AuthOk(t)'
      BY <1>0, <2>2, <2>4, <2>5, <2>6 DEF AuthOk, Current
    <3>3. ASSUME NEW u \in Tabs PROVE OperationOk(u)' /\ OnlineOk(u)'
      BY <2>5, TabHas DEF OperationOk, OnlineOk, RunsOn, Opens, Account
    <3>4. CallShape'
      BY <2>5, TabHas DEF CallShape
    <3>. QED BY <3>1, <3>2, <3>3, <3>4 DEF TabsInv
  <2>9. CountersInv'
    BY <2>5, CountersStay DEF DInv
  <2>10. KeysAreKnown'
    <3>1. ASSUME NEW j, NEW a \in Accounts, Tied(j, a) PROVE Tied(j, a)'
      <4>1. j # k
        BY <2>1, <3>1 DEF Tied
      <4>. QED BY <2>2, <2>4, <2>5, <3>1, <4>1, TiedStays
    <3>2. ASSUME NEW j, Dead(j) PROVE Dead(j)'
      BY <2>2, <2>4, <2>5, <3>2, DeadStays
    <3>3. \A u \in Tabs \ {t} : auth[u].step \in Unsaved => auth[u].key # k
      BY <1>0, <2>1 DEF KeysAreKnown
    <3>4. /\ grantKeys' \subseteq used'
          /\ \A u, w \in Tabs : /\ auth'[u].step \in Unsaved /\ auth'[w].step \in Unsaved
                                /\ auth'[u].key = auth'[w].key
                                => u = w
          /\ \A u \in Tabs : auth'[u].step \in Unsaved => auth'[u].key \in used'
      BY <1>0, <2>2, <2>4, <2>5, <3>3 DEF KeysAreKnown
    <3>5. \A u \in Tabs :
            /\ auth'[u].step \in Saved => Tied(auth'[u].key, auth'[u].account)
            /\ auth'[u].step = "erasing" => Tied(auth'[u].victim, auth'[u].account)
      BY <1>0, <2>2, <2>4, <2>6 DEF KeysAreKnown
    <3>. QED BY <1>0, <2>5, <2>7, <2>8, <3>1, <3>2, <3>4, <3>5, KnownFollows DEF KeysAreKnown
  <2>11. DeviceKeysAreKept'
    BY <2>5 DEF DInv, KeysInv, DeviceKeysAreKept, Kept
  <2>12. NoKeyIsForgotten'
    <3>1. IdentityKeys' = IdentityKeys
      BY <2>5 DEF IdentityKeys
    <3>2. ASSUME NEW j \in grantKeys' \ (lost' \cup IdentityKeys')
          PROVE  \E u \in Tabs : Holds(j, u)'
      <4>1. CASE j = k
        BY <2>2, <2>4, <4>1 DEF Holds, Signing
      <4>2. CASE j # k
        <5>1. PICK u \in Tabs : Holds(j, u)
          BY <2>5, <3>1, <3>2, <4>2 DEF DInv, KeysInv, NoKeyIsForgotten, Holds
        <5>2. j # Nothing
          BY <2>5, <3>2, <4>2, <1>0, StoreAssumption DEF TypeOK, StoreTypeOK
        <5>. QED BY <1>0, <2>4, <2>5, <5>1, <5>2 DEF Holds, SessionKey
      <4>. QED BY <4>1, <4>2
    <3>. QED BY <3>2 DEF NoKeyIsForgotten, Holds
  <2>13. \A u \in Tabs : CancelledKeyGoes(u)'
    <3>1. \A u \in Tabs \ {t} : auth[u].step = "pending" => auth[u].key # k
      <4>1. "pending" \in Unsaved
        BY DEF Unsaved
      <4>. QED BY <1>0, <2>1, <4>1 DEF KeysAreKnown
    <3>2. \A u \in Tabs : CancelledKeyGoes(u)
      BY DEF DInv, KeysInv
    <3>. QED BY <2>2, <2>4, <2>5, <3>1, <3>2 DEF CancelledKeyGoes
  <2>. QED BY <2>7, <2>8, <2>9, <2>10, <2>11, <2>12, <2>13 DEF DInv, KeysInv
<1>. QED BY <1>1, <1>2, <1>3 DEF StoreGrantKey

(* A key that no identity has, or that is lost, is deleted: nobody else     *)
(* runs on it.                                                              *)
LEMMA DeleteMoves ==
  ASSUME DInv, NEW t \in Tabs, NEW k, DeleteGrantKey(k), TypeOK',
         Dead(k) \/ k \in lost \/ (auth[t].step \in Unsaved /\ auth[t].key = k),
         UNCHANGED <<used, lost, purged, operation, call, online, destroyed, locks, expired,
                     abandoned, allocated>>,
         \A u \in Tabs \ {t} :
            state'[u] = state[u] /\ auth'[u] = auth[u] /\ cleanup'[u] = cleanup[u],
         AuthOk(t)', CancelledKeyGoes(t)',
         /\ state'[t].session = state[t].session /\ state'[t].device = state[t].device
         /\ state'[t].pending = state[t].pending,
         auth'[t] \in {auth[t], NoAuth}, cleanup'[t] \subseteq cleanup[t],
         \A j \in grantKeys \ {k} : Holds(j, t) => Holds(j, t)'
  PROVE  DInv'
<1>0. /\ TypeOK /\ KeysAreKnown /\ CallShape
  BY TabHas
<1>1. /\ grantKeys' = grantKeys \ {k}
      /\ UNCHANGED <<identities, encryptionKeys, deviceStates, sequences, generated>>
  BY DEF DeleteGrantKey
<1>2. TabsInv'
  <2>1. ASSUME NEW u \in Tabs \ {t} PROVE AuthOk(u)'
    BY TabHas DEF AuthOk, Current
  <2>2. ASSUME NEW u \in Tabs PROVE OperationOk(u)' /\ OnlineOk(u)'
    <3>1. OperationOk(u) /\ OnlineOk(u)
      BY TabHas
    <3>. QED BY <1>0, <1>1, <3>1, NetworkStays
  <2>3. CallShape'
    BY <1>0 DEF CallShape
  <2>. QED BY <2>1, <2>2, <2>3 DEF TabsInv
<1>3. CountersInv'
  BY <1>1, CountersStay DEF DInv
<1>4. NoAuth.step \notin Unsaved \cup Saved \cup {"erasing"}
  BY DEF NoAuth, Unsaved, Saved
<1>5. KeysAreKnown'
  <2>1. \A u \in Tabs :
          /\ auth'[u].step \in Unsaved \cup Saved \cup {"erasing"} => auth'[u] = auth[u]
          /\ \A j \in cleanup'[u] : j \in cleanup[u]
          /\ state'[u].session = state[u].session /\ state'[u].pending = state[u].pending
    BY <1>4
  <2>2. \A u \in Tabs :
          /\ auth'[u].step \in Unsaved =>
               /\ auth[u].step \in Unsaved /\ auth'[u].key = auth[u].key
               /\ auth[u].step = "pending" /\ state[u].pending = Nothing =>
                    auth'[u].step = "pending" /\ state'[u].pending = Nothing
          /\ auth'[u].step \in Saved => Tied(auth'[u].key, auth'[u].account)
          /\ auth'[u].step = "erasing" => Tied(auth'[u].victim, auth'[u].account)
          /\ state'[u].session # Nothing =>
               Tied(state'[u].session.key, state'[u].session.account)
          /\ operation'[u].step = "removing" =>
               Tied(operation'[u].victim, operation'[u].account)
          /\ operation'[u].step = "storing" =>
               Tied(operation'[u].device.key, operation'[u].account)
    BY <1>0, <2>1 DEF KeysAreKnown
  <2>3. \A a \in Accounts : deviceStates'[a] # Nothing =>
          Tied(deviceStates'[a].device.key, a)
    BY <1>0, <1>1 DEF KeysAreKnown
  <2>. QED BY <1>0, <1>1, <1>2, <2>1, <2>2, <2>3, KnownStays
<1>6. DeviceKeysAreKept'
  <2>1. ASSUME NEW j, NEW a \in Accounts, Tied(j, a), Kept(j, a) PROVE Kept(j, a)'
    <3>1. j = k => j \notin grantKeys \ lost
      <4>1. CASE Dead(k)
        BY <2>1, <4>1 DEF Dead, Tied, IdentityKeys
      <4>2. CASE auth[t].step \in Unsaved /\ auth[t].key = k
        BY <2>1, <4>2 DEF Tied
      <4>. QED BY <4>1, <4>2
    <3>. QED BY <1>1, <2>1, <3>1 DEF Kept
  <2>2. \A a \in Accounts : deviceStates'[a] # Nothing => Kept(deviceStates[a].device.key, a)'
    BY <1>0, <1>1, <2>1 DEF DInv, KeysInv, DeviceKeysAreKept, KeysAreKnown
  <2>3. ASSUME NEW u \in Tabs, operation'[u].step = "storing"
        PROVE  Kept(operation[u].device.key, operation[u].account)'
    <3>1. operation[u].account \in Accounts /\ operation[u].step = "storing"
      BY <2>3, TabHas DEF OperationOk
    <3>2. PICK j : j = operation[u].device.key
      OBVIOUS
    <3>3. PICK a \in Accounts : a = operation[u].account
      BY <3>1
    <3>4. Tied(j, a) /\ Kept(j, a)
      BY <1>0, <3>1, <3>2, <3>3 DEF DInv, KeysInv, DeviceKeysAreKept, KeysAreKnown
    <3>5. Kept(j, a)'
      BY <2>1, <3>4
    <3>. QED BY <3>2, <3>3, <3>5
  <2>. QED BY <1>1, <2>2, <2>3 DEF DeviceKeysAreKept
<1>7. NoKeyIsForgotten'
  <2>1. \A u \in Tabs : \A j \in grantKeys' : Holds(j, u) => Holds(j, u)'
    BY <1>1 DEF Holds, SessionKey
  <2>. QED BY <1>1, <2>1, NoneForgotten DEF DInv, KeysInv
<1>8. \A u \in Tabs : CancelledKeyGoes(u)'
  BY <1>1 DEF DInv, KeysInv, CancelledKeyGoes
<1>. QED BY <1>2, <1>3, <1>5, <1>6, <1>7, <1>8 DEF DInv, KeysInv

(* A flow that did not start deletes its key.                               *)
LEMMA DiscardStep ==
  ASSUME DInv, NEW t \in Tabs, Discard(t)
  PROVE  DInv'
<1>0. /\ state \in [Tabs -> TabState] /\ auth \in [Tabs -> TabAuth] /\ TypeOK
      /\ AuthOk(t) /\ auth[t].step = "discarding" /\ auth[t].step \in Unsaved
  BY TabHas DEF Discard, Unsaved
<1>1. PICK k : k = auth[t].key
  OBVIOUS
<1>2. /\ DeleteGrantKey(k) /\ state' = [state EXCEPT ![t].busy = FALSE]
      /\ auth' = [auth EXCEPT ![t] = NoAuth]
      /\ UNCHANGED <<cleanup, used, purged, lost, operation, call, online, destroyed, locks,
                     expired, abandoned, allocated>>
  BY <1>1 DEF Discard, AuthKeeps
<1>3. /\ state'[t].session = state[t].session /\ state'[t].device = state[t].device
      /\ state'[t].pending = state[t].pending /\ state'[t].epoch = state[t].epoch
      /\ state[t].epoch \in Nat
      /\ auth'[t] = NoAuth
      /\ \A u \in Tabs \ {t} : state'[u] = state[u] /\ auth'[u] = auth[u]
  BY <1>0, <1>2 DEF TabState
<1>4. TypeOK'
  <2>1. state' \in [Tabs -> TabState]
    BY <1>0, <1>2 DEF TabState
  <2>2. auth' \in [Tabs -> TabAuth]
    BY <1>0, <1>2, NewTabType
  <2>. QED BY <1>0, <1>2, <2>1, <2>2 DEF TypeOK, StoreTypeOK, DeleteGrantKey, TabState, TabAuth
<1>5. NoAuth.step = "idle" /\ NoAuth.key = Nothing /\ NoAuth.epoch = 0
  BY DEF NoAuth
<1>6. AuthOk(t)' /\ CancelledKeyGoes(t)'
  BY <1>0, <1>3, <1>5 DEF AuthOk, CancelledKeyGoes, Current, Unsaved, Saved, Named
<1>7. \A j \in grantKeys \ {k} : Holds(j, t) => Holds(j, t)'
  BY <1>1, <1>2, <1>3 DEF Holds, SessionKey
<1>. QED BY <1>0, <1>1, <1>2, <1>3, <1>4, <1>6, <1>7, DeleteMoves

(* A deletion that nobody waits for.                                        *)
LEMMA CleanUpStep ==
  ASSUME DInv, NEW t \in Tabs, CleanUp(t)
  PROVE  DInv'
<1>0. /\ TypeOK /\ AuthOk(t) /\ CancelledKeyGoes(t)
      /\ cleanup \in [Tabs -> SUBSET GrantKeys]
  BY TabHas DEF TypeOK, DInv, KeysInv
<1>1. PICK k \in cleanup[t] :
        /\ DeleteGrantKey(k)
        /\ cleanup' = [cleanup EXCEPT ![t] = @ \ {k}]
  BY DEF CleanUp
<1>2. UNCHANGED <<state, auth, operation, call, online, destroyed, locks, used, expired,
                  abandoned, purged, lost, allocated>>
  BY DEF CleanUp, worldVars, historyVars
<1>3. Dead(k) \/ k \in lost
  BY TabHas DEF KeysAreKnown
<1>4. /\ cleanup'[t] = cleanup[t] \ {k} /\ \A u \in Tabs \ {t} : cleanup'[u] = cleanup[u]
      /\ cleanup' \in [Tabs -> SUBSET GrantKeys]
  BY <1>0, <1>1
<1>5. TypeOK'
  BY <1>0, <1>1, <1>2, <1>4 DEF TypeOK, StoreTypeOK, DeleteGrantKey
<1>6. AuthOk(t)'
  BY <1>0, <1>2 DEF AuthOk, Current
<1>7. CancelledKeyGoes(t)'
  BY <1>0, <1>1, <1>2, <1>4 DEF CancelledKeyGoes, DeleteGrantKey
<1>8. \A j \in grantKeys \ {k} : Holds(j, t) => Holds(j, t)'
  BY <1>2, <1>4 DEF Holds, SessionKey
<1>. QED BY <1>1, <1>2, <1>3, <1>4, <1>5, <1>6, <1>7, <1>8, DeleteMoves

(* The identity is saved: its key is now the one of the account, and the    *)
(* key of an expired grant that it replaces is deleted.                     *)
LEMMA SaveStep ==
  ASSUME DInv, NEW t \in Tabs, Save(t)
  PROVE  DInv'
<1>0. /\ auth \in [Tabs -> TabAuth] /\ TypeOK /\ AuthOk(t) /\ KeysAreKnown
  BY TabHas
<1>1. PICK k, a, e : k = auth[t].key /\ a = auth[t].account /\ e = auth[t].sealed
  OBVIOUS
<1>2. /\ auth[t].step = "saving" /\ auth[t].step \in Unsaved
      /\ k \in GrantKeys /\ a \in Accounts /\ e \in EncryptionKeys
  BY <1>0, <1>1 DEF Save, AuthOk, Unsaved, Named
<1> DEFINE old == IF identities[a] = Nothing THEN {} ELSE {identities[a].key}
<1>3. /\ identities' = [identities EXCEPT ![a] = [key |-> k, sealed |-> e]]
      /\ grantKeys' = grantKeys \ (old \ {k})
      /\ old \subseteq expired
      /\ UNCHANGED <<encryptionKeys, deviceStates, sequences, generated>>
  BY <1>1 DEF Save, SaveIdentity, SaveIdentityOk
<1>4. /\ UNCHANGED <<state, cleanup, used, purged, lost, operation, call, online, destroyed,
                     locks, expired, abandoned, allocated>>
      /\ auth' = [auth EXCEPT ![t].step = "saved"]
  BY DEF Save, AuthStep, AuthKeeps
<1>5. \A j : \A b \in Accounts : Tied(j, b) => j # k
  BY <1>1, <1>2 DEF Tied
<1>6. old \subseteq {j \in used : Tied(j, a)} /\ k \notin old
  BY <1>0, <1>2, <1>5 DEF KeysAreKnown, Tied
<1>7. /\ identities'[a].key = k /\ identities'[a] # Nothing
      /\ \A b \in Accounts \ {a} : identities'[b] = identities[b]
      /\ identities' \in [Accounts -> Identity \cup {Nothing}]
  <2>1. [key |-> k, sealed |-> e] \in Identity
    BY <1>2 DEF Identity
  <2>2. identities \in [Accounts -> Identity \cup {Nothing}]
    BY <1>0 DEF TypeOK, StoreTypeOK
  <2>. QED BY <1>2, <1>3, <2>1, <2>2, NothingIsNoRecord
<1>8. /\ auth'[t].step = "saved" /\ auth'[t].key = k /\ auth'[t].account = a
      /\ auth'[t].epoch = auth[t].epoch
      /\ \A u \in Tabs \ {t} : auth'[u] = auth[u]
      /\ auth' \in [Tabs -> TabAuth]
  <2> DEFINE new == [auth[t] EXCEPT !.step = "saved"]
  <2>1. auth \in [Tabs -> TabAuth] /\ auth[t] \in TabAuth
    BY <1>0
  <2>2. /\ new \in TabAuth /\ new.step = "saved" /\ new.key = k /\ new.account = a
        /\ new.epoch = auth[t].epoch
    BY <1>1, <2>1 DEF TabAuth, Signing
  <2>3. auth' = [auth EXCEPT ![t] = new]
    BY <1>4, <2>1
  <2>. HIDE DEF new
  <2>. QED BY <2>1, <2>2, <2>3
<1>. HIDE DEF old
<1>9. TypeOK'
  BY <1>0, <1>3, <1>4, <1>7, <1>8 DEF TypeOK, StoreTypeOK, TabAuth
<1>10. TabsInv'
  <2>1. ASSUME NEW u \in Tabs PROVE AuthOk(u)'
    <3>1. AuthOk(u)
      BY TabHas
    <3>2. CASE u # t
      BY <1>4, <1>8, <3>1, <3>2 DEF AuthOk, Current
    <3>3. CASE u = t
      BY <1>2, <1>4, <1>8, <3>1, <3>3 DEF AuthOk, Current
    <3>. QED BY <3>2, <3>3
  <2>2. ASSUME NEW u \in Tabs PROVE OperationOk(u)' /\ OnlineOk(u)'
    <3>1. OperationOk(u) /\ OnlineOk(u)
      BY TabHas
    <3>. QED BY <1>0, <1>3, <1>4, <3>1, NetworkStays
  <2>3. CallShape'
    BY <1>4, TabHas DEF CallShape
  <2>. QED BY <2>1, <2>2, <2>3 DEF TabsInv
<1>11. CountersInv'
  BY <1>3, <1>4, CountersStay DEF DInv
<1>12. \A u \in Tabs : auth'[u].step \in Unsaved =>
         u # t /\ auth[u].step \in Unsaved /\ auth'[u] = auth[u]
  BY <1>8 DEF Unsaved
<1>13. ASSUME NEW j, NEW b \in Accounts, Tied(j, b) PROVE Tied(j, b)'
  <2>1. j \in grantKeys' \ lost' => j \in grantKeys \ lost /\ identities'[b] = identities[b]
    <3>1. b = a => j \notin grantKeys' \ lost'
      BY <1>3, <1>4, <1>5, <1>13 DEF Tied, old
    <3>. QED BY <1>3, <1>4, <1>7, <3>1
  <2>2. \A c \in Accounts : identities'[c] # Nothing /\ identities'[c].key = j =>
                              identities[c] # Nothing /\ identities[c].key = j
    BY <1>5, <1>7, <1>13
  <2>. QED BY <1>4, <1>12, <1>13, <2>1, <2>2, TiedStays
<1>14. ASSUME NEW j, Dead(j) PROVE Dead(j)'
  <2>1. j # k
    BY <1>1, <1>2, <1>14 DEF Dead
  <2>2. \A c \in Accounts : identities'[c] # Nothing /\ identities'[c].key = j =>
                              identities[c] # Nothing /\ identities[c].key = j
    BY <1>7, <2>1
  <2>. QED BY <1>4, <1>12, <1>14, <2>2, DeadStays
<1>15. Tied(k, a)'
  <2>1. k \in used'
    BY <1>0, <1>1, <1>2, <1>4 DEF KeysAreKnown
  <2>2. \A b \in Accounts : identities'[b] # Nothing /\ identities'[b].key = k => b = a
    BY <1>0, <1>5, <1>7 DEF KeysAreKnown
  <2>3. \A u \in Tabs : auth'[u].step \in Unsaved => auth'[u].key # k
    BY <1>0, <1>1, <1>2, <1>12 DEF KeysAreKnown
  <2>. QED BY <1>7, <2>1, <2>2, <2>3 DEF Tied
<1>16. KeysAreKnown'
  <2>1. /\ grantKeys' \subseteq used'
        /\ \A u, w \in Tabs : /\ auth'[u].step \in Unsaved /\ auth'[w].step \in Unsaved
                              /\ auth'[u].key = auth'[w].key
                              => u = w
        /\ \A u \in Tabs : auth'[u].step \in Unsaved => auth'[u].key \in used'
    BY <1>0, <1>3, <1>4, <1>12 DEF KeysAreKnown
  <2>2. Tied(auth[t].key, auth[t].account)'
    BY <1>8, <1>15
  <2>3. \A u \in Tabs :
          /\ auth'[u].step \in Saved =>
               Tied(auth'[u].key, auth'[u].account) \/ Tied(auth[u].key, auth[u].account)'
          /\ auth'[u].step = "erasing" => Tied(auth'[u].victim, auth'[u].account)
    BY <1>0, <1>8, <2>2 DEF KeysAreKnown
  <2>4. \A b \in Accounts : identities'[b] # Nothing =>
          Tied(identities'[b].key, b) \/ Tied(identities[b].key, b)'
    <3>1. Tied(identities[a].key, a)'
      BY <1>7, <1>15
    <3>. QED BY <1>0, <1>7, <3>1 DEF KeysAreKnown
  <2>. QED BY <1>0, <1>3, <1>4, <1>9, <1>10, <1>13, <1>14, <2>1, <2>3, <2>4, KnownFollows
    DEF KeysAreKnown
<1>17. DeviceKeysAreKept'
  <2>1. \A j : \A b \in Accounts : Kept(j, b) => Kept(j, b)'
    BY <1>3, <1>4 DEF Kept
  <2>2. \A b \in Accounts : deviceStates'[b] # Nothing => Kept(deviceStates[b].device.key, b)'
    BY <1>3, <2>1 DEF DInv, KeysInv, DeviceKeysAreKept
  <2>3. ASSUME NEW u \in Tabs, operation'[u].step = "storing"
        PROVE  Kept(operation[u].device.key, operation[u].account)'
    <3>1. operation[u].account \in Accounts /\ operation[u].step = "storing"
      BY <1>4, <2>3, TabHas DEF OperationOk
    <3>2. PICK j, b : j = operation[u].device.key /\ b = operation[u].account
      OBVIOUS
    <3>3. Kept(j, b)'
      BY <2>1, <3>1, <3>2 DEF DInv, KeysInv, DeviceKeysAreKept
    <3>. QED BY <1>4, <3>2, <3>3
  <2>. QED BY <1>3, <2>2, <2>3 DEF DeviceKeysAreKept
<1>18. NoKeyIsForgotten'
  <2>1. ASSUME NEW j \in grantKeys' \ (lost' \cup IdentityKeys')
        PROVE  \E u \in Tabs : Holds(j, u)'
    <3>1. j # k
      BY <1>2, <1>7, <2>1 DEF IdentityKeys
    <3>2. j \notin IdentityKeys /\ j \in grantKeys \ lost
      BY <1>2, <1>3, <1>4, <1>7, <2>1, <3>1 DEF IdentityKeys, old
    <3>3. PICK u \in Tabs : Holds(j, u)
      BY <3>2 DEF DInv, KeysInv, NoKeyIsForgotten, Holds
    <3>. QED BY <1>1, <1>4, <1>8, <3>1, <3>3 DEF Holds, SessionKey
  <2>. QED BY <2>1 DEF NoKeyIsForgotten, Holds
<1>19. \A u \in Tabs : CancelledKeyGoes(u)'
  BY <1>3, <1>4, <1>8 DEF DInv, KeysInv, CancelledKeyGoes
<1>. QED BY <1>9, <1>10, <1>11, <1>16, <1>17, <1>18, <1>19 DEF DInv, KeysInv

-----------------------------------------------------------------------------
(* Removals.                                                                *)

(* A tied key whose account has no identity is dead.                        *)
LEMMA UntiedIsDead ==
  ASSUME NEW k, NEW a \in Accounts, Tied(k, a)', identities'[a] = Nothing
  PROVE  Dead(k)'
<1>1. k \notin IdentityKeys'
  <2>. SUFFICES ASSUME k \in IdentityKeys' PROVE FALSE
    OBVIOUS
  <2>1. PICK b \in Accounts : identities'[b] # Nothing /\ identities'[b].key = k
    BY DEF IdentityKeys
  <2>. QED BY <2>1 DEF Tied
<1>. QED BY <1>1 DEF Tied, Dead

(* What the transaction of a removal does to account a, of which it deletes *)
(* key v.                                                                   *)
LEMMA Removed ==
  ASSUME TypeOK, NEW a \in Accounts, NEW v, RemoveIdentity(a, v), MissesKey(a, v)
  PROVE  /\ grantKeys' = grantKeys \ {v}
         /\ identities'[a] = Nothing /\ deviceStates'[a] = Nothing
         /\ \A b \in Accounts \ {a} : /\ identities'[b] = identities[b]
                                      /\ deviceStates'[b] = deviceStates[b]
                                      /\ encryptionKeys'[b] = encryptionKeys[b]
         /\ \A k \in Keys : sequences'[k] = IF AccountOf[k] = a THEN Missing ELSE sequences[k]
         /\ lost' = lost \cup (IF identities[a] = Nothing THEN {}
                               ELSE {identities[a].key} \ {v})
         /\ lost' \subseteq GrantKeys
         /\ StoreTypeOK'
<1>1. /\ identities \in [Accounts -> Identity \cup {Nothing}]
      /\ deviceStates \in [Accounts -> DeviceState \cup {Nothing}]
      /\ encryptionKeys \in [Accounts -> EncryptionKeys \cup {Nothing}]
      /\ sequences \in [Keys -> StoredSequence \cup {Missing}]
      /\ lost \subseteq GrantKeys /\ grantKeys \subseteq GrantKeys
      /\ generated \in 0..MaxGenerated
  BY DEF TypeOK, StoreTypeOK, SequenceStates
<1>2. /\ grantKeys' = grantKeys \ {v}
      /\ identities' = [identities EXCEPT ![a] = Nothing]
      /\ encryptionKeys' = [encryptionKeys EXCEPT ![a] = Nothing]
      /\ deviceStates' = [deviceStates EXCEPT ![a] = Nothing]
      /\ sequences' = [k2 \in Keys |-> IF AccountOf[k2] = a THEN Missing ELSE sequences[k2]]
      /\ generated' = generated
  BY DEF RemoveIdentity
<1>3. lost' = lost \cup (IF identities[a] = Nothing THEN {}
                         ELSE {identities[a].key} \ {v})
  BY DEF MissesKey
<1>4. identities[a] # Nothing => identities[a].key \in GrantKeys
  BY <1>1 DEF Identity
<1>5. lost' \subseteq GrantKeys
  BY <1>1, <1>3, <1>4
<1>6. sequences' \in SequenceStates
  BY <1>1, <1>2 DEF SequenceStates
<1>7. /\ identities' \in [Accounts -> Identity \cup {Nothing}]
      /\ deviceStates' \in [Accounts -> DeviceState \cup {Nothing}]
      /\ encryptionKeys' \in [Accounts -> EncryptionKeys \cup {Nothing}]
      /\ grantKeys' \subseteq GrantKeys
  BY <1>1, <1>2
<1>8. StoreTypeOK'
  BY <1>1, <1>2, <1>6, <1>7 DEF StoreTypeOK
<1>9. \A k \in Keys : sequences'[k] = IF AccountOf[k] = a THEN Missing ELSE sequences[k]
  BY <1>2
<1>10. /\ identities'[a] = Nothing /\ deviceStates'[a] = Nothing
       /\ \A b \in Accounts \ {a} : /\ identities'[b] = identities[b]
                                    /\ deviceStates'[b] = deviceStates[b]
                                    /\ encryptionKeys'[b] = encryptionKeys[b]
  BY <1>1, <1>2
<1>. QED BY <1>2, <1>3, <1>5, <1>8, <1>9, <1>10

(* A removal, by a cancelled authorization or by the user.                  *)
LEMMA RemovalMoves ==
  ASSUME DInv, NEW a \in Accounts, NEW v, Tied(v, a), RemoveIdentity(a, v), MissesKey(a, v),
         UNCHANGED <<used, expired, allocated>>, purged \subseteq purged',
         TypeOK', TabsInv',
         \A u \in Tabs :
            /\ operation'[u] \in {operation[u], NoOperation}
            /\ operation'[u].step = "storing" => operation[u].account # a \/ a \in purged'
            /\ auth'[u] \in {auth[u], NoAuth}
            /\ state'[u].session \in {state[u].session, Nothing}
            /\ state'[u].pending = state[u].pending
            /\ \A k \in cleanup'[u] : k \in cleanup[u] \/ Tied(k, a)
            /\ cleanup[u] \subseteq cleanup'[u],
         \A u \in Tabs : \A k \in grantKeys : Holds(k, u) => Holds(k, u)' \/ Tied(k, a)
  PROVE  DInv'
<1>0. /\ TypeOK /\ KeysAreKnown /\ CountersInv /\ DeviceKeysAreKept /\ NoKeyIsForgotten
  BY DEF DInv, KeysInv
<1>1. /\ grantKeys' = grantKeys \ {v}
      /\ identities'[a] = Nothing /\ deviceStates'[a] = Nothing
      /\ \A b \in Accounts \ {a} : /\ identities'[b] = identities[b]
                                   /\ deviceStates'[b] = deviceStates[b]
                                   /\ encryptionKeys'[b] = encryptionKeys[b]
      /\ \A k \in Keys : sequences'[k] = IF AccountOf[k] = a THEN Missing ELSE sequences[k]
      /\ lost' = lost \cup (IF identities[a] = Nothing THEN {}
                            ELSE {identities[a].key} \ {v})
  BY <1>0, Removed
<1>2. /\ NoAuth.step \notin Unsaved /\ NoAuth.step \notin Saved /\ NoAuth.step # "erasing"
      /\ NoAuth.step # "pending"
      /\ NoOperation.step = "none" /\ NoOperation.device = Nothing
  BY DEF NoAuth, NoOperation, Unsaved, Saved
<1>3. \A u \in Tabs :
        /\ auth'[u].step \in Unsaved \/ auth'[u].step \in Saved \/ auth'[u].step = "erasing"
             => auth'[u] = auth[u]
        /\ operation'[u].step # "none" => operation'[u] = operation[u]
        /\ operation'[u].device \in {operation[u].device, Nothing}
  BY <1>2
<1>4. \A k : Tied(k, a) => k \notin grantKeys' \ lost'
  BY <1>1 DEF Tied
<1>5. \A k : \A c \in Accounts : identities'[c] # Nothing /\ identities'[c].key = k =>
                                   identities[c] # Nothing /\ identities[c].key = k
  BY <1>1
<1>6. ASSUME NEW k, NEW b \in Accounts, Tied(k, b) PROVE Tied(k, b)'
  <2>1. k \in grantKeys' \ lost' => k \in grantKeys \ lost /\ identities'[b] = identities[b]
    BY <1>1, <1>4, <1>6
  <2>. QED BY <1>3, <1>5, <1>6, <2>1, TiedStays
<1>7. ASSUME NEW k, Dead(k) PROVE Dead(k)'
  BY <1>3, <1>5, <1>7, DeadStays
<1>8. \A k : Tied(k, a) => Dead(k)'
  BY <1>1, <1>6, UntiedIsDead
<1>9. KeysAreKnown'
  <2>1. /\ grantKeys' \subseteq used'
        /\ \A u, w \in Tabs : /\ auth'[u].step \in Unsaved /\ auth'[w].step \in Unsaved
                              /\ auth'[u].key = auth'[w].key
                              => u = w
        /\ \A u \in Tabs : auth'[u].step \in Unsaved => auth'[u].key \in used'
    BY <1>0, <1>1, <1>3 DEF KeysAreKnown
  <2>2. \A u \in Tabs :
          /\ auth'[u].step \in Saved => Tied(auth'[u].key, auth'[u].account)
          /\ auth'[u].step = "erasing" => Tied(auth'[u].victim, auth'[u].account)
          /\ operation'[u].step = "removing" =>
               Tied(operation'[u].victim, operation'[u].account)
          /\ operation'[u].step = "storing" =>
               Tied(operation'[u].device.key, operation'[u].account)
    BY <1>0, <1>3 DEF KeysAreKnown
  <2>3. \A u \in Tabs :
          /\ state'[u].session # Nothing =>
               Tied(state'[u].session.key, state'[u].session.account)
          /\ \A k \in cleanup'[u] : k \in cleanup[u] \/ Dead(k)'
    BY <1>0, <1>8 DEF KeysAreKnown
  <2>4. \A b \in Accounts :
          /\ identities'[b] # Nothing => Tied(identities'[b].key, b)
          /\ deviceStates'[b] # Nothing => Tied(deviceStates'[b].device.key, b)
    BY <1>0, <1>1 DEF KeysAreKnown
  <2>5. lost \subseteq lost'
    BY <1>1
  <2>. QED BY <1>0, <1>6, <1>7, <2>1, <2>2, <2>3, <2>4, <2>5, KnownFollows
<1>10. CountersInv'
  <2>0. PublisherKeys \subseteq Keys /\ Missing.counter = 0 /\ Missing.kind # "publisher"
    BY DEF Keys, Missing
  <2>1. DevicesAreTheirs'
    BY <1>0, <1>1 DEF CountersInv, DevicesAreTheirs
  <2>2. DevicesHaveCounters'
    <3>. SUFFICES ASSUME NEW b \in Accounts, deviceStates'[b] # Nothing
                  PROVE  sequences'[deviceStates'[b].device.control].kind = "publisher"
      BY DEF DevicesHaveCounters
    <3>1. PICK x : x = deviceStates[b].device.control
      OBVIOUS
    <3>2. /\ b # a /\ deviceStates'[b] = deviceStates[b] /\ deviceStates[b] # Nothing
          /\ AccountOf[x] = b /\ sequences[x].kind = "publisher"
      BY <1>0, <1>1, <3>1 DEF CountersInv, DevicesAreTheirs, DevicesHaveCounters
    <3>3. x \in PublisherKeys
      BY <1>0, <3>1, <3>2 DEF TypeOK, StoreTypeOK, DeviceState, Device
    <3>. QED BY <1>1, <2>0, <3>1, <3>2, <3>3
  <2>3. ControlsAreFresh'
    <3>1. \A x \in PublisherKeys : sequences[x] = Missing => sequences'[x] = Missing
      BY <1>1, <2>0
    <3>2. \A x \in PublisherKeys \ used' : allocated'[x] = 0 /\ sequences'[x] = Missing
      BY <1>0, <3>1 DEF CountersInv, ControlsAreFresh
    <3>3. \A u \in Tabs : operation'[u].device # Nothing => operation'[u].device.control \in used'
      BY <1>0, <1>3 DEF CountersInv, ControlsAreFresh
    <3>4. \A u, w \in Tabs :
            /\ operation'[u].device # Nothing /\ operation'[w].device # Nothing
            /\ operation'[u].device.control = operation'[w].device.control
            => u = w
      BY <1>0, <1>3 DEF CountersInv, ControlsAreFresh
    <3>5. ASSUME NEW u \in Tabs, operation'[u].step = "storing"
          PROVE  LET x == operation'[u].device.control
                 IN  allocated'[x] = 0 /\ sequences'[x] = Missing
      <4>1. operation'[u] = operation[u] /\ operation[u].device \in Device
        BY <1>3, <3>5, TabHas DEF OperationOk
      <4>. QED BY <1>0, <3>1, <3>5, <4>1 DEF CountersInv, ControlsAreFresh, Device
    <3>. QED BY <3>2, <3>3, <3>4, <3>5 DEF ControlsAreFresh
  <2>4. CountersNeverRestart'
    <3>. SUFFICES ASSUME NEW x \in PublisherKeys, sequences'[x] # Missing
                  PROVE  sequences'[x].counter >= allocated'[x]
      BY DEF CountersNeverRestart
    <3>1. sequences'[x] = sequences[x]
      BY <1>1, <2>0
    <3>. QED BY <1>0, <3>1 DEF CountersInv, CountersNeverRestart
  <2>. QED BY <2>1, <2>2, <2>3, <2>4 DEF CountersInv
<1>11. DeviceKeysAreKept'
  <2>1. ASSUME NEW k, NEW b \in Accounts \ {a}, Tied(k, b), Kept(k, b) PROVE Kept(k, b)'
    <3>1. k = v => k \notin grantKeys \ lost
      BY <2>1 DEF Tied
    <3>. QED BY <1>1, <2>1, <3>1 DEF Kept
  <2>2. ASSUME NEW b \in Accounts, deviceStates'[b] # Nothing
        PROVE  Kept(deviceStates[b].device.key, b)'
    <3>1. b # a /\ deviceStates'[b] = deviceStates[b] /\ deviceStates[b] # Nothing
      BY <1>1, <2>2
    <3>2. PICK k : k = deviceStates[b].device.key
      OBVIOUS
    <3>3. Tied(k, b) /\ Kept(k, b)
      BY <1>0, <3>1, <3>2 DEF KeysAreKnown, DeviceKeysAreKept
    <3>4. Kept(k, b)'
      BY <2>1, <3>1, <3>3
    <3>. QED BY <3>1, <3>2, <3>4
  <2>3. ASSUME NEW u \in Tabs, operation'[u].step = "storing"
        PROVE  Kept(operation[u].device.key, operation[u].account)'
    <3>1. operation'[u] = operation[u] /\ operation[u].account \in Accounts
      BY <1>3, <2>3, TabHas DEF OperationOk
    <3>2. PICK k, b : k = operation[u].device.key /\ b = operation[u].account
      OBVIOUS
    <3>3. Tied(k, b) /\ Kept(k, b) /\ b \in Accounts
      BY <1>0, <2>3, <3>1, <3>2 DEF KeysAreKnown, DeviceKeysAreKept
    <3>4. Kept(k, b)'
      <4>1. CASE b = a
        BY <2>3, <3>2, <4>1 DEF Kept
      <4>2. CASE b # a
        BY <2>1, <3>3, <4>2
      <4>. QED BY <4>1, <4>2
    <3>. QED BY <3>1, <3>2, <3>4
  <2>. QED BY <2>2, <2>3 DEF DeviceKeysAreKept
<1>12. NoKeyIsForgotten'
  <2>1. ASSUME NEW k \in grantKeys' \ (lost' \cup IdentityKeys')
        PROVE  \E u \in Tabs : Holds(k, u)'
    <3>1. ~Tied(k, a)
      BY <1>4, <2>1
    <3>2. k \notin IdentityKeys
      <4>. SUFFICES ASSUME NEW b \in Accounts, identities[b] # Nothing, identities[b].key = k
                    PROVE  FALSE
        BY DEF IdentityKeys
      <4>1. b # a
        BY <1>0, <3>1 DEF KeysAreKnown
      <4>. QED BY <1>1, <2>1, <4>1 DEF IdentityKeys
    <3>3. k \in grantKeys \ lost
      BY <1>1, <2>1
    <3>4. PICK u \in Tabs : Holds(k, u)
      BY <1>0, <3>2, <3>3 DEF NoKeyIsForgotten, Holds
    <3>. QED BY <3>1, <3>3, <3>4
  <2>. QED BY <2>1 DEF NoKeyIsForgotten, Holds
<1>13. \A u \in Tabs : CancelledKeyGoes(u)'
  <2>1. \A u \in Tabs : auth'[u].step = "pending" => auth'[u] = auth[u]
    BY <1>2
  <2>. QED BY <1>1, <2>1 DEF DInv, KeysInv, CancelledKeyGoes
<1>. QED BY <1>9, <1>10, <1>11, <1>12, <1>13 DEF DInv, KeysInv

(* The removal at the end of a cancelled complete_auth.                     *)
LEMMA EraseStep ==
  ASSUME DInv, NEW t \in Tabs, Erase(t)
  PROVE  DInv'
<1>. SUFFICES ASSUME ~UndoFails(t) PROVE DInv'
  BY UndoFailsStep DEF Erase
<1>0. /\ state \in [Tabs -> TabState] /\ auth \in [Tabs -> TabAuth] /\ TypeOK
      /\ cleanup \in [Tabs -> SUBSET GrantKeys] /\ AuthOk(t) /\ KeysAreKnown
      /\ auth[t].step = "erasing" /\ auth[t].step \in Saved \cap Named \cap Signing
  BY TabHas DEF TypeOK, Erase, Saved, Named, Signing
<1>1. PICK a, k, v : a = auth[t].account /\ k = auth[t].key /\ v = auth[t].victim
  OBVIOUS
<1>2. a \in Accounts /\ k \in GrantKeys /\ v \in GrantKeys /\ Tied(k, a) /\ Tied(v, a)
  BY <1>0, <1>1 DEF AuthOk, KeysAreKnown
<1>3. /\ RemoveIdentity(a, v) /\ MissesKey(a, v) /\ purged' = purged \cup {a}
      /\ state' = [state EXCEPT ![t].busy = FALSE] /\ auth' = [auth EXCEPT ![t] = NoAuth]
      /\ cleanup' = [cleanup EXCEPT ![t] = @ \cup ({k} \ {Nothing})]
      /\ UNCHANGED <<used, operation, call, online, destroyed, locks, expired, abandoned,
                     allocated>>
  BY <1>0, <1>1 DEF Erase, AuthFails, AuthKeeps
<1>4. k # Nothing
  BY <1>2, StoreAssumption
<1>5. /\ auth'[t] = NoAuth /\ cleanup'[t] = cleanup[t] \cup {k}
      /\ state'[t].session = state[t].session /\ state'[t].pending = state[t].pending
      /\ state'[t].device = state[t].device /\ state'[t].epoch = state[t].epoch
      /\ \A u \in Tabs \ {t} : /\ state'[u] = state[u] /\ auth'[u] = auth[u]
                               /\ cleanup'[u] = cleanup[u]
  BY <1>0, <1>3, <1>4 DEF TabState
<1>6. NoAuth.step = "idle" /\ NoAuth.key = Nothing /\ NoAuth.epoch = 0
  BY DEF NoAuth
<1>7. /\ StoreTypeOK' /\ lost' \subseteq GrantKeys /\ deviceStates'[a] = Nothing
      /\ \A b \in Accounts \ {a} : /\ deviceStates'[b] = deviceStates[b]
                                   /\ encryptionKeys'[b] = encryptionKeys[b]
  BY <1>0, <1>2, <1>3, Removed
<1>8. TypeOK'
  <2>1. state' \in [Tabs -> TabState]
    BY <1>0, <1>3, ZenonT(30) DEF TabState
  <2>2. auth' \in [Tabs -> TabAuth]
    BY <1>0, <1>3, NewTabType
  <2>3. cleanup' \in [Tabs -> SUBSET GrantKeys] /\ purged' \subseteq Accounts
    BY <1>0, <1>2, <1>3 DEF TypeOK
  <2>. QED BY <1>0, <1>3, <1>7, <2>1, <2>2, <2>3 DEF TypeOK, TabState, TabAuth
<1>9. TabsInv'
  <2>1. ASSUME NEW u \in Tabs \ {t} PROVE AuthOk(u)'
    BY <1>3, <1>5, TabHas DEF AuthOk, Current
  <2>2. AuthOk(t)'
    <3>1. state[t].pending = Nothing /\ state[t].epoch \in Nat
      BY <1>0 DEF AuthOk, TabState
    <3>. QED BY <1>5, <1>6, <3>1 DEF AuthOk, Current, Unsaved, Saved, Named
  <2>3. ASSUME NEW u \in Tabs PROVE OperationOk(u)' /\ OnlineOk(u)'
    <3>1. OperationOk(u) /\ OnlineOk(u)
      BY TabHas
    <3>2. state'[u].session = state[u].session /\ state'[u].device = state[u].device
      BY <1>5
    <3>. QED BY <1>0, <1>3, <1>7, <3>1, <3>2, NetworkStays
  <2>4. CallShape'
    BY <1>3, TabHas DEF CallShape
  <2>. QED BY <2>1, <2>2, <2>3, <2>4 DEF TabsInv
<1>10. \A u \in Tabs : \A j \in grantKeys : Holds(j, u) => Holds(j, u)' \/ Tied(j, a)
  BY <1>1, <1>2, <1>5 DEF Holds, SessionKey
<1>11. \A u \in Tabs :
         /\ operation'[u] \in {operation[u], NoOperation}
         /\ operation'[u].step = "storing" => operation[u].account # a \/ a \in purged'
         /\ auth'[u] \in {auth[u], NoAuth}
         /\ state'[u].session \in {state[u].session, Nothing}
         /\ state'[u].pending = state[u].pending
         /\ \A j \in cleanup'[u] : j \in cleanup[u] \/ Tied(j, a)
         /\ cleanup[u] \subseteq cleanup'[u]
  BY <1>2, <1>3, <1>5
<1>. QED BY <1>2, <1>3, <1>8, <1>9, <1>10, <1>11, RemovalMoves

(* removeLocalIdentity after the transaction, or after it failed.           *)
LEMMA RemoveReturnsStep ==
  ASSUME DInv, NEW t \in Tabs, RemoveReturns(t)
  PROVE  DInv'
<1>0. /\ state \in [Tabs -> TabState] /\ operation \in [Tabs -> TabOperation] /\ TypeOK
      /\ OperationOk(t) /\ OnlineOk(t) /\ AuthOk(t) /\ KeysAreKnown
      /\ locks \in [Accounts -> Tabs \cup {Nothing}]
      /\ online \subseteq Tabs /\ operation[t].step = "removing"
  BY TabHas DEF RemoveReturns
<1>1. PICK a, v : a = operation[t].account /\ v = operation[t].victim
  OBVIOUS
<1>2. /\ a \in Accounts /\ locks[a] = t /\ v \in GrantKeys /\ Tied(v, a)
      /\ t \in online => state[t].session.account # a
  BY <1>0, <1>1 DEF OperationOk, Account, KeysAreKnown
<1>3. /\ operation' = [operation EXCEPT ![t] = NoOperation]
      /\ locks' = [locks EXCEPT ![a] = Nothing]
      /\ UNCHANGED <<online, used, expired, allocated, auth, cleanup, call, destroyed,
                     abandoned, purged>>
  BY <1>1 DEF RemoveReturns, OperationKeeps, worldVars
<1>4. /\ operation'[t] = NoOperation /\ \A u \in Tabs \ {t} : operation'[u] = operation[u]
      /\ operation' \in [Tabs -> TabOperation]
      /\ locks' \in [Accounts -> Tabs \cup {Nothing}]
      /\ \A b \in Accounts \ {a} : locks'[b] = locks[b]
  BY <1>0, <1>2, <1>3, NewTabType
<1>5. NoOperation.step = "none" /\ NoOperation.device = Nothing
  BY DEF NoOperation
<1>6. CallShape'
  BY <1>3, TabHas DEF CallShape
<1>7. CASE state' = [state EXCEPT ![t].identityBusy = FALSE] /\ UNCHANGED <<storeVars, lost>>
  <2>1. /\ state'[t].session = state[t].session /\ state'[t].pending = state[t].pending
        /\ state'[t].device = state[t].device /\ state'[t].epoch = state[t].epoch
        /\ \A u \in Tabs \ {t} : state'[u] = state[u]
    BY <1>0, <1>7 DEF TabState
  <2>2. state' \in [Tabs -> TabState]
    BY <1>0, <1>7, ZenonT(30) DEF TabState
  <2>3. TypeOK'
    BY <1>0, <1>3, <1>4, <1>7, <2>2, OperationTypes
  <2>4. OperationOk(t)'
    BY <1>4, <1>5 DEF OperationOk, Going
  <2>5. OnlineOk(t)'
    <3>1. t \in online => state[t].session.account \in Accounts
      BY TabHas DEF OnlineOk
    <3>. QED BY <1>0, <1>2, <1>3, <1>4, <1>7, <2>1, <3>1
      DEF OnlineOk, Account, RunsOn, Opens, storeVars
  <2>6. \A u \in Tabs \ {t} : \A b \in Accounts : locks[b] = u => locks'[b] = u
    BY <1>2, <1>4
  <2>7. operation'[t].step # "storing" /\ operation'[t].step # "removing"
        /\ operation'[t].device = Nothing
    BY <1>4, <1>5
  <2>. QED BY <1>3, <1>4, <1>6, <1>7, <2>1, <2>3, <2>4, <2>5, <2>6, <2>7, OperationMoves
<1> DEFINE signedIn == state[t].session # Nothing /\ state[t].session.account = a
<1>8. CASE /\ RemoveIdentity(a, v) /\ MissesKey(a, v)
           /\ state' = [state EXCEPT ![t].identityBusy = FALSE,
                ![t].session = IF signedIn THEN Nothing ELSE @,
                ![t].device = IF signedIn THEN Nothing ELSE @]
  <2>1. PICK s, d : /\ s = IF signedIn THEN Nothing ELSE state[t].session
                    /\ d = IF signedIn THEN Nothing ELSE state[t].device
    OBVIOUS
  <2>2. state' = [state EXCEPT ![t].identityBusy = FALSE, ![t].session = s, ![t].device = d]
    BY <1>0, <1>8, <2>1
  <2>3. s \in Session \cup {Nothing} /\ d \in Device \cup {Nothing}
    BY <1>0, <2>1 DEF TabState
  <2>4. /\ state'[t].session = s /\ state'[t].pending = state[t].pending
        /\ state'[t].device = d /\ state'[t].epoch = state[t].epoch
        /\ \A u \in Tabs \ {t} : state'[u] = state[u]
    BY <1>0, <2>2 DEF TabState
  <2>5. /\ StoreTypeOK' /\ lost' \subseteq GrantKeys
        /\ \A b \in Accounts \ {a} : /\ deviceStates'[b] = deviceStates[b]
                                     /\ encryptionKeys'[b] = encryptionKeys[b]
    BY <1>0, <1>2, <1>8, Removed
  <2>6. TypeOK'
    <3> DEFINE new == [state[t] EXCEPT !.identityBusy = FALSE, !.session = s, !.device = d]
    <3>1. state \in [Tabs -> TabState] /\ state[t] \in TabState
      BY <1>0
    <3>2. new \in TabState
      BY <2>3, <3>1 DEF TabState
    <3>3. state' = [state EXCEPT ![t] = new]
      BY <2>2, <3>1
    <3>. HIDE DEF new
    <3>4. state' \in [Tabs -> TabState]
      BY <3>1, <3>2, <3>3
    <3>. QED BY <1>0, <1>3, <1>4, <2>5, <3>4 DEF TypeOK, TabState, TabOperation
  <2>7. t \in online => s = state[t].session /\ d = state[t].device
    BY <1>2, <2>1
  <2>8. TabsInv'
    <3>1. ASSUME NEW u \in Tabs \ {t} PROVE AuthOk(u)' /\ OperationOk(u)' /\ OnlineOk(u)'
      <4>1. AuthOk(u) /\ OperationOk(u) /\ OnlineOk(u)
        BY TabHas
      <4>2. AuthOk(u)'
        BY <1>3, <2>4, <4>1 DEF AuthOk, Current
      <4>3. \A b \in Accounts : locks[b] = u =>
              /\ locks'[b] = u
              /\ deviceStates'[b] = deviceStates[b] /\ encryptionKeys'[b] = encryptionKeys[b]
        BY <1>2, <1>4, <2>5
      <4>. QED BY <1>0, <1>3, <1>4, <2>4, <4>1, <4>2, <4>3, NetworkStays
    <3>2. AuthOk(t)'
      <4>1. state'[t].session = state[t].session \/ state'[t].session = Nothing
        BY <2>1, <2>4
      <4>. QED BY <1>0, <1>3, <2>4, <4>1 DEF AuthOk, Current
    <3>3. OperationOk(t)'
      BY <1>4, <1>5 DEF OperationOk, Going
    <3>4. OnlineOk(t)'
      <4>. SUFFICES ASSUME t \in online PROVE OnlineOk(t)'
        BY <1>3 DEF OnlineOk
      <4>1. PICK b : b = state[t].session.account
        OBVIOUS
      <4>2. /\ b \in Accounts \ {a} /\ state'[t].session = state[t].session
            /\ state[t].session # Nothing /\ locks[b] = t /\ RunsOn(t, b)
            /\ state'[t].device = state[t].device
        BY <1>0, <1>2, <2>4, <2>7, <4>1, TabHas DEF OnlineOk, Account
      <4>3. RunsOn(t, b)'
        BY <1>3, <2>5, <4>2 DEF RunsOn, Opens
      <4>. QED BY <1>4, <4>1, <4>2, <4>3 DEF OnlineOk, Account
    <3>. QED BY <1>6, <3>1, <3>2, <3>3, <3>4 DEF TabsInv
  <2>9. \A u \in Tabs : \A j \in grantKeys : Holds(j, u) => Holds(j, u)' \/ Tied(j, a)
    <3>1. signedIn => Tied(state[t].session.key, a)
      BY <1>0 DEF KeysAreKnown
    <3>2. \A j \in grantKeys : j # Nothing
      BY <1>0, StoreAssumption DEF TypeOK, StoreTypeOK
    <3>. QED BY <1>3, <2>1, <2>4, <3>1, <3>2 DEF Holds, SessionKey
  <2>10. \A u \in Tabs :
           /\ operation'[u] \in {operation[u], NoOperation}
           /\ operation'[u].step = "storing" => operation[u].account # a \/ a \in purged'
           /\ auth'[u] \in {auth[u], NoAuth}
           /\ state'[u].session \in {state[u].session, Nothing}
           /\ state'[u].pending = state[u].pending
           /\ \A j \in cleanup'[u] : j \in cleanup[u] \/ Tied(j, a)
           /\ cleanup[u] \subseteq cleanup'[u]
    <3>1. \A u \in Tabs : operation[u].step = "storing" => u = t \/ operation[u].account # a
      BY <1>2, TabHas DEF OperationOk
    <3>. QED BY <1>3, <1>4, <1>5, <2>1, <2>4, <3>1
  <2>. QED BY <1>2, <1>3, <1>8, <2>6, <2>8, <2>9, <2>10, RemovalMoves
<1>. QED BY <1>1, <1>7, <1>8 DEF RemoveReturns

-----------------------------------------------------------------------------
(* Devices.                                                                 *)

(* Keys that are known and kept stay so when only control keys, device      *)
(* states and operations change, and each new device has the key of its     *)
(* account.                                                                 *)
LEMMA DeviceMoves ==
  ASSUME DInv, TypeOK', TabsInv', CountersInv', used \subseteq used',
         UNCHANGED <<grantKeys, identities, auth, cleanup, expired, purged, lost>>,
         \A t \in Tabs :
            /\ state'[t].session = state[t].session /\ state'[t].pending = state[t].pending
            /\ operation'[t].step = "removing" =>
                 Tied(operation'[t].victim, operation'[t].account)
            /\ operation'[t].step = "storing" =>
                 /\ Tied(operation'[t].device.key, operation'[t].account)
                 /\ Kept(operation'[t].device.key, operation'[t].account),
         \A a \in Accounts : deviceStates'[a] # Nothing =>
            Tied(deviceStates'[a].device.key, a) /\ Kept(deviceStates'[a].device.key, a)
  PROVE  DInv'
<1>0. KeysAreKnown
  BY DEF DInv, KeysInv
<1>1. \A k : \A a \in Accounts : Tied(k, a) => Tied(k, a)'
  BY DEF Tied
<1>2. \A k : Dead(k) => Dead(k)'
  BY DEF Dead, IdentityKeys
<1>3. KeysAreKnown'
  <2>1. /\ grantKeys' \subseteq used'
        /\ \A u, w \in Tabs : /\ auth'[u].step \in Unsaved /\ auth'[w].step \in Unsaved
                              /\ auth'[u].key = auth'[w].key
                              => u = w
        /\ \A u \in Tabs : auth'[u].step \in Unsaved => auth'[u].key \in used'
    BY <1>0 DEF KeysAreKnown
  <2>2. \A u \in Tabs :
          /\ auth'[u].step \in Saved => Tied(auth'[u].key, auth'[u].account)
          /\ auth'[u].step = "erasing" => Tied(auth'[u].victim, auth'[u].account)
          /\ state'[u].session # Nothing =>
               Tied(state'[u].session.key, state'[u].session.account)
    BY <1>0 DEF KeysAreKnown
  <2>3. \A b \in Accounts : identities'[b] # Nothing => Tied(identities'[b].key, b)
    BY <1>0 DEF KeysAreKnown
  <2>. QED BY <1>0, <1>1, <1>2, <2>1, <2>2, <2>3, KnownFollows
<1>4. DeviceKeysAreKept'
  BY DEF DeviceKeysAreKept, Kept
<1>5. NoKeyIsForgotten'
  <2>1. \A u \in Tabs : \A k \in grantKeys' : Holds(k, u) => Holds(k, u)'
    BY DEF Holds, SessionKey
  <2>. QED BY <2>1, NoneForgotten DEF DInv, KeysInv
<1>6. \A u \in Tabs : CancelledKeyGoes(u)'
  BY DEF DInv, KeysInv, CancelledKeyGoes
<1>. QED BY <1>3, <1>4, <1>5, <1>6 DEF DInv, KeysInv

(* issue_device: a control key that was never used.                         *)
LEMMA IssueDeviceStep ==
  ASSUME DInv, NEW t \in Tabs, IssueDevice(t)
  PROVE  DInv'
<1>0. /\ state \in [Tabs -> TabState] /\ operation \in [Tabs -> TabOperation] /\ TypeOK
      /\ OperationOk(t) /\ OnlineOk(t) /\ KeysAreKnown
      /\ operation[t].step = "issuing" /\ CountersInv /\ DeviceKeysAreKept
  BY TabHas DEF IssueDevice, DInv, KeysInv
<1>1. PICK a, k, e : /\ a = operation[t].account /\ k = state[t].session.key
                     /\ e = EncryptionKeyOf(operation[t].account)
  OBVIOUS
<1>2. /\ a \in Accounts /\ locks[a] = t /\ t \notin online
      /\ state[t].session # Nothing /\ state[t].session.account = a
      /\ k \in grantKeys /\ k \in GrantKeys /\ Tied(k, a)
  <2>1. operation[t].step \in Going
    BY <1>0 DEF Going
  <2>2. /\ a \in Accounts /\ locks[a] = t /\ t \notin online
        /\ state[t].session # Nothing /\ state[t].session.account = a
    BY <1>0, <1>1, <2>1 DEF OperationOk, Account
  <2>3. k \in grantKeys /\ Tied(k, a)
    BY <1>0, <1>1, <2>2 DEF IssueDevice, KeysAreKnown
  <2>. QED BY <1>0, <2>2, <2>3 DEF TypeOK, StoreTypeOK
<1>3. PICK x \in FreshControls(a) :
        /\ operation' = [operation EXCEPT ![t].step = "storing",
             ![t].device = [control |-> x, key |-> k], ![t].sealed = e]
        /\ used' = used \cup {x}
  BY <1>1 DEF IssueDevice
<1>4. x \in PublisherKeys /\ x \notin used /\ AccountOf[x] = a
  BY OneIsIn DEF FreshControls
<1>5. /\ e \in EncryptionKeys /\ encryptionKeys'[a] = e
      /\ encryptionKeys' \in [Accounts -> EncryptionKeys \cup {Nothing}]
      /\ \A b \in Accounts : encryptionKeys[b] # Nothing =>
                               encryptionKeys'[b] = encryptionKeys[b]
      /\ generated' \in 0..MaxGenerated
      /\ UNCHANGED <<grantKeys, identities, deviceStates, sequences>>
  BY <1>0, <1>1, <1>2, Ensured DEF IssueDevice
<1>6. UNCHANGED <<state, online, locks, expired, lost, allocated, auth, cleanup, call,
                  destroyed, abandoned, purged>>
  BY DEF IssueDevice, OperationKeeps
<1> DEFINE d == [control |-> x, key |-> k]
           new == [operation[t] EXCEPT !.step = "storing", !.device = d, !.sealed = e]
<1>7. d \in Device /\ d.control = x /\ d.key = k /\ d # Nothing
  <2>1. d \in Device
    BY <1>2, <1>4 DEF Device
  <2>. QED BY <2>1, NothingIsNoRecord
<1>. HIDE DEF d
<1>8. /\ new \in TabOperation /\ new.step = "storing" /\ new.account = a
      /\ new.device = d /\ new.sealed = e
  <2>1. operation[t] \in TabOperation
    BY <1>0
  <2>. QED BY <1>1, <1>5, <1>7, <2>1 DEF TabOperation
<1>9. operation' = [operation EXCEPT ![t] = new]
  <2>1. operation \in [Tabs -> TabOperation]
    BY <1>0
  <2>. QED BY <1>3, <2>1 DEF d
<1>. HIDE DEF new
<1>10. /\ operation'[t] = new /\ \A u \in Tabs \ {t} : operation'[u] = operation[u]
       /\ operation' \in [Tabs -> TabOperation]
  BY <1>0, <1>8, <1>9
<1>11. TypeOK'
  <2>1. used' \subseteq GrantKeys \cup PublisherKeys
    BY <1>0, <1>3, <1>4 DEF TypeOK
  <2>. QED BY <1>0, <1>5, <1>6, <1>10, <2>1 DEF TypeOK, StoreTypeOK, TabOperation
<1>12. TabsInv'
  <2>1. ASSUME NEW u \in Tabs PROVE AuthOk(u)'
    <3>1. AuthOk(u)
      BY TabHas
    <3>. QED BY <1>6, <3>1 DEF AuthOk, Current
  <2>2. ASSUME NEW u \in Tabs \ {t} PROVE OperationOk(u)' /\ OnlineOk(u)'
    <3>1. OperationOk(u) /\ OnlineOk(u)
      BY TabHas
    <3>. QED BY <1>0, <1>5, <1>6, <1>10, <3>1, NetworkStays
  <2>3. OnlineOk(t)' /\ OperationOk(t)'
    BY <1>2, <1>4, <1>5, <1>6, <1>7, <1>8, <1>10 DEF OnlineOk, OperationOk, Account, Going
  <2>4. CallShape'
    BY <1>6, TabHas DEF CallShape
  <2>. QED BY <2>1, <2>2, <2>3, <2>4 DEF TabsInv
<1>13. CountersInv'
  <2>1. DevicesAreTheirs' /\ DevicesHaveCounters' /\ CountersNeverRestart'
    BY <1>0, <1>5, <1>6 DEF CountersInv, DevicesAreTheirs, DevicesHaveCounters,
                            CountersNeverRestart
  <2>2. allocated[x] = 0 /\ sequences[x] = Missing
    BY <1>0, <1>4 DEF CountersInv, ControlsAreFresh
  <2>3. \A u \in Tabs \ {t} : operation[u].device # Nothing => operation[u].device.control # x
    BY <1>0, <1>4 DEF CountersInv, ControlsAreFresh
  <2>4. ControlsAreFresh'
    <3>1. \A y \in PublisherKeys \ used' : allocated'[y] = 0 /\ sequences'[y] = Missing
      BY <1>0, <1>3, <1>5, <1>6 DEF CountersInv, ControlsAreFresh
    <3>2. \A u \in Tabs : operation'[u].device # Nothing =>
                            operation'[u].device.control \in used'
      BY <1>0, <1>3, <1>7, <1>8, <1>10 DEF CountersInv, ControlsAreFresh
    <3>3. \A u, w \in Tabs :
            /\ operation'[u].device # Nothing /\ operation'[w].device # Nothing
            /\ operation'[u].device.control = operation'[w].device.control
            => u = w
      BY <1>0, <1>7, <1>8, <1>10, <2>3 DEF CountersInv, ControlsAreFresh
    <3>4. \A u \in Tabs : operation'[u].step = "storing" =>
            LET y == operation'[u].device.control
            IN  allocated'[y] = 0 /\ sequences'[y] = Missing
      BY <1>0, <1>5, <1>6, <1>7, <1>8, <1>10, <2>2 DEF CountersInv, ControlsAreFresh
    <3>. QED BY <3>1, <3>2, <3>3, <3>4 DEF ControlsAreFresh
  <2>. QED BY <2>1, <2>4 DEF CountersInv
<1>14. \A u \in Tabs :
         /\ operation'[u].step = "removing" =>
              Tied(operation'[u].victim, operation'[u].account)
         /\ operation'[u].step = "storing" =>
              /\ Tied(operation'[u].device.key, operation'[u].account)
              /\ Kept(operation'[u].device.key, operation'[u].account)
  <2>1. Kept(k, a)
    BY <1>2 DEF Kept
  <2>. QED BY <1>0, <1>2, <1>7, <1>8, <1>10, <2>1 DEF KeysAreKnown, DeviceKeysAreKept
<1>15. \A b \in Accounts : deviceStates'[b] # Nothing =>
         Tied(deviceStates'[b].device.key, b) /\ Kept(deviceStates'[b].device.key, b)
  BY <1>0, <1>5 DEF KeysAreKnown, DeviceKeysAreKept
<1>. QED BY <1>3, <1>5, <1>6, <1>11, <1>12, <1>13, <1>14, <1>15, DeviceMoves

(* The device and its counter are stored together.                          *)
LEMMA StoreDeviceStep ==
  ASSUME DInv, NEW t \in Tabs, StoreDevice(t)
  PROVE  DInv'
<1>0. /\ state \in [Tabs -> TabState] /\ operation \in [Tabs -> TabOperation] /\ TypeOK
      /\ OperationOk(t) /\ OnlineOk(t) /\ KeysAreKnown
      /\ operation[t].step = "storing" /\ CountersInv /\ DeviceKeysAreKept
  BY TabHas DEF StoreDevice, DInv, KeysInv
<1>1. PICK a, d, e, x : /\ a = operation[t].account /\ d = operation[t].device
                        /\ e = operation[t].sealed /\ x = operation[t].device.control
  OBVIOUS
<1>2. /\ a \in Accounts /\ locks[a] = t /\ t \notin online
      /\ state[t].session # Nothing /\ state[t].session.account = a
      /\ d \in Device /\ d # Nothing /\ e \in EncryptionKeys
      /\ a \notin purged => encryptionKeys[a] = e
      /\ d.control = x /\ x \in PublisherKeys /\ x \in Keys /\ AccountOf[x] = a
      /\ allocated[x] = 0 /\ sequences[x] = Missing /\ x \in used
      /\ Tied(d.key, a) /\ Kept(d.key, a)
  <2>1. operation[t].step \in Going
    BY <1>0 DEF Going
  <2>2. /\ a \in Accounts /\ locks[a] = t /\ t \notin online
        /\ state[t].session # Nothing /\ state[t].session.account = a
        /\ d \in Device /\ e \in EncryptionKeys
        /\ a \notin purged => encryptionKeys[a] = e
    BY <1>0, <1>1, <2>1 DEF OperationOk, Account
  <2>3. d # Nothing /\ d.control = x /\ x \in PublisherKeys /\ x \in Keys
    BY <1>1, <2>2, NothingIsNoRecord DEF Device, Keys
  <2>4. AccountOf[x] = a
    BY <1>0, <1>1, <2>3 DEF OperationOk
  <2>5. allocated[x] = 0 /\ sequences[x] = Missing /\ x \in used
    BY <1>0, <1>1, <2>3 DEF CountersInv, ControlsAreFresh
  <2>6. Tied(d.key, a) /\ Kept(d.key, a)
    BY <1>0, <1>1 DEF KeysAreKnown, DeviceKeysAreKept
  <2>. QED BY <2>2, <2>3, <2>4, <2>5, <2>6
<1>3. /\ deviceStates' = [deviceStates EXCEPT ![a] = [device |-> d, sealed |-> e]]
      /\ sequences' = Update(sequences, NewCounter(x))
      /\ Commits(sequences, NewCounter(x))
      /\ state' = [state EXCEPT ![t].device = d]
      /\ operation' = [operation EXCEPT ![t].step = "publishing"]
      /\ UNCHANGED <<grantKeys, identities, encryptionKeys, generated, online, locks, used,
                     expired, lost, allocated, auth, cleanup, call, destroyed, abandoned, purged>>
  BY <1>1 DEF StoreDevice, SaveDevice, SaveNewDeviceOk, ReplaceDeviceOk, OperationKeeps,
              worldVars
<1>4. /\ sequences' \in SequenceStates /\ sequences'[x] = Publisher(0)
      /\ \A y \in Keys \ {x} : sequences'[y] = sequences[y]
  <2>1. sequences \in SequenceStates
    BY <1>0 DEF TypeOK, StoreTypeOK
  <2>2. NewCounter(x) \in Ops /\ NewCounter(x).type = "initialize" /\ NewCounter(x).key = x
    BY <1>2 DEF NewCounter, Ops
  <2>3. sequences' \in SequenceStates
    BY <1>3, <2>1, <2>2, UpdateType DEF Commits
  <2>4. sequences' = [sequences EXCEPT ![x] = Publisher(0)]
    BY <1>3, <2>2 DEF Update, InitializePublisher
  <2>. QED BY <1>2, <2>1, <2>3, <2>4 DEF SequenceStates
<1>5. Publisher(0).kind = "publisher" /\ Publisher(0).counter = 0
  BY DEF Publisher
<1>6. /\ deviceStates'[a].device = d /\ deviceStates'[a].sealed = e
      /\ deviceStates'[a] # Nothing
      /\ \A b \in Accounts \ {a} : deviceStates'[b] = deviceStates[b]
      /\ deviceStates' \in [Accounts -> DeviceState \cup {Nothing}]
  <2>1. PICK r \in DeviceState : r = [device |-> d, sealed |-> e]
    BY <1>2 DEF DeviceState
  <2>2. r.device = d /\ r.sealed = e /\ r # Nothing
    BY <2>1, NothingIsNoRecord
  <2>3. deviceStates' = [deviceStates EXCEPT ![a] = r]
    BY <1>3, <2>1
  <2>4. deviceStates \in [Accounts -> DeviceState \cup {Nothing}]
    BY <1>0 DEF TypeOK, StoreTypeOK
  <2>. QED BY <1>2, <2>2, <2>3, <2>4
<1>7. /\ state'[t].session = state[t].session /\ state'[t].pending = state[t].pending
      /\ state'[t].device = d /\ state'[t].epoch = state[t].epoch
      /\ \A u \in Tabs \ {t} : state'[u] = state[u]
      /\ state' \in [Tabs -> TabState]
  <2>1. state \in [Tabs -> TabState] /\ state' = [state EXCEPT ![t].device = d]
    BY <1>0, <1>3
  <2>. QED BY <1>2, <2>1 DEF TabState
<1>8. /\ operation'[t].step = "publishing" /\ operation'[t].account = a
      /\ operation'[t].device = d
      /\ \A u \in Tabs \ {t} : operation'[u] = operation[u]
      /\ operation' \in [Tabs -> TabOperation]
  <2>1. /\ operation \in [Tabs -> TabOperation]
        /\ operation' = [operation EXCEPT ![t].step = "publishing"]
    BY <1>0, <1>3
  <2>. QED BY <1>1, <2>1 DEF TabOperation
<1>9. TypeOK'
  BY <1>0, <1>3, <1>4, <1>6, <1>7, <1>8 DEF TypeOK, StoreTypeOK, TabState, TabOperation
<1>10. TabsInv'
  <2>1. ASSUME NEW u \in Tabs PROVE AuthOk(u)'
    <3>1. AuthOk(u)
      BY TabHas
    <3>2. /\ state'[u].session = state[u].session /\ state'[u].pending = state[u].pending
          /\ state'[u].epoch = state[u].epoch
      BY <1>7
    <3>. QED BY <1>3, <3>1, <3>2 DEF AuthOk, Current
  <2>2. ASSUME NEW u \in Tabs \ {t} PROVE OperationOk(u)' /\ OnlineOk(u)'
    <3>1. OperationOk(u) /\ OnlineOk(u)
      BY TabHas
    <3>2. \A b \in Accounts : locks[b] = u => deviceStates'[b] = deviceStates[b]
      BY <1>2, <1>6
    <3>. QED BY <1>0, <1>3, <1>7, <1>8, <3>1, <3>2, NetworkStays
  <2>3. RunsOn(t, a)'
    BY <1>2, <1>3, <1>6, <1>7 DEF RunsOn, Opens
  <2>4. OperationOk(t)' /\ OnlineOk(t)'
    BY <1>2, <1>3, <1>7, <1>8, <2>3 DEF OperationOk, OnlineOk, Account, Going
  <2>5. CallShape'
    BY <1>3, TabHas DEF CallShape
  <2>. QED BY <2>1, <2>2, <2>4, <2>5 DEF TabsInv
<1>11. CountersInv'
  <2>0. PublisherKeys \subseteq Keys
    BY DEF Keys
  <2>1. DevicesAreTheirs'
    BY <1>0, <1>2, <1>6 DEF CountersInv, DevicesAreTheirs
  <2>2. DevicesHaveCounters'
    <3>. SUFFICES ASSUME NEW b \in Accounts, deviceStates'[b] # Nothing
                  PROVE  sequences'[deviceStates'[b].device.control].kind = "publisher"
      BY DEF DevicesHaveCounters
    <3>1. CASE b = a
      BY <1>2, <1>4, <1>5, <1>6, <3>1
    <3>2. CASE b # a
      <4>1. PICK y : y = deviceStates[b].device.control
        OBVIOUS
      <4>2. /\ deviceStates'[b] = deviceStates[b] /\ deviceStates[b] # Nothing
            /\ AccountOf[y] = b /\ sequences[y].kind = "publisher"
        BY <1>0, <1>6, <3>2, <4>1 DEF CountersInv, DevicesAreTheirs, DevicesHaveCounters
      <4>3. y \in PublisherKeys
        BY <1>0, <4>1, <4>2 DEF TypeOK, StoreTypeOK, DeviceState, Device
      <4>. QED BY <1>2, <1>4, <2>0, <3>2, <4>1, <4>2, <4>3
    <3>. QED BY <3>1, <3>2
  <2>3. ControlsAreFresh'
    <3>1. \A y \in PublisherKeys \ used' : allocated'[y] = 0 /\ sequences'[y] = Missing
      BY <1>0, <1>2, <1>3, <1>4, <2>0 DEF CountersInv, ControlsAreFresh
    <3>2. \A u \in Tabs : operation'[u].device = operation[u].device
      BY <1>1, <1>8
    <3>3. \A u \in Tabs : operation'[u].device # Nothing =>
                            operation'[u].device.control \in used'
      BY <1>0, <1>3, <3>2 DEF CountersInv, ControlsAreFresh
    <3>4. \A u, w \in Tabs :
            /\ operation'[u].device # Nothing /\ operation'[w].device # Nothing
            /\ operation'[u].device.control = operation'[w].device.control
            => u = w
      BY <1>0, <3>2 DEF CountersInv, ControlsAreFresh
    <3>5. ASSUME NEW u \in Tabs, operation'[u].step = "storing"
          PROVE  LET y == operation'[u].device.control
                 IN  allocated'[y] = 0 /\ sequences'[y] = Missing
      <4>1. u # t /\ operation'[u] = operation[u]
        BY <1>8, <3>5
      <4>2. operation[u].device \in Device /\ operation[u].device # Nothing
        BY <3>5, <4>1, TabHas, NothingIsNoRecord DEF OperationOk
      <4>3. operation[u].device.control # x
        BY <1>0, <1>1, <1>2, <4>1, <4>2 DEF CountersInv, ControlsAreFresh
      <4>. QED BY <1>0, <1>3, <1>4, <2>0, <3>5, <4>1, <4>2, <4>3
        DEF CountersInv, ControlsAreFresh, Device
    <3>. QED BY <3>1, <3>3, <3>4, <3>5 DEF ControlsAreFresh
  <2>4. CountersNeverRestart'
    <3>. SUFFICES ASSUME NEW y \in PublisherKeys, sequences'[y] # Missing
                  PROVE  sequences'[y].counter >= allocated'[y]
      BY DEF CountersNeverRestart
    <3>1. CASE y = x
      BY <1>2, <1>3, <1>4, <1>5, <3>1
    <3>2. CASE y # x
      BY <1>0, <1>3, <1>4, <2>0, <3>2 DEF CountersInv, CountersNeverRestart
    <3>. QED BY <3>1, <3>2
  <2>. QED BY <2>1, <2>2, <2>3, <2>4 DEF CountersInv
<1>12. \A u \in Tabs :
         /\ operation'[u].step = "removing" =>
              Tied(operation'[u].victim, operation'[u].account)
         /\ operation'[u].step = "storing" =>
              /\ Tied(operation'[u].device.key, operation'[u].account)
              /\ Kept(operation'[u].device.key, operation'[u].account)
  BY <1>0, <1>8 DEF KeysAreKnown, DeviceKeysAreKept
<1>13. \A b \in Accounts : deviceStates'[b] # Nothing =>
         Tied(deviceStates'[b].device.key, b) /\ Kept(deviceStates'[b].device.key, b)
  BY <1>0, <1>2, <1>6 DEF KeysAreKnown, DeviceKeysAreKept
<1>. QED BY <1>3, <1>7, <1>9, <1>10, <1>11, <1>12, <1>13, DeviceMoves

(* An allocation or a batch of floors keeps the counters of the store above *)
(* what was handed out.                                                     *)
LEMMA UpdateMoves ==
  ASSUME CountersInv, TypeOK, NEW op \in Ops, op.type \in {"next", "record"},
         UpdateSequences(op), Allocates(op), UNCHANGED used,
         \A t \in Tabs : operation'[t] \in {operation[t], NoOperation},
         \A t \in Tabs : operation[t].step = "storing" => operation[t].device \in Device
  PROVE  /\ CountersInv'
         /\ sequences' \in SequenceStates
         /\ allocated' \in [PublisherKeys -> 0..MaxCounter]
         /\ UNCHANGED <<grantKeys, identities, encryptionKeys, deviceStates, generated>>
<1>0. /\ sequences \in SequenceStates /\ allocated \in [PublisherKeys -> 0..MaxCounter]
      /\ PublisherKeys \subseteq Keys /\ MaxCounter \in Nat
      /\ UNCHANGED <<grantKeys, identities, encryptionKeys, deviceStates, generated>>
      /\ Missing.kind = "missing" /\ Missing.counter = 0
  BY SequenceAssumption DEF TypeOK, StoreTypeOK, UpdateSequences, Keys, Missing
<1>1. \A x \in PublisherKeys : sequences[x].counter \in 0..MaxCounter
  BY <1>0 DEF SequenceStates, StoredSequence
<1>2. /\ sequences' \in SequenceStates
      /\ \A x \in PublisherKeys : sequences[x].kind = "publisher" =>
           sequences'[x].kind = "publisher" /\ sequences'[x].counter >= sequences[x].counter
      /\ \A x \in PublisherKeys : sequences[x].kind # "publisher" => sequences'[x] = sequences[x]
  <2>1. CASE ~Commits(sequences, op)
    <3>1. sequences' = sequences
      BY <2>1 DEF UpdateSequences
    <3>. QED BY <1>0, <1>1, <3>1
  <2>2. CASE Commits(sequences, op)
    <3>1. sequences' = Update(sequences, op) /\ UpdateOk(sequences, op)
      BY <2>2 DEF UpdateSequences, Commits
    <3>2. sequences' \in SequenceStates
      BY <1>0, <3>1, UpdateType
    <3>3. \A x \in PublisherKeys : sequences[x].kind = "publisher" =>
            sequences'[x].kind = "publisher" /\ sequences'[x].counter >= sequences[x].counter
      BY <1>0, <3>1, UpdateKeepsCounter
    <3>4. ASSUME NEW x \in PublisherKeys, sequences[x].kind # "publisher"
          PROVE  sequences'[x] = sequences[x]
      <4>1. CASE op.type = "next"
        <5>1. op.key # x /\ sequences' = [sequences EXCEPT ![op.key] =
                                            Publisher(sequences[op.key].counter + 1)]
          BY <3>1, <3>4, <4>1 DEF UpdateOk, NextPublisherOk, Update, NextPublisherValue
        <5>. QED BY <1>0, <5>1 DEF SequenceStates
      <4>2. CASE op.type = "record"
        <5>1. x \notin AuthKeys
          BY SequenceAssumption
        <5>2. x \notin BatchKeys(op.batch)
          BY <4>2, <5>1 DEF Ops, BatchKeys, Observation
        <5>. QED BY <1>0, <3>1, <4>2, <5>2 DEF Update, RecordBatch
      <4>. QED BY <4>1, <4>2
    <3>. QED BY <3>2, <3>3, <3>4
  <2>. QED BY <2>1, <2>2
<1>3. /\ allocated' \in [PublisherKeys -> 0..MaxCounter]
      /\ \A x \in PublisherKeys : \/ allocated'[x] = allocated[x]
                                  \/ /\ sequences[x].kind = "publisher"
                                     /\ sequences'[x].counter >= allocated'[x]
  <2>1. CASE op.type = "next" /\ Commits(sequences, op)
    <3>1. PICK n : n = sequences[op.key].counter + 1
      OBVIOUS
    <3>2. /\ op.key \in PublisherKeys /\ sequences[op.key].kind = "publisher"
          /\ sequences[op.key].counter < MaxCounter
      BY <2>1 DEF Ops, Commits, UpdateOk, NextPublisherOk
    <3>3. n \in 0..MaxCounter
      BY <1>0, <1>1, <3>1, <3>2
    <3>4. sequences' = [sequences EXCEPT ![op.key] = Publisher(n)]
      BY <2>1, <3>1 DEF UpdateSequences, Update, NextPublisherValue
    <3>5. sequences'[op.key].counter = n
      BY <1>0, <3>2, <3>4 DEF SequenceStates, Publisher
    <3>6. allocated' = [allocated EXCEPT ![op.key] = n]
      BY <2>1, <3>1 DEF Allocates
    <3>. QED BY <1>0, <3>2, <3>3, <3>5, <3>6
  <2>2. CASE ~(op.type = "next" /\ Commits(sequences, op))
    BY <1>0, <2>2 DEF Allocates
  <2>. QED BY <2>1, <2>2
<1>4. NoOperation.step = "none" /\ NoOperation.device = Nothing
  BY DEF NoOperation
<1>5. CountersInv'
  <2>1. DevicesAreTheirs'
    BY <1>0 DEF CountersInv, DevicesAreTheirs
  <2>2. DevicesHaveCounters'
    <3>. SUFFICES ASSUME NEW b \in Accounts, deviceStates[b] # Nothing
                  PROVE  sequences'[deviceStates[b].device.control].kind = "publisher"
      BY <1>0 DEF DevicesHaveCounters
    <3>1. deviceStates[b].device.control \in PublisherKeys
      BY DEF TypeOK, StoreTypeOK, DeviceState, Device
    <3>. QED BY <1>2, <3>1 DEF CountersInv, DevicesHaveCounters
  <2>3. \A x \in PublisherKeys : sequences[x] = Missing =>
          sequences'[x] = Missing /\ allocated'[x] = allocated[x]
    BY <1>0, <1>2, <1>3
  <2>4. ControlsAreFresh'
    <3>1. \A x \in PublisherKeys \ used' : allocated'[x] = 0 /\ sequences'[x] = Missing
      BY <2>3 DEF CountersInv, ControlsAreFresh
    <3>2. \A u \in Tabs : operation'[u].device # Nothing =>
                            operation'[u].device.control \in used'
      BY <1>4 DEF CountersInv, ControlsAreFresh
    <3>3. \A u, w \in Tabs :
            /\ operation'[u].device # Nothing /\ operation'[w].device # Nothing
            /\ operation'[u].device.control = operation'[w].device.control
            => u = w
      <4>1. \A u \in Tabs : operation'[u].device # Nothing => operation'[u] = operation[u]
        BY <1>4
      <4>. QED BY <4>1 DEF CountersInv, ControlsAreFresh
    <3>4. ASSUME NEW u \in Tabs, operation'[u].step = "storing"
          PROVE  LET x == operation'[u].device.control
                 IN  allocated'[x] = 0 /\ sequences'[x] = Missing
      <4>1. operation'[u] = operation[u]
        BY <1>4, <3>4
      <4>2. operation[u].device.control \in PublisherKeys
        BY <3>4, <4>1 DEF Device
      <4>. QED BY <2>3, <3>4, <4>1, <4>2 DEF CountersInv, ControlsAreFresh
    <3>. QED BY <3>1, <3>2, <3>3, <3>4 DEF ControlsAreFresh
  <2>5. CountersNeverRestart'
    <3>. SUFFICES ASSUME NEW x \in PublisherKeys, sequences'[x] # Missing
                  PROVE  sequences'[x].counter >= allocated'[x]
      BY DEF CountersNeverRestart
    <3>0. /\ sequences[x].counter \in Int /\ sequences'[x].counter \in Int
          /\ allocated[x] \in Int
      BY <1>0, <1>1, <1>2 DEF SequenceStates, StoredSequence
    <3>1. sequences[x] # Missing
      BY <2>3
    <3>2. sequences[x].counter >= allocated[x]
      BY <3>1 DEF CountersInv, CountersNeverRestart
    <3>. QED BY <1>2, <1>3, <3>0, <3>2
  <2>. QED BY <2>1, <2>2, <2>4, <2>5 DEF CountersInv
<1>. QED BY <1>0, <1>2, <1>3, <1>5

(* publishAndGoOnline ends: the tab runs on the device that it published.   *)
LEMMA GoOnlineStep ==
  ASSUME DInv, NEW t \in Tabs, GoOnline(t)
  PROVE  DInv'
<1>0. /\ operation \in [Tabs -> TabOperation] /\ TypeOK /\ CountersInv
      /\ OperationOk(t) /\ OnlineOk(t) /\ KeysAreKnown /\ DeviceKeysAreKept
      /\ online \subseteq Tabs /\ operation[t].step = "publishing"
  BY TabHas DEF GoOnline, DInv, KeysInv
<1>1. PICK a : a = operation[t].account
  OBVIOUS
<1>2. /\ a \in Accounts /\ locks[a] = t /\ state[t].session # Nothing
      /\ state[t].session.account = a /\ RunsOn(t, a)
  <2>1. operation[t].step \in Going
    BY <1>0 DEF Going
  <2>. QED BY <1>0, <1>1, <2>1 DEF OperationOk, Account
<1>3. Allocation(t) \in Ops /\ Allocation(t).type = "next"
  BY <1>2 DEF RunsOn, Allocation, Ops, Device
<1>4. /\ UpdateSequences(Allocation(t)) /\ Allocates(Allocation(t))
      /\ online' = online \cup {t} /\ operation' = [operation EXCEPT ![t] = NoOperation]
      /\ UNCHANGED <<state, locks, used, expired, lost, auth, cleanup, call, destroyed,
                     abandoned, purged>>
  BY DEF GoOnline, OperationKeeps, worldVars
<1>5. /\ operation'[t] = NoOperation /\ \A u \in Tabs \ {t} : operation'[u] = operation[u]
      /\ operation' \in [Tabs -> TabOperation]
      /\ \A u \in Tabs \ {t} : u \in online' <=> u \in online
      /\ online' \subseteq Tabs
  BY <1>0, <1>4, NewTabType
<1>6. /\ CountersInv' /\ sequences' \in SequenceStates
      /\ allocated' \in [PublisherKeys -> 0..MaxCounter]
      /\ UNCHANGED <<grantKeys, identities, encryptionKeys, deviceStates, generated>>
  <2>1. \A u \in Tabs : operation[u].step = "storing" => operation[u].device \in Device
    BY TabHas DEF OperationOk
  <2>. QED BY <1>0, <1>3, <1>4, <1>5, <2>1, UpdateMoves
<1>7. TypeOK'
  BY <1>0, <1>4, <1>5, <1>6 DEF TypeOK, StoreTypeOK, TabOperation
<1>8. NoOperation.step = "none" /\ NoOperation.device = Nothing
  BY DEF NoOperation
<1>9. TabsInv'
  <2>1. ASSUME NEW u \in Tabs PROVE AuthOk(u)'
    <3>1. AuthOk(u)
      BY TabHas
    <3>. QED BY <1>4, <3>1 DEF AuthOk, Current
  <2>2. ASSUME NEW u \in Tabs \ {t} PROVE OperationOk(u)' /\ OnlineOk(u)'
    <3>1. OperationOk(u) /\ OnlineOk(u)
      BY TabHas
    <3>. QED BY <1>0, <1>4, <1>5, <1>6, <3>1, NetworkStays
  <2>3. OperationOk(t)' /\ OnlineOk(t)'
    BY <1>2, <1>4, <1>5, <1>6, <1>8 DEF OperationOk, OnlineOk, RunsOn, Opens, Account, Going
  <2>4. CallShape'
    BY <1>4, TabHas DEF CallShape
  <2>. QED BY <2>1, <2>2, <2>3, <2>4 DEF TabsInv
<1>10. \A u \in Tabs :
         /\ operation'[u].step = "removing" =>
              Tied(operation'[u].victim, operation'[u].account)
         /\ operation'[u].step = "storing" =>
              /\ Tied(operation'[u].device.key, operation'[u].account)
              /\ Kept(operation'[u].device.key, operation'[u].account)
  BY <1>0, <1>5, <1>8 DEF KeysAreKnown, DeviceKeysAreKept
<1>11. \A b \in Accounts : deviceStates'[b] # Nothing =>
         Tied(deviceStates'[b].device.key, b) /\ Kept(deviceStates'[b].device.key, b)
  BY <1>0, <1>6 DEF KeysAreKnown, DeviceKeysAreKept
<1>. QED BY <1>4, <1>6, <1>7, <1>9, <1>10, <1>11, DeviceMoves

(* A call of the endpoint ends, even after the tab went offline.            *)
LEMMA FinishCallStep ==
  ASSUME DInv, NEW t \in Tabs, FinishCall(t)
  PROVE  DInv'
<1>0. /\ TypeOK /\ CountersInv /\ CallShape /\ KeysAreKnown /\ DeviceKeysAreKept
      /\ call \in [Tabs -> Ops \cup {Nothing}] /\ call[t] # Nothing
  BY TabHas DEF FinishCall, DInv, KeysInv, TypeOK
<1>1. /\ UpdateSequences(call[t]) /\ Allocates(call[t])
      /\ call' = [call EXCEPT ![t] = Nothing]
      /\ UNCHANGED <<state, auth, operation, cleanup, online, destroyed, locks, used, expired,
                     abandoned, purged, lost>>
  BY DEF FinishCall, worldVars
<1>2. call[t] \in Ops /\ call[t].type \in {"next", "record"}
  BY <1>0 DEF CallShape
<1>3. call' \in [Tabs -> Ops \cup {Nothing}] /\ CallShape'
  BY <1>0, <1>1 DEF CallShape
<1>4. /\ CountersInv' /\ sequences' \in SequenceStates
      /\ allocated' \in [PublisherKeys -> 0..MaxCounter]
      /\ UNCHANGED <<grantKeys, identities, encryptionKeys, deviceStates, generated>>
  <2>1. \A u \in Tabs : operation[u].step = "storing" => operation[u].device \in Device
    BY TabHas DEF OperationOk
  <2>. QED BY <1>0, <1>1, <1>2, <2>1, UpdateMoves
<1>5. TypeOK'
  BY <1>0, <1>1, <1>3, <1>4 DEF TypeOK, StoreTypeOK
<1>6. TabsInv'
  <2>1. ASSUME NEW u \in Tabs PROVE AuthOk(u)' /\ OperationOk(u)' /\ OnlineOk(u)'
    <3>1. AuthOk(u) /\ OperationOk(u) /\ OnlineOk(u)
      BY TabHas
    <3>2. AuthOk(u)'
      BY <1>1, <3>1 DEF AuthOk, Current
    <3>. QED BY <1>0, <1>1, <1>4, <3>1, <3>2, NetworkStays
  <2>. QED BY <1>3, <2>1 DEF TabsInv
<1>7. \A u \in Tabs :
        /\ operation'[u].step = "removing" =>
             Tied(operation'[u].victim, operation'[u].account)
        /\ operation'[u].step = "storing" =>
             /\ Tied(operation'[u].device.key, operation'[u].account)
             /\ Kept(operation'[u].device.key, operation'[u].account)
  BY <1>0, <1>1 DEF KeysAreKnown, DeviceKeysAreKept
<1>8. \A b \in Accounts : deviceStates'[b] # Nothing =>
        Tied(deviceStates'[b].device.key, b) /\ Kept(deviceStates'[b].device.key, b)
  BY <1>0, <1>4 DEF KeysAreKnown, DeviceKeysAreKept
<1>. QED BY <1>1, <1>4, <1>5, <1>6, <1>7, <1>8, DeviceMoves

-----------------------------------------------------------------------------
(* The invariant.                                                           *)

(* The first tabs find an empty store.                                      *)
LEMMA InitHasDInv == Init => DInv
<1>. SUFFICES ASSUME Init PROVE DInv
  OBVIOUS
<1>1. /\ grantKeys = {} /\ identities = [a \in Accounts |-> Nothing]
      /\ encryptionKeys = [a \in Accounts |-> Nothing]
      /\ deviceStates = [a \in Accounts |-> Nothing]
      /\ sequences = EmptyState /\ generated = 0
      /\ state = [t \in Tabs |-> NewState] /\ auth = [t \in Tabs |-> NoAuth]
      /\ operation = [t \in Tabs |-> NoOperation] /\ cleanup = [t \in Tabs |-> {}]
      /\ call = [t \in Tabs |-> Nothing] /\ online = {} /\ destroyed = {}
      /\ locks = [a \in Accounts |-> Nothing] /\ used = {} /\ expired = {}
      /\ abandoned = [t \in Tabs |-> FALSE] /\ purged = {} /\ lost = {}
      /\ allocated = [x \in PublisherKeys |-> 0]
  BY DEF Init, StoreInit
<1>2. \A x \in PublisherKeys : sequences[x] = Missing
  BY <1>1 DEF EmptyState, Keys
<1>3. TypeOK
  <2>1. StoreTypeOK
    <3>1. EmptyState \in SequenceStates
      BY DEF EmptyState, SequenceStates
    <3>2. generated \in 0..MaxGenerated
      BY <1>1, StoreAssumption
    <3>. QED BY <1>1, <3>1, <3>2 DEF StoreTypeOK
  <2>2. state \in [Tabs -> TabState] /\ auth \in [Tabs -> TabAuth]
        /\ operation \in [Tabs -> TabOperation]
    BY <1>1, NewTabType
  <2>3. allocated \in [PublisherKeys -> 0..MaxCounter]
    BY <1>1, SequenceAssumption
  <2>. QED BY <1>1, <2>1, <2>2, <2>3 DEF TypeOK, TabState, TabAuth, TabOperation
<1>4. \A t \in Tabs : /\ state[t] = NewState /\ auth[t] = NoAuth /\ operation[t] = NoOperation
                      /\ cleanup[t] = {} /\ call[t] = Nothing
  BY <1>1
<1>5. \A a \in Accounts : identities[a] = Nothing /\ deviceStates[a] = Nothing
  BY <1>1
<1>6. TabsInv
  <2>1. ASSUME NEW t \in Tabs PROVE AuthOk(t) /\ OperationOk(t) /\ OnlineOk(t)
    BY <1>1, <1>4 DEF AuthOk, OperationOk, OnlineOk, NewState, NoAuth, NoOperation,
                      Unsaved, Saved, Named, Going
  <2>. QED BY <1>4, <2>1 DEF TabsInv, CallShape
<1>7. CountersInv
  <2>1. ControlsAreFresh
    BY <1>1, <1>2, <1>4 DEF ControlsAreFresh, NoOperation
  <2>. QED BY <1>2, <1>5, <2>1 DEF CountersInv, DevicesAreTheirs, DevicesHaveCounters,
                                   CountersNeverRestart
<1>8. KeysInv
  <2>1. KeysAreKnown
    BY <1>1, <1>4, <1>5 DEF KeysAreKnown, NewState, NoAuth, NoOperation, Unsaved, Saved
  <2>2. DeviceKeysAreKept
    BY <1>4, <1>5 DEF DeviceKeysAreKept, NoOperation
  <2>3. NoKeyIsForgotten /\ \A t \in Tabs : CancelledKeyGoes(t)
    BY <1>1, <1>4 DEF NoKeyIsForgotten, CancelledKeyGoes, NoAuth
  <2>. QED BY <2>1, <2>2, <2>3 DEF KeysInv
<1>. QED BY <1>3, <1>6, <1>7, <1>8 DEF DInv

(* Nothing changes.                                                         *)
LEMMA StutterStep == ASSUME DInv, UNCHANGED vars PROVE DInv'
<1>1. UNCHANGED <<grantKeys, identities, encryptionKeys, deviceStates, sequences, generated,
                  state, auth, operation, cleanup, call, online, destroyed, locks, used,
                  expired, abandoned, purged, lost, allocated>>
  BY DEF vars, storeVars, tabVars, worldVars, historyVars
<1>2. TypeOK'
  BY <1>1 DEF DInv, TypeOK, StoreTypeOK
<1>3. TabsInv'
  <2>1. \A a : \A t \in Tabs : RunsOn(t, a) => RunsOn(t, a)'
    BY <1>1 DEF RunsOn, Opens
  <2>2. ASSUME NEW t \in Tabs PROVE AuthOk(t)' /\ OperationOk(t)' /\ OnlineOk(t)'
    <3>1. AuthOk(t)'
      BY <1>1 DEF DInv, TabsInv, AuthOk, Current
    <3>2. OperationOk(t)'
      BY <1>1, <2>1 DEF DInv, TabsInv, OperationOk, Account
    <3>3. OnlineOk(t)'
      BY <1>1, <2>1 DEF DInv, TabsInv, OnlineOk, Account
    <3>. QED BY <3>1, <3>2, <3>3
  <2>3. CallShape'
    BY <1>1 DEF DInv, TabsInv, CallShape
  <2>. QED BY <2>2, <2>3 DEF TabsInv
<1>4. CountersInv'
  BY <1>1 DEF DInv, CountersInv, DevicesAreTheirs, DevicesHaveCounters, ControlsAreFresh,
              CountersNeverRestart
<1>5. KeysInv'
  <2>1. KeysAreKnown'
    <3>1. \A k, a : Tied(k, a) => Tied(k, a)'
      BY <1>1 DEF Tied
    <3>2. \A k : Dead(k) => Dead(k)'
      BY <1>1 DEF Dead, IdentityKeys
    <3>. QED BY <1>1, <3>1, <3>2 DEF DInv, KeysInv, KeysAreKnown
  <2>2. DeviceKeysAreKept'
    BY <1>1 DEF DInv, KeysInv, DeviceKeysAreKept, Kept
  <2>3. NoKeyIsForgotten'
    <3>1. IdentityKeys' = IdentityKeys /\ \A t \in Tabs : SessionKey(t)' = SessionKey(t)
      BY <1>1 DEF IdentityKeys, SessionKey
    <3>. QED BY <1>1, <3>1 DEF DInv, KeysInv, NoKeyIsForgotten
  <2>4. \A t \in Tabs : CancelledKeyGoes(t)'
    BY <1>1 DEF DInv, KeysInv, CancelledKeyGoes
  <2>. QED BY <2>1, <2>2, <2>3, <2>4 DEF KeysInv
<1>. QED BY <1>2, <1>3, <1>4, <1>5 DEF DInv

(* DInv holds whatever the users of the tabs call, and in whatever order    *)
(* the awaits of lib.rs and index.js return.                                *)
THEOREM IdentityInvariance == Spec => []DInv
<1>1. Init => DInv
  BY InitHasDInv
<1>2. DInv /\ [Next]_vars => DInv'
  <2>. SUFFICES ASSUME DInv, [Next]_vars PROVE DInv'
    OBVIOUS
  <2>1. ASSUME NEW t \in Tabs, Call(t) PROVE DInv'
    <3>1. CASE BeginAuth(t)
      BY <3>1, StartAuthStep DEF BeginAuth
    <3>2. ASSUME NEW a \in Accounts, RestoreIdentity(t, a) PROVE DInv'
      BY <3>2, StartAuthStep DEF RestoreIdentity
    <3>3. CASE CancelAuth(t)
      BY <3>3, CancelAuthStep
    <3>4. ASSUME NEW a \in Accounts, RemoveLocalIdentity(t, a) PROVE DInv'
      BY <3>4, RemoveLocalIdentityStep
    <3>5. CASE Publish(t)
      BY <3>5, PublishStep
    <3>6. CASE Disconnect(t)
      BY <3>6, UnlockSteps
    <3>7. CASE Destroy(t)
      BY <3>7, DestroyStep
    <3>8. CASE Reopen(t)
      BY <3>8, ReopenStep
    <3>. QED BY <2>1, <3>1, <3>2, <3>3, <3>4, <3>5, <3>6, <3>7, <3>8 DEF Call
  <2>2. ASSUME NEW t \in Tabs, AuthTask(t) PROVE DInv'
    <3>1. CASE StoreGrantKey(t)
      BY <3>1, StoreGrantKeyStep
    <3>2. CASE BeginReturns(t)
      BY <3>2, BeginReturnsStep
    <3>3. CASE Discard(t)
      BY <3>3, DiscardStep
    <3>4. CASE CompleteAuth(t)
      BY <3>4, CompleteAuthStep
    <3>5. CASE (\E a \in Accounts : Approve(t, a)) \/ Validate(t) \/ SigningFails(t)
      BY <3>5, SigningSteps
    <3>6. CASE Save(t)
      BY <3>6, SaveStep
    <3>7. CASE CompleteReturns(t)
      BY <3>7, CompleteReturnsStep
    <3>8. CASE Erase(t)
      BY <3>8, EraseStep
    <3>9. CASE LoadIdentity(t) \/ RestoreSession(t) \/ RestoreReturns(t) \/ RestoreFails(t)
      BY <3>9, RestoreSteps
    <3>. QED BY <2>2, <3>1, <3>2, <3>3, <3>4, <3>5, <3>6, <3>7, <3>8, <3>9 DEF AuthTask
  <2>3. ASSUME NEW t \in Tabs, OperationTask(t) PROVE DInv'
    <3>1. CASE RemoveReturns(t)
      BY <3>1, RemoveReturnsStep
    <3>2. CASE LoadDevice(t)
      BY <3>2, LoadDeviceStep
    <3>3. CASE IssueDevice(t)
      BY <3>3, IssueDeviceStep
    <3>4. CASE StoreDevice(t)
      BY <3>4, StoreDeviceStep
    <3>5. CASE GoOnline(t)
      BY <3>5, GoOnlineStep
    <3>6. CASE PublishFails(t)
      BY <3>6, UnlockSteps
    <3>. QED BY <2>3, <3>1, <3>2, <3>3, <3>4, <3>5, <3>6 DEF OperationTask
  <2>4. ASSUME NEW t \in Tabs, CleanUp(t) \/ StartCall(t) \/ FinishCall(t) PROVE DInv'
    BY <2>4, CleanUpStep, StartCallStep, FinishCallStep
  <2>5. ASSUME NEW k \in GrantKeys, ExpireGrant(k) PROVE DInv'
    BY <2>5, ExpireGrantStep
  <2>6. CASE UNCHANGED vars
    BY <2>6, StutterStep
  <2>. QED BY <2>1, <2>2, <2>3, <2>4, <2>5, <2>6 DEF Next
<1>. QED BY <1>1, <1>2, PTL DEF Spec

-----------------------------------------------------------------------------
(* What the runs check.                                                     *)

(* All variables keep their types.                                          *)
THEOREM IdentityTypeCorrectness == Spec => []TypeOK
<1>1. DInv => TypeOK
  BY DEF DInv
<1>. QED BY <1>1, IdentityInvariance, PTL

(* The lock of index.js keeps an online tab alone with its account, and no  *)
(* publication, rotation, removal or clean-up of another tab takes its      *)
(* device, counter or grant key away while its grant is valid.              *)
THEOREM OnlineTabsKeepTheirDevice == Spec => []OnlineKeepsItsDevice
<1>1. DInv => OnlineKeepsItsDevice
  <2>. SUFFICES ASSUME DInv, NEW t \in online
                PROVE  /\ \A u \in online : Account(u) = Account(t) => u = t
                       /\ Valid(state[t].device) /\ Account(t) \notin purged =>
                            /\ Opens(Account(t), deviceStates[Account(t)])
                            /\ deviceStates[Account(t)].device = state[t].device
                            /\ state[t].device.key \in grantKeys \cup lost
                            /\ sequences[state[t].device.control].kind = "publisher"
    BY DEF OnlineKeepsItsDevice
  <2>1. t \in Tabs /\ online \subseteq Tabs
    BY DEF DInv, TypeOK
  <2>2. OnlineOk(t) /\ (state[t].session # Nothing => state[t].session.account \in Accounts)
    BY <2>1, TabHas
  <2>3. Account(t) \in Accounts /\ RunsOn(t, Account(t)) /\ locks[Account(t)] = t
    BY <2>2 DEF OnlineOk, Account
  <2>4. ASSUME NEW u \in online, Account(u) = Account(t) PROVE u = t
    <3>1. OnlineOk(u)
      BY <2>1, TabHas
    <3>. QED BY <2>3, <2>4, <3>1 DEF OnlineOk
  <2>5. ASSUME Valid(state[t].device), Account(t) \notin purged
        PROVE  /\ Opens(Account(t), deviceStates[Account(t)])
               /\ deviceStates[Account(t)].device = state[t].device
               /\ state[t].device.key \in grantKeys \cup lost
               /\ sequences[state[t].device.control].kind = "publisher"
    <3>1. /\ Opens(Account(t), deviceStates[Account(t)])
          /\ deviceStates[Account(t)].device = state[t].device
          /\ deviceStates[Account(t)] # Nothing
      BY <2>3, <2>5 DEF RunsOn, Opens
    <3>2. Kept(state[t].device.key, Account(t))
      BY <2>3, <3>1 DEF DInv, KeysInv, DeviceKeysAreKept
    <3>3. sequences[state[t].device.control].kind = "publisher"
      BY <2>3, <3>1 DEF DInv, CountersInv, DevicesHaveCounters
    <3>. QED BY <2>5, <3>1, <3>2, <3>3 DEF Kept, Valid
  <2>. QED BY <2>4, <2>5
<1>. QED BY <1>1, IdentityInvariance, PTL

(* The device state and its publisher counter of browser_store.js are       *)
(* written together and go together.                                        *)
THEOREM EveryDeviceHasItsCounter == Spec => []DevicesHaveCounters
<1>1. DInv => DevicesHaveCounters
  BY DEF DInv, CountersInv
<1>. QED BY <1>1, IdentityInvariance, PTL

(* No removal, rotation or late update of a tab that went offline makes a   *)
(* counter hand out a sequence a second time.                               *)
THEOREM NoCounterRestarts == Spec => []CountersNeverRestart
<1>1. DInv => CountersNeverRestart
  BY DEF DInv, CountersInv
<1>. QED BY <1>1, IdentityInvariance, PTL

(* However an authorization ends, its key is deleted, or somebody still has *)
(* it: the promise of cancel_auth.                                          *)
THEOREM EveryKeyHasAnOwner == Spec => []NoKeyIsForgotten
<1>1. DInv => NoKeyIsForgotten
  BY DEF DInv, KeysInv
<1>. QED BY <1>1, IdentityInvariance, PTL

(* A step that gives a tab a session is the end of an authorization of the  *)
(* current epoch.                                                           *)
LEMMA OnlyCurrentInstalls ==
  ASSUME DInv, Next, NEW t \in Tabs, state'[t].session # Nothing, state[t].session = Nothing
  PROVE  auth[t].step # "idle" /\ Current(t)
<1>0. /\ state \in [Tabs -> TabState]
      /\ \A u \in Tabs : state[u].session \in Session \cup {Nothing}
  BY TabHas DEF TypeOK
<1> DEFINE Keeps == state'[t].session \in {state[t].session, Nothing}
<1>1. ASSUME NEW u \in Tabs, CompleteReturns(u) \/ RestoreReturns(u)
      PROVE  Keeps \/ (auth[t].step # "idle" /\ Current(t))
  <2>1. ASSUME Install(u) PROVE Keeps \/ u = t
    BY <1>0, <2>1 DEF Install, TabState
  <2>2. ASSUME AuthFails(u) \/ UNCHANGED state PROVE Keeps
    BY <1>0, <2>2 DEF AuthFails, TabState
  <2>3. auth[u].step # "idle" /\ (AuthFails(u) \/ UNCHANGED state \/ (Install(u) /\ Current(u)))
    <3>1. CASE CompleteReturns(u)
      BY <3>1 DEF CompleteReturns, UndoFails
    <3>2. CASE RestoreReturns(u)
      BY <3>2 DEF RestoreReturns
    <3>. QED BY <1>1, <3>1, <3>2
  <2>. QED BY <2>1, <2>2, <2>3
<1>2. ASSUME NEW u \in Tabs, Call(u) PROVE Keeps
  <2>1. CASE BeginAuth(u) \/ \E a \in Accounts : RestoreIdentity(u, a)
    <3>1. state' = [state EXCEPT ![u].busy = TRUE, ![u].epoch = @ + 1]
      BY <2>1 DEF BeginAuth, RestoreIdentity, StartAuth
    <3>. QED BY <1>0, <3>1 DEF TabState
  <2>2. CASE CancelAuth(u) \/ Destroy(u)
    <3>1. CancelState(u)
      BY <2>2 DEF CancelAuth, Destroy
    <3>. QED BY <1>0, <3>1 DEF CancelState, TabState
  <2>3. CASE \E a \in Accounts : RemoveLocalIdentity(u, a)
    BY <1>0, <2>3 DEF RemoveLocalIdentity, TabState
  <2>4. CASE Publish(u) \/ Disconnect(u)
    BY <2>4 DEF Publish, Disconnect
  <2>5. CASE Reopen(u)
    <3>1. state' = [state EXCEPT ![u] = NewState]
      BY <2>5 DEF Reopen
    <3>. QED BY <1>0, <3>1 DEF NewState, TabState
  <2>. QED BY <1>2, <2>1, <2>2, <2>3, <2>4, <2>5 DEF Call
<1>3. ASSUME NEW u \in Tabs, AuthTask(u), ~CompleteReturns(u), ~RestoreReturns(u)
      PROVE  Keeps
  <2>1. ASSUME AuthFails(u) \/ UNCHANGED state PROVE Keeps
    BY <1>0, <2>1 DEF AuthFails, TabState
  <2>2. CASE BeginReturns(u)
    BY <1>0, <2>1, <2>2 DEF BeginReturns, TabState
  <2>3. CASE Discard(u) \/ CompleteAuth(u)
    BY <1>0, <2>3 DEF Discard, CompleteAuth, TabState
  <2>4. CASE ~(BeginReturns(u) \/ Discard(u) \/ CompleteAuth(u))
    <3>1. AuthFails(u) \/ UNCHANGED state
      BY <1>3, <2>4 DEF AuthTask, StoreGrantKey, Approve, Validate, Save, SigningFails, Erase,
         UndoFails, LoadIdentity, RestoreSession, RestoreFails
    <3>. QED BY <2>1, <3>1
  <2>. QED BY <2>2, <2>3, <2>4
<1>4. ASSUME NEW u \in Tabs, OperationTask(u) PROVE Keeps
  <2>1. CASE RemoveReturns(u)
    <3> DEFINE signedIn == state[u].session # Nothing /\
                           state[u].session.account = operation[u].account
    <3>1. \/ state' = [state EXCEPT ![u].identityBusy = FALSE,
                 ![u].session = IF signedIn THEN Nothing ELSE @,
                 ![u].device = IF signedIn THEN Nothing ELSE @]
          \/ state' = [state EXCEPT ![u].identityBusy = FALSE]
      BY <2>1 DEF RemoveReturns
    <3>. HIDE DEF signedIn
    <3>. QED BY <1>0, <3>1 DEF TabState
  <2>2. CASE LoadDevice(u) \/ StoreDevice(u)
    <3>1. UNCHANGED state \/ \E d : state' = [state EXCEPT ![u].device = d]
      BY <2>2 DEF LoadDevice, StoreDevice
    <3>. QED BY <1>0, <3>1 DEF TabState
  <2>3. CASE IssueDevice(u) \/ GoOnline(u) \/ PublishFails(u)
    BY <2>3 DEF IssueDevice, GoOnline, PublishFails
  <2>. QED BY <1>4, <2>1, <2>2, <2>3 DEF OperationTask
<1>5. ASSUME NEW u \in Tabs, CleanUp(u) \/ StartCall(u) \/ FinishCall(u) PROVE Keeps
  BY <1>5 DEF CleanUp, StartCall, FinishCall
<1>6. ASSUME NEW k \in GrantKeys, ExpireGrant(k) PROVE Keeps
  BY <1>6 DEF ExpireGrant, tabVars
<1>. QED BY <1>1, <1>2, <1>3, <1>4, <1>5, <1>6 DEF Next

(* The epoch check of complete_auth and restore_identity: an authorization  *)
(* that was cancelled while it waited does not sign the tab in.             *)
THEOREM NoCancelledAuthIsInstalled == Spec => CancelledAuthIsNotInstalled
<1> DEFINE Installs == \A t \in Tabs :
             state'[t].session # Nothing /\ state[t].session = Nothing
               => ~abandoned[t] /\ t \notin destroyed
<1>1. DInv /\ [Next]_vars => [Installs]_vars
  <2>. SUFFICES ASSUME DInv, Next, NEW t \in Tabs,
                       state'[t].session # Nothing, state[t].session = Nothing
                PROVE  ~abandoned[t] /\ t \notin destroyed
    OBVIOUS
  <2>1. auth[t].step # "idle" /\ Current(t)
    BY OnlyCurrentInstalls
  <2>. QED BY <2>1, TabHas DEF AuthOk
<1>. QED BY <1>1, IdentityInvariance, PTL DEF Spec, CancelledAuthIsNotInstalled

=============================================================================
