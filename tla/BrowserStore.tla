---------------------------- MODULE BrowserStore ----------------------------
(***************************************************************************)
(* The IndexedDB database that all tabs of an origin share                 *)
(* (crates/browser-wasm/js/browser_store.js, called through                *)
(* browser_store.rs): the grant keys, and for every account its identity   *)
(* record, its encryption key, its device state and its sequences.         *)
(*                                                                         *)
(* A function of the store that runs in one transaction is one step here.  *)
(* One that awaits between two transactions (the encryption key is read    *)
(* before the record that it seals is written; a removal reads the record  *)
(* before it deletes) is two operators, and its caller keeps what the      *)
(* first one returned.  A sealed record is its contents and the key that   *)
(* sealed it.  The sequences are a SequenceState: the JavaScript code      *)
(* applies the same rules to the same entries.                             *)
(***************************************************************************)
EXTENDS SequenceState

CONSTANTS
  Accounts,       \* Pubky identities of the user
  GrantKeys,      \* ids of generated grant keys
  AccountOf,      \* the account that a sequence key belongs to
  MaxIdentities,  \* MAX_IDENTITIES
  MaxGenerated,   \* bound on generated encryption keys
  Nothing         \* an absent record

ASSUME StoreAssumption ==
  /\ AccountOf \in [Keys -> Accounts]
  /\ {MaxIdentities, MaxGenerated} \subseteq Nat
  /\ Nothing \notin GrantKeys \cup PublisherKeys \cup Nat

VARIABLES
  grantKeys,       \* ids in GRANT_KEYS
  identities,      \* IDENTITIES: the grant key of an account, sealed
  encryptionKeys,  \* ENCRYPTION_KEYS
  deviceStates,    \* DEVICE_STATES: control key and grant key, sealed
  sequences,       \* SEQUENCES
  generated        \* encryption keys generated so far

storeVars == <<grantKeys, identities, encryptionKeys, deviceStates, sequences,
               generated>>

EncryptionKeys == 1..MaxGenerated

Identity == [key : GrantKeys, sealed : EncryptionKeys]

Device == [control : PublisherKeys, key : GrantKeys]

DeviceState == [device : Device, sealed : EncryptionKeys]

ASSUME NothingIsNoRecord == Nothing \notin Identity \cup Device \cup DeviceState

StoreTypeOK ==
  /\ grantKeys \subseteq GrantKeys
  /\ identities \in [Accounts -> Identity \cup {Nothing}]
  /\ encryptionKeys \in [Accounts -> EncryptionKeys \cup {Nothing}]
  /\ deviceStates \in [Accounts -> DeviceState \cup {Nothing}]
  /\ sequences \in SequenceStates
  /\ generated \in 0..MaxGenerated

StoreInit ==
  /\ grantKeys = {}
  /\ identities = [a \in Accounts |-> Nothing]
  /\ encryptionKeys = [a \in Accounts |-> Nothing]
  /\ deviceStates = [a \in Accounts |-> Nothing]
  /\ sequences = EmptyState
  /\ generated = 0

-----------------------------------------------------------------------------
(* Keys.                                                                    *)

AddGrantKey(k) ==
  /\ grantKeys' = grantKeys \cup {k}
  /\ UNCHANGED <<identities, encryptionKeys, deviceStates, sequences,
                 generated>>

DeleteGrantKey(k) ==
  /\ grantKeys' = grantKeys \ {k}
  /\ UNCHANGED <<identities, encryptionKeys, deviceStates, sequences,
                 generated>>

(* ensureEncryptionKey returns the key that is there, or stores a new one.  *)
(* A tab that loses the race for the new key loads the winner's.            *)
EncryptionKeyOf(a) ==
  IF encryptionKeys[a] = Nothing THEN generated + 1 ELSE encryptionKeys[a]

EnsureEncryptionKey(a) ==
  /\ EncryptionKeyOf(a) \in EncryptionKeys
  /\ encryptionKeys' = [encryptionKeys EXCEPT ![a] = EncryptionKeyOf(a)]
  /\ generated' =
       IF encryptionKeys[a] = Nothing THEN generated + 1 ELSE generated
  /\ UNCHANGED <<grantKeys, identities, deviceStates, sequences>>

(* A record can be read: it is there, and so is the key that sealed it.     *)
Opens(a, record) ==
  /\ record # Nothing
  /\ record.sealed = encryptionKeys[a]

-----------------------------------------------------------------------------
(* Identities.                                                              *)

(* A grant that has not expired is not replaced.                            *)
SaveIdentityOk(a, expired) ==
  IF identities[a] = Nothing
    THEN Cardinality({b \in Accounts : identities[b] # Nothing}) < MaxIdentities
    ELSE identities[a].key \in expired

(* The key of a replaced grant goes with it.                                *)
SaveIdentity(a, k, sealed) ==
  /\ identities' = [identities EXCEPT ![a] = [key |-> k, sealed |-> sealed]]
  /\ grantKeys' =
       IF identities[a] = Nothing THEN grantKeys
       ELSE grantKeys \ ({identities[a].key} \ {k})
  /\ UNCHANGED <<encryptionKeys, deviceStates, sequences, generated>>

(* The transaction of __p2pRemoveIdentity.  The key is the one of the       *)
(* record that was read before it.                                          *)
RemoveIdentity(a, k) ==
  /\ grantKeys' = grantKeys \ {k}
  /\ identities' = [identities EXCEPT ![a] = Nothing]
  /\ encryptionKeys' = [encryptionKeys EXCEPT ![a] = Nothing]
  /\ deviceStates' = [deviceStates EXCEPT ![a] = Nothing]
  /\ sequences' =
       [k2 \in Keys |-> IF AccountOf[k2] = a THEN Missing ELSE sequences[k2]]
  /\ UNCHANGED generated

-----------------------------------------------------------------------------
(* Devices and sequences.                                                   *)

PublishersOf(a) ==
  {k \in PublisherKeys : AccountOf[k] = a /\ sequences[k] # Missing}

NewCounter(x) == [type |-> "initialize", key |-> x]

SaveNewDeviceOk(a, x) ==
  /\ deviceStates[a] = Nothing
  /\ PublishersOf(a) = {}
  /\ Commits(sequences, NewCounter(x))

(* The old counter stays: its control key is never used again.              *)
ReplaceDeviceOk(a, old, x) ==
  /\ deviceStates[a] # Nothing
  /\ deviceStates[a].device.control = old
  /\ Commits(sequences, NewCounter(x))

(* Variant: the device is stored and its counter left to another step.      *)
SaveDeviceOnly(a, device, sealed) ==
  /\ deviceStates' = [deviceStates EXCEPT ![a] =
       [device |-> device, sealed |-> sealed]]
  /\ UNCHANGED <<grantKeys, identities, encryptionKeys, sequences, generated>>

(* Device state and publisher counter are written together.                 *)
SaveDevice(a, device, sealed) ==
  /\ deviceStates' = [deviceStates EXCEPT ![a] =
       [device |-> device, sealed |-> sealed]]
  /\ sequences' = Update(sequences, NewCounter(device.control))
  /\ UNCHANGED <<grantKeys, identities, encryptionKeys, generated>>

(* updateSequences, for an allocation or a batch: all of it or nothing.     *)
UpdateSequences(op) ==
  /\ sequences' =
       IF Commits(sequences, op) THEN Update(sequences, op) ELSE sequences
  /\ UNCHANGED <<grantKeys, identities, encryptionKeys, deviceStates,
                 generated>>

=============================================================================
