----------------------------- MODULE DeviceKey ------------------------------
(***************************************************************************)
(* The key that seals the plugin's three records at rest                   *)
(* (plugin/lib/device-key/): where it is stored, how getKey finds or makes  *)
(* it, and what the record stores do with a record they can or cannot open. *)
(* A key is a number, in the order of their generation; a record is the key *)
(* it is sealed with and the number of changes it holds.                    *)
(***************************************************************************)
EXTENDS Naturals

CONSTANTS
    Darwin,     \* the platform: macOS, or one without a wired-up secure store
    Faults,     \* "read": reading a stored key may fail once;
                \* "cli": the security command may be missing at a start
    MaxKeys,    \* bound: keys generated
    MaxValue,   \* bound: changes of a record
    None,       \* nothing stored, or getKey rejected
    Damaged,    \* a stored key of the wrong size
    Plain,      \* the seal of a record from before encryption
    Foreign     \* the seal of a record of another device

ASSUME DeviceKeyAssumption ==
    /\ Darwin \in BOOLEAN
    /\ Faults \subseteq {"read", "cli"}
    /\ MaxKeys \in Nat /\ MaxValue \in Nat \ {0}
    /\ {None, Damaged, Plain, Foreign} \cap Nat = {}
    /\ None # Damaged /\ Plain # Foreign /\ None \notin {Plain, Foreign}

VARIABLES
    provider,   \* the provider this process uses
    chain,      \* the Keychain's item
    file,       \* the 0600 file
    cached,     \* the provider's cached key
    minted,     \* keys generated so far
    record,     \* kv: the three records
    store       \* the three record stores of this process

keyVars  == <<chain, file, cached, minted>>
keysVars == <<provider, chain, file, cached, minted, record, store>>

Key    == 1 .. MaxKeys
Store  == {"shares", "sessions", "connections"}
Record == [seal : Key \cup {None, Plain, Foreign}, value : 0 .. MaxValue]
Absent == [seal |-> None, value |-> 0]

\* "recovery": its record could not be read and must not be replaced; "failed":
\* what needs it did not start.
StoreState == [mode : {"unloaded", "ready", "recovery", "failed"}, value : 0 .. MaxValue]
Unloaded   == [mode |-> "unloaded", value |-> 0]

Providers ==
    (IF Darwin THEN {"keychain"} ELSE {"file"}) \cup (IF "cli" \in Faults THEN {"file"} ELSE {})

KeysInit ==
    /\ provider \in Providers
    /\ chain \in {None, Damaged} /\ file \in {None, Damaged}
    /\ cached = None /\ minted = 0
    /\ record \in [Store -> {Absent} \cup [seal : {Plain, Foreign}, value : {1}]]
    /\ store = [r \in Store |-> Unloaded]

-----------------------------------------------------------------------------
\* getKey, without a cached key.  What it finds, it caches; what reads as absent
\* is generated and written over what is there.
NotFound(stored) == stored = None \/ "read" \in Faults

Found(stored, k) ==
    /\ stored \in Key /\ k = stored /\ cached' = k
    /\ UNCHANGED <<chain, file, minted>>

Rejects(k) == k = None /\ UNCHANGED keyVars

WrongSize(stored, k) == stored = Damaged /\ Rejects(k)

Fresh(k) == minted < MaxKeys /\ k = minted + 1 /\ minted' = k

\* Mutant: the key is used without reading it back.
WritesUnconfirmed(k) ==
    /\ Fresh(k) /\ chain' \in {chain, k} /\ cached' = k
    /\ UNCHANGED file

\* The key is used once it was read back; a write that was lost, or cannot be
\* read back, rejects.
Writes(k) ==
    \/ Fresh(k) /\ chain' = k /\ cached' = k /\ UNCHANGED file
    \/ /\ minted < MaxKeys /\ minted' = minted + 1 /\ k = None
       /\ chain' \in {chain} \cup (IF "read" \in Faults THEN {minted'} ELSE {})
       /\ UNCHANGED <<file, cached>>

Keychain(k) ==
    \/ Found(chain, k)
    \/ WrongSize(chain, k)
    \/ NotFound(chain) /\ (Writes(k) \/ Rejects(k))

\* A write that fails may leave an empty or a truncated file; a chmod that fails
\* after it leaves the key, which the next call finds.
KeyFile(k) ==
    \/ Found(file, k)
    \/ WrongSize(file, k)
    \/ NotFound(file) /\ Fresh(k) /\ file' = k /\ cached' = k /\ UNCHANGED chain
    \/ /\ NotFound(file) /\ k = None /\ file' \in {file, None, Damaged}
       /\ UNCHANGED <<chain, cached, minted>>
    \/ /\ NotFound(file) /\ k = None /\ minted < MaxKeys
       /\ minted' = minted + 1 /\ file' = minted'
       /\ UNCHANGED <<chain, cached>>

GetKey(k) ==
    \/ cached # None /\ k = cached /\ UNCHANGED keyVars
    \/ cached = None /\ provider = "keychain" /\ Keychain(k)
    \/ cached = None /\ provider = "file" /\ KeyFile(k)

\* A secret opens under the key it was sealed with only; what is not sealed is
\* left as it is.
openSecret(seal, k) == seal = k

decryptRecord(r, k) == k # None /\ (record[r].seal = Plain \/ openSecret(record[r].seal, k))

sealSecret(k) == k

encryptRecord(value, k) == [seal |-> sealSecret(k), value |-> value]

Becomes(r, mode, value) == store' = [store EXCEPT ![r] = [mode |-> mode, value |-> value]]

-----------------------------------------------------------------------------
\* Loading.  A record that does not exist needs no key.
Loads(r) == store[r].mode = "unloaded" /\ UNCHANGED provider

LoadAbsent(r) ==
    /\ Loads(r) /\ record[r] = Absent
    /\ Becomes(r, "ready", 0) /\ UNCHANGED <<keyVars, record>>

\* kv cannot be read: the plugin does not load, the gateway or the lifecycle does
\* not start, and none is tried again.
KvUnreadable(r) ==
    /\ Loads(r)
    /\ Becomes(r, "failed", 0) /\ UNCHANGED <<keyVars, record>>

\* A legacy record of invitations is saved again, sealed, before it is used.
Migrated(k) ==
    /\ decryptRecord("shares", k)
    /\ Becomes("shares", "ready", record["shares"].value)
    /\ record' = [record EXCEPT !["shares"] = encryptRecord(@.value, k)]

LoadShares ==
    /\ Loads("shares") /\ record["shares"] # Absent
    /\ \E k \in Key \cup {None} :
        /\ GetKey(k)
        /\ \/ Migrated(k)
           \/ /\ ~decryptRecord("shares", k) \/ record["shares"].seal = Plain
              /\ Becomes("shares", "recovery", 0) /\ UNCHANGED record

\* createGuestGateway.start, after the plugin has loaded.  Sessions were never
\* stored in plain text.
LoadSessions ==
    /\ Loads("sessions") /\ store["shares"].mode \in {"ready", "recovery"}
    /\ record["sessions"] # Absent
    /\ \E k \in Key \cup {None} :
        /\ GetKey(k)
        /\ \/ /\ decryptRecord("sessions", k) /\ record["sessions"].seal # Plain
              /\ Becomes("sessions", "ready", record["sessions"].value)
           \/ /\ ~decryptRecord("sessions", k) \/ record["sessions"].seal = Plain
              /\ Becomes("sessions", "failed", 0)
    /\ UNCHANGED record

\* WorkerLifecycle.initialize, after the gateway has started.
LoadConnections ==
    /\ Loads("connections") /\ store["sessions"].mode = "ready"
    /\ record["connections"] # Absent
    /\ \E k \in Key \cup {None} :
        /\ GetKey(k)
        /\ \/ decryptRecord("connections", k) /\ Becomes("connections", "ready", record["connections"].value)
           \/ ~decryptRecord("connections", k) /\ Becomes("connections", "recovery", 0)
    /\ UNCHANGED record

-----------------------------------------------------------------------------
\* Mutant: a store whose record could not be read saves over it.
SavesAnyway(r) == store[r].mode \in {"ready", "recovery"}

Saves(r) == store[r].mode = "ready"

\* A change is written sealed, or taken back when there is no key or kv.set fails.
Save(r) ==
    /\ Saves(r) /\ store[r].value < MaxValue
    /\ \E k \in Key \cup {None} :
        /\ GetKey(k)
        /\ \/ /\ k # None
              /\ record' = [record EXCEPT ![r] = encryptRecord(store[r].value + 1, k)]
              /\ store' = [store EXCEPT ![r].value = @ + 1]
           \/ UNCHANGED <<record, store>>
    /\ UNCHANGED provider

\* The plugin stops, or dies at any point, and starts again.
Restart ==
    /\ provider' \in Providers /\ cached' = None
    /\ store' = [r \in Store |-> Unloaded]
    /\ UNCHANGED <<chain, file, minted, record>>

\* shares, then sessions, then connections.
InTurn(r) ==
    CASE r = "shares"      -> TRUE
      [] r = "sessions"    -> store["shares"].mode \in {"ready", "recovery"}
      [] r = "connections" -> store["sessions"].mode = "ready"

KeysNext ==
    \/ \E r \in Store : InTurn(r) /\ (LoadAbsent(r) \/ KvUnreadable(r))
    \/ LoadShares \/ LoadSessions \/ LoadConnections
    \/ \E r \in Store : Save(r)
    \/ Restart

KeysSpec == KeysInit /\ [][KeysNext]_keysVars

-----------------------------------------------------------------------------
\* Every variable has its type.
KeysTypeOK ==
    /\ provider \in {"keychain", "file"}
    /\ chain \in Key \cup {None, Damaged} /\ file \in Key \cup {None, Damaged}
    /\ cached \in Key \cup {None} /\ minted \in 0 .. MaxKeys
    /\ record \in [Store -> Record]
    /\ store \in [Store -> StoreState]

\* The key of every record sealed on this device is still stored, in the Keychain
\* or the file: writes that are lost or fail, deaths, and starts that fall back to
\* the file never leave a record without its key (getKey reads its key back).
NoKeyLost == \A r \in Store : record[r].seal \in Key => record[r].seal \in {chain, file}

\* A record only ever gains a change: no save starts afresh over one that could
\* not be opened (recoveryRequired, unreadable, a gateway that does not start).
NothingLost ==
    [][\A r \in Store : record'[r] # record[r] =>
         record'[r].value \in {record[r].value, record[r].value + 1}]_keysVars

=============================================================================
