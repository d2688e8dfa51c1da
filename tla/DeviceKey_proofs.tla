--------------------------- MODULE DeviceKey_proofs -------------------------
(***************************************************************************)
(* Proofs about DeviceKey, for any number of keys and changes, on either   *)
(* platform and with any start that lacks the security command, as long as *)
(* a stored key that is there can be read.                                 *)
(***************************************************************************)
EXTENDS DeviceKey, TLAPS

\* What a store holds in memory is what its record holds.
HeldIsSaved == \A r \in Store : store[r].mode = "ready" => store[r].value = record[r].value

\* The key in use is stored: getKey caches what it has found or confirmed.
CachedIsStored == cached # None => cached \in {chain, file}

KeysInv == KeysTypeOK /\ CachedIsStored /\ NoKeyLost /\ HeldIsSaved

-----------------------------------------------------------------------------
\* What a call of getKey leaves behind.
Kept(k) ==
    /\ chain' \in Key \cup {None, Damaged} /\ file' \in Key \cup {None, Damaged}
    /\ cached' \in Key \cup {None} /\ minted' \in 0 .. MaxKeys
    /\ \A key \in Key : key \in {chain, file} => key \in {chain', file'}
    /\ CachedIsStored'
    /\ k # None => k \in {chain', file'}

\* getKey never overwrites a key that can be read, and gives the key it caches.
LEMMA GetKeyKeeps ==
    ASSUME KeysTypeOK, CachedIsStored, "read" \notin Faults,
           NEW k \in Key \cup {None}, GetKey(k)
    PROVE  Kept(k)
  <1> USE DeviceKeyAssumption DEF KeysTypeOK, CachedIsStored, Key, Kept
  <1>1. CASE cached # None /\ k = cached /\ UNCHANGED keyVars
    BY <1>1 DEF keyVars
  <1>2. ASSUME cached = None, Keychain(k)  PROVE Kept(k)
    <2>1. CASE Found(chain, k)
      BY <2>1 DEF Found
    <2>2. CASE Rejects(k)
      BY <1>2, <2>2 DEF Rejects, keyVars
    <2>3. CASE NotFound(chain) /\ Writes(k)
      <3>1. chain = None
        BY <2>3 DEF NotFound
      <3>2. CASE Fresh(k) /\ chain' = k /\ cached' = k /\ UNCHANGED file
        BY <3>1, <3>2 DEF Fresh
      <3>3. CASE /\ minted < MaxKeys /\ minted' = minted + 1 /\ k = None
                 /\ chain' \in {chain} \cup (IF "read" \in Faults THEN {minted'} ELSE {})
                 /\ UNCHANGED <<file, cached>>
        BY <1>2, <3>3
      <3> QED  BY <2>3, <3>2, <3>3 DEF Writes
    <2> QED  BY <1>2, <2>1, <2>2, <2>3 DEF Keychain, WrongSize
  <1>3. ASSUME cached = None, KeyFile(k)  PROVE Kept(k)
    <2>1. CASE Found(file, k)
      BY <2>1 DEF Found
    <2>2. CASE Rejects(k)
      BY <1>3, <2>2 DEF Rejects, keyVars
    <2>3. CASE NotFound(file) /\ Fresh(k) /\ file' = k /\ cached' = k /\ UNCHANGED chain
      BY <2>3 DEF NotFound, Fresh
    <2>4. CASE /\ NotFound(file) /\ k = None /\ file' \in {file, None, Damaged}
               /\ UNCHANGED <<chain, cached, minted>>
      BY <1>3, <2>4 DEF NotFound
    <2>5. CASE /\ NotFound(file) /\ k = None /\ minted < MaxKeys
               /\ minted' = minted + 1 /\ file' = minted'
               /\ UNCHANGED <<chain, cached>>
      BY <1>3, <2>5 DEF NotFound
    <2> QED  BY <1>3, <2>1, <2>2, <2>3, <2>4, <2>5 DEF KeyFile, WrongSize
  <1> QED  BY <1>1, <1>2, <1>3 DEF GetKey

-----------------------------------------------------------------------------
LEMMA InitKeysInv == KeysInit => KeysInv
  BY DeviceKeyAssumption
  DEF KeysInit, KeysInv, KeysTypeOK, CachedIsStored, NoKeyLost, HeldIsSaved, Key,
      Store, Record, StoreState, Absent, Unloaded, Providers

\* After getKey, one record becomes new, which its store holds if it is ready.
LEMMA StoreStep ==
    ASSUME KeysInv, UNCHANGED provider,
           NEW k \in Key \cup {None}, Kept(k),
           NEW r \in Store, NEW mode \in {"ready", "recovery", "failed"},
           NEW value \in 0 .. MaxValue, Becomes(r, mode, value),
           NEW new \in Record, record' = [record EXCEPT ![r] = new],
           new.seal \in Key => new.seal \in {record[r].seal, k},
           mode = "ready" => value = new.value
    PROVE  KeysInv'
  <1>1. KeysTypeOK'
    BY DEF KeysInv, KeysTypeOK, Kept, Becomes, Record, StoreState
  <1>2. NoKeyLost'
    <2> SUFFICES ASSUME NEW s \in Store, record'[s].seal \in Key
                 PROVE  record'[s].seal \in {chain', file'}
      BY DEF NoKeyLost
    <2>1. record[s].seal \in Key => record[s].seal \in {chain', file'}
      BY DEF KeysInv, NoKeyLost, Kept
    <2>2. CASE s # r
      BY <2>1, <2>2 DEF KeysInv, KeysTypeOK
    <2>3. CASE s = r
      <3>1. record'[s] = new
        BY <2>3 DEF KeysInv, KeysTypeOK
      <3>2. k = None => k \notin Key
        BY DeviceKeyAssumption DEF Key
      <3> QED  BY <2>1, <2>3, <3>1, <3>2 DEF Kept
    <2> QED  BY <2>2, <2>3
  <1>3. HeldIsSaved'
    BY DEF KeysInv, KeysTypeOK, HeldIsSaved, Becomes, Record, StoreState
  <1> QED  BY <1>1, <1>2, <1>3 DEF KeysInv, Kept

\* The record stays as it was.
LEMMA StoreOnly ==
    ASSUME KeysInv, UNCHANGED <<provider, record>>,
           NEW k \in Key \cup {None}, Kept(k),
           NEW r \in Store, NEW mode \in {"ready", "recovery", "failed"},
           NEW value \in 0 .. MaxValue, Becomes(r, mode, value),
           mode = "ready" => value = record[r].value
    PROVE  KeysInv'
  <1>1. KeysTypeOK'
    BY DEF KeysInv, KeysTypeOK, Kept, Becomes, StoreState
  <1>2. NoKeyLost'
    BY DEF KeysInv, NoKeyLost, Kept
  <1>3. HeldIsSaved'
    BY DEF KeysInv, KeysTypeOK, HeldIsSaved, Becomes, StoreState
  <1> QED  BY <1>1, <1>2, <1>3 DEF KeysInv, Kept

LEMMA KeysUnchanged ==
    ASSUME KeysInv, UNCHANGED keyVars
    PROVE  Kept(None)
  BY DEF KeysInv, KeysTypeOK, CachedIsStored, Kept, keyVars

-----------------------------------------------------------------------------
\* One step per action.
LEMMA LoadSteps ==
    ASSUME KeysInv, "read" \notin Faults,
           \/ \E r \in Store : LoadAbsent(r) \/ KvUnreadable(r)
           \/ LoadShares \/ LoadSessions \/ LoadConnections
    PROVE  KeysInv'
  <1>1. ASSUME NEW r \in Store, LoadAbsent(r) \/ KvUnreadable(r)  PROVE KeysInv'
    <2>1. 0 \in 0 .. MaxValue /\ Kept(None) /\ UNCHANGED <<provider, record>>
      BY <1>1, KeysUnchanged, DeviceKeyAssumption DEF LoadAbsent, KvUnreadable, Loads
    <2>2. CASE LoadAbsent(r)
      BY <2>1, <2>2, StoreOnly DEF LoadAbsent, Absent
    <2>3. CASE KvUnreadable(r)
      BY <2>1, <2>3, StoreOnly DEF KvUnreadable
    <2> QED  BY <1>1, <2>2, <2>3
  <1>2. CASE LoadShares
    <2> DEFINE old == record["shares"]
    <2>1. PICK k \in Key \cup {None} : /\ GetKey(k)
               /\ \/ Migrated(k)
                  \/ Becomes("shares", "recovery", 0) /\ UNCHANGED record
      BY <1>2 DEF LoadShares
    <2>2. /\ Kept(k) /\ UNCHANGED provider /\ "shares" \in Store /\ old \in Record
          /\ old.value \in 0 .. MaxValue /\ 0 \in 0 .. MaxValue
      BY <1>2, <2>1, GetKeyKeeps, DeviceKeyAssumption
      DEF LoadShares, Loads, KeysInv, KeysTypeOK, Store, Record
    <2>3. CASE Migrated(k)
      <3> DEFINE new == encryptRecord(old.value, k)
      <3>1. new \in Record /\ new.seal = k /\ new.value = old.value
        BY <2>1, <2>2, <2>3, DeviceKeyAssumption
        DEF Record, encryptRecord, sealSecret, Migrated, decryptRecord
      <3>2. record' = [record EXCEPT !["shares"] = new]
        BY <2>2, <2>3 DEF Migrated, KeysInv, KeysTypeOK
      <3>3. Becomes("shares", "ready", old.value)
        BY <2>3 DEF Migrated
      <3> HIDE DEF new, old
      <3> QED  BY <2>2, <3>1, <3>2, <3>3, StoreStep
    <2>4. CASE Becomes("shares", "recovery", 0) /\ UNCHANGED record
      BY <2>2, <2>4, StoreOnly
    <2> QED  BY <2>1, <2>3, <2>4
  <1>3. CASE LoadSessions
    <2>1. PICK k \in Key \cup {None} : /\ GetKey(k)
               /\ \/ Becomes("sessions", "ready", record["sessions"].value)
                  \/ Becomes("sessions", "failed", 0)
      BY <1>3 DEF LoadSessions
    <2>2. /\ Kept(k) /\ UNCHANGED <<provider, record>> /\ "sessions" \in Store
          /\ record["sessions"].value \in 0 .. MaxValue /\ 0 \in 0 .. MaxValue
      BY <1>3, <2>1, GetKeyKeeps, DeviceKeyAssumption
      DEF LoadSessions, Loads, KeysInv, KeysTypeOK, Store, Record
    <2> QED  BY <2>1, <2>2, StoreOnly
  <1>4. CASE LoadConnections
    <2>1. PICK k \in Key \cup {None} : /\ GetKey(k)
               /\ \/ Becomes("connections", "ready", record["connections"].value)
                  \/ Becomes("connections", "recovery", 0)
      BY <1>4 DEF LoadConnections
    <2>2. /\ Kept(k) /\ UNCHANGED <<provider, record>> /\ "connections" \in Store
          /\ record["connections"].value \in 0 .. MaxValue /\ 0 \in 0 .. MaxValue
      BY <1>4, <2>1, GetKeyKeeps, DeviceKeyAssumption
      DEF LoadConnections, Loads, KeysInv, KeysTypeOK, Store, Record
    <2> QED  BY <2>1, <2>2, StoreOnly
  <1> QED  BY <1>1, <1>2, <1>3, <1>4

LEMMA SaveStep ==
    ASSUME KeysInv, "read" \notin Faults, NEW r \in Store, Save(r)
    PROVE  KeysInv'
  <1> DEFINE v == store[r].value + 1
             new(k) == encryptRecord(v, k)
  <1>1. PICK k \in Key \cup {None} : /\ GetKey(k)
             /\ \/ /\ k # None /\ record' = [record EXCEPT ![r] = new(k)]
                   /\ store' = [store EXCEPT ![r].value = @ + 1]
                \/ UNCHANGED <<record, store>>
    BY DEF Save
  <1>2. /\ Kept(k) /\ UNCHANGED provider /\ store[r].mode = "ready"
        /\ v \in 0 .. MaxValue
    BY <1>1, GetKeyKeeps, DeviceKeyAssumption
    DEF Save, Saves, KeysInv, KeysTypeOK, StoreState
  <1>3. CASE UNCHANGED <<record, store>>
    BY <1>2, <1>3, DeviceKeyAssumption
    DEF KeysInv, KeysTypeOK, NoKeyLost, HeldIsSaved, Kept, Key, Record
  <1>4. CASE /\ k # None /\ record' = [record EXCEPT ![r] = new(k)]
             /\ store' = [store EXCEPT ![r].value = @ + 1]
    <2>1. Becomes(r, "ready", v)
      <3>1. store[r] = [mode |-> "ready", value |-> store[r].value]
        BY <1>2 DEF KeysInv, KeysTypeOK, StoreState
      <3>2. [store[r] EXCEPT !.value = @ + 1] = [mode |-> "ready", value |-> v]
        BY <3>1
      <3> QED  BY <1>4, <3>2 DEF Becomes
    <2>2. new(k) \in Record /\ new(k).seal = k /\ new(k).value = v
      BY <1>2, <1>4 DEF Record, encryptRecord, sealSecret
    <2> HIDE DEF v, new
    <2> QED  BY <1>2, <1>4, <2>1, <2>2, StoreStep
  <1> QED  BY <1>1, <1>3, <1>4

LEMMA RestartStep ==
    ASSUME KeysInv, Restart
    PROVE  KeysInv'
  BY DeviceKeyAssumption
  DEF Restart, KeysInv, KeysTypeOK, CachedIsStored, NoKeyLost, HeldIsSaved,
      Providers, Unloaded, StoreState, Key

LEMMA KeysStep ==
    ASSUME "read" \notin Faults, KeysInv, [KeysNext]_keysVars
    PROVE  KeysInv'
  <1>1. CASE UNCHANGED keysVars
    BY <1>1 DEF keysVars, KeysInv, KeysTypeOK, CachedIsStored, NoKeyLost, HeldIsSaved
  <1>2. CASE KeysNext
    BY <1>2, LoadSteps, SaveStep, RestartStep DEF KeysNext
  <1> QED  BY <1>1, <1>2

\* The invariant holds as long as a key that is there can be read
\* (key-provider.ts, getKey; share-state-record.ts, sessions.ts, worker-record.ts).
THEOREM KeysInvariance ==
    ASSUME "read" \notin Faults
    PROVE  KeysSpec => []KeysInv
<1>1. KeysInv /\ [KeysNext]_keysVars => KeysInv'
  BY KeysStep
<1> QED  BY <1>1, InitKeysInv, PTL DEF KeysSpec

\* The state has its types, for any bound on keys and changes.
THEOREM KeysTypeCorrect ==
    ASSUME "read" \notin Faults
    PROVE  KeysSpec => []KeysTypeOK
BY KeysInvariance, PTL DEF KeysInv

\* Whatever writes are lost or fail and whichever provider a start selects, the
\* key of every record sealed on this device is still stored (KeychainKeyProvider
\* reads its key back before using it).
THEOREM NoKeyLostHolds ==
    ASSUME "read" \notin Faults
    PROVE  KeysSpec => []NoKeyLost
BY KeysInvariance, PTL DEF KeysInv

\* A record only ever gains a change: a store that could not open its record, on
\* any start and with any provider, never saves over it (ShareStateRecordStore and
\* ConnectionRecordStore, save).
THEOREM NothingLostHolds ==
    ASSUME "read" \notin Faults
    PROVE  KeysSpec => NothingLost
<1> DEFINE Gains == \A r \in Store : record'[r] # record[r] =>
                      record'[r].value \in {record[r].value, record[r].value + 1}
<1>1. KeysInv /\ [KeysNext]_keysVars => Gains
  <2> SUFFICES ASSUME KeysInv, [KeysNext]_keysVars
               PROVE  Gains
    OBVIOUS
  <2>1. CASE LoadShares
    BY <2>1 DEF LoadShares, Migrated, encryptRecord, KeysInv, KeysTypeOK, Record
  <2>2. ASSUME NEW s \in Store, Save(s)
        PROVE  Gains
    BY <2>2 DEF Save, Saves, encryptRecord, KeysInv, KeysTypeOK, HeldIsSaved, Record
  <2>3. CASE UNCHANGED record
    BY <2>3
  <2> QED
    BY <2>1, <2>2, <2>3
    DEF KeysNext, keysVars, LoadAbsent, KvUnreadable, LoadSessions, LoadConnections, Restart
<1> QED  BY <1>1, KeysInvariance, PTL DEF KeysSpec, NothingLost
=============================================================================
