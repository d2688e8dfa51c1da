------------------------ MODULE GuestGateway_proofs -------------------------
(***************************************************************************)
(* What holds of the guests' sessions, and of the connections opened on    *)
(* them, for any number of invitations, threads, sessions and connections, *)
(* any limits of the record and any lifetime.                              *)
(***************************************************************************)
EXTENDS GuestGateway, Filters_proofs, FiniteSetTheorems

-----------------------------------------------------------------------------
\* The inductive invariant of the sessions.

Redeeming == [stage : {"idle", "saving", "saved"}, id : SessionId \cup {NoCookie},
              token : SUBSET Token, next : Seq(Row)]

Types ==
    /\ store \in Store /\ disk \in Store
    /\ drawn \in SUBSET Token
    /\ gateway \in {"down", "up", "failed"}
    /\ sessions \in Seq(Row)
    /\ saved \in Seq(Row)
    /\ redemptions \in Seq(Redemption)
    /\ redeeming \in Redeeming
    /\ now \in 0..MaxTime
    /\ cookies \in SUBSET SessionId
    /\ answered \in SUBSET (SessionId \X Token)
    /\ reprieved \in SUBSET Token

\* Nothing is redeemed unless the gateway is up, and what is idle holds nothing.
Redeems ==
    /\ gateway # "up" => redemptions = <<>> /\ redeeming.stage = "idle"
    /\ redeeming.stage # "idle" => redeeming.id \in cookies

\* The rows that a restart may load, now or after the save under way.
Rows == {sessions, saved, redeeming.next}

\* A cookie has one row, and no row more invitations than one may have.
OneRowEach(rows) == \A i, j \in DOMAIN rows : rows[i].id = rows[j].id => i = j

WithinLimits(rows) == \A row \in ToSet(rows) : Cardinality(row.grants) <= MaxGrants

AllLoad ==
    /\ \A rows \in Rows : OneRowEach(rows) /\ WithinLimits(rows)
    /\ Len(saved) <= MaxSessions /\ Len(redeeming.next) <= MaxSessions

\* In between, the record is ahead of what is served, by the save under way.
Durable ==
    gateway = "up" =>
        IF redeeming.stage = "saved" THEN saved = redeeming.next
        ELSE Unexpired(sessions) = Unexpired(saved)

\* Only invitations that were drawn are redeemed, only cookies that were are answered.
AllDrawn ==
    /\ DOMAIN store \subseteq drawn /\ DOMAIN disk \subseteq drawn
    /\ \A i \in DOMAIN redemptions : redemptions[i].token \in drawn
    /\ redeeming.token \subseteq drawn
    /\ \A pair \in answered : pair[1] \in cookies /\ pair[2] \in drawn

\* In rows, no invitation that was answered is missing from its session.
Holds(rows) ==
    \A pair \in answered : pair[2] \in DOMAIN store \ reprieved =>
        \A row \in ToSet(rows) :
            row.id = pair[1] /\ row.expires > now => pair[2] \in row.grants

AllHold ==
    /\ \A rows \in Rows : Holds(rows)
    /\ \A row \in ToSet(redeeming.next) :
          row.id = redeeming.id => redeeming.token \subseteq row.grants

SessionsInv ==
    /\ Types /\ Redeems /\ AllLoad /\ Durable /\ AllDrawn /\ AllHold

-----------------------------------------------------------------------------
\* The inductive invariant of the connections.

\* Between two changes the live store is the durable one, or empty if that could
\* not be read; then nothing is ever saved.
StoreSettled ==
    /\ change \in {"none", "saving", "saved"}
    /\ ~recovery /\ change # "saving" => store = disk
    /\ recovery => change # "saved" /\ (change = "none" => store = EmptyStore)

\* What is being withdrawn: nothing between two changes, nor by a mint, and
\* otherwise what the disk still has.
Withdrawn ==
    /\ change = "none" \/ minting \/ recovery => withdrawing = {}
    /\ change = "saving" => withdrawing \subseteq Entries(disk)

ConnectionTypes ==
    /\ DOMAIN connections \subseteq Slot
    /\ \A s \in DOMAIN connections :
          /\ connections[s] \in Connection
          /\ connections[s].stage = "body" => connections[s].kind = "send"
          /\ connections[s].kind = "socket" => ~connections[s].aborted
    /\ withdrawing \in SUBSET Entry
    /\ rescinded \in SUBSET Entry

\* A message whose body is awaited was admitted on a write entry for its thread.
SendsRest ==
    \A s \in DOMAIN connections : connections[s].stage = "body" =>
        \E e \in connections[s].basis : e[2] = connections[s].thread /\ e[3] = "write"

GatewayInv ==
    /\ SessionsInv
    /\ StoreSettled /\ Withdrawn /\ ConnectionTypes /\ SendsRest /\ OpenWithinGrants

-----------------------------------------------------------------------------
\* The owner's changes.

\* A store is a function from some ids to what they share.
LEMMA StoreElim ==
    ASSUME NEW s \in Store PROVE DOMAIN s \subseteq Token /\ s \in [DOMAIN s -> Sharing]
BY DEF Store

LEMMA StoreIntro ==
    ASSUME NEW s, DOMAIN s \subseteq Token, s \in [DOMAIN s -> Sharing] PROVE s \in Store
BY DEF Store

LEMMA EmptyStoreType == EmptyStore \in Store /\ DOMAIN EmptyStore = {} /\ Entries(EmptyStore) = {}
BY DEF Store, EmptyStore, Entries

\* A mint adds an invitation and leaves the others; no other change adds one.
LEMMA ChangeStore ==
    ASSUME store \in Store, DOMAIN store \subseteq drawn, NEW isMint \in BOOLEAN, Change(isMint)
    PROVE  /\ store' \in Store
           /\ DOMAIN store' \cap drawn \subseteq DOMAIN store
           /\ isMint => Entries(store) \subseteq Entries(store')
<1>0. DOMAIN store \subseteq Token /\ store \in [DOMAIN store -> Sharing]
  BY StoreElim
<1>1. CASE isMint
  <2>1. PICK t \in Token \ DOMAIN store, shares \in FirstShares : store' = WithToken(store, t, shares)
    BY <1>1 DEF Change, Mints
  <2>2. shares \in Sharing
    BY DEF FirstShares, NoShares, Sharing, Access
  <2>3. /\ DOMAIN store' = DOMAIN store \cup {t}
        /\ store' \in [DOMAIN store \cup {t} -> Sharing]
        /\ \A u \in DOMAIN store : store'[u] = store[u]
    BY <1>0, <2>1, <2>2 DEF WithToken
  <2>4. store' \in Store
    BY <1>0, <2>3, StoreIntro
  <2>5. DOMAIN store' \cap drawn \subseteq DOMAIN store
    BY <1>1 DEF Change
  <2>6. Entries(store) \subseteq Entries(store')
    BY <2>3 DEF Entries
  <2> QED  BY <2>4, <2>5, <2>6
<1>2. CASE ~isMint
  <2>1. CASE Renames(store, store')
    BY <1>2, <2>1 DEF Renames
  <2>2. CASE Deletes(store, store')
    <3>1. PICK t \in DOMAIN store : store' = WithoutToken(store, t)
      BY <2>2 DEF Deletes
    <3>2. DOMAIN store' = DOMAIN store \ {t} /\ store' \in [DOMAIN store \ {t} -> Sharing]
      BY <1>0, <3>1 DEF WithoutToken, Restrict
    <3>3. store' \in Store
      BY <1>0, <3>2, StoreIntro
    <3> QED  BY <1>2, <3>2, <3>3
  <2>3. ASSUME NEW t \in DOMAIN store, NEW h \in Thread, NEW a \in Access,
               store' = WithAccess(store, t, h, a)
        PROVE  store' \in Store /\ DOMAIN store' = DOMAIN store
    <3>1. DOMAIN store' = DOMAIN store /\ store' \in [DOMAIN store -> Sharing]
      BY <1>0, <2>3 DEF WithAccess, Sharing
    <3>2. store' \in Store
      BY <1>0, <3>1, StoreIntro
    <3> QED  BY <3>1, <3>2
  <2>4. CASE \/ AddsShare(store, store') \/ RemovesShare(store, store')
             \/ UpdatesShare(store, store')
    <3>1. \E t \in DOMAIN store, h \in Thread, a \in Access : store' = WithAccess(store, t, h, a)
      BY <2>4 DEF AddsShare, RemovesShare, UpdatesShare, Access
    <3> QED  BY <1>2, <2>3, <3>1
  <2> QED  BY <1>2, <2>1, <2>2, <2>4 DEF Change
<1> QED  BY <1>1, <1>2

-----------------------------------------------------------------------------
\* Types of the sessions.

LEMMA NoRedeemingType == NoRedeeming \in Redeeming /\ NoRedeeming.stage = "idle"
BY DEF NoRedeeming, Redeeming

LEMMA SessionsInitTypes == SessionsInit => Types
<1> SUFFICES ASSUME SessionsInit PROVE Types
  OBVIOUS
<1>1. store \in Store /\ disk \in Store
  BY EmptyStoreType DEF SessionsInit, LiveInit
<1>2. 0 \in 0..MaxTime
  BY LimitsAssumption
<1> QED  BY <1>1, <1>2, NoRedeemingType DEF SessionsInit, LiveInit, Types

\* What a redemption would save has the type of rows.
LEMMA UnexpiredType ==
    ASSUME NEW rows \in Seq(Row)
    PROVE  /\ Unexpired(rows) \in Seq(Row)
           /\ ToSet(Unexpired(rows)) = {row \in ToSet(rows) : row.expires > now}
<1> DEFINE S == {row \in Row : row.expires > now}
<1>1. Unexpired(rows) = Among(rows, S)
  BY DEF Unexpired
<1>2. ToSet(rows) \subseteq Row
  BY DEF ToSet
<1> HIDE DEF S
<1>3. Among(rows, S) \in Seq(Row) /\ ToSet(Among(rows, S)) = ToSet(rows) \cap S
  BY AmongFound, AmongHolds
<1> QED  BY <1>1, <1>2, <1>3 DEF S

\* Eviction ends: what it leaves are the last rows, and they fit.
LEMMA EvictFits ==
    ASSUME NEW rows \in Seq(Row)
    PROVE  \E i \in 1..(Len(rows) + 1) :
              Evict(rows) = SubSeq(rows, i, Len(rows)) /\ Fits(Evict(rows))
<1> DEFINE L == Len(rows)
           B == {i \in 1..(L + 1) : Fits(SubSeq(rows, i, L))}
<1>1. L \in Nat
  OBVIOUS
<1>2. L + 1 \in B
  <2>1. SubSeq(rows, L + 1, L) = <<>>
    BY <1>1
  <2>2. Fits(<<>>)
    <3> DEFINE U == UNION {{i} \X <<>>[i].grants : i \in DOMAIN <<>>}
    <3>1. Size(<<>>) = Len(<<>>) + Cardinality(U)
      BY DEF Size
    <3>2. U = {}
      OBVIOUS
    <3> HIDE DEF U
    <3>3. Cardinality(U) = 0 /\ Len(<<>>) = 0
      BY <3>2, FS_EmptySet
    <3> QED  BY <3>1, <3>3, LimitsAssumption DEF Fits
  <2>3. Fits(SubSeq(rows, L + 1, L))
    BY <2>1, <2>2
  <2>4. L + 1 \in 1..(L + 1)
    BY <1>1
  <2> QED  BY <2>3, <2>4
<1>3. PICK first \in B : \A i \in B : <<i, first>> \notin LessThan
  <2>1. B \subseteq Nat /\ B # {}
    BY <1>1, <1>2
  <2> HIDE DEF B
  <2> QED  BY <2>1, LessThanWellFounded, WFMin
<1>4. \A j \in 1..(first - 1) : ~Fits(SubSeq(rows, j, L))
  <2> SUFFICES ASSUME NEW j \in 1..(first - 1), j \in B PROVE FALSE
    BY <1>1
  <2>1. <<j, first>> \in LessThan
    BY <1>1 DEF LessThan
  <2> QED  BY <1>3, <2>1
<1> DEFINE Best(i) == Fits(SubSeq(rows, i, L)) /\ \A j \in 1..(i - 1) : ~Fits(SubSeq(rows, j, L))
           chosen == CHOOSE i \in 1..(L + 1) : Best(i)
<1>5. Evict(rows) = SubSeq(rows, chosen, L)
  BY DEF Evict
<1>6. first \in 1..(L + 1) /\ Best(first)
  BY <1>4
<1>7. chosen \in 1..(L + 1) /\ Best(chosen)
  <2> HIDE DEF Best
  <2> QED  BY <1>6
<1> HIDE DEF chosen
<1> QED  BY <1>5, <1>7

LEMMA EvictKeeps ==
    ASSUME NEW rows \in Seq(Row)
    PROVE  /\ Evict(rows) \in Seq(Row) /\ Len(Evict(rows)) <= MaxSessions
           /\ ToSet(Evict(rows)) \subseteq ToSet(rows)
           /\ OneRowEach(rows) => OneRowEach(Evict(rows))
<1>1. PICK i \in 1..(Len(rows) + 1) :
        Evict(rows) = SubSeq(rows, i, Len(rows)) /\ Fits(Evict(rows))
  BY EvictFits
<1> DEFINE kept == Evict(rows)
           L == Len(rows)
<1>2. /\ kept \in Seq(Row) /\ DOMAIN kept = 1..(L - i + 1) /\ L \in Nat
      /\ \A k \in DOMAIN kept : i + k - 1 \in DOMAIN rows /\ kept[k] = rows[i + k - 1]
  <2>1. SubSeq(rows, i, L) \in Seq(Row) /\ DOMAIN SubSeq(rows, i, L) = 1..(L - i + 1)
    OBVIOUS
  <2>2. \A k \in 1..(L - i + 1) :
           i + k - 1 \in DOMAIN rows /\ SubSeq(rows, i, L)[k] = rows[i + k - 1]
    OBVIOUS
  <2> QED  BY <1>1, <2>1, <2>2
<1>3. Len(kept) <= MaxSessions
  BY <1>1 DEF Fits
<1> HIDE DEF kept
<1>4. ToSet(kept) \subseteq ToSet(rows)
  BY <1>2 DEF ToSet
<1>5. ASSUME OneRowEach(rows) PROVE OneRowEach(kept)
  <2> SUFFICES ASSUME NEW j \in DOMAIN kept, NEW k \in DOMAIN kept, kept[j].id = kept[k].id
               PROVE  j = k
    BY DEF OneRowEach
  <2>1. i + j - 1 = i + k - 1
    BY <1>2, <1>5 DEF OneRowEach
  <2>2. i \in Nat /\ j \in Nat /\ k \in Nat
    BY <1>2
  <2> QED  BY <2>1, <2>2
<1> QED  BY <1>2, <1>3, <1>4, <1>5 DEF kept

LEMMA UnexpiredOneRow ==
    ASSUME NEW rows \in Seq(Row), OneRowEach(rows)
    PROVE  OneRowEach(Unexpired(rows))
<1> DEFINE U == {row \in Row : row.expires > now}
           live == Unexpired(rows)
<1>1. live = Among(rows, U)
  BY DEF Unexpired
<1> HIDE DEF U, live
<1> SUFFICES ASSUME NEW j \in DOMAIN live, NEW k \in DOMAIN live, live[j].id = live[k].id, j # k
             PROVE  FALSE
  BY DEF OneRowEach, live
<1>2. \E i, l \in DOMAIN rows : i # l /\ live[j] = rows[i] /\ live[k] = rows[l]
  BY <1>1, AmongApart
<1> QED  BY <1>2 DEF OneRowEach

\* What a redemption saves: the other sessions that last, and the redeemer's.
LEMMA NextRowsKeep ==
    ASSUME Types, OneRowEach(sessions), NEW id \in SessionId, NEW grants \in SUBSET Token
    PROVE  /\ NextRows(id, grants) \in Seq(Row)
           /\ Len(NextRows(id, grants)) <= MaxSessions
           /\ OneRowEach(NextRows(id, grants))
           /\ \A row \in ToSet(NextRows(id, grants)) :
                 \/ row \in ToSet(sessions) /\ row.id # id
                 \/ row.id = id /\ row.grants = grants
<1> DEFINE S == {row \in Row : row.id # id}
           new == [id |-> id, grants |-> grants, expires |-> now + TTL]
           live == Unexpired(sessions)
           others == Among(live, S)
           rows == Append(others, new)
<1>1. NextRows(id, grants) = Evict(rows)
  BY DEF NextRows
<1>2. live \in Seq(Row) /\ ToSet(live) \subseteq ToSet(sessions)
  BY UnexpiredType DEF Types
<1>3. OneRowEach(live)
  BY UnexpiredOneRow DEF Types
<1>4. new \in Row
  <2>1. now + TTL \in 0..(MaxTime + TTL)
    BY LimitsAssumption DEF Types
  <2> QED  BY <2>1 DEF Row
<1> HIDE DEF live, new
<1>5. others \in Seq(Row) /\ ToSet(others) = ToSet(live) \cap S
  <2> HIDE DEF S
  <2> QED  BY <1>2, AmongFound, AmongHolds
<1>6. OneRowEach(others)
  <2> HIDE DEF S
  <2> SUFFICES ASSUME NEW j \in DOMAIN others, NEW k \in DOMAIN others,
                      others[j].id = others[k].id, j # k
               PROVE  FALSE
    BY DEF OneRowEach
  <2>1. \E i, l \in DOMAIN live : i # l /\ others[j] = live[i] /\ others[k] = live[l]
    BY <1>2, AmongApart
  <2> QED  BY <1>3, <2>1 DEF OneRowEach
<1> HIDE DEF others
<1>7. /\ rows \in Seq(Row) /\ Len(others) \in Nat
      /\ DOMAIN rows = 1..(Len(others) + 1) /\ DOMAIN others = 1..Len(others)
      /\ rows[Len(others) + 1] = new
      /\ \A k \in 1..Len(others) : rows[k] = others[k]
  BY <1>4, <1>5
<1> HIDE DEF rows
<1>8. \A k \in DOMAIN rows : (k \in DOMAIN others /\ rows[k] = others[k])
                           \/ (k = Len(others) + 1 /\ rows[k] = new)
  BY <1>7
<1>9. \A row \in ToSet(others) : row \in ToSet(sessions) /\ row.id # id
  BY <1>2, <1>5
<1>10. \A k \in DOMAIN others : others[k].id # id
  BY <1>9 DEF ToSet
<1>11. new.id = id /\ new.grants = grants
  BY DEF new
<1>12. OneRowEach(rows)
  BY <1>6, <1>8, <1>10, <1>11 DEF OneRowEach
<1>13. \A row \in ToSet(rows) : (row \in ToSet(sessions) /\ row.id # id)
                              \/ (row.id = id /\ row.grants = grants)
  <2>1. \A row \in ToSet(rows) : row \in ToSet(others) \/ row = new
    BY <1>8 DEF ToSet
  <2> QED  BY <1>9, <1>11, <2>1
<1> QED  BY <1>1, <1>7, <1>12, <1>13, EvictKeeps

-----------------------------------------------------------------------------
\* Each step of the sessions.

\* A redemption that is not refused saves rows for a cookie never drawn, or for
\* one whose session lasts, with all its invitations that still exist.
SavesFor(id, grants, token) ==
    /\ redeeming' = [stage |-> "saving", id |-> id, token |-> {token},
                     next |-> NextRows(id, grants)]
    /\ cookies' = cookies \cup {id}
    /\ Cardinality(grants) <= MaxGrants
    /\ token \in grants /\ token = Head(redemptions).token
    /\ id \notin cookies \/ (RowsOf(sessions, id) # {} /\ KeptGrants(id) \subseteq grants)

LEMMA RowsOfType ==
    ASSUME Types, NEW id
    PROVE  RowsOf(sessions, id) = {row \in ToSet(sessions) : row.expires > now /\ row.id = id}
           /\ RowsOf(sessions, id) \subseteq Row
<1>1. ToSet(sessions) \subseteq Row
  BY DEF ToSet, Types
<1> QED  BY <1>1, UnexpiredType DEF RowsOf, Types

LEMMA RedeemRunsCases ==
    ASSUME Types, RedeemRuns
    PROVE  /\ redeeming.stage = "idle" /\ redemptions # <<>> /\ redemptions' = Tail(redemptions)
           /\ UNCHANGED <<liveVars, gateway, sessions, saved, now, answered, reprieved>>
           /\ \/ UNCHANGED <<redeeming, cookies>>
              \/ \E id \in SessionId, grants \in SUBSET Token, token \in Token :
                    SavesFor(id, grants, token)
<1>1. /\ redeeming.stage = "idle" /\ redemptions # <<>> /\ redemptions' = Tail(redemptions)
      /\ UNCHANGED <<liveVars, gateway, sessions, saved, now, answered, reprieved>>
  BY DEF RedeemRuns
<1> DEFINE r == Head(redemptions)
           grants == KeptGrants(r.prior) \cup {r.token}
<1>2. r \in Redemption /\ r.token \in Token
  <2>1. r \in Redemption
    <3>1. redemptions \in Seq(Redemption) /\ redemptions # <<>>
      BY <1>1 DEF Types
    <3> QED  BY <3>1
  <2> HIDE DEF r
  <2> QED  BY <2>1 DEF Redemption
<1>3. grants \in SUBSET Token
  <2>1. \A row \in RowsOf(sessions, r.prior) : row.grants \subseteq Token
    BY RowsOfType DEF Row
  <2> QED  BY <1>2, <2>1 DEF KeptGrants
<1>4. \/ UNCHANGED <<redeeming, cookies>>
      \/ /\ Cardinality(grants) <= MaxGrants
         /\ \E id \in IF RowsOf(sessions, r.prior) # {} THEN {r.prior} ELSE SessionId \ cookies :
               /\ redeeming' = [stage |-> "saving", id |-> id, token |-> {r.token},
                                next |-> NextRows(id, grants)]
               /\ cookies' = cookies \cup {id}
  BY DEF RedeemRuns
<1>5. CASE UNCHANGED <<redeeming, cookies>>
  BY <1>1, <1>5
<1>6. ASSUME Cardinality(grants) <= MaxGrants,
             NEW id \in IF RowsOf(sessions, r.prior) # {} THEN {r.prior} ELSE SessionId \ cookies,
             redeeming' = [stage |-> "saving", id |-> id, token |-> {r.token},
                           next |-> NextRows(id, grants)],
             cookies' = cookies \cup {id}
      PROVE  id \in SessionId /\ SavesFor(id, grants, r.token)
  <2>1. CASE RowsOf(sessions, r.prior) # {}
    <3>1. id = r.prior
      BY <1>6, <2>1
    <3>2. PICK row : row \in RowsOf(sessions, r.prior)
      BY <2>1
    <3>3. row \in Row /\ row.id = r.prior
      BY <3>2, RowsOfType
    <3>4. id \in SessionId
      BY <3>1, <3>3 DEF Row
    <3>5. RowsOf(sessions, id) # {} /\ KeptGrants(id) \subseteq grants
      BY <2>1, <3>1
    <3> QED  BY <1>6, <3>4, <3>5 DEF SavesFor
  <2>2. CASE RowsOf(sessions, r.prior) = {}
    <3>1. id \in SessionId \ cookies
      BY <1>6, <2>2
    <3> QED  BY <1>6, <3>1 DEF SavesFor
  <2> QED  BY <2>1, <2>2
<1> HIDE DEF grants
<1>7. CASE ~ UNCHANGED <<redeeming, cookies>>
  <2>1. \E id \in SessionId : SavesFor(id, grants, r.token)
    BY <1>4, <1>6, <1>7
  <2> QED  BY <1>1, <1>2, <1>3, <2>1
<1> QED  BY <1>5, <1>7

LEMMA OwnerTypes ==
    ASSUME Types, AllDrawn, OwnerStep \/ OwnerChangeTakenBack \/ \E readable \in BOOLEAN : Restart(readable)
    PROVE  Types'
<1>1. CASE OwnerStep
  <2>1. store' \in Store /\ disk' \in Store /\ drawn' \in SUBSET Token
    <3>1. ASSUME NEW isMint \in BOOLEAN, Change(isMint)
          PROVE  store' \in Store /\ disk' \in Store /\ drawn' \in SUBSET Token
      <4>1. store' \in Store
        BY <3>1, ChangeStore DEF Types, AllDrawn
      <4>2. DOMAIN store' \subseteq Token
        BY <4>1, StoreElim
      <4> QED  BY <3>1, <4>1, <4>2 DEF Change, Types
    <3>2. CASE Written \/ Acknowledged
      BY <3>2 DEF Written, Acknowledged, Types
    <3> QED  BY <1>1, <3>1, <3>2 DEF OwnerStep
  <2> QED  BY <1>1, <2>1 DEF OwnerStep, guestVars, Types
<1>2. CASE OwnerChangeTakenBack
  <2>1. store' \in Store /\ disk' = disk /\ drawn' = drawn
    BY <1>2, EmptyStoreType DEF OwnerChangeTakenBack, TakenBack, Types
  <2>2. reprieved' \in SUBSET Token
    BY <1>2, <2>1, StoreElim DEF OwnerChangeTakenBack, Reprieve, Types
  <2> QED  BY <1>2, <2>1, <2>2 DEF OwnerChangeTakenBack, Types
<1>3. ASSUME NEW readable \in BOOLEAN, Restart(readable) PROVE Types'
  <2>1. store' \in Store /\ disk' = disk /\ drawn' = drawn
    BY <1>3, EmptyStoreType DEF Restart, Reload, Types
  <2>2. reprieved' \in SUBSET Token
    BY <1>3, <2>1, StoreElim DEF Restart, Reprieve, Types
  <2>3. sessions' \in Seq(Row) /\ redemptions' \in Seq(Redemption)
    BY <1>3 DEF Restart
  <2> QED  BY <1>3, <2>1, <2>2, <2>3, NoRedeemingType DEF Restart, Types
<1> QED  BY <1>1, <1>2, <1>3

LEMMA GuestTypes ==
    ASSUME Types, Redeems, AllLoad,
           \/ GatewayStarts \/ GatewayFails \/ (\E r \in Redemption : OpenInvitation(r))
           \/ RedeemNext \/ Tick
    PROVE  Types'
<1>1. CASE GatewayStarts
  <2>1. sessions' \in Seq(Row)
    BY <1>1, UnexpiredType DEF GatewayStarts, Types
  <2> QED  BY <1>1, <2>1 DEF GatewayStarts, liveVars, Types
<1>2. CASE GatewayFails
  BY <1>2 DEF GatewayFails, liveVars, Types
<1>3. ASSUME NEW r \in Redemption, OpenInvitation(r) PROVE Types'
  <2>1. redemptions' \in Seq(Redemption)
    BY <1>3 DEF OpenInvitation, Types
  <2> QED  BY <1>3, <2>1 DEF OpenInvitation, liveVars, Types
<1>4. CASE RedeemRuns
  <2>1. redemptions # <<>> /\ redemptions' = Tail(redemptions)
    BY <1>4, RedeemRunsCases
  <2>2. redemptions' \in Seq(Redemption)
    BY <2>1 DEF Types
  <2>3. redeeming' \in Redeeming /\ cookies' \in SUBSET SessionId
    <3>1. CASE UNCHANGED <<redeeming, cookies>>
      BY <3>1 DEF Types
    <3>2. ASSUME NEW id \in SessionId, NEW grants \in SUBSET Token, NEW token \in Token,
                 SavesFor(id, grants, token)
          PROVE  redeeming' \in Redeeming /\ cookies' \in SUBSET SessionId
      <4>1. NextRows(id, grants) \in Seq(Row)
        BY NextRowsKeep DEF AllLoad, Rows
      <4> QED  BY <3>2, <4>1 DEF SavesFor, Redeeming, Types
    <3> QED  BY <1>4, <3>1, <3>2, RedeemRunsCases
  <2> QED  BY <1>4, <2>2, <2>3, RedeemRunsCases DEF liveVars, Types
<1>5. CASE RedeemWritten
  <2>1. redeeming' \in Redeeming /\ saved' \in Seq(Row)
    BY <1>5 DEF RedeemWritten, Redeeming, Types
  <2> QED  BY <1>5, <2>1 DEF RedeemWritten, liveVars, Types
<1>6. CASE RedeemDone
  <2>1. sessions' \in Seq(Row)
    BY <1>6 DEF RedeemDone, Redeeming, Types
  <2>2. redeeming.id \in SessionId
    BY <1>6 DEF RedeemDone, Redeems, Types
  <2>3. answered' \in SUBSET (SessionId \X Token)
    BY <1>6, <2>2 DEF RedeemDone, Redeeming, Types
  <2> QED  BY <1>6, <2>1, <2>3, NoRedeemingType DEF RedeemDone, liveVars, Types
<1>7. CASE RedeemFailed
  BY <1>7, NoRedeemingType DEF RedeemFailed, liveVars, Types
<1>8. CASE Tick
  <2>1. now' \in 0..MaxTime
    BY <1>8, LimitsAssumption DEF Tick, Types
  <2> QED  BY <1>8, <2>1 DEF Tick, liveVars, Types
<1> QED  BY <1>1, <1>2, <1>3, <1>4, <1>5, <1>6, <1>7, <1>8 DEF RedeemNext

LEMMA SessionsInitInv == SessionsInit => Redeems /\ AllLoad /\ Durable /\ AllDrawn /\ AllHold
<1> SUFFICES ASSUME SessionsInit PROVE Redeems /\ AllLoad /\ Durable /\ AllDrawn /\ AllHold
  OBVIOUS
<1>1. /\ gateway = "down" /\ sessions = <<>> /\ saved = <<>> /\ redemptions = <<>>
      /\ redeeming = NoRedeeming /\ answered = {} /\ store = EmptyStore /\ disk = EmptyStore
  BY DEF SessionsInit, LiveInit
<1>2. /\ redeeming.stage = "idle" /\ redeeming.next = <<>> /\ redeeming.token = {}
  BY <1>1 DEF NoRedeeming
<1>3. OneRowEach(<<>>) /\ ToSet(<<>>) = {} /\ Len(<<>>) <= MaxSessions
  BY LimitsAssumption DEF OneRowEach, ToSet
<1>4. AllLoad /\ AllHold
  BY <1>1, <1>2, <1>3 DEF AllLoad, AllHold, Rows, WithinLimits, Holds
<1> QED  BY <1>1, <1>2, <1>4, EmptyStoreType DEF Redeems, Durable, AllDrawn

LEMMA RedeemsKept == Types /\ Redeems /\ [SessionsNext]_sessionsVars => Redeems'
<1> SUFFICES ASSUME Types, Redeems, [SessionsNext]_sessionsVars PROVE Redeems'
  OBVIOUS
<1>1. CASE UNCHANGED sessionsVars \/ OwnerStep \/ OwnerChangeTakenBack
  BY <1>1 DEF sessionsVars, guestVars, OwnerStep, OwnerChangeTakenBack, Redeems
<1>2. CASE \E readable \in BOOLEAN : Restart(readable)
  BY <1>2, NoRedeemingType DEF Restart, Redeems
<1>3. CASE GatewayStarts \/ GatewayFails \/ Tick
  BY <1>3 DEF GatewayStarts, GatewayFails, Tick, Redeems
<1>4. ASSUME NEW r \in Redemption, OpenInvitation(r) PROVE Redeems'
  BY <1>4 DEF OpenInvitation, Redeems
<1>5. CASE RedeemRuns
  <2>1. gateway' = "up"
    BY <1>5, RedeemRunsCases DEF Redeems
  <2>2. CASE UNCHANGED <<redeeming, cookies>>
    BY <1>5, <2>1, <2>2, RedeemRunsCases DEF Redeems
  <2>3. ASSUME NEW id \in SessionId, NEW grants \in SUBSET Token, NEW token \in Token,
               SavesFor(id, grants, token)
        PROVE  Redeems'
    BY <2>1, <2>3 DEF SavesFor, Redeems
  <2> QED  BY <1>5, <2>2, <2>3, RedeemRunsCases
<1>6. CASE RedeemWritten
  BY <1>6 DEF RedeemWritten, Redeems, Types, Redeeming
<1>7. CASE RedeemDone \/ RedeemFailed
  BY <1>7, NoRedeemingType DEF RedeemDone, RedeemFailed, Redeems
<1> QED  BY <1>1, <1>2, <1>3, <1>4, <1>5, <1>6, <1>7 DEF SessionsNext, RedeemNext

\* Which rows a step leaves: those there were, what lasts of the saved ones, or
\* what a redemption saves.
LEMMA RowsFrom ==
    ASSUME Types, [SessionsNext]_sessionsVars
    PROVE  \/ Rows' \subseteq Rows \cup {<<>>}
           \/ GatewayStarts /\ Rows' \subseteq Rows \cup {Unexpired(saved)}
           \/ RedeemRuns /\ \E id \in SessionId, grants \in SUBSET Token, token \in Token :
                  SavesFor(id, grants, token) /\ Rows' \subseteq Rows \cup {NextRows(id, grants)}
<1>1. CASE \/ UNCHANGED sessionsVars \/ OwnerStep \/ OwnerChangeTakenBack \/ GatewayFails \/ Tick
           \/ \E r \in Redemption : OpenInvitation(r)
  BY <1>1 DEF sessionsVars, guestVars, OwnerStep, OwnerChangeTakenBack, GatewayFails, Tick,
              OpenInvitation, Rows
<1>2. CASE \E readable \in BOOLEAN : Restart(readable)
  BY <1>2 DEF Restart, Rows, NoRedeeming
<1>3. CASE GatewayStarts
  BY <1>3 DEF GatewayStarts, Rows
<1>4. CASE RedeemRuns
  <2>1. CASE UNCHANGED <<redeeming, cookies>>
    BY <1>4, <2>1, RedeemRunsCases DEF Rows
  <2>2. ASSUME NEW id \in SessionId, NEW grants \in SUBSET Token, NEW token \in Token,
               SavesFor(id, grants, token)
        PROVE  Rows' \subseteq Rows \cup {NextRows(id, grants)}
    BY <1>4, <2>2, RedeemRunsCases DEF SavesFor, Rows
  <2> QED  BY <1>4, <2>1, <2>2, RedeemRunsCases
<1>5. CASE RedeemWritten
  BY <1>5 DEF RedeemWritten, Rows, Types, Redeeming
<1>6. CASE RedeemDone \/ RedeemFailed
  BY <1>6 DEF RedeemDone, RedeemFailed, Rows, NoRedeeming
<1> QED  BY <1>1, <1>2, <1>3, <1>4, <1>5, <1>6 DEF SessionsNext, RedeemNext

LEMMA LimitsKept ==
    ASSUME Types, AllLoad, [SessionsNext]_sessionsVars, NEW rows \in Rows'
    PROVE  OneRowEach(rows) /\ WithinLimits(rows)
<1>1. CASE rows \in Rows
  BY <1>1 DEF AllLoad
<1>2. CASE rows = <<>>
  BY <1>2 DEF OneRowEach, WithinLimits, ToSet
<1>3. CASE rows = Unexpired(saved)
  <2>1. OneRowEach(saved) /\ WithinLimits(saved) /\ saved \in Seq(Row)
    BY DEF AllLoad, Rows, Types
  <2> QED  BY <1>3, <2>1, UnexpiredOneRow, UnexpiredType DEF WithinLimits
<1>4. ASSUME NEW id \in SessionId, NEW grants \in SUBSET Token, NEW token \in Token,
             SavesFor(id, grants, token), rows = NextRows(id, grants)
      PROVE  OneRowEach(rows) /\ WithinLimits(rows)
  <2>1. OneRowEach(sessions) /\ WithinLimits(sessions)
    BY DEF AllLoad, Rows
  <2>2. \A row \in ToSet(rows) : row \in ToSet(sessions) \/ row.grants = grants
    BY <1>4, <2>1, NextRowsKeep
  <2> QED  BY <1>4, <2>1, <2>2, NextRowsKeep DEF WithinLimits, SavesFor
<1> QED  BY <1>1, <1>2, <1>3, <1>4, RowsFrom

LEMMA AllLoadKept == Types /\ AllLoad /\ [SessionsNext]_sessionsVars => AllLoad'
<1> SUFFICES ASSUME Types, AllLoad, [SessionsNext]_sessionsVars PROVE AllLoad'
  OBVIOUS
<1>1. \A rows \in Rows' : OneRowEach(rows) /\ WithinLimits(rows)
  BY LimitsKept
<1>2. Len(saved') <= MaxSessions /\ Len(redeeming'.next) <= MaxSessions
  <2>1. CASE saved' = saved /\ redeeming' \in {redeeming, NoRedeeming}
    <3>1. Len(NoRedeeming.next) <= MaxSessions
      BY LimitsAssumption DEF NoRedeeming
    <3> QED  BY <2>1, <3>1 DEF AllLoad
  <2>2. CASE RedeemRuns
    <3>1. CASE UNCHANGED redeeming
      BY <2>2, <3>1, RedeemRunsCases DEF AllLoad
    <3>2. ASSUME NEW id \in SessionId, NEW grants \in SUBSET Token, NEW token \in Token,
                 SavesFor(id, grants, token)
          PROVE  Len(redeeming'.next) <= MaxSessions
      <4>1. redeeming'.next = NextRows(id, grants)
        BY <3>2 DEF SavesFor
      <4> QED  BY <4>1, NextRowsKeep DEF AllLoad, Rows
    <3> QED  BY <2>2, <3>1, <3>2, RedeemRunsCases DEF AllLoad
  <2>3. CASE RedeemWritten
    BY <2>3 DEF RedeemWritten, AllLoad, Types, Redeeming
  <2> QED  BY <2>1, <2>2, <2>3
           DEF SessionsNext, RedeemNext, sessionsVars, guestVars, OwnerStep, OwnerChangeTakenBack,
               Restart, GatewayStarts, GatewayFails, OpenInvitation, RedeemDone, RedeemFailed, Tick
<1> QED  BY <1>1, <1>2 DEF AllLoad, OneRowEach, WithinLimits

\* Rows that last until later lasted until now: expiring twice is expiring once.
LEMMA UnexpiredLater ==
    ASSUME NEW rows \in Seq(Row), now \in Int, now' \in Int, now <= now'
    PROVE  Unexpired(rows)' = Among(Unexpired(rows), {row \in Row : row.expires > now'})
<1> DEFINE U == {row \in Row : row.expires > now}
           V == {row \in Row : row.expires > now'}
<1>1. U \cap V = V
  BY DEF Row
<1>2. Unexpired(rows) = Among(rows, U) /\ Unexpired(rows)' = Among(rows, V)
  BY DEF Unexpired
<1> HIDE DEF U, V
<1>3. Among(Among(rows, U), V) = Among(rows, U \cap V)
  BY AmongAmong
<1>4. Unexpired(rows)' = Among(Unexpired(rows), V)
  BY <1>1, <1>2, <1>3
<1> QED  BY <1>4 DEF V

LEMMA DurableKept == Types /\ Redeems /\ Durable /\ [SessionsNext]_sessionsVars => Durable'
<1> SUFFICES ASSUME Types, Redeems, Durable, [SessionsNext]_sessionsVars PROVE Durable'
  OBVIOUS
<1>1. CASE \/ UNCHANGED sessionsVars \/ OwnerStep \/ OwnerChangeTakenBack
           \/ \E r \in Redemption : OpenInvitation(r)
  <2>1. UNCHANGED <<gateway, sessions, saved, redeeming, now>>
    BY <1>1 DEF sessionsVars, guestVars, OwnerStep, OwnerChangeTakenBack, OpenInvitation
  <2> QED  BY <2>1 DEF Durable, Unexpired
<1>2. CASE GatewayFails \/ \E readable \in BOOLEAN : Restart(readable)
  BY <1>2 DEF GatewayFails, Restart, Durable
<1>3. CASE GatewayStarts
  <2>1. redeeming'.stage = "idle" /\ sessions' = Unexpired(saved) /\ saved' = saved /\ now' = now
    BY <1>3 DEF GatewayStarts, Redeems
  <2>2. now \in Int /\ saved \in Seq(Row)
    BY LimitsAssumption DEF Types
  <2>3. Unexpired(saved)' = Unexpired(saved)
    BY <2>1 DEF Unexpired
  <2>4. \A rows \in Seq(Row) : rows = saved => Unexpired(rows)' = Unexpired(Unexpired(rows))
    <3> SUFFICES ASSUME NEW rows \in Seq(Row) PROVE Unexpired(rows)' = Unexpired(Unexpired(rows))
      OBVIOUS
    <3>1. Unexpired(rows)' = Among(Unexpired(rows), {row \in Row : row.expires > now'})
      BY <2>1, <2>2, UnexpiredLater
    <3>2. \A r : Unexpired(r) = Among(r, {row \in Row : row.expires > now})
      BY DEF Unexpired
    <3> QED  BY <2>1, <3>1, <3>2
  <2>5. \A x, y : x = sessions' /\ y = Unexpired(x) => Unexpired(sessions)' = y
    BY <2>1 DEF Unexpired
  <2>6. \A rows \in Seq(Row) : rows = saved => Unexpired(saved)' = Unexpired(rows)'
    BY <2>1 DEF Unexpired
  <2>7. Unexpired(sessions)' = Unexpired(saved)'
    BY <2>1, <2>2, <2>4, <2>5, <2>6
  <2> QED  BY <2>1, <2>7 DEF Durable
<1>4. CASE RedeemRuns
  <2>1. UNCHANGED <<gateway, sessions, saved, now>> /\ redeeming.stage = "idle"
    BY <1>4, RedeemRunsCases
  <2>2. redeeming'.stage # "saved"
    BY <1>4, <2>1, RedeemRunsCases DEF SavesFor
  <2> QED  BY <2>1, <2>2 DEF Durable, Unexpired
<1>5. CASE RedeemWritten
  BY <1>5 DEF RedeemWritten, Durable, Types, Redeeming
<1>6. CASE RedeemDone
  <2>1. /\ gateway = "up" /\ redeeming.stage = "saved" /\ redeeming'.stage = "idle"
        /\ sessions' = redeeming.next /\ saved' = saved /\ now' = now
    BY <1>6, NoRedeemingType DEF RedeemDone, Redeems
  <2>2. sessions' = saved'
    BY <2>1 DEF Durable
  <2> QED  BY <2>1, <2>2 DEF Durable, Unexpired
<1>7. CASE RedeemFailed
  BY <1>7, NoRedeemingType DEF RedeemFailed, Durable, Unexpired
<1>8. CASE Tick
  <2>1. /\ UNCHANGED <<gateway, sessions, saved, redeeming>>
        /\ now \in Int /\ now' \in Int /\ now <= now'
    BY <1>8, LimitsAssumption DEF Tick, Types
  <2>2. CASE gateway = "up" /\ redeeming.stage # "saved"
    <3>1. Unexpired(sessions) = Unexpired(saved)
      BY <2>2 DEF Durable
    <3> DEFINE V == {row \in Row : row.expires > now'}
    <3>2. \A rows \in Seq(Row) : Among(rows, V) = Among(Unexpired(rows), V)
      <4> SUFFICES ASSUME NEW rows \in Seq(Row) PROVE Among(rows, V) = Among(Unexpired(rows), V)
        OBVIOUS
      <4>1. Unexpired(rows)' = Among(rows, V)
        BY DEF Unexpired
      <4> QED  BY <2>1, <4>1, UnexpiredLater
    <3>3. Unexpired(sessions)' = Among(sessions, V) /\ Unexpired(saved)' = Among(saved, V)
      BY <2>1 DEF Unexpired
    <3> HIDE DEF V
    <3>4. Unexpired(sessions)' = Unexpired(saved)'
      BY <3>1, <3>2, <3>3 DEF Types
    <3> QED  BY <2>1, <2>2, <3>4 DEF Durable
  <2> QED  BY <2>1, <2>2 DEF Durable
<1> QED  BY <1>1, <1>2, <1>3, <1>4, <1>5, <1>6, <1>7, <1>8 DEF SessionsNext, RedeemNext

LEMMA TypesKept ==
    Types /\ Redeems /\ AllLoad /\ AllDrawn /\ [SessionsNext]_sessionsVars => Types'
<1>1. Types /\ UNCHANGED sessionsVars => Types'
  BY DEF Types, sessionsVars, guestVars, liveVars
<1> QED  BY <1>1, OwnerTypes, GuestTypes DEF SessionsNext

\* What the owner's steps leave: the stores hold only invitations that were drawn,
\* and one that was drawn and is back in the store is a reprieved one.
LEMMA StoreDrawn ==
    ASSUME Types, AllDrawn, [SessionsNext]_sessionsVars
    PROVE  /\ drawn \subseteq drawn' /\ DOMAIN store' \subseteq drawn' /\ DOMAIN disk' \subseteq drawn'
           /\ drawn \cap (DOMAIN store' \ reprieved') \subseteq DOMAIN store \ reprieved
<1>1. CASE UNCHANGED <<liveVars, reprieved>>
  BY <1>1 DEF liveVars, AllDrawn
<1>2. CASE OwnerStep
  <2>1. ASSUME NEW isMint \in BOOLEAN, Change(isMint)
        PROVE  drawn \subseteq drawn' /\ DOMAIN store' \subseteq drawn' /\ DOMAIN disk' \subseteq drawn'
               /\ drawn \cap DOMAIN store' \subseteq DOMAIN store
    <3>1. DOMAIN store' \cap drawn \subseteq DOMAIN store
      BY <2>1, ChangeStore DEF Types, AllDrawn
    <3>2. drawn' = drawn \cup DOMAIN store' /\ disk' = disk
      BY <2>1 DEF Change
    <3> QED  BY <3>1, <3>2 DEF AllDrawn
  <2>2. reprieved' = reprieved
    BY <1>2 DEF OwnerStep, guestVars
  <2>3. CASE \E isMint \in BOOLEAN : Change(isMint)
    BY <2>1, <2>2, <2>3
  <2>4. CASE Written \/ Acknowledged
    BY <2>2, <2>4 DEF Written, Acknowledged, AllDrawn
  <2> QED  BY <1>2, <2>3, <2>4 DEF OwnerStep
<1>3. CASE OwnerChangeTakenBack \/ \E readable \in BOOLEAN : Restart(readable)
  <2>1. /\ drawn' = drawn /\ disk' = disk /\ store' \in {EmptyStore, disk}
        /\ reprieved' = reprieved \cup (DOMAIN store' \ DOMAIN store)
    BY <1>3 DEF OwnerChangeTakenBack, TakenBack, Restart, Reload, Reprieve
  <2> QED  BY <2>1, EmptyStoreType DEF AllDrawn
<1> QED  BY <1>1, <1>2, <1>3
         DEF SessionsNext, sessionsVars, guestVars, GatewayStarts, GatewayFails, OpenInvitation,
             RedeemNext, RedeemRuns, RedeemWritten, RedeemDone, RedeemFailed, Tick

LEMMA AllDrawnKept == Types /\ Redeems /\ AllDrawn /\ [SessionsNext]_sessionsVars => AllDrawn'
<1> SUFFICES ASSUME Types, Redeems, AllDrawn, [SessionsNext]_sessionsVars PROVE AllDrawn'
  OBVIOUS
<1>1. drawn \subseteq drawn' /\ DOMAIN store' \subseteq drawn' /\ DOMAIN disk' \subseteq drawn'
  BY StoreDrawn
<1> DEFINE Asked   == \A i \in DOMAIN redemptions : redemptions[i].token \in drawn
           Held    == redeeming.token \subseteq drawn
           Replied == \A pair \in answered : pair[1] \in cookies /\ pair[2] \in drawn
<1>2. CASE /\ UNCHANGED <<redemptions, redeeming, cookies, answered>>
  BY <1>1, <1>2 DEF AllDrawn
<1>3. CASE \E readable \in BOOLEAN : Restart(readable)
  BY <1>1, <1>3 DEF AllDrawn, Restart, NoRedeeming
<1>4. ASSUME NEW r \in Redemption, OpenInvitation(r) PROVE AllDrawn'
  <2>1. redemptions' = Append(redemptions, r) /\ r.token \in drawn
        /\ UNCHANGED <<redeeming, cookies, answered>>
    BY <1>4 DEF OpenInvitation
  <2>2. Asked'
    BY <1>1, <2>1 DEF AllDrawn, Types
  <2> QED  BY <1>1, <2>1, <2>2 DEF AllDrawn
<1>5. CASE RedeemRuns
  <2>1. /\ redemptions # <<>> /\ redemptions' = Tail(redemptions) /\ answered' = answered
        /\ redemptions \in Seq(Redemption)
    BY <1>5, RedeemRunsCases DEF Types
  <2>2. Asked' /\ Head(redemptions).token \in drawn
    BY <1>1, <2>1 DEF AllDrawn
  <2>3. CASE UNCHANGED <<redeeming, cookies>>
    BY <1>1, <2>1, <2>2, <2>3 DEF AllDrawn
  <2>4. ASSUME NEW id \in SessionId, NEW grants \in SUBSET Token, NEW token \in Token,
               SavesFor(id, grants, token)
        PROVE  AllDrawn'
    <3>1. redeeming'.token = {token} /\ token \in drawn /\ cookies' = cookies \cup {id}
      BY <2>2, <2>4 DEF SavesFor
    <3> QED  BY <1>1, <2>1, <2>2, <3>1 DEF AllDrawn
  <2> QED  BY <1>5, <2>3, <2>4, RedeemRunsCases
<1>6. CASE RedeemWritten
  BY <1>1, <1>6 DEF RedeemWritten, AllDrawn, Types, Redeeming
<1>7. CASE RedeemDone
  <2>1. redeeming.id \in cookies
    BY <1>7 DEF RedeemDone, Redeems
  <2>2. Replied'
    BY <1>1, <1>7, <2>1 DEF RedeemDone, AllDrawn
  <2>3. Asked' /\ Held'
    BY <1>1, <1>7 DEF RedeemDone, AllDrawn, NoRedeeming
  <2> QED  BY <1>1, <2>2, <2>3 DEF AllDrawn
<1>8. CASE RedeemFailed
  BY <1>1, <1>8 DEF RedeemFailed, AllDrawn, NoRedeeming
<1> QED  BY <1>2, <1>3, <1>4, <1>5, <1>6, <1>7, <1>8
         DEF SessionsNext, sessionsVars, guestVars, OwnerStep, OwnerChangeTakenBack, GatewayStarts,
             GatewayFails, RedeemNext, Tick

\* Time, the owner and a restart take nothing from rows that hold what was answered.
LEMMA HoldsOn ==
    ASSUME Types, AllDrawn, [SessionsNext]_sessionsVars, answered' = answered,
           NEW rows \in Seq(Row), Holds(rows)
    PROVE  Holds(rows)'
<1>1. now \in Int /\ now' \in Int /\ now <= now'
  <2>1. now \in Int /\ (now' = now \/ now' = now + 1)
    BY LimitsAssumption
       DEF Types, SessionsNext, sessionsVars, guestVars, OwnerStep, OwnerChangeTakenBack, Restart,
           GatewayStarts, GatewayFails, OpenInvitation, RedeemNext, RedeemRuns, RedeemWritten,
           RedeemDone, RedeemFailed, Tick
  <2> QED  BY <2>1
<1>2. \A pair \in answered : pair[2] \in DOMAIN store' \ reprieved' => pair[2] \in DOMAIN store \ reprieved
  BY StoreDrawn DEF AllDrawn
<1>3. \A row \in ToSet(rows) : row.expires > now' => row.expires > now
  <2>1. ToSet(rows) \subseteq Row
    BY DEF ToSet
  <2>2. \A row \in Row : row.expires \in Int
    BY LimitsAssumption DEF Row
  <2> QED  BY <1>1, <2>1, <2>2
<1> QED  BY <1>2, <1>3 DEF Holds

\* What a redemption saves keeps every invitation its cookie was answered before.
LEMMA NextRowsHold ==
    ASSUME Types, AllLoad, AllDrawn, Holds(sessions),
           NEW id \in SessionId, NEW grants \in SUBSET Token, NEW token \in Token,
           SavesFor(id, grants, token)
    PROVE  Holds(NextRows(id, grants))
<1> SUFFICES ASSUME NEW pair \in answered, pair[2] \in DOMAIN store \ reprieved,
                    NEW row \in ToSet(NextRows(id, grants)),
                    row.id = pair[1], row.expires > now
             PROVE  pair[2] \in row.grants
  BY DEF Holds
<1>1. \/ row \in ToSet(sessions) /\ row.id # id
      \/ row.id = id /\ row.grants = grants
  BY NextRowsKeep DEF AllLoad, Rows
<1>2. CASE row \in ToSet(sessions)
  BY <1>2 DEF Holds
<1>3. CASE row.id = id /\ row.grants = grants
  <2>1. id \in cookies
    BY <1>3 DEF AllDrawn
  <2>2. PICK earlier : earlier \in RowsOf(sessions, id)
    BY <2>1 DEF SavesFor
  <2>3. earlier \in ToSet(sessions) /\ earlier.expires > now /\ earlier.id = id
    BY <2>2, RowsOfType
  <2>4. pair[2] \in earlier.grants \cap DOMAIN store
    BY <1>3, <2>3 DEF Holds
  <2>5. pair[2] \in KeptGrants(id)
    BY <2>2, <2>4 DEF KeptGrants
  <2> QED  BY <1>3, <2>1, <2>5 DEF SavesFor
<1> QED  BY <1>1, <1>2, <1>3

LEMMA AllHoldKept ==
    /\ Types /\ Redeems /\ AllLoad /\ Durable /\ AllDrawn /\ AllHold
    /\ [SessionsNext]_sessionsVars
    => AllHold'
<1> SUFFICES ASSUME Types, Redeems, AllLoad, Durable, AllDrawn, AllHold,
                    [SessionsNext]_sessionsVars
             PROVE  AllHold'
  OBVIOUS
<1>0. Types'
  BY TypesKept
<1>1. CASE RedeemDone
  <2>1. /\ redeeming.stage = "saved" /\ gateway = "up" /\ saved' = saved /\ sessions' = redeeming.next
        /\ redeeming'.next = <<>> /\ UNCHANGED <<store, reprieved, now>>
        /\ answered' = answered \cup ({redeeming.id} \X redeeming.token)
    BY <1>1 DEF RedeemDone, Redeems, NoRedeeming, liveVars
  <2>2. Rows' = {redeeming.next, <<>>}
    BY <2>1 DEF Rows, Durable
  <2>3. ASSUME NEW rows, rows = redeeming.next PROVE Holds(rows)'
    <3>1. Holds(rows)
      BY <2>3 DEF AllHold, Rows
    <3>2. \A row \in ToSet(rows) : row.id = redeeming.id => redeeming.token \subseteq row.grants
      BY <2>3 DEF AllHold
    <3> QED  BY <2>1, <3>1, <3>2 DEF Holds
  <2>4. ASSUME NEW rows, rows = <<>> PROVE Holds(rows)'
    BY <2>4 DEF Holds, ToSet
  <2>5. \A rows \in Rows' : Holds(rows)'
    BY <2>2, <2>3, <2>4
  <2>6. ToSet(redeeming'.next) = {}
    BY <2>1 DEF ToSet
  <2> QED  BY <2>5, <2>6 DEF AllHold, Holds
<1>2. CASE ~RedeemDone
  <2>1. answered' = answered
    BY <1>2 DEF SessionsNext, sessionsVars, guestVars, OwnerStep, OwnerChangeTakenBack, Restart,
                GatewayStarts, GatewayFails, OpenInvitation, RedeemNext, RedeemRuns,
                RedeemWritten, RedeemFailed, Tick
  <2>2. ASSUME NEW rows \in Rows' PROVE Holds(rows)'
    <3>1. rows \in Seq(Row)
      BY <1>0 DEF Types, Redeeming, Rows
    <3>2. CASE rows \in Rows
      BY <2>1, <3>1, <3>2, HoldsOn DEF AllHold
    <3>3. CASE rows = <<>>
      BY <3>3 DEF Holds, ToSet
    <3>4. CASE rows = Unexpired(saved)
      <4>1. ToSet(rows) \subseteq ToSet(saved)
        BY <3>4, UnexpiredType DEF Types
      <4>2. Holds(saved)
        BY DEF AllHold, Rows
      <4>3. Holds(rows)
        BY <4>1, <4>2 DEF Holds
      <4> QED  BY <2>1, <3>1, <4>3, HoldsOn
    <3>5. ASSUME NEW id \in SessionId, NEW grants \in SUBSET Token, NEW token \in Token,
                 SavesFor(id, grants, token), rows = NextRows(id, grants)
          PROVE  Holds(rows)'
      <4>1. Holds(sessions)
        BY DEF AllHold, Rows
      <4>2. Holds(rows)
        BY <3>5, <4>1, NextRowsHold
      <4> QED  BY <2>1, <3>1, <4>2, HoldsOn
    <3> QED  BY <3>2, <3>3, <3>4, <3>5, RowsFrom
  <2>3. \A row \in ToSet(redeeming'.next) :
           row.id = redeeming'.id => redeeming'.token \subseteq row.grants
    <3>1. CASE redeeming' = redeeming
      BY <3>1 DEF AllHold
    <3>2. CASE redeeming' = NoRedeeming
      BY <3>2 DEF NoRedeeming, ToSet
    <3>3. CASE RedeemWritten
      BY <3>3 DEF RedeemWritten, AllHold, Types, Redeeming
    <3>4. ASSUME NEW id \in SessionId, NEW grants \in SUBSET Token, NEW token \in Token,
                 SavesFor(id, grants, token)
          PROVE  \A row \in ToSet(redeeming'.next) :
                    row.id = redeeming'.id => redeeming'.token \subseteq row.grants
      <4>1. /\ redeeming'.next = NextRows(id, grants) /\ redeeming'.id = id
            /\ redeeming'.token = {token} /\ token \in grants
        BY <3>4 DEF SavesFor
      <4>2. \A row \in ToSet(NextRows(id, grants)) : row.id = id => row.grants = grants
        BY NextRowsKeep DEF AllLoad, Rows
      <4> QED  BY <4>1, <4>2
    <3>5. CASE RedeemRuns
      BY <3>1, <3>4, <3>5, RedeemRunsCases
    <3> QED  BY <1>2, <3>1, <3>2, <3>3, <3>5
             DEF SessionsNext, sessionsVars, guestVars, OwnerStep, OwnerChangeTakenBack, Restart,
                 GatewayStarts, GatewayFails, OpenInvitation, RedeemNext, RedeemFailed, Tick
  <2> QED  BY <2>2, <2>3 DEF AllHold, Holds
<1> QED  BY <1>1, <1>2

-----------------------------------------------------------------------------
\* The sessions, for every value of the constants.

LEMMA SessionsStep == SessionsInv /\ [SessionsNext]_sessionsVars => SessionsInv'
BY TypesKept, RedeemsKept, AllLoadKept, DurableKept, AllDrawnKept, AllHoldKept DEF SessionsInv

\* The rows that are served, saved and being saved, the redemptions, the history
\* and the store keep, together, what SessionsInv says of them (sessions.ts).
THEOREM SessionsInductive == SessionsSpec => []SessionsInv
<1>1. SessionsInit => SessionsInv
  BY SessionsInitTypes, SessionsInitInv DEF SessionsInv
<1> QED  BY <1>1, SessionsStep, PTL DEF SessionsSpec

\* Between two redemptions the gateway serves exactly the sessions a restart
\* would load (sessions.ts, redeem: the record is written before the rows are
\* published).
THEOREM ServedAreDurable == SessionsSpec => []SessionsDurable
<1>1. SessionsInv => SessionsDurable
  BY DEF SessionsInv, Durable, SessionsDurable
<1> QED  BY <1>1, SessionsInductive, PTL

\* No invitation that was answered is lost from its session by a race, a failed
\* save or a restart (sessions.ts, redeem's queue).
THEOREM AnsweredAreKept == SessionsSpec => []AdditionsKept
<1>1. SessionsInv => AdditionsKept
  BY RowsOfType DEF SessionsInv, AllHold, Rows, Holds, AdditionsKept
<1> QED  BY <1>1, SessionsInductive, PTL

\* What redeem writes, load accepts (sessions.ts, load and redeem).
THEOREM SavedRecordLoads == SessionsSpec => []RecordLoads
<1>1. SessionsInv => RecordLoads
  BY DEF SessionsInv, AllLoad, Rows, WithinLimits, RecordLoads, Loadable
<1> QED  BY <1>1, SessionsInductive, PTL

-----------------------------------------------------------------------------
\* Each step of the gateway.

\* A step of the gateway is one of the sessions, or leaves them alone.
LEMMA GatewayStepsSessions == [GatewayNext]_gatewayVars => [SessionsNext]_sessionsVars
<1> SUFFICES ASSUME [GatewayNext]_gatewayVars PROVE [SessionsNext]_sessionsVars
  OBVIOUS
<1>1. CASE OwnerChanges \/ OwnerWritten \/ OwnerAcknowledged
  <2>1. OwnerStep
    BY <1>1 DEF OwnerChanges, OwnerWritten, OwnerAcknowledged, OwnerStep
  <2> QED  BY <2>1 DEF SessionsNext
<1>2. CASE OwnerFails \/ GatewayRestart \/ SessionStep
  BY <1>2 DEF OwnerFails, GatewayRestart, SessionStep, SessionsNext
<1>3. CASE \/ \E s \in Slot, id \in SessionId, h \in Thread : OpenExchange(s, id, h)
           \/ \E s \in Slot, id \in SessionId : OpenSocket(s, id)
           \/ \E s \in Slot : DeliverSend(s) \/ EndExchange(s) \/ RecheckSocket(s) \/ LeaveSocket(s)
           \/ Announce \/ UNCHANGED gatewayVars
  BY <1>3 DEF OpenExchange, OpenSocket, DeliverSend, EndExchange, RecheckSocket, LeaveSocket,
              Announce, gatewayVars
<1> QED  BY <1>1, <1>2, <1>3 DEF GatewayNext

\* The steps that neither change the store nor what is being withdrawn from it.
Quiet == UNCHANGED <<liveVars, withdrawing>> /\ (rescinded' = rescinded \/ GrantsChanged)

LEMMA GatewayStepCases ==
    [GatewayNext]_gatewayVars =>
        \/ Quiet \/ OwnerChanges \/ OwnerWritten \/ OwnerAcknowledged \/ OwnerFails \/ GatewayRestart
<1> SUFFICES ASSUME [GatewayNext]_gatewayVars
             PROVE  \/ Quiet \/ OwnerChanges \/ OwnerWritten \/ OwnerAcknowledged
                    \/ OwnerFails \/ GatewayRestart
  OBVIOUS
<1>1. CASE \/ \E s \in Slot, id \in SessionId, h \in Thread : OpenExchange(s, id, h)
           \/ \E s \in Slot, id \in SessionId : OpenSocket(s, id)
           \/ \E s \in Slot : DeliverSend(s) \/ EndExchange(s) \/ RecheckSocket(s) \/ LeaveSocket(s)
           \/ Announce \/ UNCHANGED gatewayVars
  BY <1>1 DEF OpenExchange, OpenSocket, DeliverSend, EndExchange, RecheckSocket, LeaveSocket,
              Announce, gatewayVars, sessionsVars, Quiet
<1>2. CASE SessionStep
  BY <1>2 DEF SessionStep, GatewayStarts, GatewayFails, OpenInvitation, RedeemNext, RedeemRuns,
              RedeemWritten, RedeemDone, RedeemFailed, Tick, Quiet
<1> QED  BY <1>1, <1>2 DEF GatewayNext

LEMMA StoreSettledKept == StoreSettled /\ [GatewayNext]_gatewayVars => StoreSettled'
<1> SUFFICES ASSUME StoreSettled, [GatewayNext]_gatewayVars PROVE StoreSettled'
  OBVIOUS
<1>1. CASE Quiet
  BY <1>1 DEF Quiet, liveVars, StoreSettled
<1>2. CASE OwnerChanges
  BY <1>2 DEF OwnerChanges, Change, StoreSettled
<1>3. CASE OwnerWritten \/ OwnerAcknowledged
  BY <1>3 DEF OwnerWritten, OwnerAcknowledged, Written, Acknowledged, StoreSettled
<1>4. CASE OwnerFails
  BY <1>4 DEF OwnerFails, OwnerChangeTakenBack, TakenBack, StoreSettled
<1>5. CASE GatewayRestart
  BY <1>5 DEF GatewayRestart, Restart, Reload, StoreSettled
<1> QED  BY <1>1, <1>2, <1>3, <1>4, <1>5, GatewayStepCases

LEMMA WithdrawnKept ==
    Types /\ AllDrawn /\ StoreSettled /\ Withdrawn /\ [GatewayNext]_gatewayVars => Withdrawn'
<1> SUFFICES ASSUME Types, AllDrawn, StoreSettled, Withdrawn, [GatewayNext]_gatewayVars
             PROVE  Withdrawn'
  OBVIOUS
<1>1. CASE Quiet
  BY <1>1 DEF Quiet, liveVars, Withdrawn, Entries
<1>2. CASE OwnerChanges
  <2>1. PICK isMint \in BOOLEAN : Change(isMint)
    BY <1>2 DEF OwnerChanges
  <2>2. /\ change = "none" /\ change' = "saving" /\ minting' = isMint
        /\ disk' = disk /\ recovery' = recovery
    BY <2>1 DEF Change
  <2>3. withdrawing' = Entries(store) \ Entries(store')
    BY <1>2 DEF OwnerChanges
  <2>4. isMint => Entries(store) \subseteq Entries(store')
    BY <2>1, ChangeStore DEF Types, AllDrawn
  <2>5. recovery => Entries(store) = {}
    BY <2>2, EmptyStoreType DEF StoreSettled
  <2>6. withdrawing' \subseteq Entries(disk)'
    <3>1. CASE recovery
      BY <2>3, <2>5, <3>1
    <3>2. CASE ~recovery
      <4>1. store = disk
        BY <2>2, <3>2 DEF StoreSettled
      <4> QED  BY <2>2, <2>3, <4>1 DEF Entries
    <3> QED  BY <3>1, <3>2
  <2> QED  BY <2>2, <2>3, <2>4, <2>5, <2>6 DEF Withdrawn
<1>3. CASE OwnerWritten
  BY <1>3 DEF OwnerWritten, Written, Withdrawn
<1>4. CASE OwnerAcknowledged \/ OwnerFails \/ GatewayRestart
  BY <1>4 DEF OwnerAcknowledged, OwnerFails, GatewayRestart, Withdrawn
<1> QED  BY <1>1, <1>2, <1>3, <1>4, GatewayStepCases

\* A connection goes on as it was, has its message sent, or is aborted.
Continues(s) ==
    /\ s \in DOMAIN connections
    /\ \/ connections'[s] = connections[s]
       \/ /\ ~connections[s].aborted
          /\ connections'[s] = [connections[s] EXCEPT !.stage = "upstream"]
       \/ /\ connections[s].kind # "socket"
          /\ connections'[s] = [connections[s] EXCEPT !.aborted = TRUE]

\* A connection is admitted on what its session may see at that moment.
Admitted(id, h, kind) ==
    [kind |-> kind, session |-> id, thread |-> h,
     stage |-> IF kind = "send" THEN "body" ELSE "upstream",
     basis |-> Basis(id), aborted |-> FALSE]

Begins(s) ==
    /\ s \in Slot /\ ~Busy(s)
    /\ UNCHANGED <<sessionsVars, withdrawing, rescinded>>
    /\ \E id \in SessionId, h \in Thread, kind \in {"read", "send", "socket"} :
          /\ kind = "send" => Authorized(id, h, kind)
          /\ connections'[s] = Admitted(id, h, kind)

LEMMA ConnectionStep ==
    ASSUME [GatewayNext]_gatewayVars, NEW s \in DOMAIN connections'
    PROVE  Continues(s) \/ Begins(s)
<1>0. ASSUME NEW u \in Slot, NEW id \in SessionId, NEW h \in Thread,
             NEW kind \in {"read", "send", "socket"}, ~Busy(u),
             Admit(u, id, h, kind), kind = "send" => Authorized(id, h, kind),
             UNCHANGED <<sessionsVars, withdrawing, rescinded>>
      PROVE  Continues(s) \/ Begins(s)
  <2>1. CASE s = u
    <3>1. connections'[s] = Admitted(id, h, kind)
      BY <1>0, <2>1 DEF Admit, Admitted
    <3> QED  BY <1>0, <2>1, <3>1 DEF Begins
  <2>2. CASE s # u
    BY <1>0, <2>2 DEF Admit, Continues
  <2> QED  BY <2>1, <2>2
<1>1. ASSUME NEW u \in Slot, NEW id \in SessionId, NEW h \in Thread, OpenExchange(u, id, h)
      PROVE  Continues(s) \/ Begins(s)
  <2>1. PICK kind \in {"read", "send"} : Authorized(id, h, kind) /\ Admit(u, id, h, kind)
    BY <1>1 DEF OpenExchange
  <2> QED  BY <1>0, <1>1, <2>1 DEF OpenExchange
<1>2. ASSUME NEW u \in Slot, NEW id \in SessionId, OpenSocket(u, id)
      PROVE  Continues(s) \/ Begins(s)
  <2>1. PICK h \in Thread : Admit(u, id, h, "socket")
    BY <1>2 DEF OpenSocket
  <2> QED  BY <1>0, <1>2, <2>1 DEF OpenSocket
<1>3. ASSUME NEW u \in Slot, Close(u) PROVE Continues(s)
  BY <1>3 DEF Close, Restrict, Continues
<1>4. ASSUME NEW u \in Slot, DeliverSend(u) PROVE Continues(s)
  <2>1. CASE connections[u].aborted
    BY <1>3, <1>4, <2>1 DEF DeliverSend
  <2>2. CASE ~connections[u].aborted
    BY <1>4, <2>2 DEF DeliverSend, Continues
  <2> QED  BY <2>1, <2>2
<1>5. ASSUME NEW u \in Slot, EndExchange(u) \/ RecheckSocket(u) \/ LeaveSocket(u) PROVE Continues(s)
  BY <1>3, <1>5 DEF EndExchange, RecheckSocket, LeaveSocket
<1>6. CASE GrantsChanged
  BY <1>6 DEF GrantsChanged, Continues
<1>7. CASE UNCHANGED connections
  BY <1>7 DEF Continues
<1>8. CASE Announce \/ OwnerAcknowledged
  BY <1>6, <1>7, <1>8 DEF Announce, OwnerAcknowledged
<1>9. CASE OwnerChanges \/ OwnerWritten \/ OwnerFails \/ SessionStep \/ UNCHANGED gatewayVars
  BY <1>7, <1>9 DEF OwnerChanges, OwnerWritten, OwnerFails, SessionStep, gatewayVars
<1>10. CASE GatewayRestart
  BY <1>10 DEF GatewayRestart
<1> QED  BY <1>1, <1>2, <1>4, <1>5, <1>8, <1>9, <1>10 DEF GatewayNext

LEMMA ConnectionTypesKept ==
    ConnectionTypes /\ [GatewayNext]_gatewayVars => ConnectionTypes'
<1> SUFFICES ASSUME ConnectionTypes, [GatewayNext]_gatewayVars PROVE ConnectionTypes'
  OBVIOUS
<1>1. ASSUME NEW s \in DOMAIN connections'
      PROVE  /\ s \in Slot
             /\ connections'[s] \in Connection
             /\ connections'[s].stage = "body" => connections'[s].kind = "send"
             /\ connections'[s].kind = "socket" => ~connections'[s].aborted
  <2>1. CASE Continues(s)
    <3>1. /\ s \in Slot /\ connections[s] \in Connection
          /\ connections[s].stage = "body" => connections[s].kind = "send"
          /\ connections[s].kind = "socket" => ~connections[s].aborted
      BY <2>1 DEF Continues, ConnectionTypes
    <3> QED  BY <2>1, <3>1 DEF Continues, Connection
  <2>2. CASE Begins(s)
    <3>1. PICK id \in SessionId, h \in Thread, kind \in {"read", "send", "socket"} :
            connections'[s] = Admitted(id, h, kind)
      BY <2>2 DEF Begins
    <3>2. Basis(id) \in SUBSET Entry
      BY DEF Basis, Entries
    <3> HIDE DEF Basis
    <3>3. /\ Admitted(id, h, kind) \in Connection
          /\ Admitted(id, h, kind).stage = "body" => Admitted(id, h, kind).kind = "send"
          /\ ~Admitted(id, h, kind).aborted
      BY <3>2 DEF Admitted, Connection
    <3> QED  BY <2>2, <3>1, <3>3 DEF Begins
  <2> QED  BY <2>1, <2>2, ConnectionStep
<1>2. withdrawing' \in SUBSET Entry /\ rescinded' \in SUBSET Entry
  <2>1. Entries(store) \subseteq Entry
    BY DEF Entries
  <2>2. CASE Quiet \/ OwnerWritten
    BY <2>2 DEF Quiet, OwnerWritten, GrantsChanged, ConnectionTypes
  <2>3. CASE OwnerChanges \/ OwnerFails \/ OwnerAcknowledged \/ GatewayRestart
    BY <2>1, <2>3 DEF OwnerChanges, OwnerFails, OwnerAcknowledged, GatewayRestart, GrantsChanged,
                      ConnectionTypes
  <2> QED  BY <2>2, <2>3, GatewayStepCases
<1> QED  BY <1>1, <1>2 DEF ConnectionTypes

\* A session that may write to a thread has an invitation that lets it.
LEMMA WritesRest ==
    ASSUME Types, NEW id \in SessionId, NEW h \in Thread, Authorized(id, h, "send")
    PROVE  \E e \in Basis(id) : e[2] = h /\ e[3] = "write"
<1>1. "write" \in Granted(id, h)
  <2>1. Scope(id)[h] = "write"
    BY DEF Authorized
  <2> QED  BY <2>1 DEF Scope
<1>2. PICK row \in RowsOf(sessions, id) : \E u \in row.grants \cap DOMAIN store : store[u][h] = "write"
  BY <1>1 DEF Granted
<1>3. PICK t \in row.grants \cap DOMAIN store : store[t][h] = "write"
  BY <1>2
<1>4. t \in Token /\ "write" \in Perm
  <2>1. DOMAIN store \subseteq Token /\ store \in [DOMAIN store -> Sharing]
    BY StoreElim DEF Types
  <2>2. store[t] \in Sharing
    BY <1>3, <2>1
  <2>3. store[t][h] \in Access
    BY <2>2 DEF Sharing
  <2> QED  BY <1>3, <2>1, <2>3 DEF Access
<1>5. <<t, h, "write">> \in Basis(id)
  BY <1>2, <1>3, <1>4 DEF Basis, Entries, Entry
<1> QED  BY <1>5

LEMMA SendsRestKept ==
    Types /\ ConnectionTypes /\ SendsRest /\ [GatewayNext]_gatewayVars => SendsRest'
<1> SUFFICES ASSUME Types, ConnectionTypes, SendsRest, [GatewayNext]_gatewayVars,
                    NEW s \in DOMAIN connections', connections'[s].stage = "body"
             PROVE  \E e \in connections'[s].basis :
                       e[2] = connections'[s].thread /\ e[3] = "write"
  BY DEF SendsRest
<1>1. CASE Continues(s)
  <2>1. connections[s] \in Connection
    BY <1>1 DEF Continues, ConnectionTypes
  <2>2. /\ connections'[s].basis = connections[s].basis
        /\ connections'[s].thread = connections[s].thread
        /\ connections[s].stage = "body"
    BY <1>1, <2>1 DEF Continues, Connection
  <2> QED  BY <1>1, <2>2 DEF Continues, SendsRest
<1>2. CASE Begins(s)
  <2>1. PICK id \in SessionId, h \in Thread, kind \in {"read", "send", "socket"} :
          /\ kind = "send" => Authorized(id, h, kind)
          /\ connections'[s] = Admitted(id, h, kind)
    BY <1>2 DEF Begins
  <2>2. kind = "send" /\ connections'[s].thread = h /\ connections'[s].basis = Basis(id)
    BY <2>1 DEF Admitted
  <2>3. Authorized(id, h, "send")
    BY <2>1, <2>2
  <2> QED  BY <2>2, <2>3, WritesRest
<1> QED  BY <1>1, <1>2, ConnectionStep

\* What a connection may rest on.
Live == Entries(store) \cup withdrawing \cup rescinded

\* A step that takes anything from it ends or aborts every connection.
LEMMA LiveLasts ==
    Types /\ AllDrawn /\ StoreSettled /\ Withdrawn /\ [GatewayNext]_gatewayVars =>
        \/ Live \subseteq Live'
        \/ \A s \in DOMAIN connections' : connections'[s].aborted
<1> SUFFICES ASSUME Types, AllDrawn, StoreSettled, Withdrawn, [GatewayNext]_gatewayVars
             PROVE  \/ Live \subseteq Live'
                    \/ \A s \in DOMAIN connections' : connections'[s].aborted
  OBVIOUS
<1>1. CASE GrantsChanged
  BY <1>1 DEF GrantsChanged
<1>2. CASE Quiet /\ ~GrantsChanged
  BY <1>2 DEF Quiet, liveVars, Live, Entries
<1>3. CASE OwnerChanges
  <2>1. withdrawing = {}
    BY <1>3 DEF OwnerChanges, Change, Withdrawn
  <2> QED  BY <1>3, <2>1 DEF OwnerChanges, Live
<1>4. CASE OwnerWritten
  BY <1>4 DEF OwnerWritten, Written, Live, Entries
<1>5. CASE OwnerAcknowledged /\ ~GrantsChanged
  <2>1. withdrawing = {} /\ store' = store /\ withdrawing' = {} /\ rescinded' = rescinded
    BY <1>5 DEF OwnerAcknowledged, Acknowledged, Withdrawn
  <2> QED  BY <2>1 DEF Live, Entries
<1>6. CASE OwnerFails
  <2>1. /\ change = "saving" /\ store' = IF recovery THEN EmptyStore ELSE disk
        /\ rescinded' = rescinded \cup (Entries(store) \ Entries(store'))
    BY <1>6 DEF OwnerFails, OwnerChangeTakenBack, TakenBack
  <2>2. withdrawing \subseteq Entries(store')
    <3>1. CASE recovery
      BY <3>1 DEF Withdrawn
    <3>2. CASE ~recovery
      BY <2>1, <3>2 DEF Withdrawn
    <3> QED  BY <3>1, <3>2
  <2>3. Entries(store)' = Entries(store')
    BY DEF Entries
  <2> QED  BY <2>1, <2>2, <2>3 DEF Live
<1>7. CASE GatewayRestart
  BY <1>7 DEF GatewayRestart
<1> QED  BY <1>1, <1>2, <1>3, <1>4, <1>5, <1>6, <1>7, GatewayStepCases

LEMMA OpenWithinGrantsKept ==
    /\ Types /\ AllDrawn /\ StoreSettled /\ Withdrawn /\ ConnectionTypes /\ OpenWithinGrants
    /\ [GatewayNext]_gatewayVars
    => OpenWithinGrants'
<1> SUFFICES ASSUME Types, AllDrawn, StoreSettled, Withdrawn, ConnectionTypes, OpenWithinGrants,
                    [GatewayNext]_gatewayVars,
                    NEW s \in DOMAIN connections', ~connections'[s].aborted
             PROVE  connections'[s].basis \subseteq Live'
  BY DEF OpenWithinGrants, Standing, Busy, Live
<1>1. Live \subseteq Live'
  BY LiveLasts
<1>2. CASE Continues(s)
  <2>1. s \in Slot /\ connections[s] \in Connection
    BY <1>2 DEF Continues, ConnectionTypes
  <2>2. connections'[s].basis = connections[s].basis /\ ~connections[s].aborted
    BY <1>2, <2>1 DEF Continues, Connection
  <2>3. connections[s].basis \subseteq Live
    BY <1>2, <2>1, <2>2 DEF OpenWithinGrants, Standing, Busy, Continues, Live
  <2> QED  BY <1>1, <2>2, <2>3
<1>3. CASE Begins(s)
  <2>1. PICK id \in SessionId, h \in Thread, kind \in {"read", "send", "socket"} :
          connections'[s] = Admitted(id, h, kind)
    BY <1>3 DEF Begins
  <2>2. connections'[s].basis \subseteq Entries(store)
    BY <2>1 DEF Admitted, Basis
  <2> QED  BY <1>1, <2>2 DEF Live
<1> QED  BY <1>2, <1>3, ConnectionStep

-----------------------------------------------------------------------------
\* The gateway, for every value of the constants.

LEMMA GatewayInitInv == GatewayInit => GatewayInv
<1> SUFFICES ASSUME GatewayInit PROVE GatewayInv
  OBVIOUS
<1>1. SessionsInv
  BY SessionsInitTypes, SessionsInitInv DEF GatewayInit, SessionsInv
<1>2. DOMAIN connections = {} /\ withdrawing = {} /\ rescinded = {}
  BY DEF GatewayInit
<1>3. StoreSettled /\ Withdrawn
  BY <1>2 DEF GatewayInit, SessionsInit, LiveInit, StoreSettled, Withdrawn
<1>4. ConnectionTypes /\ SendsRest /\ OpenWithinGrants
  BY <1>2 DEF ConnectionTypes, SendsRest, OpenWithinGrants, Standing, Busy
<1> QED  BY <1>1, <1>3, <1>4 DEF GatewayInv

LEMMA GatewayStep == GatewayInv /\ [GatewayNext]_gatewayVars => GatewayInv'
<1> SUFFICES ASSUME GatewayInv, [GatewayNext]_gatewayVars PROVE GatewayInv'
  OBVIOUS
<1>1. SessionsInv'
  BY SessionsStep, GatewayStepsSessions DEF GatewayInv
<1>2. StoreSettled' /\ Withdrawn'
  BY StoreSettledKept, WithdrawnKept DEF GatewayInv, SessionsInv
<1>3. ConnectionTypes' /\ SendsRest' /\ OpenWithinGrants'
  BY ConnectionTypesKept, SendsRestKept, OpenWithinGrantsKept DEF GatewayInv, SessionsInv
<1> QED  BY <1>1, <1>2, <1>3 DEF GatewayInv

\* The connections, what is being withdrawn and what was taken back keep, beside
\* the sessions, what GatewayInv says of them (index.ts, grantsChanged).
THEOREM GatewayInductive == GatewaySpec => []GatewayInv
BY GatewayInitInv, GatewayStep, PTL DEF GatewaySpec

\* Every variable of the gateway has its type, a cookie has one row in the record,
\* only a send waits for a body, and no socket outlives its signal.
THEOREM GatewayTyped == GatewaySpec => []GatewayTypeOK
<1>1. GatewayInv => GatewayTypeOK
  <2> SUFFICES ASSUME GatewayInv PROVE GatewayTypeOK
    OBVIOUS
  <2>1. SessionsTypeOK
    BY DEF GatewayInv, SessionsInv, Types, Redeeming, AllLoad, Rows, OneRowEach, SessionsTypeOK
  <2> QED  BY <2>1 DEF GatewayInv, ConnectionTypes, GatewayTypeOK
<1> QED  BY <1>1, GatewayInductive, PTL

\* Once the owner's removal is acknowledged, no connection admitted on what it
\* removed goes on (server.ts, emitTokensChanged; index.ts, grantsChanged).
THEOREM OpenRestsOnGrants == GatewaySpec => []OpenWithinGrants
<1>1. GatewayInv => OpenWithinGrants
  BY DEF GatewayInv
<1> QED  BY <1>1, GatewayInductive, PTL

\* A message reaches BB only on a write entry that is live, is being withdrawn, or
\* was taken back, however long its body took (index.ts, the body loop).
THEOREM SendsRestOnGrants == GatewaySpec => SendsAuthorized
<1> DEFINE Sent(s) ==
      Busy(s) /\ Busy(s)' /\ connections[s].stage = "body" /\ connections'[s].stage = "upstream"
        => \E e \in connections[s].basis \cap (Entries(store) \cup withdrawing \cup rescinded) :
              e[2] = connections[s].thread /\ e[3] = "write"
<1>1. GatewayInv /\ [GatewayNext]_gatewayVars => [\A s \in Slot : Sent(s)]_gatewayVars
  <2> SUFFICES ASSUME GatewayInv, [GatewayNext]_gatewayVars, NEW s \in Slot,
                      s \in DOMAIN connections, s \in DOMAIN connections',
                      connections[s].stage = "body", connections'[s].stage = "upstream"
               PROVE  \E e \in connections[s].basis
                                \cap (Entries(store) \cup withdrawing \cup rescinded) :
                         e[2] = connections[s].thread /\ e[3] = "write"
    BY DEF Busy
  <2>1. PICK e \in connections[s].basis : e[2] = connections[s].thread /\ e[3] = "write"
    BY DEF GatewayInv, SendsRest
  <2>2. connections[s] \in Connection /\ connections[s].kind = "send"
    BY DEF GatewayInv, ConnectionTypes
  <2>3. ~connections[s].aborted
    <3>1. CASE Continues(s)
      BY <2>2, <3>1 DEF Continues, Connection
    <3>2. CASE Begins(s)
      BY <3>2 DEF Begins, Busy
    <3> QED  BY <3>1, <3>2, ConnectionStep
  <2>4. connections[s].basis \subseteq Entries(store) \cup withdrawing \cup rescinded
    BY <2>3 DEF GatewayInv, OpenWithinGrants, Standing, Busy
  <2> QED  BY <2>1, <2>4
<1> QED  BY <1>1, GatewayInductive, PTL DEF GatewaySpec, SendsAuthorized

-----------------------------------------------------------------------------
\* The invitations under the sessions and the connections.
=============================================================================
