--------------------------- MODULE GuestSessions ---------------------------
(***************************************************************************)
(* Guest sessions (plugin/guest-gateway/sessions.ts) beside the owner's    *)
(* invitations (LiveShares).  A browser redeems an invitation and gets a   *)
(* cookie; later redemptions with that cookie add invitations to the same  *)
(* session; what the session may see is worked out from the live store at  *)
(* every use.                                                              *)
(*                                                                         *)
(* Sessions and invitations are two records, written by two queues that    *)
(* know nothing of each other: that, and the expiry and the size limits of *)
(* the session record, is what can go wrong here.                          *)
(***************************************************************************)
EXTENDS LiveShares, Filters, Naturals, Sequences, FiniteSets, SequencesExt

CONSTANTS
    SessionId,    \* cookie values: 32 random bytes, so no value is drawn twice
    NoCookie,     \* a browser that presents no session cookie
    MaxRedeem,    \* bound: redemptions waiting in the session queue
    MaxSessions,  \* rows the record may hold: 2048 in the code
    MaxGrants,    \* invitations of one session: 128 in the code
    MaxSize,      \* size the record may have: 160 KiB in the code
    TTL,          \* lifetime of a session: 30 days in the code
    MaxTime       \* bound: the last instant of the clock

\* One session at its limit fits the record, so that making room never evicts
\* the session being saved: 128 ids of 17 characters are far from 160 KiB.
ASSUME LimitsAssumption ==
    /\ {MaxSessions, MaxGrants, MaxSize, TTL, MaxTime} \subseteq Nat
    /\ MaxSessions > 0 /\ MaxGrants > 0 /\ TTL > 0
    /\ 1 + MaxGrants <= MaxSize
    /\ NoCookie \notin SessionId

VARIABLES
    gateway,      \* the memoised start of ensureGateway
    sessions,     \* Sessions.sessions, in insertion order
    saved,        \* the rows of the encrypted "guest-sessions-v1" record
    redemptions,  \* redeem calls behind Sessions.queue
    redeeming,    \* the redeem call that holds the queue
    now,          \* the clock
    cookies,      \* every cookie value drawn
    answered,     \* history: <<session, invitation>> answered with a cookie
    reprieved     \* history: invitations that were gone from the live store
                  \* and came back, because their deletion was not saved

guestVars    == <<gateway, sessions, saved, redemptions, redeeming, now, cookies,
                  answered, reprieved>>
sessionsVars == <<liveVars, guestVars>>

Row == [id : SessionId, grants : SUBSET Token, expires : 0..(MaxTime + TTL)]

Redemption == [token : Token, prior : SessionId \cup {NoCookie}]

\* "saving": the new rows are passed to kv.set; "saved": the record holds them.
NoRedeeming == [stage |-> "idle", id |-> NoCookie, token |-> {}, next |-> <<>>]

SessionsInit ==
    /\ LiveInit
    /\ gateway = "down"
    /\ sessions = <<>>
    /\ saved = <<>>
    /\ redemptions = <<>>
    /\ redeeming = NoRedeeming
    /\ now = 0
    /\ cookies = {}
    /\ answered = {}
    /\ reprieved = {}

-----------------------------------------------------------------------------
\* Rows and what they grant.

Unexpired(rows) == Among(rows, {row \in Row : row.expires > now})

RowsOf(rows, id) == {row \in ToSet(Unexpired(rows)) : row.id = id}

\* findByRawToken and the test that the invitation shares anything.
Redeemable(t) == t \in DOMAIN store /\ store[t] # NoShares

\* Session id's access to each thread: the union of its live invitations, in
\* which "write" wins.
Granted(id, h) ==
    {store[t][h] : t \in UNION {row.grants \cap DOMAIN store : row \in RowsOf(sessions, id)}}

Scope(id) == [h \in Thread |->
    IF "write" \in Granted(id, h) THEN "write"
    ELSE IF "read" \in Granted(id, h) THEN "read" ELSE "none"]

\* Sessions.resolve answers null when nothing is shared with the session.
Resolves(id) == Scope(id) # NoShares

\* The size of the record grows with its rows and their invitations.
Size(rows) == Len(rows) + Cardinality(UNION {{i} \X rows[i].grants : i \in DOMAIN rows})

\* Mutant: one row too many.
FitsWithOneMore(rows) == Len(rows) <= MaxSessions + 1 /\ Size(rows) <= MaxSize

Fits(rows) == Len(rows) <= MaxSessions /\ Size(rows) <= MaxSize

\* Evict from the front, the least recently redeemed, until the record fits.
Evict(rows) ==
    LET Kept(i) == SubSeq(rows, i, Len(rows))
        first   == CHOOSE i \in 1..(Len(rows) + 1) :
                       Fits(Kept(i)) /\ \A j \in 1..(i - 1) : ~Fits(Kept(j))
    IN  Kept(first)

\* What Sessions.load accepts: the schema repeats two of redeem's limits.
Loadable(rows) ==
    /\ Len(rows) <= MaxSessions
    /\ \A row \in ToSet(rows) : Cardinality(row.grants) <= MaxGrants

-----------------------------------------------------------------------------
\* The gateway starts once per life of the plugin: sessions.load, then listen.
GatewayStarts ==
    /\ gateway = "down"
    /\ Loadable(saved)
    /\ gateway' = "up"
    /\ sessions' = Unexpired(saved)
    /\ UNCHANGED <<liveVars, saved, redemptions, redeeming, now, cookies, answered, reprieved>>

\* The record does not decrypt or parse, or the port cannot be had.  The
\* rejection is memoised: nothing retries until the plugin is loaded again.
GatewayFails ==
    /\ gateway = "down"
    /\ gateway' = "failed"
    /\ UNCHANGED <<liveVars, sessions, saved, redemptions, redeeming, now, cookies,
                   answered, reprieved>>

\* A browser opens an invitation URL, with or without a session cookie.
OpenInvitation(r) ==
    /\ gateway = "up"
    /\ Len(redemptions) < MaxRedeem
    /\ r.token \in drawn
    /\ r.prior = NoCookie \/ \E t \in Token : <<r.prior, t>> \in answered
    /\ redemptions' = Append(redemptions, r)
    /\ UNCHANGED <<liveVars, gateway, sessions, saved, redeeming, now, cookies,
                   answered, reprieved>>

\* Mutant: the invitations of the session are forgotten.
NothingKept(prior) == {}

\* redeem up to kv.set.  Ids of deleted invitations are dropped, an established
\* session keeps its cookie, and its row moves to the end of the record.
NextRows(id, grants) ==
    Evict(Append(Among(Unexpired(sessions), {row \in Row : row.id # id}),
                 [id |-> id, grants |-> grants, expires |-> now + TTL]))

KeptGrants(prior) ==
    UNION {row.grants \cap DOMAIN store : row \in RowsOf(sessions, prior)}

RedeemRuns ==
    /\ redeeming.stage = "idle"
    /\ redemptions # <<>>
    /\ redemptions' = Tail(redemptions)
    /\ LET r           == Head(redemptions)
           established == RowsOf(sessions, r.prior) # {}
           grants      == KeptGrants(r.prior) \cup {r.token}
       IN  \/ \* Invalid or revoked invitation, or too many of them.
              /\ ~Redeemable(r.token) \/ Cardinality(grants) > MaxGrants
              /\ UNCHANGED <<redeeming, cookies>>
           \/ /\ Redeemable(r.token)
              /\ Cardinality(grants) <= MaxGrants
              /\ \E id \in IF established THEN {r.prior} ELSE SessionId \ cookies :
                    /\ redeeming' = [stage |-> "saving", id |-> id, token |-> {r.token},
                                     next |-> NextRows(id, grants)]
                    /\ cookies' = cookies \cup {id}
           \/ \* Bound: the model has no cookie value left to draw.
              /\ ~established /\ SessionId = cookies
              /\ UNCHANGED <<redeeming, cookies>>
    /\ UNCHANGED <<liveVars, gateway, sessions, saved, now, answered, reprieved>>

RedeemWritten ==
    /\ redeeming.stage = "saving"
    /\ saved' = redeeming.next
    /\ redeeming' = [redeeming EXCEPT !.stage = "saved"]
    /\ UNCHANGED <<liveVars, gateway, sessions, redemptions, now, cookies, answered, reprieved>>

\* Only now do the new rows replace the live ones and is the cookie answered.
RedeemDone ==
    /\ redeeming.stage = "saved"
    /\ sessions' = redeeming.next
    /\ answered' = answered \cup ({redeeming.id} \X redeeming.token)
    /\ redeeming' = NoRedeeming
    /\ UNCHANGED <<liveVars, gateway, saved, redemptions, now, cookies, reprieved>>

\* Mutants of RedeemFailed: the rows are published all the same; the rejection
\* stays in the queue.
RedeemFailedPublished ==
    /\ redeeming.stage = "saving"
    /\ sessions' = redeeming.next
    /\ redeeming' = NoRedeeming
    /\ UNCHANGED <<liveVars, gateway, saved, redemptions, now, cookies, answered, reprieved>>

RedeemFailedWedged ==
    /\ redeeming.stage = "saving"
    /\ redeeming' = [redeeming EXCEPT !.stage = "rejected"]
    /\ UNCHANGED <<liveVars, gateway, sessions, saved, redemptions, now, cookies,
                   answered, reprieved>>

\* The key cannot be had or kv.set rejects: the redemption alone fails.
RedeemFailed ==
    /\ redeeming.stage = "saving"
    /\ redeeming' = NoRedeeming
    /\ UNCHANGED <<liveVars, gateway, sessions, saved, redemptions, now, cookies,
                   answered, reprieved>>

RedeemNext == RedeemRuns \/ RedeemWritten \/ RedeemDone \/ RedeemFailed

Tick ==
    /\ now < MaxTime
    /\ now' = now + 1
    /\ UNCHANGED <<liveVars, gateway, sessions, saved, redemptions, redeeming, cookies,
                   answered, reprieved>>

-----------------------------------------------------------------------------
\* The owner's side.  An invitation whose deletion is undone is remembered.

OwnerStep ==
    /\ (\E isMint \in BOOLEAN : Change(isMint)) \/ Written \/ Acknowledged
    /\ UNCHANGED guestVars

Reprieve == reprieved' = reprieved \cup (DOMAIN store' \ DOMAIN store)

OwnerChangeTakenBack ==
    /\ TakenBack
    /\ Reprieve
    /\ UNCHANGED <<gateway, sessions, saved, redemptions, redeeming, now, cookies, answered>>

Restart(readable) ==
    /\ Reload(readable)
    /\ Reprieve
    /\ gateway' = "down"
    /\ sessions' = <<>>
    /\ redemptions' = <<>>
    /\ redeeming' = NoRedeeming
    /\ UNCHANGED <<saved, now, cookies, answered>>

SessionsNext ==
    \/ OwnerStep
    \/ OwnerChangeTakenBack
    \/ \E readable \in BOOLEAN : Restart(readable)
    \/ GatewayStarts
    \/ GatewayFails
    \/ \E r \in Redemption : OpenInvitation(r)
    \/ RedeemNext
    \/ Tick

\* kv.set settles and the event loop runs what is queued.
SessionsFairness == WF_sessionsVars(RedeemNext)

SessionsSpec == SessionsInit /\ [][SessionsNext]_sessionsVars /\ SessionsFairness

-----------------------------------------------------------------------------
\* Rows, redemptions and history have their types, and a cookie has one row
\* (sessions.ts: the rows are a Map).
SessionsTypeOK ==
    /\ store \in Store /\ disk \in Store
    /\ drawn \subseteq Token
    /\ gateway \in {"down", "up", "failed"}
    /\ sessions \in Seq(Row)
    /\ saved \in Seq(Row)
    /\ \A i, j \in DOMAIN saved : saved[i].id = saved[j].id => i = j
    /\ redemptions \in Seq(Redemption)
    /\ redeeming.stage \in {"idle", "saving", "saved"}
    /\ redeeming.id \in SessionId \cup {NoCookie}
    /\ redeeming.token \subseteq Token
    /\ redeeming.next \in Seq(Row)
    /\ now \in 0..MaxTime
    /\ cookies \subseteq SessionId
    /\ answered \subseteq SessionId \X Token
    /\ reprieved \subseteq Token

\* Between two redemptions the gateway serves exactly the sessions a restart
\* would load, whatever failed, was evicted or expired (sessions.ts, redeem:
\* the record is written before the rows are published).
SessionsDurable ==
    gateway = "up" /\ redeeming.stage = "idle" => Unexpired(sessions) = Unexpired(saved)

\* What redeem writes, load accepts: otherwise the gateway could never start
\* again and every guest would be shut out (sessions.ts, load and redeem).
RecordLoads == Loadable(saved)

\* No invitation a browser added is lost from its session by a redemption
\* racing it in another tab, by a failed save or by a restart, as long as the
\* session lives and the invitation exists (sessions.ts, redeem's queue).
AdditionsKept ==
    gateway = "up" =>
        \A pair \in answered :
            pair[2] \in DOMAIN store \ reprieved =>
                \A row \in RowsOf(sessions, pair[1]) : pair[2] \in row.grants

\* A redemption that fails or is refused never stops the later ones
\* (sessions.ts, "this.queue = operation.catch").
RedemptionsDrain == []<>(Len(redemptions) < MaxRedeem)
=============================================================================
