--------------------------- MODULE GuestGateway ----------------------------
(***************************************************************************)
(* The guest gateway's open connections (plugin/guest-gateway/index.ts)    *)
(* beside the sessions and the invitations they were admitted on.  A       *)
(* request or a socket is admitted on the session's access at one moment   *)
(* and then lasts: a message body may take minutes to arrive, a response   *)
(* or a socket stays open.  What ends it when the owner changes the        *)
(* invitations is grantsChanged, which the owner's RPCs call after their   *)
(* change was saved.                                                       *)
(***************************************************************************)
EXTENDS GuestSessions

CONSTANT Slot   \* bound: connections open at one time

VARIABLES
    connections,  \* the HTTP exchanges and sockets that are open
    withdrawing,  \* history: entries the change in progress removed
    rescinded     \* history: entries a taken-back change removed since the
                  \* last grantsChanged

gatewayVars == <<sessionsVars, connections, withdrawing, rescinded>>

\* One thread on one invitation, with its permission.
Entry == Token \X Thread \X Perm

Entries(s) == {e \in Entry : e[1] \in DOMAIN s /\ s[e[1]][e[2]] = e[3]}

\* The entries a session's access rests on.
Basis(id) == {e \in Entries(store) :
                 \E row \in RowsOf(sessions, id) : e[1] \in row.grants}

\* An exchange with BB ("read" a thread, "send" to it) or a realtime socket.
\* A send waits in "body" for its message before BB is asked.  `aborted` is the
\* exchange's AbortSignal.
Connection == [kind : {"read", "send", "socket"}, session : SessionId, thread : Thread,
               stage : {"body", "upstream"}, basis : SUBSET Entry, aborted : BOOLEAN]

GatewayInit ==
    /\ SessionsInit
    /\ connections = <<>>
    /\ withdrawing = {}
    /\ rescinded = {}

Busy(s) == s \in DOMAIN connections

Close(s) == connections' = Restrict(connections, DOMAIN connections \ {s})

-----------------------------------------------------------------------------
\* computeAuthz for a thread: read needs any access, send needs write.
Authorized(id, h, kind) ==
    IF kind = "send" THEN Scope(id)[h] = "write" ELSE Scope(id)[h] # "none"

Admit(s, id, h, kind) ==
    connections' = [c \in DOMAIN connections \cup {s} |->
        IF c # s THEN connections[c] ELSE
        [kind |-> kind, session |-> id, thread |-> h,
         stage |-> IF kind = "send" THEN "body" ELSE "upstream",
         basis |-> Basis(id), aborted |-> FALSE]]

\* handle: resolve the cookie, authorise, register the AbortController.  The
\* store is in memory, so this is one turn of the event loop.
OpenExchange(s, id, h) ==
    /\ gateway = "up"
    /\ ~Busy(s)
    /\ Resolves(id)
    /\ \E kind \in {"read", "send"} :
         Authorized(id, h, kind) /\ Admit(s, id, h, kind)
    /\ UNCHANGED <<sessionsVars, withdrawing, rescinded>>

\* The upgrade handler: any session that resolves may open a socket.
OpenSocket(s, id) ==
    /\ gateway = "up"
    /\ ~Busy(s)
    /\ Resolves(id)
    /\ \E h \in Thread : Admit(s, id, h, "socket")
    /\ UNCHANGED <<sessionsVars, withdrawing, rescinded>>

\* Mutant: the signal is not given to fetch.
DeliverSendAnyway(s) ==
    /\ Busy(s) /\ connections[s].kind = "send" /\ connections[s].stage = "body"
    /\ connections' = [connections EXCEPT ![s].stage = "upstream"]
    /\ UNCHANGED <<sessionsVars, withdrawing, rescinded>>

\* The message is complete and valid: fetch sends it to BB, unless the signal
\* is aborted already, which makes fetch reject at once.
DeliverSend(s) ==
    /\ Busy(s) /\ connections[s].kind = "send" /\ connections[s].stage = "body"
    /\ IF connections[s].aborted
         THEN Close(s)
         ELSE connections' = [connections EXCEPT ![s].stage = "upstream"]
    /\ UNCHANGED <<sessionsVars, withdrawing, rescinded>>

\* The exchange ends: its response was relayed, its message was refused, its
\* signal was aborted (by grantsChanged or after 120 s), or the browser left.
EndExchange(s) ==
    /\ Busy(s) /\ connections[s].kind # "socket"
    /\ Close(s)
    /\ UNCHANGED <<sessionsVars, withdrawing, rescinded>>

\* Mutant: a session that still has a row is taken to be authorised.
RecheckSocketRow(s) ==
    /\ Busy(s) /\ connections[s].kind = "socket"
    /\ RowsOf(sessions, connections[s].session) = {}
    /\ Close(s)
    /\ UNCHANGED <<sessionsVars, withdrawing, rescinded>>

\* A socket resolves its session at every frame and every 30 s, and closes
\* when the session no longer resolves.
RecheckSocket(s) ==
    /\ Busy(s) /\ connections[s].kind = "socket"
    /\ ~Resolves(connections[s].session)
    /\ Close(s)
    /\ UNCHANGED <<sessionsVars, withdrawing, rescinded>>

\* The browser or BB closes the socket.
LeaveSocket(s) ==
    /\ Busy(s) /\ connections[s].kind = "socket"
    /\ Close(s)
    /\ UNCHANGED <<sessionsVars, withdrawing, rescinded>>

-----------------------------------------------------------------------------
\* Mutant: sockets are aborted like exchanges and left open.
GrantsChangedAborts ==
    /\ connections' = [s \in DOMAIN connections |-> [connections[s] EXCEPT !.aborted = TRUE]]
    /\ rescinded' = {}

\* grantsChanged closes every socket and aborts every exchange.
GrantsChanged ==
    /\ connections' =
         [s \in {s \in DOMAIN connections : connections[s].kind # "socket"} |->
             [connections[s] EXCEPT !.aborted = TRUE]]
    /\ rescinded' = {}

\* mintToken after its title lookups, and the connection RPCs at any time.
Announce ==
    /\ GrantsChanged
    /\ UNCHANGED <<sessionsVars, withdrawing>>

\* The owner's steps.  Every RPC that can withdraw access announces its change
\* in the turn in which the change is acknowledged.
OwnerChanges ==
    /\ \E isMint \in BOOLEAN : Change(isMint)
    /\ withdrawing' = Entries(store) \ Entries(store')
    /\ UNCHANGED <<guestVars, connections, rescinded>>

OwnerWritten ==
    /\ Written
    /\ UNCHANGED <<guestVars, connections, withdrawing, rescinded>>

\* Mutant: an RPC other than mintToken does not announce its change.
OwnerAcknowledgedQuietly ==
    /\ Acknowledged
    /\ withdrawing' = {}
    /\ UNCHANGED <<guestVars, connections, rescinded>>

OwnerAcknowledged ==
    /\ Acknowledged
    /\ withdrawing' = {}
    /\ IF minting THEN UNCHANGED <<connections, rescinded>> ELSE GrantsChanged
    /\ UNCHANGED guestVars

\* The RPC fails: nothing is announced.
OwnerFails ==
    /\ OwnerChangeTakenBack
    /\ withdrawing' = {}
    /\ rescinded' = rescinded \cup (Entries(store) \ Entries(store'))
    /\ UNCHANGED connections

GatewayRestart ==
    /\ \E readable \in BOOLEAN : Restart(readable)
    /\ connections' = <<>>
    /\ withdrawing' = {}
    /\ rescinded' = {}

SessionStep ==
    /\ \/ GatewayStarts
       \/ GatewayFails
       \/ \E r \in Redemption : OpenInvitation(r)
       \/ RedeemNext
       \/ Tick
    /\ UNCHANGED <<connections, withdrawing, rescinded>>

GatewayNext ==
    \/ \E s \in Slot, id \in SessionId, h \in Thread : OpenExchange(s, id, h)
    \/ \E s \in Slot, id \in SessionId : OpenSocket(s, id)
    \/ \E s \in Slot : DeliverSend(s)
    \/ \E s \in Slot : EndExchange(s)
    \/ \E s \in Slot : RecheckSocket(s)
    \/ \E s \in Slot : LeaveSocket(s)
    \/ Announce
    \/ OwnerChanges
    \/ OwnerWritten
    \/ OwnerAcknowledged
    \/ OwnerFails
    \/ GatewayRestart
    \/ SessionStep

\* An exchange ends by its 120 s timer at the latest (Node's request timeout
\* ends one whose body never comes); a socket has its 30 s timer.
GatewayFairness == \A s \in Slot :
    /\ WF_gatewayVars(EndExchange(s))
    /\ WF_gatewayVars(RecheckSocket(s))

GatewaySpec == GatewayInit /\ [][GatewayNext]_gatewayVars /\ GatewayFairness

-----------------------------------------------------------------------------
\* Connections have their types, only a send waits for a body, and no socket
\* outlives the signal that would abort it (index.ts, connections and sockets).
GatewayTypeOK ==
    /\ SessionsTypeOK
    /\ DOMAIN connections \subseteq Slot
    /\ \A s \in DOMAIN connections :
          /\ connections[s] \in Connection
          /\ connections[s].stage = "body" => connections[s].kind = "send"
          /\ connections[s].kind = "socket" => ~connections[s].aborted
    /\ withdrawing \subseteq Entry
    /\ rescinded \subseteq Entry

Standing(s) == Busy(s) /\ ~connections[s].aborted

\* A connection that is not aborted rests on entries that are still live, are
\* being withdrawn by a change not yet acknowledged, or were briefly live in a
\* change that was taken back.  So once the owner's removal is acknowledged, no
\* connection admitted on what it removed goes on (server.ts, the RPCs'
\* emitTokensChanged; index.ts, grantsChanged).
OpenWithinGrants ==
    \A s \in Slot : Standing(s) =>
        connections[s].basis \subseteq Entries(store) \cup withdrawing \cup rescinded

\* A message reaches BB only on a write entry that is live, or whose removal is
\* not acknowledged yet, or that was taken back, however long its body took to
\* arrive (index.ts, the body loop and the signal given to fetch).
SendsAuthorized ==
    [][\A s \in Slot :
          Busy(s) /\ Busy(s)' /\ connections[s].stage = "body"
                              /\ connections'[s].stage = "upstream"
             => \E e \in connections[s].basis \cap (Entries(store) \cup withdrawing \cup rescinded) :
                    e[2] = connections[s].thread /\ e[3] = "write"]_gatewayVars

\* A socket whose session lost everything, by revocation, expiry or eviction,
\* does not stay open (index.ts, the 30 s timer and the per-frame check).
LostSocketsClose ==
    \A s \in Slot, id \in SessionId :
        (Busy(s) /\ connections[s].kind = "socket" /\ connections[s].session = id /\ ~Resolves(id))
            ~> (~Busy(s) \/ Resolves(id))
=============================================================================
