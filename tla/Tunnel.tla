------------------------------- MODULE Tunnel -------------------------------
(***************************************************************************)
(* The relay between guests and the owner's machine: the Durable Object    *)
(* (worker/src/tunnel/tunnel-do.ts), the tunnel client's session           *)
(* (bb-shared-tunnel-client/src/session.ts), and the sockets between them. *)
(*                                                                         *)
(* Guests' HTTP requests and WebSocket visitors are streams multiplexed by *)
(* an id over one tunnel socket.  The relay picks the ids and counts them  *)
(* in memory; the client keeps a table of the streams it serves.  A socket *)
(* may die with frames in flight and without telling the relay; the client *)
(* then dials again and the new socket replaces the old.                   *)
(*                                                                         *)
(* This module holds the state both halves share; TunnelDO and             *)
(* TunnelSession are the halves and RelayTunnel composes them.             *)
(***************************************************************************)
EXTENDS Naturals, Sequences, FiniteSets, SequencesExt, FiniteSetsExt

CONSTANTS
    Guest,        \* HTTP requests of guests
    Visitor,      \* WebSocket visitors
    MaxDials,     \* bound: tunnel sockets, numbered in the order they connect
    MaxStreams,   \* streams a session serves at once: 128 in the code
    MaxMessages,  \* bound: messages each way on a visitor's socket
    Hibernates    \* whether the runtime may evict the idle Durable Object

ASSUME TunnelAssumption ==
    /\ IsFiniteSet(Guest) /\ IsFiniteSet(Visitor) /\ Guest \cap Visitor = {}
    /\ {MaxDials, MaxStreams, MaxMessages} \subseteq Nat
    /\ Hibernates \in BOOLEAN

Tunnel == 1..MaxDials

VARIABLES
    \* The Durable Object.
    nextStreamId, \* TunnelDO.nextStreamId
    pending,      \* TunnelDO.pendingHttp: stream id to its entry
    pumps,        \* pumpRequestBody loops: the socket each was started with
    visitors,     \* accepted visitor sockets by id; they outlive hibernation
    sockets,      \* each tunnel socket as the Durable Object sees it
    \* The tunnel.
    down, up,     \* frames to the client and to the relay, per socket
    \* The client.
    session,      \* socket of the live TunnelSession, 0 when there is none
    httpStreams,  \* TunnelSession.httpStreams
    wsStreams,    \* TunnelSession.wsStreams
    lingering,    \* origin sockets told to close that may still deliver
    \* The guests.
    reply,        \* what each request's guest has seen
    gotFrom,      \* history: whose response each guest was served from
    visit,        \* each visitor's own end of its socket
    sent, served, \* messages visitors sent, and those their origin was given
    told, received \* messages origins sent, and those visitors were given

doVars     == <<nextStreamId, pending, pumps, visitors, sockets>>
clientVars == <<session, httpStreams, wsStreams, lingering>>
guestVars  == <<reply, gotFrom, visit, sent, served, told, received>>
vars       == <<doVars, down, up, clientVars, guestVars>>

Frame(type, id, of, info) == [type |-> type, id |-> id, of |-> of, info |-> info]

NoMap == [i \in {} |-> 0]

Put(map, i, value) ==
    [j \in DOMAIN map \cup {i} |-> IF j = i THEN value ELSE map[j]]

Without(map, i) == Restrict(map, DOMAIN map \ {i})

Init ==
    /\ nextStreamId = 1
    /\ pending = NoMap /\ pumps = {} /\ visitors = NoMap
    /\ sockets = [t \in Tunnel |-> "unused"]
    /\ down = [t \in Tunnel |-> <<>>]
    /\ up = [t \in Tunnel |-> <<>>]
    /\ session = 0
    /\ httpStreams = NoMap /\ wsStreams = NoMap /\ lingering = {}
    /\ reply = [g \in Guest |-> "none"]
    /\ gotFrom = [g \in Guest |-> {}]
    /\ visit = [v \in Visitor |-> "none"]
    /\ sent = [v \in Visitor |-> 0]
    /\ served = [v \in Visitor |-> <<>>]
    /\ told = [v \in Visitor |-> 0]
    /\ received = [v \in Visitor |-> <<>>]

-----------------------------------------------------------------------------
\* Sockets.  "open" works; "dead" still reads OPEN at the relay although the
\* client's end is gone; "closing" was closed by the relay; "gone" was reported
\* by webSocketClose.

Usable(t) == sockets[t] \in {"open", "dead"}

\* activeTunnelSocket: the socket accepted last among those that read OPEN.
ActiveTunnel ==
    IF \E t \in Tunnel : Usable(t) THEN Max({t \in Tunnel : Usable(t)}) ELSE 0

\* trySend: what is sent on a dead socket is lost without a sign.
SentDown(t, frame) ==
    IF sockets[t] = "open" THEN [down EXCEPT ![t] = Append(@, frame)] ELSE down

SentUp(frame) ==
    IF sockets[session] = "open" THEN [up EXCEPT ![session] = Append(@, frame)] ELSE up
=============================================================================
