---------------------------- MODULE RelayTunnel -----------------------------
(***************************************************************************)
(* The two halves of the tunnel together, what schedules them, and what    *)
(* guests may rely on.                                                     *)
(***************************************************************************)
EXTENDS TunnelDO, TunnelSession

\* Bound on stream ids: each guest and visitor opens one stream.
StreamId == 1..(Cardinality(Guest) + Cardinality(Visitor))

Relay ==
    \/ \E g \in Guest, hasBody \in BOOLEAN : ProxyHttp(g, hasBody)
    \/ \E p \in pumps : PumpEnds(p)
    \/ \E i \in StreamId : \/ HeadTimeout(i) \/ VisitorCancels(i)
                           \/ VisitorSends(i) \/ VisitorCloseSeen(i)
    \/ \E v \in Visitor : OpenVisitor(v)
    \/ \E t \in Tunnel : AcceptTunnel(t) \/ TunnelCloseSeen(t) \/ RelayReceives(t)
    \/ Hibernate

Client ==
    \/ ClientReceives
    \/ ClientLosesTunnel
    \/ \E i \in StreamId : \/ OriginResponds(i) \/ OriginEnds(i) \/ BodyRejected(i)
                           \/ OriginWsOpens(i)
    \/ \E i \in StreamId, v \in Visitor : OriginWsMessage(i, v) \/ OriginWsCloses(i, v)

Next == Relay \/ Client

VisitorCloses(i) == i \in DOMAIN visitors /\ visitors[i].closing /\ VisitorCloseSeen(i)

HeartbeatMissed == session # 0 /\ sockets[session] = "gone" /\ ClientLosesTunnel

\* The event loops run their handlers and timers, the reconnect loop dials, a
\* visitor answers the relay's close, and a client whose socket is gone misses
\* its heartbeat.  Nothing obliges guests or the origin, nor the relay's runtime
\* to report that a socket died.
Fairness ==
    /\ \A t \in Tunnel : WF_vars(AcceptTunnel(t)) /\ WF_vars(RelayReceives(t))
    /\ \A i \in StreamId : WF_vars(HeadTimeout(i)) /\ WF_vars(VisitorCloses(i))
    /\ WF_vars(ClientReceives)
    /\ WF_vars(HeartbeatMissed)

Spec == Init /\ [][Next]_vars /\ Fairness

-----------------------------------------------------------------------------
FrameType == {"open-http", "body-end", "close-stream", "open-ws", "ws-data", "resp-head"}

FrameOk(f) ==
    /\ f.type \in FrameType
    /\ f.id \in StreamId
    /\ f.of \in Guest \cup Visitor
    /\ IF f.type = "ws-data" THEN f.info \in 1..MaxMessages ELSE f.info \in BOOLEAN

\* The state has its types, and no stream is both an HTTP request and a socket.
TypeOK ==
    /\ nextStreamId \in Nat \ {0}
    /\ \A i \in DOMAIN pending :
          pending[i] \in [guest : Guest, phase : {"head", "body", "bodiless", "orphan"}, tunnel : Tunnel]
    /\ pumps \subseteq StreamId \X Tunnel \X Guest
    /\ \A i \in DOMAIN visitors : visitors[i] \in [visitor : Visitor, closing : BOOLEAN]
    /\ sockets \in [Tunnel -> {"unused", "open", "dead", "closing", "gone"}]
    /\ \A t \in Tunnel : \A f \in ToSet(down[t]) \cup ToSet(up[t]) : FrameOk(f)
    /\ session \in Tunnel \cup {0}
    /\ \A i \in DOMAIN httpStreams :
          httpStreams[i] \in [of : Guest, phase : {"body", "executing", "streaming"}]
    /\ \A i \in DOMAIN wsStreams : wsStreams[i].of \in Visitor /\ wsStreams[i].open \in BOOLEAN
    /\ DOMAIN httpStreams \cap DOMAIN wsStreams = {}
    /\ reply \in [Guest -> {"none", "waiting", "head", "done", "failed", "left"}]
    /\ gotFrom \in [Guest -> SUBSET (Guest \cup Visitor)]
    /\ visit \in [Visitor -> {"none", "open", "closed"}]

\* No guest is served another guest's response, whatever dies, times out or is
\* answered late: every head and body a guest is given was produced for its own
\* request.
OwnResponse == \A g \in Guest : gotFrom[g] \subseteq {g}

InOrder(messages, v) == \A k \in DOMAIN messages : messages[k] = <<v, k>>

\* Each direction of a visitor's socket delivers that visitor's own messages, in
\* order and without a gap, across the origin socket's opening, tunnels that die
\* silently, reconnection and hibernation; a socket that loses a message carries
\* none after it.
OwnMessages ==
    \A v \in Visitor : InOrder(served[v], v) /\ InOrder(received[v], v)

\* The client drops the tunnel, with every guest on it, for the metadata of an
\* opening alone: whatever dies, times out or is replaced, the relay never opens a
\* stream by an id the client still serves, and never ends the body of a request
\* that is executing (session.ts, onFrame).  A visitor's messages are
\* taken to be no longer than the client accepts (Wire, ClientAccepts).
OnlyMetadataRejected ==
    (session # 0 /\ down[session] # <<>>) => ~OutOfTurn(Head(down[session]))

\* A request that reached the tunnel is answered, if only by the timer.
EveryRequestAnswered == \A g \in Guest : reply[g] = "waiting" ~> reply[g] # "waiting"

Serves(g) == \E i \in DOMAIN httpStreams : httpStreams[i].of = g

\* A response whose body no client session produces any more, because it is
\* complete or its tunnel died, ends for its guest too: a body has no timeout
\* and would otherwise hang.
NoBodyHangs == \A g \in Guest :
    (reply[g] = "head" /\ ~Serves(g)) ~> reply[g] # "head"

\* What the client holds for a guest that left is released: the request of a
\* cancelled response is aborted and the origin socket of a closed visitor is
\* closed, also when the tunnel that should say so is lost.
GuestsReleased ==
    /\ \A g \in Guest : reply[g] = "left" ~> ~Serves(g)
    /\ \A v \in Visitor :
          visit[v] = "closed" ~> ~\E i \in DOMAIN wsStreams : wsStreams[i].of = v

\* For its guests the relay is the service of GuestService: an answer comes once
\* and is never revised, requests fail only while they are not answered in full,
\* and a socket's messages arrive once, in order and never before they were sent
\* (tunnel-do.ts, onTunnelFrame and abandonStreams; session.ts, onFrame).
Service == INSTANCE GuestService WITH Mixes <- Hibernates

ImplementsService == Service!ServiceSpec
=============================================================================
