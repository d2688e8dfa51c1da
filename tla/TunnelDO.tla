------------------------------ MODULE TunnelDO ------------------------------
(***************************************************************************)
(* The relay's half of the tunnel: the Durable Object that multiplexes     *)
(* guests over the owner's socket (worker/src/tunnel/tunnel-do.ts).  One   *)
(* action per handler, timer and background loop.                          *)
(***************************************************************************)
EXTENDS Tunnel

\* Mutants: an abandoned request that has no head yet is dropped without an
\* answer; one whose body is streaming is dropped without ending it.
AbandonedWithoutAnswer == [g \in Guest |->
    IF \E i \in DOMAIN pending : pending[i].guest = g /\ pending[i].phase = "body"
      THEN "failed" ELSE reply[g]]
AbandonedMidBody == [g \in Guest |->
    IF \E i \in DOMAIN pending : pending[i].guest = g /\ pending[i].phase = "head"
      THEN "failed" ELSE reply[g]]

\* Mutant: requests whose answer is complete fail too.
AbandonedWhenDone == [g \in Guest |->
    IF \E i \in DOMAIN pending : pending[i].guest = g THEN "failed" ELSE reply[g]]

\* What abandonStreams leaves of replies and visitors: requests without a head
\* answer 502, streaming bodies are aborted, and every visitor is closed.
AbandonedReplies == [g \in Guest |->
    IF \E i \in DOMAIN pending :
          pending[i].guest = g /\ pending[i].phase \in {"head", "body"}
      THEN "failed" ELSE reply[g]]

AbandonStreams ==
    /\ pending' = NoMap
    /\ reply' = AbandonedReplies
    /\ visitors' = [i \in DOMAIN visitors |-> [visitors[i] EXCEPT !.closing = TRUE]]

\* acceptTunnel: the client, without a session, dials.  Earlier sockets are
\* closed and everything opened over them is abandoned.
AcceptTunnel(t) ==
    /\ session = 0
    /\ sockets[t] = "unused"
    /\ \A earlier \in 1..(t - 1) : sockets[earlier] # "unused"
    /\ sockets' = [s \in Tunnel |-> IF s = t THEN "open"
                                    ELSE IF Usable(s) THEN "closing" ELSE sockets[s]]
    /\ AbandonStreams
    /\ session' = t
    /\ UNCHANGED <<nextStreamId, pumps, down, up, httpStreams, wsStreams, lingering,
                   gotFrom, visit, sent, served, told, received>>

\* webSocketClose for a tunnel socket, which the client may not know of yet.
TunnelCloseSeen(t) ==
    /\ \/ sockets[t] \in {"dead", "closing"}
       \/ sockets[t] = "open" /\ t < MaxDials
    /\ sockets' = [sockets EXCEPT ![t] = "gone"]
    /\ up' = [up EXCEPT ![t] = <<>>]
    /\ IF \E s \in Tunnel \ {t} : Usable(s)
         THEN UNCHANGED <<pending, reply, visitors>>
         ELSE AbandonStreams
    /\ UNCHANGED <<nextStreamId, pumps, down, clientVars, gotFrom, visit, sent, served, told, received>>

\* Mutant: ids the relay is done with are handed out again.
LowestFreeId ==
    Min((1..(Cardinality(Guest \cup Visitor) + 1))
          \ (DOMAIN pending \cup DOMAIN visitors \cup {nextStreamId}))

\* nextStreamId++
FollowingId == nextStreamId + 1

\* proxyHttp: one turn of the event loop, up to the start of the body's pump.
ProxyHttp(g, hasBody) ==
    /\ reply[g] = "none"
    /\ IF ActiveTunnel = 0
         THEN /\ reply' = [reply EXCEPT ![g] = "failed"]
              /\ UNCHANGED <<nextStreamId, pending, pumps, down>>
         ELSE /\ reply' = [reply EXCEPT ![g] = "waiting"]
              /\ nextStreamId' = FollowingId
              /\ pending' = Put(pending, nextStreamId,
                               [guest |-> g, phase |-> "head", tunnel |-> ActiveTunnel])
              /\ down' = SentDown(ActiveTunnel, Frame("open-http", nextStreamId, g, hasBody))
              /\ pumps' = IF hasBody THEN pumps \cup {<<nextStreamId, ActiveTunnel, g>>} ELSE pumps
    /\ UNCHANGED <<visitors, sockets, up, clientVars, gotFrom, visit, sent, served, told, received>>

\* pumpRequestBody ends, with the body's last frame or an error; its socket is
\* the one the request started on, whatever replaced it since.
PumpEnds(p) ==
    /\ p \in pumps
    /\ pumps' = pumps \ {p}
    /\ \E type \in {"body-end", "close-stream"} :
         down' = SentDown(p[2], Frame(type, p[1], p[3], FALSE))
    /\ UNCHANGED <<nextStreamId, pending, visitors, sockets, up, clientVars, guestVars>>

\* failHttpStream from the timer that resp-head clears.  The client is not told.
HeadTimeout(i) ==
    /\ i \in DOMAIN pending
    /\ pending[i].phase = "head"
    /\ pending' = Without(pending, i)
    /\ reply' = [reply EXCEPT ![pending[i].guest] = "failed"]
    /\ UNCHANGED <<nextStreamId, pumps, visitors, sockets, down, up, clientVars,
                   gotFrom, visit, sent, served, told, received>>

\* Mutant: the client is not told.
VisitorCancelsSilently(i) ==
    /\ i \in DOMAIN pending
    /\ pending[i].phase = "body"
    /\ pending' = Without(pending, i)
    /\ reply' = [reply EXCEPT ![pending[i].guest] = "left"]
    /\ UNCHANGED <<nextStreamId, pumps, visitors, sockets, down, up, clientVars,
                   gotFrom, visit, sent, served, told, received>>

\* cancelHttpStream: the guest stops reading a streaming body.
VisitorCancels(i) ==
    /\ i \in DOMAIN pending
    /\ pending[i].phase = "body"
    /\ pending' = Without(pending, i)
    /\ reply' = [reply EXCEPT ![pending[i].guest] = "left"]
    /\ down' = IF ActiveTunnel = 0 THEN down
               ELSE SentDown(ActiveTunnel, Frame("close-stream", i, pending[i].guest, FALSE))
    /\ UNCHANGED <<nextStreamId, pumps, visitors, sockets, up, clientVars,
                   gotFrom, visit, sent, served, told, received>>

\* openVisitorWebSocket.
OpenVisitor(v) ==
    /\ visit[v] = "none"
    /\ IF ActiveTunnel = 0
         THEN /\ visit' = [visit EXCEPT ![v] = "closed"]
              /\ UNCHANGED <<nextStreamId, visitors, down>>
         ELSE /\ visit' = [visit EXCEPT ![v] = "open"]
              /\ nextStreamId' = FollowingId
              /\ down' = SentDown(ActiveTunnel, Frame("open-ws", nextStreamId, v, FALSE))
              /\ visitors' = Put(visitors, nextStreamId, [visitor |-> v, closing |-> FALSE])
    /\ UNCHANGED <<pending, pumps, sockets, up, clientVars, reply, gotFrom, sent, served, told, received>>

\* webSocketMessage from a visitor, possibly sent before it saw the relay's
\* close: wrapped for the active tunnel, or, without one, the visitor is closed.
VisitorSends(i) ==
    /\ i \in DOMAIN visitors
    /\ LET v == visitors[i].visitor IN
       /\ sent[v] < MaxMessages
       /\ sent' = [sent EXCEPT ![v] = @ + 1]
       /\ IF ActiveTunnel = 0
            THEN /\ visitors' = [visitors EXCEPT ![i].closing = TRUE]
                 /\ UNCHANGED down
            ELSE /\ down' = SentDown(ActiveTunnel, Frame("ws-data", i, v, sent[v] + 1))
                 /\ UNCHANGED visitors
    /\ UNCHANGED <<nextStreamId, pending, pumps, sockets, up, clientVars,
                   reply, gotFrom, visit, served, told, received>>

\* webSocketClose for a visitor: it left, or answers the relay's close.
VisitorCloseSeen(i) ==
    /\ i \in DOMAIN visitors
    /\ visit' = [visit EXCEPT ![visitors[i].visitor] = "closed"]
    /\ visitors' = Without(visitors, i)
    /\ down' = IF ActiveTunnel = 0 THEN down
               ELSE SentDown(ActiveTunnel, Frame("close-stream", i, visitors[i].visitor, FALSE))
    /\ UNCHANGED <<nextStreamId, pending, pumps, sockets, up, clientVars,
                   reply, gotFrom, sent, served, told, received>>

\* The constructor resumes above the ids of the visitor sockets that remain.
ResumedId == Max({0} \cup DOMAIN visitors) + 1

\* The runtime evicts the idle object: no request is in flight, and the frames
\* of the last seconds have been dealt with.
Hibernate ==
    /\ Hibernates
    /\ \A i \in DOMAIN pending : pending[i].phase = "bodiless"
    /\ pumps = {} /\ lingering = {}
    /\ \A t \in Tunnel : up[t] = <<>> /\ down[t] = <<>>
    /\ pending' = NoMap
    /\ nextStreamId' = ResumedId
    /\ UNCHANGED <<pumps, visitors, sockets, down, up, clientVars, guestVars>>

-----------------------------------------------------------------------------
\* onTunnelFrame.  A replaced socket's last frames are handled like any other.

TakeUp(t, type) ==
    /\ sockets[t] \in {"open", "dead", "closing"}
    /\ up[t] # <<>>
    /\ Head(up[t]).type = type
    /\ up' = [up EXCEPT ![t] = Tail(@)]
    /\ UNCHANGED <<nextStreamId, pumps, sockets, down, clientVars, sent, served, told>>

\* A head resolves the guest's response, once: a second one only replaces the
\* writer, and the body the guest holds is then never finished ("orphan").  A
\* response that cannot be constructed answers 502.
OnRespHead(t) ==
    LET f == Head(up[t])
        entry == pending[f.id]
    IN
    /\ TakeUp(t, "resp-head")
    /\ IF f.id \notin DOMAIN pending
         THEN UNCHANGED <<pending, reply, gotFrom>>
       ELSE IF entry.phase # "head"
         THEN /\ pending' = IF f.info THEN pending
                           ELSE [pending EXCEPT ![f.id].phase = "orphan"]
              /\ UNCHANGED <<reply, gotFrom>>
       ELSE /\ gotFrom' = [gotFrom EXCEPT ![entry.guest] = @ \cup {f.of}]
            /\ \/ /\ f.info
                  /\ pending' = [pending EXCEPT ![f.id].phase = "bodiless"]
                  /\ reply' = [reply EXCEPT ![entry.guest] = "done"]
               \/ /\ ~f.info
                  /\ pending' = [pending EXCEPT ![f.id].phase = "body"]
                  /\ reply' = [reply EXCEPT ![entry.guest] = "head"]
               \/ /\ ~f.info
                  /\ pending' = Without(pending, f.id)
                  /\ reply' = [reply EXCEPT ![entry.guest] = "failed"]
    /\ UNCHANGED <<visitors, visit, received>>

\* The body's chunks travel with its end.
OnBodyEnd(t) ==
    LET f == Head(up[t])
        entry == pending[f.id]
    IN
    /\ TakeUp(t, "body-end")
    /\ IF f.id \in DOMAIN pending
         THEN /\ pending' = Without(pending, f.id)
              /\ reply' = IF entry.phase = "body"
                            THEN [reply EXCEPT ![entry.guest] = "done"] ELSE reply
              /\ gotFrom' = IF entry.phase = "body"
                              THEN [gotFrom EXCEPT ![entry.guest] = @ \cup {f.of}] ELSE gotFrom
         ELSE UNCHANGED <<pending, reply, gotFrom>>
    /\ UNCHANGED <<visitors, visit, received>>

OnCloseStream(t) ==
    LET f == Head(up[t])
        entry == pending[f.id]
    IN
    /\ TakeUp(t, "close-stream")
    /\ IF f.id \in DOMAIN pending
         THEN /\ pending' = Without(pending, f.id)
              /\ reply' = IF entry.phase \in {"head", "body"}
                            THEN [reply EXCEPT ![entry.guest] = "failed"] ELSE reply
              /\ UNCHANGED visitors
         ELSE /\ visitors' = IF f.id \in DOMAIN visitors
                               THEN [visitors EXCEPT ![f.id].closing = TRUE] ELSE visitors
              /\ UNCHANGED <<pending, reply>>
    /\ UNCHANGED <<gotFrom, visit, received>>

\* send on a visitor socket that is closing throws and is ignored.
OnWsData(t) ==
    LET f == Head(up[t]) IN
    /\ TakeUp(t, "ws-data")
    /\ received' = IF f.id \in DOMAIN visitors /\ ~visitors[f.id].closing
                     THEN [received EXCEPT ![visitors[f.id].visitor] = Append(@, <<f.of, f.info>>)]
                     ELSE received
    /\ UNCHANGED <<pending, visitors, reply, gotFrom, visit>>

RelayReceives(t) == OnRespHead(t) \/ OnBodyEnd(t) \/ OnCloseStream(t) \/ OnWsData(t)
=============================================================================
