--------------------------- MODULE TunnelSession ----------------------------
(***************************************************************************)
(* The owner's half of the tunnel: TunnelSession, which serves the streams *)
(* of one socket from the guest gateway                                    *)
(* (plugin/packages/bb-shared-tunnel-client/src/session.ts).               *)
(***************************************************************************)
EXTENDS Tunnel

\* What dispose leaves, with the socket lost to the client: the relay reads it
\* OPEN until told otherwise, and what was on its way to the client is lost.
SessionEnds ==
    /\ session' = 0
    /\ httpStreams' = NoMap /\ wsStreams' = NoMap /\ lingering' = {}
    /\ sockets' = [sockets EXCEPT ![session] = IF @ = "open" THEN "dead" ELSE @]

\* The network, the missed heartbeat or the buffer limit ends the session.
ClientLosesTunnel ==
    /\ session \in 1..(MaxDials - 1)
    /\ SessionEnds
    /\ down' = [down EXCEPT ![session] = <<>>]
    /\ UNCHANGED <<nextStreamId, pending, pumps, visitors, up, guestVars>>

TakeDown(types) ==
    /\ session # 0
    /\ down[session] # <<>>
    /\ Head(down[session]).type \in types
    /\ UNCHANGED <<nextStreamId, pending, pumps, visitors,
                   reply, gotFrom, visit, sent, told, received>>

Taken == [down EXCEPT ![session] = Tail(@)]

\* The ids being served, of either kind.
Streams == DOMAIN httpStreams \cup DOMAIN wsStreams

\* Frames for which onFrame throws whatever they carry: an opening of a stream
\* that is served already, and a body that goes on or ends after its end.
OutOfTurn(f) ==
    \/ f.type \in {"open-http", "open-ws"} /\ f.id \in Streams
    \/ f.type = "body-end" /\ f.id \in DOMAIN httpStreams /\ httpStreams[f.id].phase # "body"

\* The session ends then, with everything that is served over it.
Rejects == SessionEnds /\ down' = [down EXCEPT ![session] = <<>>] /\ UNCHANGED <<up, served>>

\* validateOpenFrame: any guest's path, headers, method or protocols, which the
\* relay forwards as they are, may be what the client refuses.  Bound: not over
\* the last socket, so that the client can dial again.
MetadataRefused == session < MaxDials

\* A stream ends at the client, which says so.
Closes(frame) ==
    up' = SentUp(Frame("close-stream", frame.id, frame.of, FALSE))

\* A request without a body starts executing.
Opens(f) ==
    \/ /\ f.type = "open-http"
       /\ httpStreams' = Put(httpStreams, f.id,
                             [of |-> f.of, phase |-> IF f.info THEN "body" ELSE "executing"])
       /\ UNCHANGED wsStreams
    \/ /\ f.type = "open-ws"
       /\ wsStreams' = Put(wsStreams, f.id, [of |-> f.of, open |-> FALSE, buffered |-> <<>>])
       /\ UNCHANGED httpStreams

\* open-http and open-ws.
OnOpen ==
    LET f == Head(down[session]) IN
    /\ TakeDown({"open-http", "open-ws"})
    /\ \/ /\ OutOfTurn(f) \/ MetadataRefused
          /\ Rejects
       \/ /\ ~OutOfTurn(f)
          /\ down' = Taken
          /\ IF Cardinality(Streams) >= MaxStreams
               THEN Closes(f) /\ UNCHANGED <<httpStreams, wsStreams>>
               ELSE Opens(f) /\ UNCHANGED up
          /\ UNCHANGED <<session, sockets, lingering, served>>

\* body-end, with the chunks before it.
OnRequestBody ==
    LET f == Head(down[session]) IN
    /\ TakeDown({"body-end"})
    /\ IF OutOfTurn(f)
         THEN Rejects
         ELSE /\ down' = Taken
              /\ httpStreams' = IF f.id \in DOMAIN httpStreams
                                  THEN [httpStreams EXCEPT ![f.id].phase = "executing"]
                                  ELSE httpStreams
              /\ UNCHANGED <<session, sockets, wsStreams, lingering, up, served>>

\* ws-data: kept until the origin's socket opens, then passed on; past the
\* buffer's limit the origin's socket is dropped.
OnVisitorData ==
    LET f == Head(down[session]) IN
    /\ TakeDown({"ws-data"})
    /\ down' = Taken
    /\ \/ /\ f.id \notin DOMAIN wsStreams
          /\ UNCHANGED <<wsStreams, served, up>>
       \/ /\ f.id \in DOMAIN wsStreams
          /\ LET w == wsStreams[f.id] IN
             \/ /\ w.open
                /\ served' = [served EXCEPT ![w.of] = Append(@, <<f.of, f.info>>)]
                /\ UNCHANGED <<wsStreams, up>>
             \/ /\ ~w.open
                /\ wsStreams' = [wsStreams EXCEPT ![f.id].buffered = Append(@, <<f.of, f.info>>)]
                /\ UNCHANGED <<served, up>>
             \/ /\ wsStreams' = Without(wsStreams, f.id)
                /\ Closes(f)
                /\ UNCHANGED served
    /\ UNCHANGED <<session, sockets, httpStreams, lingering>>

\* close-stream.  A request's fetch is aborted without an answer; an origin
\* socket that was open may deliver until its close completes.
OnGuestLeft ==
    LET f == Head(down[session]) IN
    /\ TakeDown({"close-stream"})
    /\ down' = Taken
    /\ httpStreams' = Without(httpStreams, f.id)
    /\ wsStreams' = Without(wsStreams, f.id)
    /\ lingering' = IF f.id \in DOMAIN wsStreams /\ wsStreams[f.id].open
                      THEN lingering \cup {<<f.id, wsStreams[f.id].of>>} ELSE lingering
    /\ UNCHANGED <<session, sockets, up, served>>

ClientReceives == OnOpen \/ OnRequestBody \/ OnVisitorData \/ OnGuestLeft

-----------------------------------------------------------------------------
\* The client's origin, the guest gateway.

\* executeHttp, once requestOriginHttp has the origin's head.
OriginResponds(i) ==
    /\ i \in DOMAIN httpStreams
    /\ httpStreams[i].phase = "executing"
    /\ httpStreams' = [httpStreams EXCEPT ![i].phase = "streaming"]
    /\ \E bodiless \in BOOLEAN :
         up' = SentUp(Frame("resp-head", i, httpStreams[i].of, bodiless))
    /\ UNCHANGED <<doVars, down, session, wsStreams, lingering, guestVars>>

\* executeHttp's last part: the response ends, or its origin failed.
OriginEnds(i) ==
    /\ i \in DOMAIN httpStreams
    /\ httpStreams' = Without(httpStreams, i)
    /\ \/ /\ httpStreams[i].phase = "streaming"
          /\ up' = SentUp(Frame("body-end", i, httpStreams[i].of, FALSE))
       \/ /\ httpStreams[i].phase \in {"executing", "streaming"}
          /\ up' = SentUp(Frame("close-stream", i, httpStreams[i].of, FALSE))
    /\ UNCHANGED <<doVars, down, session, wsStreams, lingering, guestVars>>

\* rejectHttpStream: the body took too long or grew past the limit.
BodyRejected(i) ==
    /\ i \in DOMAIN httpStreams
    /\ httpStreams[i].phase = "body"
    /\ httpStreams' = Without(httpStreams, i)
    /\ up' = SentUp(Frame("close-stream", i, httpStreams[i].of, FALSE))
    /\ UNCHANGED <<doVars, down, session, wsStreams, lingering, guestVars>>

\* Mutant: what was kept is dropped.
OriginWsOpensEmpty(i) ==
    /\ i \in DOMAIN wsStreams
    /\ ~wsStreams[i].open
    /\ wsStreams' = [wsStreams EXCEPT ![i].open = TRUE, ![i].buffered = <<>>]
    /\ UNCHANGED <<doVars, down, up, session, httpStreams, lingering, guestVars>>

\* openOriginWs, "open": what was kept is passed on in order.
OriginWsOpens(i) ==
    /\ i \in DOMAIN wsStreams
    /\ ~wsStreams[i].open
    /\ wsStreams' = [wsStreams EXCEPT ![i].open = TRUE, ![i].buffered = <<>>]
    /\ served' = [served EXCEPT ![wsStreams[i].of] = @ \o wsStreams[i].buffered]
    /\ UNCHANGED <<doVars, down, up, session, httpStreams, lingering,
                   reply, gotFrom, visit, sent, told, received>>

\* openOriginWs, "message", also from a socket the client has told to close.
OriginWsMessage(i, v) ==
    /\ \/ <<i, v>> \in lingering
       \/ i \in DOMAIN wsStreams /\ wsStreams[i].of = v /\ wsStreams[i].open
    /\ told[v] < MaxMessages
    /\ told' = [told EXCEPT ![v] = @ + 1]
    /\ up' = SentUp(Frame("ws-data", i, v, told[v] + 1))
    /\ UNCHANGED <<doVars, down, clientVars, reply, gotFrom, visit, sent, served, received>>

\* openOriginWs, "close": reported unless the client asked for it.
OriginWsCloses(i, v) ==
    /\ \/ /\ <<i, v>> \in lingering
          /\ lingering' = lingering \ {<<i, v>>}
          /\ UNCHANGED <<wsStreams, up>>
       \/ /\ i \in DOMAIN wsStreams /\ wsStreams[i].of = v
          /\ wsStreams' = Without(wsStreams, i)
          /\ up' = SentUp(Frame("close-stream", i, v, FALSE))
          /\ UNCHANGED lingering
    /\ UNCHANGED <<doVars, down, session, httpStreams, guestVars>>
=============================================================================
