---------------------------- MODULE SharedTunnel ----------------------------
(***************************************************************************)
(* One tunnel as its owner's machine dials it (plugin/lib/shared-tunnel.ts):*)
(* a socket to the relay, redialled until it is stopped or refused for     *)
(* good.  Operators on the state of one SharedTunnel; WorkerLifecycle has  *)
(* one of them for each connection.                                        *)
(***************************************************************************)

TunnelState ==
    {"disconnected", "connecting", "connected", "reconnecting", "incompatible", "stopped"}

\* `socket` is the WebSocket, `retry` whether retryTimer is armed.
SharedTunnel == [state : TunnelState, socket : {"none", "dialing", "open"},
                 retry : BOOLEAN, stopped : BOOLEAN]

NewTunnel == [state |-> "disconnected", socket |-> "none", retry |-> FALSE, stopped |-> TRUE]

\* open
Dialled(t) ==
    IF t.stopped THEN t ELSE [t EXCEPT !.state = "connecting", !.socket = "dialing"]

Started(t) == IF t.stopped THEN Dialled([t EXCEPT !.stopped = FALSE]) ELSE t

Stopped(t) == [state |-> "stopped", socket |-> "none", retry |-> FALSE, stopped |-> TRUE]

\* scheduleReconnect; how long the delay is matters to no property.
Rescheduled(t) ==
    IF t.stopped \/ t.retry THEN t ELSE [t EXCEPT !.state = "reconnecting", !.retry = TRUE]

-----------------------------------------------------------------------------
\* What may happen to a tunnel by itself.

Connects(t, t2) ==
    /\ t.socket = "dialing"
    /\ t2 = [t EXCEPT !.socket = "open", !.state = "connected"]

\* The relay answers the upgrade with a status: 409 and 426 (another protocol)
\* and 401 and 403 (another secret) are final.
Rejected(t, t2) ==
    /\ t.socket = "dialing"
    /\ \/ t2 = [t EXCEPT !.socket = "none", !.stopped = TRUE, !.state = "incompatible"]
       \/ t2 = Stopped(t)
       \/ t2 = Rescheduled([t EXCEPT !.socket = "none"])

Disconnects(t, t2) ==
    /\ t.socket # "none"
    /\ t2 = Rescheduled([t EXCEPT !.socket = "none"])

Retries(t, t2) ==
    /\ t.retry
    /\ t2 = Dialled([t EXCEPT !.retry = FALSE])

\* It neither has a socket nor is going to have one.
Quiet(t) == t.socket = "none" /\ ~t.retry
=============================================================================
