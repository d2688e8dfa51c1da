---------------------------- MODULE GuestService ----------------------------
(***************************************************************************)
(* What the relay promises to guests (worker/src/tunnel/tunnel-do.ts), and *)
(* nothing of how: there are no ids, frames, tunnels or client sessions    *)
(* here.  RelayTunnel.tla implements this specification.                   *)
(*                                                                         *)
(* A request is answered at most once and from then on its answer stands;  *)
(* a visitor's socket, once closed, stays closed; and each direction of it *)
(* carries the messages that were sent, each once and in their order.      *)
(***************************************************************************)
EXTENDS Naturals, Sequences

CONSTANTS
    Guest,        \* HTTP requests of guests
    Visitor,      \* WebSocket visitors
    MaxMessages,  \* bound: messages each way on a visitor's socket
    Mixes         \* whether an answer may be another guest's: the flaw of a
                  \* relay that is evicted while the client serves what it forgot

VARIABLES
    reply,          \* what each request's guest has seen
    gotFrom,        \* whose response each guest was served from
    visit,          \* each visitor's own end of its socket
    sent, served,   \* messages visitors sent, and those their origin was given
    told, received  \* messages origins sent, and those visitors were given

answerVars  == <<reply, gotFrom>>
socketVars  == <<visit, sent, served, told, received>>
serviceVars == <<answerVars, socketVars>>

ServiceInit ==
    /\ reply = [g \in Guest |-> "none"]
    /\ gotFrom = [g \in Guest |-> {}]
    /\ visit = [v \in Visitor |-> "none"]
    /\ sent = [v \in Visitor |-> 0]
    /\ served = [v \in Visitor |-> <<>>]
    /\ told = [v \in Visitor |-> 0]
    /\ received = [v \in Visitor |-> <<>>]

-----------------------------------------------------------------------------
\* Requests.

\* A request is taken, or answered 503 because no tunnel is connected.
Asks(g) ==
    /\ reply[g] = "none"
    /\ \E r \in {"waiting", "failed"} : reply' = [reply EXCEPT ![g] = r]
    /\ UNCHANGED <<gotFrom, socketVars>>

\* Part of an answer arrives, from the request's own response.
Answers(g, before, after) ==
    /\ reply[g] = before
    /\ \E r \in after : reply' = [reply EXCEPT ![g] = r]
    /\ \E from \in IF Mixes THEN Guest ELSE {g} :
          gotFrom' = [gotFrom EXCEPT ![g] = @ \cup {from}]
    /\ UNCHANGED socketVars

AnswerBegins(g) == Answers(g, "waiting", {"head", "done", "failed"})

AnswerEnds(g) == Answers(g, "head", {"done"})

\* Requests that are not answered in full fail: one alone, or several with the
\* tunnel they were sent over.
Fail(guests) ==
    /\ \A g \in guests : reply[g] \in {"waiting", "head"}
    /\ reply' = [g \in Guest |-> IF g \in guests THEN "failed" ELSE reply[g]]
    /\ UNCHANGED <<gotFrom, socketVars>>

\* The guest stops reading.
Leaves(g) ==
    /\ reply[g] = "head"
    /\ reply' = [reply EXCEPT ![g] = "left"]
    /\ UNCHANGED <<gotFrom, socketVars>>

-----------------------------------------------------------------------------
\* Sockets.

\* A visitor is accepted, or turned away.
Visits(v) ==
    /\ visit[v] = "none"
    /\ \E end \in {"open", "closed"} : visit' = [visit EXCEPT ![v] = end]
    /\ UNCHANGED <<answerVars, sent, served, told, received>>

VisitEnds(v) ==
    /\ visit[v] = "open"
    /\ visit' = [visit EXCEPT ![v] = "closed"]
    /\ UNCHANGED <<answerVars, sent, served, told, received>>

Sends(v) ==
    /\ visit[v] = "open"
    /\ sent[v] < MaxMessages
    /\ sent' = [sent EXCEPT ![v] = @ + 1]
    /\ UNCHANGED <<answerVars, visit, served, told, received>>

\* The origin's end may be heard of after the visitor closed its own.
OriginSends(v) ==
    /\ visit[v] # "none"
    /\ told[v] < MaxMessages
    /\ told' = [told EXCEPT ![v] = @ + 1]
    /\ UNCHANGED <<answerVars, visit, sent, served, received>>

\* The first n of v's messages, in their order.
Messages(v, n) == [k \in 1..n |-> <<v, k>>]

\* The origin is given one message more, or all that were kept until it opened.
OriginIsGiven(v) ==
    /\ \E n \in Len(served[v])..sent[v] : served' = [served EXCEPT ![v] = Messages(v, n)]
    /\ UNCHANGED <<answerVars, visit, sent, told, received>>

VisitorIsGiven(v) ==
    /\ Len(received[v]) < told[v]
    /\ received' = [received EXCEPT ![v] = Messages(v, Len(received[v]) + 1)]
    /\ UNCHANGED <<answerVars, visit, sent, served, told>>

ServiceNext ==
    \/ \E g \in Guest : Asks(g) \/ AnswerBegins(g) \/ AnswerEnds(g) \/ Leaves(g)
    \/ \E guests \in SUBSET Guest : Fail(guests)
    \/ \E v \in Visitor : \/ Visits(v) \/ VisitEnds(v) \/ Sends(v) \/ OriginSends(v)
                          \/ OriginIsGiven(v) \/ VisitorIsGiven(v)

ServiceSpec == ServiceInit /\ [][ServiceNext]_serviceVars
=============================================================================
