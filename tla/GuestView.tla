----------------------------- MODULE GuestView -----------------------------
(***************************************************************************)
(* One connection of a guest through the gateway, a request or a realtime  *)
(* socket (plugin/guest-gateway/index.ts), while the session's grants      *)
(* change, threads move between BB's projects, and frames are on their     *)
(* way.  GuestGateway says when connections end; this module says what     *)
(* crosses them.                                                           *)
(***************************************************************************)
EXTENDS GuestPolicy, Naturals, Sequences

CONSTANTS
    Offered,    \* bound: the grants a session may come to have
    Sent,       \* bound: the frames the guest's page sends
    MaxFrames   \* bound: frames on their way, of BB's one

ASSUME ViewAssumption ==
    Offered \subseteq Grants /\ Sent \subseteq ClientFrame /\ MaxFrames \in Nat

VARIABLES
    home,         \* external: the project BB has each thread in
    grants,       \* what Sessions.resolve answers for the session
    connection,   \* the request, or the guest's and BB's socket
    wanted,       \* history: topics the page subscribed to on this socket
    steady,       \* history: topics in scope ever since this socket opened
    unannounced,  \* history: topics withdrawn from this request's scope and not
                  \* announced by grantsChanged
    delivered     \* history: how the last step answered the guest, and with what

world   == <<home, grants>>
history == <<wanted, steady, unannounced>>
vars    == <<home, grants, connection, wanted, steady, unannounced, delivered>>

Closed   == [kind |-> "none"]
Exchange == [kind : {"exchange"}, request : Request, token : Grants, aborted : BOOLEAN]
Socket   == [kind : {"socket"}, open : BOOLEAN, fromGuest : Seq(ClientFrame),
             fromBB : Seq(ServerFrame), subscribed : SUBSET Topic]

Nothing == [by |-> "nothing", names |-> {}]

Resolves == DOMAIN grants # {}

ViewInit ==
    /\ home \in [Thread -> Project]
    /\ grants \in Offered
    /\ connection = Closed
    /\ wanted = {} /\ steady = {} /\ unannounced = {}
    /\ delivered = Nothing

-----------------------------------------------------------------------------
\* handle

\* A request that is refused, or answered with a constant, is not a step.
Ask(r) ==
    /\ connection = Closed
    /\ Resolves
    /\ computeAuthz(grants, r) /\ ~Constant(r)
    /\ connection' = [kind |-> "exchange", request |-> r, token |-> grants, aborted |-> FALSE]
    /\ unannounced' = {}
    /\ delivered' = Nothing
    /\ UNCHANGED <<world, wanted, steady>>

\* The body the guest would be sent now, and what it would be told by it.
Response == LET r == connection.request IN Filtered(r, Upstream(r, home), connection.token)

Told == NamedBy(Response)

\* BB answers, and the response is shaped by the grants the request came with.
Answer ==
    /\ connection.kind = "exchange" /\ ~connection.aborted
    /\ delivered' = [by |-> "response", names |-> Told]
    /\ connection' = Closed
    /\ UNCHANGED <<world, history>>

\* BB does not answer, the signal is aborted, or the browser leaves.
EndExchange ==
    /\ connection.kind = "exchange"
    /\ connection' = Closed
    /\ delivered' = Nothing
    /\ UNCHANGED <<world, history>>

-----------------------------------------------------------------------------
\* The upgrade handler and its sockets.

Drop ==
    /\ connection' = Closed
    /\ wanted' = {} /\ steady' = {} /\ unannounced' = {}
    /\ delivered' = Nothing

OpenSocket ==
    /\ connection = Closed
    /\ Resolves
    /\ connection' = [kind |-> "socket", open |-> FALSE, fromGuest |-> <<>>,
                      fromBB |-> <<>>, subscribed |-> {}]
    /\ steady' = Scope(grants)
    /\ delivered' = Nothing
    /\ UNCHANGED <<world, wanted, unannounced>>

UpstreamOpens ==
    /\ connection.kind = "socket" /\ ~connection.open
    /\ connection' = [connection EXCEPT !.open = TRUE]
    /\ delivered' = Nothing
    /\ UNCHANGED <<world, history>>

\* BB's socket fails, within 5 s if it never opens, or either side closes, or the
\* 30 s timer finds that the session no longer resolves.
SocketEnds ==
    /\ connection.kind = "socket"
    /\ Drop
    /\ UNCHANGED world

InFlight == Len(connection.fromGuest) + Len(connection.fromBB)

\* What a frame makes of BB's subscriptions (external).
Subscribed(f, topics) ==
    CASE f.type = "subscribe"   -> topics \cup {f.target}
      [] f.type = "unsubscribe" -> topics \ {f.target}
      [] OTHER                  -> topics

GuestSends(f) ==
    /\ connection.kind = "socket"
    /\ InFlight < MaxFrames
    /\ connection' = [connection EXCEPT !.fromGuest = Append(@, f)]
    /\ wanted' = Subscribed(f, wanted) \cap Topic
    /\ delivered' = Nothing
    /\ UNCHANGED <<world, steady, unannounced>>

\* BB announces what it likes to an open socket (external).
BBSends(f) ==
    /\ connection.kind = "socket" /\ connection.open
    /\ InFlight < MaxFrames /\ connection.fromBB = <<>>   \* bound
    /\ f.type = "thread" => f.project = home[f.id]
    /\ connection' = [connection EXCEPT !.fromBB = Append(@, f)]
    /\ delivered' = Nothing
    /\ UNCHANGED <<world, history>>

\* Mutant: the guest's socket is read at once.
Unpaused == TRUE

\* It is paused until BB's is open.
Readable == connection.open

\* relay, from the guest.  The scope is resolved anew for every frame.
RelayFromGuest ==
    /\ connection.kind = "socket" /\ connection.fromGuest # <<>>
    /\ Readable
    /\ LET f == Head(connection.fromGuest) IN
         IF ~Resolves \/ filterClientFrame(f, grants) = "close" THEN Drop
         ELSE /\ connection' = [connection EXCEPT !.fromGuest = Tail(@),
                    !.subscribed = IF connection.open /\ filterClientFrame(f, grants) = "forward"
                                   THEN Subscribed(f, @) ELSE @]
              /\ delivered' = Nothing
              /\ UNCHANGED history
    /\ UNCHANGED world

\* relay, from BB.
RelayFromBB ==
    /\ connection.kind = "socket" /\ connection.fromBB # <<>>
    /\ IF ~Resolves THEN Drop
       ELSE /\ connection' = [connection EXCEPT !.fromBB = Tail(@)]
            /\ delivered' = [by |-> "frame", names |->
                  UNION {NamedByFrame(f) : f \in filterServerFrame(Head(connection.fromBB), grants)}]
            /\ UNCHANGED history
    /\ UNCHANGED world

-----------------------------------------------------------------------------
\* The owner changes invitations, a redemption adds one, an invitation or the
\* session goes away, a change is taken back.
GrantsChange ==
    /\ grants' \in Offered \ {grants}
    /\ steady' = steady \cap Scope(grants')
    /\ unannounced' = IF connection.kind = "exchange"
                        THEN unannounced \cup (Scope(grants) \ Scope(grants')) ELSE {}
    /\ delivered' = Nothing
    /\ UNCHANGED <<home, connection, wanted>>

\* Mutant: only sockets are told.
SocketsOnly ==
    /\ connection' = IF connection.kind = "socket" THEN Closed ELSE connection
    /\ wanted' = {} /\ steady' = {}

\* grantsChanged closes the socket and aborts the request.
Aborted ==
    /\ connection' = IF connection.kind = "exchange" THEN [connection EXCEPT !.aborted = TRUE]
                     ELSE Closed
    /\ wanted' = {} /\ steady' = {}

Announce ==
    /\ Aborted
    /\ unannounced' = {}
    /\ delivered' = Nothing
    /\ UNCHANGED world

\* A thread moves to another project (external).
Move(t) ==
    /\ \E p \in Project \ {home[t]} : home' = [home EXCEPT ![t] = p]
    /\ delivered' = Nothing
    /\ UNCHANGED <<grants, connection, history>>

ViewNext ==
    \/ \E r \in Request : Ask(r)
    \/ Answer \/ EndExchange
    \/ OpenSocket \/ UpstreamOpens \/ SocketEnds
    \/ \E f \in Sent : GuestSends(f)
    \/ \E f \in ServerFrame : BBSends(f)
    \/ RelayFromGuest \/ RelayFromBB
    \/ GrantsChange \/ Announce
    \/ \E t \in Thread : Move(t)

\* Mutant: a handshake may last for ever.
NoTimeout == FALSE

\* A handshake with BB ends within 5 s; the event loop relays what arrived.  The
\* guest, the owner and, but for that, BB owe nothing.
HandshakeEnds == UpstreamOpens \/ (~connection.open /\ SocketEnds)

ViewFairness ==
    /\ WF_vars(connection.kind = "socket" /\ HandshakeEnds)
    /\ WF_vars(RelayFromGuest)
    /\ WF_vars(RelayFromBB)

ViewSpec == ViewInit /\ [][ViewNext]_vars /\ ViewFairness

-----------------------------------------------------------------------------
\* The state has its types, and frames wait for a socket that is not open yet
\* only on the guest's side (index.ts, guest.pause).
ViewTypeOK ==
    /\ home \in [Thread -> Project]
    /\ grants \in Grants
    /\ connection \in {Closed} \cup Exchange \cup Socket
    /\ connection.kind = "socket" /\ ~connection.open =>
          connection.fromBB = <<>> /\ connection.subscribed = {}
    /\ wanted \cup steady \cup unannounced \subseteq Topic
    /\ delivered.by \in {"nothing", "response", "frame"}
    /\ delivered.names \subseteq Topic \cup Named("section", Section)

\* The stub every sidebar has, with a constant for its id and its name.
PersonalStub == <<"project", Personal>>

\* What reaches a guest names only threads and projects of its scope, and in a
\* response the stub of the personal project.  A frame obeys the scope of the
\* moment, although it was on its way when grants were withdrawn or its thread
\* was moved; a response may still name what was withdrawn since its request,
\* but nothing of which the gateway was told (frames.ts and responses.ts;
\* index.ts, relay and grantsChanged).
DisclosedWithinScope ==
    delivered.names \cap Topic \subseteq
        Scope(grants) \cup (IF delivered.by = "response" THEN unannounced \cup {PersonalStub} ELSE {})

Pending == connection.kind = "exchange"

Reads(kind, id) == [on |-> id, kind |-> kind, method |-> "GET"]

\* A guest with these grants may read it, and be told of its changes.
Serves(g, kind, topic) ==
    /\ computeAuthz(g, Reads(kind, topic[2]))
    /\ filterClientFrame([type |-> "subscribe", target |-> topic], g) = "forward"

\* Whatever a response lists, the guest may open and watch: the projections, the
\* authorization and the filter of frames, which read the same grants in three
\* ways, agree.  The one exception is the personal project, which a guest without
\* it finds empty.  And a section is only named for a thread that is shown in it
\* (responses.ts against authz.ts and frames.ts).
ListedIsServed ==
    Pending =>
        /\ \A t \in Thread : <<"thread", t>> \in Told =>
              Serves(connection.token, "transcript", <<"thread", t>>)
        /\ \A p \in DOMAIN Response.projects :
              \/ Serves(connection.token, "project", <<"project", p>>)
              \/ p = Personal /\ Response.projects[p] = {}
        /\ \A s \in Section : <<"section", s>> \in Told =>
              \E t \in Thread : SectionOf[t] = s /\ <<"thread", t>> \in Told

\* And the sidebar lists every thread of the grants that is in one of their
\* projects, the personal one included, so that a guest finds what was shared
\* (responses.ts, filterSidebarBootstrap).
GrantedThreadsListed ==
    Pending /\ connection.request = Reads("sidebar", None) =>
        \A t \in ThreadIds(connection.token) :
            home[t] \in ProjectIds(connection.token) => <<"thread", t>> \in Told

\* Once everything the page sent was relayed, BB's subscriptions are the page's,
\* for topics it was allowed all along: none is lost because BB's socket was not
\* open yet, none is overtaken, and dropping others does not disturb them
\* (index.ts, guest.pause and the chain of relay).
SubscriptionsCarried ==
    connection.kind = "socket" /\ connection.open /\ connection.fromGuest = <<>> =>
        connection.subscribed \cap steady = wanted \cap steady

\* A change of a thread that was granted all along reaches the guest, also when
\* the thread was moved out of the projects in scope (frames.ts,
\* relayThreadChanged).
ChangesReachGuest ==
    [][\A t \in Thread :
          /\ RelayFromBB
          /\ Head(connection.fromBB).type = "thread" /\ Head(connection.fromBB).id = t
          /\ <<"thread", t>> \in steady
          => <<"thread", t>> \in delivered'.names]_vars

Wants(x) == connection.kind = "socket" /\ x \in wanted \cap steady

Served(x) == connection.kind = "socket" /\ x \in connection.subscribed

\* A subscription does not wait for ever: BB has it, or the socket that would
\* carry it has ended, or it is no longer wanted or granted (index.ts, the
\* handshake's timeout).
SubscriptionsSettle ==
    \A x \in Topic \cap {f.target : f \in {f \in Sent : f.type = "subscribe"}} :
        Wants(x) ~> (Served(x) \/ ~Wants(x))
=============================================================================
