-------------------------- MODULE GuestView_proofs --------------------------
(***************************************************************************)
(* Proofs about GuestView, for any threads, projects and sections, any     *)
(* grants a session may come to have and any frames.                       *)
(***************************************************************************)
EXTENDS GuestView, TLAPS

-----------------------------------------------------------------------------
\* The operators of GuestPolicy.

\* The scope of typed grants is made of topics (scope of gateway/index.ts).
LEMMA ScopeIsTopics ==
    ASSUME NEW g \in Grants
    PROVE  Scope(g) \subseteq Topic
<1>1. DOMAIN g \subseteq Thread /\ \A t \in DOMAIN g : g[t] \in Share
  BY DEF Grants
<1>2. ProjectIds(g) \subseteq Project
  BY <1>1 DEF ProjectIds, Share
<1> QED  BY <1>1, <1>2 DEF Scope, Topic, Named, ThreadIds

\* BB's answer names typed things, and only a thread that may be read when it is
\* not a list.
LEMMA UpstreamBody ==
    ASSUME NEW r \in Request, NEW h \in [Thread -> Project]
    PROVE  Upstream(r, h) \in Body
<1>1. Empty \in Body
  <2>1. [p \in {} |-> {}] \in [{} -> SUBSET Thread]
    OBVIOUS
  <2>2. [p \in {} |-> {}] \in UNION {[Q -> SUBSET Thread] : Q \in SUBSET Project}
    BY <2>1
  <2> QED  BY <2>2 DEF Empty, Body
<1>2. ASSUME NEW P \in SUBSET Project
      PROVE  Lists(P, h) \in UNION {[Q -> SUBSET Thread] : Q \in SUBSET Project}
  BY DEF Lists
<1>3. r.kind = "project" => r.on \in Project
  BY DEF Request
<1>4. r.kind = "transcript" => r.on \in Thread
  BY DEF Request
<1>5. CASE r.method # "GET"
  BY <1>1, <1>5 DEF Upstream
<1>6. CASE r.method = "GET" /\ r.kind = "sidebar"
  BY <1>2, <1>6 DEF Upstream, Empty, Body
<1>7. CASE r.method = "GET" /\ r.kind = "project"
  BY <1>2, <1>3, <1>7 DEF Upstream, Empty, Body
<1>8. CASE r.method = "GET" /\ r.kind = "transcript"
  BY <1>1, <1>4, <1>8 DEF Upstream, Empty, Body
<1>9. CASE r.method = "GET" /\ r.kind \notin {"sidebar", "project", "transcript"}
  BY <1>1, <1>9 DEF Upstream
<1> QED  BY <1>5, <1>6, <1>7, <1>8, <1>9

\* The projects in scope, with the stub or without it.
LEMMA ShownInScope ==
    ASSUME NEW body, NEW g,
           NEW shown, shown \in {ScopedProjects(body, g), WithStub(ScopedProjects(body, g))}
    PROVE  /\ DOMAIN ScopedProjects(body, g) \subseteq DOMAIN shown
           /\ \A p \in DOMAIN ScopedProjects(body, g) : shown[p] = ScopedProjects(body, g)[p]
           /\ \A p \in DOMAIN shown :
                 /\ shown[p] \subseteq ThreadIds(g)
                 /\ p \in ProjectIds(g) \/ (p = Personal /\ shown[p] = {})
<1> DEFINE scoped == ScopedProjects(body, g)
<1>1. DOMAIN scoped \subseteq ProjectIds(g) /\ \A p \in DOMAIN scoped : scoped[p] \subseteq ThreadIds(g)
  BY DEF ScopedProjects, scopedThreads
<1> HIDE DEF scoped
<1>2. CASE shown = scoped
  BY <1>1, <1>2 DEF scoped
<1>3. CASE shown = WithStub(scoped)
  <2>1. /\ DOMAIN shown = DOMAIN scoped \cup {Personal}
        /\ \A p \in DOMAIN shown : shown[p] = IF p \in DOMAIN scoped THEN scoped[p] ELSE {}
    BY <1>3 DEF WithStub
  <2> QED  BY <1>1, <2>1 DEF scoped
<1> QED  BY <1>2, <1>3 DEF scoped

\* Whatever BB lists, the projections leave projects and threads in scope, and the
\* personal project without threads.
LEMMA ProjectedWithinScope ==
    ASSUME NEW body, NEW g,
           NEW out, out \in {filterSidebarBootstrap(body, g), filterProjectDetail(body, g)}
    PROVE  /\ DOMAIN out.projects \subseteq ProjectIds(g) \cup {Personal}
           /\ UNION Range(out.projects) \subseteq ThreadIds(g)
           /\ out.about = {}
           /\ out.sections \subseteq body.sections
<1>1. out.projects \in {ScopedProjects(body, g), WithStub(ScopedProjects(body, g))}
  BY DEF filterSidebarBootstrap, filterProjectDetail, Empty
<1>2. out.about = {} /\ out.sections \subseteq body.sections
  BY DEF filterSidebarBootstrap, filterProjectDetail, Empty
<1>3. \A p \in DOMAIN out.projects :
         out.projects[p] \subseteq ThreadIds(g) /\ p \in ProjectIds(g) \cup {Personal}
  BY <1>1, ShownInScope
<1> QED  BY <1>2, <1>3 DEF Range

\* What an authorised request is told lies in the scope of the grants it came
\* with, but for the stub of the personal project (index.ts, handle).
LEMMA ToldWithinScope ==
    ASSUME NEW r \in Request, NEW h \in [Thread -> Project], NEW g \in Grants,
           computeAuthz(g, r)
    PROVE  NamedBy(Filtered(r, Upstream(r, h), g))
              \subseteq Scope(g) \cup {PersonalStub} \cup Named("section", Section)
<1> DEFINE body == Upstream(r, h)
<1> DEFINE out == Filtered(r, body, g)
<1>1. body.sections \subseteq Section
  BY UpstreamBody DEF Body
<1>2. CASE r.method = "GET" /\ r.kind \in {"sidebar", "project"}
  <2>1. out \in {filterSidebarBootstrap(body, g), filterProjectDetail(body, g)}
    BY <1>2 DEF Filtered
  <2>2. /\ DOMAIN out.projects \subseteq ProjectIds(g) \cup {Personal}
        /\ UNION Range(out.projects) \subseteq ThreadIds(g)
        /\ out.about = {} /\ out.sections \subseteq Section
    <3> HIDE DEF out, body
    <3> QED  BY <2>1, <1>1, ProjectedWithinScope
  <2>3. NamedBy(out) \subseteq Scope(g) \cup {PersonalStub} \cup Named("section", Section)
    <3> HIDE DEF out
    <3> QED  BY <2>2 DEF NamedBy, Named, Scope, PersonalStub
  <2> QED  BY <2>3
<1>3. CASE ~(r.method = "GET" /\ r.kind \in {"sidebar", "project"})
  <2>1. out = body
    BY <1>3 DEF Filtered
  <2>2. body.projects = [p \in {} |-> {}] /\ body.about \subseteq ThreadIds(g)
    BY <1>3 DEF Upstream, Empty, computeAuthz
  <2>3. DOMAIN body.projects = {} /\ UNION Range(body.projects) = {}
    BY <2>2 DEF Range
  <2> QED  BY <2>1, <2>2, <2>3, <1>1 DEF NamedBy, Named, Scope
<1> QED  BY <1>2, <1>3

\* A relayed frame names only what is in scope (frames.ts, filterServerFrame).
LEMMA FrameWithinScope ==
    ASSUME NEW f \in ServerFrame, NEW g, NEW out \in filterServerFrame(f, g)
    PROVE  NamedByFrame(out) \subseteq Scope(g)
<1>1. CASE f.type = "thread"
  <2>1. f.id \in ThreadIds(g) /\ out = [f EXCEPT !.project = IF @ \in ProjectIds(g) THEN @ ELSE None]
    BY <1>1 DEF filterServerFrame
  <2>2. out.type = "thread" /\ out.id = f.id /\ out.project \in ProjectIds(g) \cup {None}
    BY <1>1, <2>1 DEF ServerFrame
  <2> QED  BY <2>1, <2>2 DEF NamedByFrame, Scope, Named
<1>2. CASE f.type = "project"
  BY <1>2 DEF filterServerFrame, NamedByFrame, Scope, Named
<1>3. CASE f.type \notin {"thread", "project"}
  BY <1>3 DEF filterServerFrame, NamedByFrame
<1> QED  BY <1>1, <1>2, <1>3

-----------------------------------------------------------------------------
\* The invariant.

\* A request under way was authorised by grants of which everything is still in
\* scope, or was withdrawn without an announcement: what was announced aborted it.
AdmittedInv ==
    Pending /\ ~connection.aborted =>
        /\ computeAuthz(connection.token, connection.request)
        /\ Scope(connection.token) \subseteq Scope(grants) \cup unannounced

IInv == ViewTypeOK /\ AdmittedInv /\ DisclosedWithinScope

\* A typed connection of kind "socket" is a socket, and one of kind "exchange"
\* an exchange.
LEMMA ConnectionCases ==
    ASSUME connection \in {Closed} \cup Exchange \cup Socket
    PROVE  /\ connection.kind = "socket" => connection \in Socket
           /\ connection.kind = "exchange" => connection \in Exchange
BY DEF Closed, Exchange, Socket

\* Nothing is pending and nothing was delivered: the invariant is its types.
LEMMA QuietStep ==
    ASSUME ViewTypeOK', delivered' = Nothing, connection'.kind # "exchange"
    PROVE  IInv'
BY DEF IInv, AdmittedInv, Pending, DisclosedWithinScope, Nothing

\* A queue of frames stays one when a frame is added or its first is taken.
LEMMA QueueSteps ==
    ASSUME NEW Frame, NEW q \in Seq(Frame)
    PROVE  /\ \A f \in Frame : Append(q, f) \in Seq(Frame)
           /\ q # <<>> => Head(q) \in Frame /\ Tail(q) \in Seq(Frame)
OBVIOUS

\* A socket with another queue, or with other subscriptions, is a socket.
LEMMA GuestQueueReplaced ==
    ASSUME NEW c \in Socket, NEW q \in Seq(ClientFrame)
    PROVE  [c EXCEPT !.fromGuest = q] \in Socket
BY DEF Socket

LEMMA BBQueueReplaced ==
    ASSUME NEW c \in Socket, NEW b \in Seq(ServerFrame)
    PROVE  [c EXCEPT !.fromBB = b] \in Socket
BY DEF Socket

LEMMA FrameRelayed ==
    ASSUME NEW c \in Socket, NEW q \in Seq(ClientFrame), NEW s \in SUBSET Topic
    PROVE  [c EXCEPT !.fromGuest = q, !.subscribed = s] \in Socket
BY DEF Socket

\* A socket's next state is a typed socket, and nothing else of the state is
\* disturbed (index.ts, relay).
LEMMA SocketStep ==
    ASSUME ViewTypeOK, connection' \in Socket, UNCHANGED <<home, grants, steady, unannounced>>,
           wanted' \subseteq Topic, delivered' = Nothing,
           ~connection'.open => connection'.fromBB = <<>> /\ connection'.subscribed = {}
    PROVE  IInv'
<1>1. ViewTypeOK'
  BY DEF ViewTypeOK, Nothing
<1>2. connection'.kind # "exchange"
  BY DEF Socket
<1> QED  BY <1>1, <1>2, QuietStep

\* A socket that is dropped leaves a typed state.
LEMMA DropStep ==
    ASSUME ViewTypeOK, Drop, UNCHANGED world
    PROVE  IInv'
<1>1. ViewTypeOK'
  BY DEF ViewTypeOK, Drop, world, Nothing, Closed
<1>2. delivered' = Nothing /\ connection'.kind # "exchange"
  BY DEF Drop, Closed
<1> QED  BY <1>1, <1>2, QuietStep

\* The invariant holds initially.
LEMMA InitInv == ViewInit => IInv
<1> SUFFICES ASSUME ViewInit PROVE IInv
  OBVIOUS
<1>1. ViewTypeOK
  BY ViewAssumption DEF ViewInit, ViewTypeOK, Closed, Nothing
<1> QED  BY <1>1 DEF ViewInit, IInv, AdmittedInv, Pending, DisclosedWithinScope, Closed, Nothing

\* The steps of a request keep it.
LEMMA ExchangeSteps ==
    ASSUME IInv, (\E r \in Request : Ask(r)) \/ Answer \/ EndExchange
    PROVE  IInv'
<1> USE DEF IInv
<1>1. ASSUME NEW r \in Request, Ask(r) PROVE IInv'
  <2>1. connection' \in Exchange
    BY <1>1 DEF Ask, Exchange, ViewTypeOK
  <2>2. ViewTypeOK'
    BY <1>1, <2>1 DEF Ask, ViewTypeOK, Nothing, world, Exchange
  <2>3. AdmittedInv'
    BY <1>1 DEF Ask, AdmittedInv, world
  <2>4. DisclosedWithinScope'
    BY <1>1 DEF Ask, DisclosedWithinScope, Nothing
  <2> QED  BY <2>2, <2>3, <2>4
<1>2. CASE Answer
  <2>1. connection \in Exchange /\ ~connection.aborted
    BY <1>2, ConnectionCases DEF Answer, ViewTypeOK
  <2>2. /\ connection.request \in Request /\ connection.token \in Grants
        /\ home \in [Thread -> Project]
    BY <2>1 DEF Exchange, ViewTypeOK
  <2>3. /\ computeAuthz(connection.token, connection.request)
        /\ Scope(connection.token) \subseteq Scope(grants) \cup unannounced
    BY <1>2, <2>1 DEF AdmittedInv, Pending, Answer
  <2>4. Told \subseteq Scope(connection.token) \cup {PersonalStub} \cup Named("section", Section)
    BY <2>2, <2>3, ToldWithinScope DEF Told, Response
  <2>5. Named("section", Section) \cap Topic = {}
    BY DEF Named, Topic
  <2>6. Told \subseteq Topic \cup Named("section", Section)
    BY <2>2, <2>4, ScopeIsTopics, PolicyAssumption DEF PersonalStub, Topic, Named
  <2>7. /\ delivered' = [by |-> "response", names |-> Told]
        /\ connection' = Closed /\ UNCHANGED <<home, grants, wanted, steady, unannounced>>
    BY <1>2 DEF Answer, world, history
  <2>8. ViewTypeOK'
    BY <2>6, <2>7 DEF ViewTypeOK, Closed
  <2>9. AdmittedInv'
    BY <2>7 DEF AdmittedInv, Pending, Closed
  <2>10. DisclosedWithinScope'
    BY <2>3, <2>4, <2>5, <2>7 DEF DisclosedWithinScope, Scope
  <2> QED  BY <2>8, <2>9, <2>10
<1>3. CASE EndExchange
  <2>1. ViewTypeOK' /\ delivered' = Nothing /\ connection'.kind # "exchange"
    BY <1>3 DEF EndExchange, ViewTypeOK, Closed, Nothing, world, history
  <2> QED  BY <2>1, QuietStep
<1> QED  BY <1>1, <1>2, <1>3

\* The steps of a socket but for frames from BB keep it.
LEMMA SocketSteps ==
    ASSUME IInv,
           \/ OpenSocket \/ UpstreamOpens \/ SocketEnds \/ RelayFromGuest
           \/ (\E f \in Sent : GuestSends(f)) \/ (\E f \in ServerFrame : BBSends(f))
    PROVE  IInv'
<1>0. ViewTypeOK /\ (connection.kind = "socket" => connection \in Socket)
  BY ConnectionCases DEF IInv, ViewTypeOK
<1>1. CASE OpenSocket
  <2>1. connection' \in Socket /\ connection'.fromBB = <<>> /\ connection'.subscribed = {}
    BY <1>1 DEF OpenSocket, Socket
  <2>2. connection'.kind # "exchange" /\ delivered' = Nothing
    BY <1>1 DEF OpenSocket
  <2>3. steady' \subseteq Topic
    BY <1>0, <1>1, ScopeIsTopics DEF OpenSocket, ViewTypeOK
  <2>4. ViewTypeOK'
    BY <1>0, <1>1, <2>1, <2>3 DEF OpenSocket, ViewTypeOK, Nothing, world
  <2> QED  BY <2>2, <2>4, QuietStep
<1>2. CASE UpstreamOpens
  <2>1. connection' \in Socket /\ connection'.open
    BY <1>0, <1>2 DEF UpstreamOpens, Socket
  <2> QED  BY <1>0, <1>2, <2>1, SocketStep DEF UpstreamOpens, world, history, ViewTypeOK
<1>3. CASE SocketEnds
  BY <1>0, <1>3, DropStep DEF SocketEnds
<1>4. CASE RelayFromGuest
  <2> DEFINE f == Head(connection.fromGuest)
  <2>1. CASE ~Resolves \/ filterClientFrame(f, grants) = "close"
    BY <1>0, <1>4, <2>1, DropStep DEF RelayFromGuest
  <2>2. CASE ~(~Resolves \/ filterClientFrame(f, grants) = "close")
    <3>1. connection \in Socket /\ connection.open /\ f \in ClientFrame
      BY <1>0, <1>4 DEF RelayFromGuest, Readable, Socket
    <3>2. filterClientFrame(f, grants) = "forward" =>
             Subscribed(f, connection.subscribed) \subseteq connection.subscribed \cup Scope(grants)
      BY <3>1 DEF filterClientFrame, Subscribed, ClientFrame
    <3>3. connection.subscribed \subseteq Topic /\ Scope(grants) \subseteq Topic
      BY <1>0, <3>1, ScopeIsTopics DEF Socket, ViewTypeOK
    <3> DEFINE left == Tail(connection.fromGuest)
    <3> DEFINE topics == IF connection.open /\ filterClientFrame(f, grants) = "forward"
                           THEN Subscribed(f, connection.subscribed) ELSE connection.subscribed
    <3>4. left \in Seq(ClientFrame) /\ topics \subseteq Topic
      <4>1. connection.fromGuest \in Seq(ClientFrame) /\ connection.fromGuest # <<>>
        BY <1>4, <3>1 DEF RelayFromGuest, Socket
      <4>2. topics \subseteq Topic
        BY <3>2, <3>3
      <4> QED  BY <4>1, <4>2, QueueSteps
    <3>5. connection' = [connection EXCEPT !.fromGuest = left, !.subscribed = topics]
      BY <1>4, <2>2, <3>1 DEF RelayFromGuest, Socket
    <3>6. connection' \in Socket /\ connection'.open
      <4> HIDE DEF left, topics
      <4>1. connection' \in Socket
        BY <3>1, <3>4, <3>5, FrameRelayed
      <4> QED  BY <3>1, <3>5, <4>1 DEF Socket
    <3>7. UNCHANGED <<home, grants, wanted, steady, unannounced>> /\ delivered' = Nothing
      BY <1>4, <2>2 DEF RelayFromGuest, world, history
    <3> QED  BY <1>0, <3>6, <3>7, SocketStep DEF ViewTypeOK
  <2> QED  BY <2>1, <2>2
<1>5. ASSUME NEW f \in Sent, GuestSends(f) PROVE IInv'
  <2>1. connection \in Socket /\ f \in ClientFrame
    BY <1>0, <1>5, ViewAssumption DEF GuestSends
  <2>2. /\ connection' \in Socket /\ connection'.open = connection.open
        /\ connection'.fromBB = connection.fromBB /\ connection'.subscribed = connection.subscribed
    <3> DEFINE q == Append(connection.fromGuest, f)
    <3>1. q \in Seq(ClientFrame)
      <4>1. connection.fromGuest \in Seq(ClientFrame)
        BY <2>1 DEF Socket
      <4> QED  BY <2>1, <4>1, QueueSteps
    <3>2. connection' = [connection EXCEPT !.fromGuest = q]
      BY <1>5 DEF GuestSends
    <3> HIDE DEF q
    <3>3. connection' \in Socket
      BY <2>1, <3>1, <3>2, GuestQueueReplaced
    <3> QED  BY <2>1, <3>2, <3>3 DEF Socket
  <2> QED  BY <1>0, <1>5, <2>1, <2>2, SocketStep DEF GuestSends, world, ViewTypeOK
<1>6. ASSUME NEW f \in ServerFrame, BBSends(f) PROVE IInv'
  <2>1. connection \in Socket /\ connection.open
    BY <1>0, <1>6 DEF BBSends
  <2>2. connection' \in Socket /\ connection'.open
    <3> DEFINE b == Append(connection.fromBB, f)
    <3>1. b \in Seq(ServerFrame)
      <4>1. connection.fromBB \in Seq(ServerFrame)
        BY <2>1 DEF Socket
      <4> QED  BY <1>6, <4>1, QueueSteps
    <3>2. connection' = [connection EXCEPT !.fromBB = b]
      BY <1>6 DEF BBSends
    <3> HIDE DEF b
    <3>3. connection' \in Socket
      BY <2>1, <3>1, <3>2, BBQueueReplaced
    <3> QED  BY <2>1, <3>2, <3>3 DEF Socket
  <2> QED  BY <1>0, <1>6, <2>2, SocketStep DEF BBSends, world, history, ViewTypeOK
<1> QED  BY <1>1, <1>2, <1>3, <1>4, <1>5, <1>6

\* A frame from BB is relayed within the scope of the moment.
LEMMA RelayStep ==
    ASSUME IInv, RelayFromBB
    PROVE  IInv'
<1>0. ViewTypeOK /\ connection \in Socket
  BY ConnectionCases DEF IInv, ViewTypeOK, RelayFromBB
<1>1. CASE ~Resolves
  BY <1>0, <1>1, DropStep DEF RelayFromBB
<1>2. CASE Resolves
  <2> DEFINE f == Head(connection.fromBB)
  <2> DEFINE names == UNION {NamedByFrame(out) : out \in filterServerFrame(f, grants)}
  <2>1. f \in ServerFrame
    BY <1>0 DEF RelayFromBB, Socket
  <2>2. names \subseteq Scope(grants)
    BY <2>1, FrameWithinScope
  <2>3. connection' \in Socket /\ connection'.open = connection.open
        /\ connection'.subscribed = connection.subscribed /\ connection.open
    <3> DEFINE b == Tail(connection.fromBB)
    <3>1. b \in Seq(ServerFrame) /\ connection.open
      <4>1. connection.fromBB \in Seq(ServerFrame) /\ connection.fromBB # <<>>
        BY <1>0 DEF Socket, RelayFromBB
      <4>2. connection.open
        BY <1>0, <4>1 DEF ViewTypeOK, RelayFromBB
      <4> QED  BY <4>1, <4>2, QueueSteps
    <3>2. connection' = [connection EXCEPT !.fromBB = b]
      BY <1>2 DEF RelayFromBB
    <3> HIDE DEF b
    <3>3. connection' \in Socket
      BY <1>0, <3>1, <3>2, BBQueueReplaced
    <3> QED  BY <1>0, <3>1, <3>2, <3>3 DEF Socket
  <2>4. /\ UNCHANGED <<home, grants, wanted, steady, unannounced>>
        /\ delivered' = [by |-> "frame", names |-> names]
    BY <1>2 DEF RelayFromBB, world, history
  <2>5. names \subseteq Topic
    BY <1>0, <2>2, ScopeIsTopics DEF ViewTypeOK
  <2> HIDE DEF names
  <2>6. ViewTypeOK'
    BY <1>0, <2>3, <2>4, <2>5 DEF ViewTypeOK
  <2>7. AdmittedInv'
    BY <2>3 DEF AdmittedInv, Pending, Socket
  <2>8. DisclosedWithinScope'
    BY <2>2, <2>4 DEF DisclosedWithinScope
  <2> QED  BY <2>6, <2>7, <2>8 DEF IInv
<1> QED  BY <1>1, <1>2

\* What happens around the connection keeps it: what leaves the scope of a
\* request is unannounced until grantsChanged aborts the request.
LEMMA WorldSteps ==
    ASSUME IInv, GrantsChange \/ Announce \/ (\E t \in Thread : Move(t))
    PROVE  IInv'
<1>0. ViewTypeOK /\ AdmittedInv /\ Scope(grants) \subseteq Topic
  BY ScopeIsTopics DEF IInv, ViewTypeOK
<1>1. CASE GrantsChange
  <2>1. ViewTypeOK'
    BY <1>0, <1>1, ViewAssumption DEF GrantsChange, ViewTypeOK, Nothing
  <2>2. AdmittedInv'
    BY <1>0, <1>1 DEF GrantsChange, AdmittedInv, Pending
  <2>3. DisclosedWithinScope'
    BY <1>1 DEF GrantsChange, DisclosedWithinScope, Nothing
  <2> QED  BY <2>1, <2>2, <2>3 DEF IInv
<1>2. CASE Announce
  <2>1. CASE connection.kind = "exchange"
    <3>1. connection \in Exchange
      BY <1>0, <2>1, ConnectionCases DEF ViewTypeOK
    <3>2. connection' \in Exchange /\ connection'.aborted
      BY <1>2, <2>1, <3>1 DEF Announce, Aborted, Exchange
    <3>3. ViewTypeOK'
      BY <1>0, <1>2, <3>2 DEF Announce, Aborted, ViewTypeOK, Nothing, world, Exchange
    <3>4. AdmittedInv' /\ DisclosedWithinScope'
      BY <1>2, <3>2 DEF Announce, AdmittedInv, DisclosedWithinScope, Nothing
    <3> QED  BY <3>3, <3>4 DEF IInv
  <2>2. CASE connection.kind # "exchange"
    <3>1. Drop /\ UNCHANGED world
      BY <1>2, <2>2 DEF Announce, Aborted, Drop
    <3> QED  BY <1>0, <3>1, DropStep
  <2> QED  BY <2>1, <2>2
<1>3. ASSUME NEW t \in Thread, Move(t) PROVE IInv'
  <2>1. ViewTypeOK'
    BY <1>0, <1>3 DEF Move, ViewTypeOK, Nothing, history
  <2>2. AdmittedInv' /\ DisclosedWithinScope'
    BY <1>0, <1>3 DEF Move, AdmittedInv, Pending, DisclosedWithinScope, Nothing, history
  <2> QED  BY <2>1, <2>2 DEF IInv
<1> QED  BY <1>1, <1>2, <1>3

\* The invariant holds in every reachable state.
THEOREM ViewInvariance == ViewSpec => []IInv
<1>1. IInv /\ [ViewNext]_vars => IInv'
  <2> SUFFICES ASSUME IInv, [ViewNext]_vars PROVE IInv'
    OBVIOUS
  <2>1. CASE UNCHANGED vars
    BY <2>1 DEF vars, IInv, ViewTypeOK, AdmittedInv, Pending, DisclosedWithinScope
  <2>2. CASE ViewNext
    BY <2>2, ExchangeSteps, SocketSteps, RelayStep, WorldSteps DEF ViewNext
  <2> QED  BY <2>1, <2>2
<1> QED  BY <1>1, InitInv, PTL DEF ViewSpec

\* The state has its types: frames on their way are frames, subscriptions are
\* topics (index.ts, connections).
THEOREM ViewTypeCorrect == ViewSpec => []ViewTypeOK
BY ViewInvariance, PTL DEF IInv

\* What reaches a guest lies within its scope, for any grants, any frames on
\* their way and any moves of threads (frames.ts, responses.ts; index.ts, relay
\* and grantsChanged).
THEOREM DisclosedWithinScopeHolds == ViewSpec => []DisclosedWithinScope
BY ViewInvariance, PTL DEF IInv

-----------------------------------------------------------------------------
\* What a response lists.

\* Relaying a frame of the guest drops the socket, or passes the frame on.
LEMMA GuestRelayed ==
    ASSUME ViewTypeOK, RelayFromGuest, ~Drop
    PROVE  /\ connection \in Socket /\ connection.open /\ connection.fromGuest # <<>>
           /\ Head(connection.fromGuest) \in ClientFrame
           /\ filterClientFrame(Head(connection.fromGuest), grants) # "close"
           /\ connection'.kind = "socket"
           /\ connection'.fromGuest = Tail(connection.fromGuest)
           /\ connection'.subscribed =
                 IF filterClientFrame(Head(connection.fromGuest), grants) = "forward"
                   THEN Subscribed(Head(connection.fromGuest), connection.subscribed)
                   ELSE connection.subscribed
           /\ UNCHANGED <<grants, wanted, steady>>
<1> DEFINE f == Head(connection.fromGuest)
           topics == IF connection.open /\ filterClientFrame(f, grants) = "forward"
                       THEN Subscribed(f, connection.subscribed) ELSE connection.subscribed
           left == Tail(connection.fromGuest)
<1>1. connection \in Socket /\ connection.open /\ connection.fromGuest # <<>>
  BY ConnectionCases DEF RelayFromGuest, Readable, ViewTypeOK
<1>2. f \in ClientFrame
  <2>1. connection.fromGuest \in Seq(ClientFrame)
    BY <1>1 DEF Socket
  <2> QED  BY <1>1, <2>1, QueueSteps
<1>3. /\ filterClientFrame(f, grants) # "close"
      /\ connection' = [connection EXCEPT !.fromGuest = left, !.subscribed = topics]
      /\ UNCHANGED <<grants, wanted, steady>>
  <2>1. ~(~Resolves \/ filterClientFrame(f, grants) = "close")
    BY DEF RelayFromGuest
  <2>2. connection' = [connection EXCEPT !.fromGuest = left, !.subscribed = topics]
    BY <1>1, <2>1 DEF RelayFromGuest, Socket
  <2> QED  BY <2>1, <2>2 DEF RelayFromGuest, world, history
<1>4. /\ connection'.kind = "socket" /\ connection'.fromGuest = left
      /\ connection'.subscribed = topics
  <2> HIDE DEF topics, left
  <2> QED  BY <1>1, <1>3 DEF Socket
<1> QED  BY <1>1, <1>2, <1>3, <1>4

\* A request under way was authorised by the grants it came with.
AuthorizedInv == Pending => computeAuthz(connection.token, connection.request)

LEMMA AuthorizedStep == ViewTypeOK /\ AuthorizedInv /\ [ViewNext]_vars => AuthorizedInv'
<1> SUFFICES ASSUME ViewTypeOK, AuthorizedInv, [ViewNext]_vars, connection'.kind = "exchange"
             PROVE  computeAuthz(connection'.token, connection'.request)
  BY DEF AuthorizedInv, Pending
<1>1. ASSUME NEW r \in Request, Ask(r) PROVE computeAuthz(connection'.token, connection'.request)
  BY <1>1 DEF Ask
<1>2. CASE \/ UNCHANGED vars \/ GrantsChange \/ \E t \in Thread : Move(t)
  BY <1>2 DEF vars, GrantsChange, Move, AuthorizedInv, Pending
<1>3. CASE Announce
  <2>1. connection \in Exchange
    BY <1>3, ConnectionCases DEF Announce, Aborted, Closed, ViewTypeOK
  <2>2. connection'.token = connection.token /\ connection'.request = connection.request
        /\ connection.kind = "exchange"
    BY <1>3, <2>1 DEF Announce, Aborted, Exchange
  <2> QED  BY <2>2 DEF AuthorizedInv, Pending
<1>4. CASE Answer \/ EndExchange \/ OpenSocket \/ SocketEnds
  BY <1>4 DEF Answer, EndExchange, OpenSocket, SocketEnds, Drop, Closed
<1>5. CASE \/ UpstreamOpens \/ RelayFromGuest \/ RelayFromBB
           \/ (\E f \in Sent : GuestSends(f)) \/ \E f \in ServerFrame : BBSends(f)
  <2>1. connection.kind = "socket" /\ connection \in Socket
    BY <1>5, ConnectionCases
       DEF UpstreamOpens, RelayFromGuest, RelayFromBB, GuestSends, BBSends, ViewTypeOK
  <2>2. CASE UpstreamOpens
    BY <2>1, <2>2 DEF UpstreamOpens, Socket
  <2>3. ASSUME NEW f \in Sent, GuestSends(f) PROVE connection'.kind = "socket"
    BY <2>1, <2>3 DEF GuestSends, Socket
  <2>4. ASSUME NEW f \in ServerFrame, BBSends(f) PROVE connection'.kind = "socket"
    BY <2>1, <2>4 DEF BBSends, Socket
  <2>5. CASE RelayFromGuest
    BY <2>5, GuestRelayed DEF Drop, Closed
  <2>6. CASE RelayFromBB
    <3>1. Drop \/ connection' = [connection EXCEPT !.fromBB = Tail(@)]
      BY <2>6 DEF RelayFromBB
    <3> QED  BY <2>1, <3>1 DEF Drop, Closed, Socket
  <2> QED  BY <1>5, <2>2, <2>3, <2>4, <2>5, <2>6
<1> QED  BY <1>1, <1>2, <1>3, <1>4, <1>5 DEF ViewNext

LEMMA AuthorizedInvariance == ViewSpec => []AuthorizedInv
<1>1. ViewInit => AuthorizedInv
  BY DEF ViewInit, AuthorizedInv, Pending, Closed
<1> QED  BY <1>1, AuthorizedStep, ViewTypeCorrect, PTL DEF ViewSpec

\* Kinds of names are apart.
LEMMA NamesApart ==
    ASSUME NEW body, NEW x
    PROVE  /\ <<"thread", x>> \in NamedBy(body) <=>
                  x \in body.about \cup UNION Range(body.projects)
           /\ <<"section", x>> \in NamedBy(body) => x \in body.sections
BY DEF NamedBy, Named

\* A section is only named for a thread that is shown in it.
LEMMA SectionsShown ==
    ASSUME NEW r \in Request, NEW h \in [Thread -> Project], NEW g \in Grants,
           NEW s \in Filtered(r, Upstream(r, h), g).sections
    PROVE  \E t \in Thread :
              SectionOf[t] = s /\ <<"thread", t>> \in NamedBy(Filtered(r, Upstream(r, h), g))
<1> DEFINE body == Upstream(r, h)
           out == Filtered(r, body, g)
           shown == ScopedProjects(body, g)
<1>0. s \in out.sections
  OBVIOUS
<1>1. ThreadIds(g) \subseteq Thread
  BY DEF ThreadIds, Grants
<1>2. CASE r.method = "GET" /\ r.kind \in {"sidebar", "project"}
  <2>1. /\ out.projects \in {shown, WithStub(shown)}
        /\ s \in SectionsOf(UNION {shown[p] : p \in DOMAIN shown})
    <3>1. CASE r.kind = "sidebar"
      <4>1. out = filterSidebarBootstrap(body, g)
        BY <1>2, <3>1 DEF Filtered
      <4> HIDE DEF body
      <4>2. /\ out.projects = WithStub(shown)
            /\ s \in SectionsOf(UNION {shown[p] : p \in DOMAIN shown \ {Personal}})
        BY <1>0, <4>1 DEF filterSidebarBootstrap, Empty
      <4> HIDE DEF shown, out
      <4> QED  BY <4>2 DEF SectionsOf
    <3>2. CASE r.kind = "project"
      <4>1. out = filterProjectDetail(body, g)
        BY <1>2, <3>2 DEF Filtered
      <4> HIDE DEF body
      <4> QED  BY <1>0, <4>1 DEF filterProjectDetail, Empty, Range
    <3> QED  BY <1>2, <3>1, <3>2
  <2>2. PICK p \in DOMAIN shown : \E t \in shown[p] : SectionOf[t] = s
    BY <2>1 DEF SectionsOf
  <2>3. PICK t \in shown[p] : SectionOf[t] = s
    BY <2>2
  <2>4. p \in DOMAIN out.projects /\ t \in out.projects[p] /\ t \in ThreadIds(g)
    <3> HIDE DEF out, body
    <3> QED  BY <2>1, <2>2, <2>3, ShownInScope
  <2> HIDE DEF shown, out
  <2>5. <<"thread", t>> \in NamedBy(out)
    BY <2>4, NamesApart DEF Range
  <2> QED  BY <1>1, <2>3, <2>4, <2>5 DEF out
<1>3. CASE ~(r.method = "GET" /\ r.kind \in {"sidebar", "project"})
  <2>1. out = body /\ body.sections = {}
    BY <1>3 DEF Filtered, Upstream, Empty
  <2> QED  BY <2>1
<1> QED  BY <1>2, <1>3

\* What is in scope may be opened, and its changes may be watched.
LEMMA InScopeIsServed ==
    ASSUME NEW g \in Grants
    PROVE  /\ \A t \in ThreadIds(g) : Serves(g, "transcript", <<"thread", t>>)
           /\ \A p \in ProjectIds(g) : Serves(g, "project", <<"project", p>>)
BY DEF Serves, computeAuthz, Reads, filterClientFrame, Scope, Named

\* Whatever a response lists, the guest may open and watch, but for the stub of the
\* personal project; and a section is only named for a thread that is shown in it
\* (responses.ts against authz.ts and frames.ts).
THEOREM ListedIsServedHolds == ViewSpec => []ListedIsServed
<1>1. ViewTypeOK /\ AuthorizedInv => ListedIsServed
  <2> SUFFICES ASSUME ViewTypeOK, AuthorizedInv, Pending PROVE ListedIsServed
    BY DEF ListedIsServed
  <2> DEFINE r == connection.request
             g == connection.token
             body == Upstream(r, home)
  <2>1. r \in Request /\ g \in Grants /\ home \in [Thread -> Project] /\ computeAuthz(g, r)
    BY ConnectionCases DEF ViewTypeOK, Pending, Exchange, AuthorizedInv
  <2>2. Response = Filtered(r, body, g) /\ Told = NamedBy(Filtered(r, body, g))
    BY DEF Told, Response
  <2> HIDE DEF r, g
  <2>3. \A t \in Thread : <<"thread", t>> \in Told => t \in ThreadIds(g)
    <3>1. Told \subseteq Scope(g) \cup {PersonalStub} \cup Named("section", Section)
      BY <2>1, <2>2, ToldWithinScope
    <3> QED  BY <3>1 DEF Scope, Named, PersonalStub
  <2>4. ASSUME NEW p \in DOMAIN Response.projects
        PROVE  p \in ProjectIds(g) \/ (p = Personal /\ Response.projects[p] = {})
    <3>1. CASE r.method = "GET" /\ r.kind \in {"sidebar", "project"}
      <4>1. Response \in {filterSidebarBootstrap(body, g), filterProjectDetail(body, g)}
        BY <2>2, <3>1 DEF Filtered
      <4> HIDE DEF body
      <4>2. Response.projects \in {ScopedProjects(body, g), WithStub(ScopedProjects(body, g))}
        BY <4>1 DEF filterSidebarBootstrap, filterProjectDetail, Empty
      <4> QED  BY <2>4, <4>2, ShownInScope
    <3>2. CASE ~(r.method = "GET" /\ r.kind \in {"sidebar", "project"})
      <4>1. Response = body
        BY <2>2, <3>2 DEF Filtered
      <4>2. DOMAIN body.projects = {}
        BY <3>2 DEF Upstream, Empty
      <4> QED  BY <2>4, <4>1, <4>2
    <3> QED  BY <3>1, <3>2
  <2>5. \A s \in Section : <<"section", s>> \in Told =>
           \E t \in Thread : SectionOf[t] = s /\ <<"thread", t>> \in Told
    BY <2>1, <2>2, NamesApart, SectionsShown
  <2> QED  BY <2>1, <2>3, <2>4, <2>5, InScopeIsServed DEF ListedIsServed, g
<1> QED  BY <1>1, ViewTypeCorrect, AuthorizedInvariance, PTL

\* The sidebar lists every thread of the grants that is in one of their projects
\* (responses.ts, filterSidebarBootstrap).
THEOREM GrantedThreadsListedHolds == ViewSpec => []GrantedThreadsListed
<1>1. ViewTypeOK => GrantedThreadsListed
  <2> SUFFICES ASSUME ViewTypeOK, Pending, connection.request = Reads("sidebar", None),
                      NEW t \in ThreadIds(connection.token),
                      home[t] \in ProjectIds(connection.token)
               PROVE  <<"thread", t>> \in Told
    BY DEF GrantedThreadsListed
  <2> DEFINE r == connection.request
             g == connection.token
             body == Upstream(r, home)
  <2>1. g \in Grants /\ t \in Thread /\ home[t] \in Project
    BY ConnectionCases DEF ViewTypeOK, Pending, Exchange, Grants, ThreadIds
  <2>2. r.kind = "sidebar" /\ r.method = "GET"
    BY DEF Reads
  <2>3. body.projects = Lists(Project, home)
    BY <2>2 DEF Upstream
  <2>4. home[t] \in DOMAIN body.projects /\ t \in body.projects[home[t]]
    BY <2>1, <2>3 DEF Lists
  <2>5. Filtered(r, body, g).projects = WithStub(ScopedProjects(body, g))
    BY <2>2 DEF Filtered, filterSidebarBootstrap, Empty
  <2>6. home[t] \in DOMAIN ScopedProjects(body, g) /\ t \in ScopedProjects(body, g)[home[t]]
    BY <2>4 DEF ScopedProjects, scopedThreads
  <2>7. t \in UNION Range(Filtered(r, body, g).projects)
    <3>1. /\ home[t] \in DOMAIN Filtered(r, body, g).projects
          /\ t \in Filtered(r, body, g).projects[home[t]]
      <4> HIDE DEF body
      <4> QED  BY <2>5, <2>6, ShownInScope
    <3> QED  BY <3>1 DEF Range
  <2>8. Told = NamedBy(Filtered(r, body, g))
    BY DEF Told, Response
  <2> QED  BY <2>7, <2>8, NamesApart
<1> QED  BY <1>1, ViewTypeCorrect, PTL

-----------------------------------------------------------------------------
\* What becomes of subscriptions.

Says(f, type, x) == f.type = type /\ f.target = x

\* BB's subscriptions include x once the frames were relayed: it has it or a frame
\* subscribes to it, and no later frame ends that.
Resulting(x, frames, topics) ==
    \/ /\ x \in topics
       /\ \A j \in DOMAIN frames : ~Says(frames[j], "unsubscribe", x)
    \/ \E i \in DOMAIN frames :
          /\ Says(frames[i], "subscribe", x)
          /\ \A j \in DOMAIN frames : j > i => ~Says(frames[j], "unsubscribe", x)

\* A topic granted all along is in the scope of the moment.
SteadyInv == steady \subseteq Scope(grants)

\* What the page wants, of the topics granted all along, is what BB will serve
\* once the frames under way were relayed.
CarriedInv ==
    IF connection.kind = "socket"
      THEN \A x \in steady :
              x \in wanted <=> Resulting(x, connection.fromGuest, connection.subscribed)
      ELSE wanted = {}

\* One more frame comes last.
LEMMA ResultingAppend ==
    ASSUME NEW frames \in Seq(ClientFrame), NEW f \in ClientFrame, NEW x, NEW topics
    PROVE  Resulting(x, Append(frames, f), topics) <=>
             \/ Says(f, "subscribe", x)
             \/ (Resulting(x, frames, topics) /\ ~Says(f, "unsubscribe", x))
<1> DEFINE n == Len(frames)
           more == Append(frames, f)
<1>1. /\ n \in Nat /\ DOMAIN frames = 1..n /\ DOMAIN more = 1..(n + 1)
      /\ more[n + 1] = f /\ \A i \in 1..n : more[i] = frames[i]
  OBVIOUS
<1>2. Says(f, "subscribe", x) => ~Says(f, "unsubscribe", x)
  BY DEF Says
<1> HIDE DEF n, more
<1>3. ASSUME Says(f, "subscribe", x) PROVE Resulting(x, more, topics)
  <2>1. n + 1 \in DOMAIN more /\ \A j \in DOMAIN more : ~(j > n + 1)
    BY <1>1
  <2> QED  BY <1>1, <1>3, <2>1 DEF Resulting
<1>4. ASSUME Resulting(x, frames, topics), ~Says(f, "unsubscribe", x)
      PROVE  Resulting(x, more, topics)
  <2>1. \A j \in DOMAIN more : j \in DOMAIN frames \/ more[j] = f
    BY <1>1
  <2>2. \A i \in DOMAIN frames : i \in DOMAIN more /\ more[i] = frames[i]
    BY <1>1
  <2> QED  BY <1>4, <2>1, <2>2 DEF Resulting
<1>5. ASSUME Resulting(x, more, topics), ~Says(f, "subscribe", x)
      PROVE  Resulting(x, frames, topics) /\ ~Says(f, "unsubscribe", x)
  <2>1. n + 1 \in DOMAIN more /\ \A i \in DOMAIN frames : i \in DOMAIN more /\ more[i] = frames[i]
    BY <1>1
  <2>2. \A i \in DOMAIN more : i \in DOMAIN frames \/ i = n + 1
    BY <1>1
  <2>3. \A i \in DOMAIN frames : n + 1 > i
    BY <1>1
  <2> QED  BY <1>1, <1>5, <2>1, <2>2, <2>3 DEF Resulting
<1> QED  BY <1>2, <1>3, <1>4, <1>5 DEF more

\* The first frame may be taken into account at once.
LEMMA ResultingTail ==
    ASSUME NEW frames \in Seq(ClientFrame), frames # <<>>, NEW x, NEW topics, NEW later,
           x \in later <=> (Says(Head(frames), "subscribe", x)
                            \/ (x \in topics /\ ~Says(Head(frames), "unsubscribe", x)))
    PROVE  Resulting(x, frames, topics) <=> Resulting(x, Tail(frames), later)
<1> DEFINE n == Len(frames)
           f == Head(frames)
           left == Tail(frames)
<1>1. /\ n \in Nat /\ n >= 1 /\ DOMAIN frames = 1..n /\ DOMAIN left = 1..(n - 1)
      /\ frames[1] = f /\ \A i \in 1..(n - 1) : left[i] = frames[i + 1]
  OBVIOUS
<1>2. Says(f, "subscribe", x) => ~Says(f, "unsubscribe", x)
  BY DEF Says
<1>3. x \in later <=> Says(f, "subscribe", x) \/ (x \in topics /\ ~Says(f, "unsubscribe", x))
  OBVIOUS
<1> HIDE DEF n, f, left
<1>4. /\ \A i \in DOMAIN frames : i = 1 \/ (i - 1 \in DOMAIN left /\ left[i - 1] = frames[i])
      /\ \A i \in DOMAIN left : i + 1 \in DOMAIN frames /\ left[i] = frames[i + 1]
      /\ 1 \in DOMAIN frames
  BY <1>1
<1>5. ASSUME Resulting(x, frames, topics) PROVE Resulting(x, left, later)
  <2>1. CASE x \in topics /\ \A j \in DOMAIN frames : ~Says(frames[j], "unsubscribe", x)
    BY <1>1, <1>3, <1>4, <2>1 DEF Resulting
  <2>2. ASSUME NEW i \in DOMAIN frames, Says(frames[i], "subscribe", x),
               \A j \in DOMAIN frames : j > i => ~Says(frames[j], "unsubscribe", x)
        PROVE  Resulting(x, left, later)
    <3>1. \A j \in DOMAIN left : j + 1 > i => ~Says(left[j], "unsubscribe", x)
      BY <1>4, <2>2
    <3>2. CASE i = 1
      <4>1. \A j \in DOMAIN left : j + 1 > i
        BY <1>1, <3>2
      <4> QED  BY <1>1, <1>3, <2>2, <3>1, <3>2, <4>1 DEF Resulting
    <3>3. CASE i # 1
      <4>1. i - 1 \in DOMAIN left /\ Says(left[i - 1], "subscribe", x)
        BY <1>4, <2>2, <3>3
      <4>2. \A j \in DOMAIN left : j > i - 1 => j + 1 > i
        BY <1>1, <2>2
      <4> QED  BY <3>1, <4>1, <4>2 DEF Resulting
    <3> QED  BY <3>2, <3>3
  <2> QED  BY <1>5, <2>1, <2>2 DEF Resulting
<1>6. ASSUME Resulting(x, left, later) PROVE Resulting(x, frames, topics)
  <2>1. CASE x \in later /\ \A j \in DOMAIN left : ~Says(left[j], "unsubscribe", x)
    <3>1. \A j \in DOMAIN frames : j > 1 => ~Says(frames[j], "unsubscribe", x)
      BY <1>1, <1>4, <2>1
    <3>2. CASE Says(f, "subscribe", x)
      BY <1>1, <1>4, <3>1, <3>2 DEF Resulting
    <3>3. CASE x \in topics /\ ~Says(f, "unsubscribe", x)
      <4>1. \A j \in DOMAIN frames : j = 1 \/ j > 1
        BY <1>1
      <4>2. \A j \in DOMAIN frames : ~Says(frames[j], "unsubscribe", x)
        BY <1>1, <3>1, <3>3, <4>1
      <4> QED  BY <3>3, <4>2 DEF Resulting
    <3> QED  BY <1>3, <2>1, <3>2, <3>3
  <2>2. ASSUME NEW i \in DOMAIN left, Says(left[i], "subscribe", x),
               \A j \in DOMAIN left : j > i => ~Says(left[j], "unsubscribe", x)
        PROVE  Resulting(x, frames, topics)
    <3>1. i + 1 \in DOMAIN frames /\ Says(frames[i + 1], "subscribe", x)
      BY <1>4, <2>2
    <3>2. ASSUME NEW j \in DOMAIN frames, j > i + 1 PROVE ~Says(frames[j], "unsubscribe", x)
      <4>1. j # 1 /\ j - 1 > i
        BY <1>1, <2>2, <3>2
      <4> QED  BY <1>4, <2>2, <4>1
    <3> QED  BY <3>1, <3>2 DEF Resulting
  <2> QED  BY <1>6, <2>1, <2>2 DEF Resulting
<1> QED  BY <1>5, <1>6 DEF f, left

\* What a frame makes of a topic's subscription.
LEMMA SubscribedIs ==
    ASSUME NEW f \in ClientFrame, NEW topics, NEW x
    PROVE  x \in Subscribed(f, topics) <=>
             Says(f, "subscribe", x) \/ (x \in topics /\ ~Says(f, "unsubscribe", x))
BY DEF Subscribed, Says, ClientFrame

LEMMA SteadyStep == SteadyInv /\ [ViewNext]_vars => SteadyInv'
<1> SUFFICES ASSUME SteadyInv, [ViewNext]_vars PROVE SteadyInv'
  OBVIOUS
<1>1. CASE OpenSocket
  BY <1>1 DEF OpenSocket, world, SteadyInv
<1>2. CASE GrantsChange
  BY <1>2 DEF GrantsChange, SteadyInv
<1>3. CASE UNCHANGED <<grants, steady>> \/ (grants' = grants /\ steady' = {})
  BY <1>3 DEF SteadyInv, Scope, ThreadIds, ProjectIds
<1>4. CASE Answer \/ EndExchange \/ UpstreamOpens \/ SocketEnds \/ RelayFromGuest \/ RelayFromBB \/ Announce
  BY <1>3, <1>4 DEF Answer, EndExchange, UpstreamOpens, SocketEnds, RelayFromGuest, RelayFromBB,
                    Announce, Aborted, Drop, world, history
<1>5. ASSUME NEW r \in Request, Ask(r) PROVE SteadyInv'
  BY <1>3, <1>5 DEF Ask, world
<1>6. ASSUME NEW f \in Sent, GuestSends(f) PROVE SteadyInv'
  BY <1>3, <1>6 DEF GuestSends, world
<1>7. ASSUME NEW f \in ServerFrame, BBSends(f) PROVE SteadyInv'
  BY <1>3, <1>7 DEF BBSends, world, history
<1>8. ASSUME NEW t \in Thread, Move(t) PROVE SteadyInv'
  BY <1>3, <1>8 DEF Move, history
<1> QED  BY <1>1, <1>2, <1>3, <1>4, <1>5, <1>6, <1>7, <1>8 DEF ViewNext, vars, world

\* The steps that leave the frames of the guest and the subscriptions alone.
LEMMA CarriedOn ==
    ASSUME CarriedInv, wanted' = wanted, steady' \subseteq steady,
           connection'.kind = "socket" <=> connection.kind = "socket",
           connection.kind = "socket" =>
              /\ connection'.fromGuest = connection.fromGuest
              /\ connection'.subscribed = connection.subscribed
    PROVE  CarriedInv'
BY DEF CarriedInv, Resulting

LEMMA CarriedStep ==
    ViewTypeOK /\ SteadyInv /\ CarriedInv /\ [ViewNext]_vars => CarriedInv'
<1> SUFFICES ASSUME ViewTypeOK, SteadyInv, CarriedInv, [ViewNext]_vars PROVE CarriedInv'
  OBVIOUS
<1>0. connection.kind = "socket" => connection \in Socket
  BY ConnectionCases DEF ViewTypeOK
<1>1. CASE Drop
  BY <1>1 DEF Drop, Closed, CarriedInv
<1>2. CASE UNCHANGED vars \/ GrantsChange \/ \E t \in Thread : Move(t)
  BY <1>2, CarriedOn DEF vars, GrantsChange, Move, history
<1>3. ASSUME NEW r \in Request, Ask(r) PROVE CarriedInv'
  BY <1>3, CarriedOn DEF Ask, Closed
<1>4. CASE Answer \/ EndExchange
  BY <1>4, CarriedOn DEF Answer, EndExchange, Closed, history
<1>5. CASE Announce
  <2>1. wanted' = {} /\ connection'.kind # "socket"
    <3>1. CASE connection.kind = "exchange"
      <4>1. connection \in Exchange
        BY <3>1, ConnectionCases DEF ViewTypeOK
      <4> QED  BY <1>5, <3>1, <4>1 DEF Announce, Aborted, Exchange
    <3>2. CASE connection.kind # "exchange"
      BY <1>5, <3>2 DEF Announce, Aborted, Closed
    <3> QED  BY <3>1, <3>2
  <2> QED  BY <2>1 DEF CarriedInv
<1>6. CASE OpenSocket
  <2>1. wanted' = {} /\ connection'.subscribed = {} /\ connection'.fromGuest = <<>>
    BY <1>6 DEF OpenSocket, Closed, CarriedInv
  <2>2. \A x : ~Resulting(x, connection'.fromGuest, connection'.subscribed)
    BY <2>1 DEF Resulting
  <2> QED  BY <2>1, <2>2 DEF CarriedInv, Resulting
<1>7. CASE UpstreamOpens
  <2>1. /\ connection'.kind = "socket" /\ connection'.fromGuest = connection.fromGuest
        /\ connection'.subscribed = connection.subscribed
    BY <1>0, <1>7 DEF UpstreamOpens, Socket
  <2> QED  BY <1>7, <2>1, CarriedOn DEF UpstreamOpens, history
<1>8. ASSUME NEW f \in ServerFrame, BBSends(f) PROVE CarriedInv'
  <2>1. /\ connection'.kind = "socket" /\ connection'.fromGuest = connection.fromGuest
        /\ connection'.subscribed = connection.subscribed
    BY <1>0, <1>8 DEF BBSends, Socket
  <2> QED  BY <1>8, <2>1, CarriedOn DEF BBSends, history
<1>9. CASE RelayFromBB
  <2>1. CASE ~Drop
    <3>1. connection' = [connection EXCEPT !.fromBB = Tail(@)]
      BY <1>9, <2>1 DEF RelayFromBB
    <3>2. /\ connection'.kind = "socket" /\ connection'.fromGuest = connection.fromGuest
          /\ connection'.subscribed = connection.subscribed
      BY <1>0, <1>9, <3>1 DEF RelayFromBB, Socket
    <3> QED  BY <1>9, <2>1, <3>2, CarriedOn DEF RelayFromBB, history
  <2> QED  BY <1>1, <2>1
<1>10. ASSUME NEW f \in Sent, GuestSends(f) PROVE CarriedInv'
  <2>1. connection \in Socket /\ f \in ClientFrame /\ connection.fromGuest \in Seq(ClientFrame)
    BY <1>0, <1>10, ViewAssumption DEF GuestSends, Socket
  <2>2. /\ connection'.kind = "socket" /\ connection'.fromGuest = Append(connection.fromGuest, f)
        /\ connection'.subscribed = connection.subscribed
        /\ steady' = steady /\ wanted' = Subscribed(f, wanted) \cap Topic
    BY <1>10, <2>1 DEF GuestSends, Socket
  <2>3. ASSUME NEW x \in steady
        PROVE  x \in wanted' <=> Resulting(x, connection'.fromGuest, connection'.subscribed)
    <3>1. x \in Topic
      BY DEF ViewTypeOK
    <3>2. x \in wanted <=> Resulting(x, connection.fromGuest, connection.subscribed)
      BY <1>10 DEF GuestSends, CarriedInv
    <3>3. x \in Subscribed(f, wanted) <=>
             Says(f, "subscribe", x) \/ (x \in wanted /\ ~Says(f, "unsubscribe", x))
      BY <2>1, SubscribedIs
    <3> QED  BY <2>1, <2>2, <3>1, <3>2, <3>3, ResultingAppend
  <2> QED  BY <2>2, <2>3 DEF CarriedInv, Resulting
<1>11. CASE RelayFromGuest /\ ~Drop
  <2> DEFINE f == Head(connection.fromGuest)
             topics == connection.subscribed
             later == connection'.subscribed
  <2>1. /\ connection \in Socket /\ connection.fromGuest # <<>> /\ f \in ClientFrame
        /\ filterClientFrame(f, grants) # "close"
        /\ connection'.kind = "socket" /\ connection'.fromGuest = Tail(connection.fromGuest)
        /\ later = IF filterClientFrame(f, grants) = "forward" THEN Subscribed(f, topics) ELSE topics
        /\ UNCHANGED <<wanted, steady>>
    BY <1>11, GuestRelayed
  <2>2. connection.fromGuest \in Seq(ClientFrame)
    BY <2>1 DEF Socket
  <2>3. ASSUME NEW x \in steady
        PROVE  x \in wanted' <=> Resulting(x, connection'.fromGuest, later)
    <3>1. x \in Scope(grants)
      BY DEF SteadyInv
    <3>2. x \in later <=> (Says(f, "subscribe", x) \/ (x \in topics /\ ~Says(f, "unsubscribe", x)))
      <4>1. CASE filterClientFrame(f, grants) = "forward"
        BY <2>1, <4>1, SubscribedIs
      <4>2. CASE filterClientFrame(f, grants) # "forward"
        <5>1. ~Says(f, "subscribe", x) /\ ~Says(f, "unsubscribe", x)
          BY <2>1, <3>1, <4>2 DEF filterClientFrame, Says, ClientFrame
        <5> QED  BY <2>1, <4>2, <5>1
      <4> QED  BY <4>1, <4>2
    <3>3. x \in wanted <=> Resulting(x, connection.fromGuest, topics)
      BY <2>1 DEF Socket, CarriedInv
    <3> HIDE DEF later
    <3>4. Resulting(x, connection.fromGuest, topics) <=> Resulting(x, Tail(connection.fromGuest), later)
      BY <2>1, <2>2, <3>2, ResultingTail
    <3> QED  BY <2>1, <3>3, <3>4
  <2> QED  BY <2>1, <2>3 DEF CarriedInv, Resulting
<1> QED  BY <1>1, <1>2, <1>3, <1>4, <1>5, <1>6, <1>7, <1>8, <1>9, <1>10, <1>11
         DEF ViewNext, SocketEnds

\* What the page wants and BB serves agree, but for the frames under way.
LEMMA CarriedInvariance == ViewSpec => [](SteadyInv /\ CarriedInv)
<1>1. ViewInit => SteadyInv /\ CarriedInv
  BY DEF ViewInit, SteadyInv, CarriedInv, Closed
<1> QED  BY <1>1, SteadyStep, CarriedStep, ViewTypeCorrect, PTL DEF ViewSpec

\* Once everything the page sent was relayed, BB's subscriptions are the page's,
\* for topics it was allowed all along (index.ts, guest.pause and the chain of
\* relay).
THEOREM SubscriptionsCarriedHolds == ViewSpec => []SubscriptionsCarried
<1>1. CarriedInv => SubscriptionsCarried
  BY DEF CarriedInv, SubscriptionsCarried, Resulting
<1> QED  BY <1>1, CarriedInvariance, PTL

\* A change of a thread that was granted all along reaches the guest, whatever
\* project it was moved to (frames.ts, relayThreadChanged).
THEOREM ChangesReachGuestHolds == ViewSpec => ChangesReachGuest
<1> DEFINE Reaches ==
      \A t \in Thread :
          /\ RelayFromBB
          /\ Head(connection.fromBB).type = "thread" /\ Head(connection.fromBB).id = t
          /\ <<"thread", t>> \in steady
          => <<"thread", t>> \in delivered'.names
<1>1. ViewTypeOK /\ SteadyInv /\ [ViewNext]_vars => [Reaches]_vars
  <2> SUFFICES ASSUME ViewTypeOK, SteadyInv, NEW t \in Thread, RelayFromBB,
                      Head(connection.fromBB).type = "thread",
                      Head(connection.fromBB).id = t, <<"thread", t>> \in steady
               PROVE  <<"thread", t>> \in delivered'.names
    OBVIOUS
  <2> DEFINE f == Head(connection.fromBB)
             out == [f EXCEPT !.project = IF @ \in ProjectIds(grants) THEN @ ELSE None]
  <2>1. f \in ServerFrame
    <3>1. connection.fromBB \in Seq(ServerFrame) /\ connection.fromBB # <<>>
      BY ConnectionCases DEF ViewTypeOK, RelayFromBB, Socket
    <3> QED  BY <3>1, QueueSteps
  <2>2. t \in ThreadIds(grants)
    BY DEF SteadyInv, Scope, Named
  <2>3. Resolves
    BY <2>2 DEF Resolves, ThreadIds
  <2>4. filterServerFrame(f, grants) = {out}
    BY <2>2 DEF filterServerFrame
  <2>5. out.type = "thread" /\ out.id = t
    BY <2>1 DEF ServerFrame
  <2>6. <<"thread", t>> \in NamedByFrame(out)
    <3> HIDE DEF out
    <3> QED  BY <2>5 DEF NamedByFrame
  <2>7. delivered'.names = UNION {NamedByFrame(g) : g \in filterServerFrame(f, grants)}
    BY <2>3 DEF RelayFromBB
  <2> HIDE DEF out, f
  <2> QED  BY <2>4, <2>6, <2>7
<1> QED  BY <1>1, CarriedInvariance, ViewTypeCorrect, PTL DEF ViewSpec, ChangesReachGuest
=============================================================================
