------------------------- MODULE RelayTunnel_proofs -------------------------
(***************************************************************************)
(* What holds of the tunnel for any number of guests, visitors, tunnel     *)
(* sockets, streams and messages.                                          *)
(***************************************************************************)
EXTENDS RelayTunnel, Wire, SequenceTheorems, FiniteSetTheorems, WellFoundedInduction, TLAPS

-----------------------------------------------------------------------------
\* The greatest of some numbers.

LessThan == {pair \in Nat \X Nat : pair[1] < pair[2]}

\* There is no infinite descent.
LEMMA LessThanWellFounded == IsWellFoundedOn(LessThan, Nat)
BY NatLessThanWellFounded DEF OpToRel, LessThan

\* Numbers that are bounded have a greatest one.
LEMMA MaxExists ==
    ASSUME NEW b \in Nat, NEW S \in SUBSET (0 .. b), S # {}
    PROVE  Max(S) \in S /\ \A y \in S : Max(S) >= y
<1> DEFINE T == {z \in Nat : b - z \in S}
<1>1. \A y \in S : y \in Nat /\ b - y \in Nat /\ b - (b - y) = y
  <2> SUFFICES ASSUME NEW y \in S PROVE y \in Nat /\ b - y \in Nat /\ b - (b - y) = y
    OBVIOUS
  <2>1. y \in 0 .. b
    OBVIOUS
  <2> QED  BY <2>1
<1>2. T \subseteq Nat /\ T # {}
  BY <1>1
<1>3. PICK x \in T : \A y \in T : <<y, x>> \notin LessThan
  <2> HIDE DEF T
  <2> QED  BY <1>2, LessThanWellFounded, WFMin
<1>4. b - x \in S /\ \A y \in S : b - x >= y
  <2>1. ASSUME NEW y \in S PROVE b - x >= y
    <3>1. b - y \in T
      BY <1>1
    <3>2. ~ (b - y < x)
      BY <1>3, <3>1 DEF LessThan
    <3> QED  BY <1>1, <3>2
  <2> QED  BY <2>1
<1> QED  BY <1>4 DEF Max

-----------------------------------------------------------------------------
\* Types.

\* The frames either end sends: which kind names a guest, which a visitor.
Frames ==
    [type : {"open-http", "resp-head", "body-end"}, id : StreamId, of : Guest, info : BOOLEAN]
    \cup [type : {"open-ws"}, id : StreamId, of : Visitor, info : BOOLEAN]
    \cup [type : {"close-stream"}, id : StreamId, of : Guest \cup Visitor, info : BOOLEAN]
    \cup [type : {"ws-data"}, id : StreamId, of : Visitor, info : 1..MaxMessages]

\* A map from some stream ids to values of S.
Map(f, S) == DOMAIN f \subseteq StreamId /\ f \in [DOMAIN f -> S]

Message     == Visitor \X (1..MaxMessages)
PendingHttp == [guest : Guest, phase : {"head", "body", "bodiless", "orphan"}, tunnel : Tunnel]
Accepted    == [visitor : Visitor, closing : BOOLEAN]
HttpStream  == [of : Guest, phase : {"body", "executing", "streaming"}]
WsStream    == [of : Visitor, open : BOOLEAN, buffered : Seq(Message)]
SocketState == {"unused", "open", "dead", "closing", "gone"}
ReplyState  == {"none", "waiting", "head", "done", "failed", "left"}

RelayTypes ==
    /\ nextStreamId \in Nat \ {0}
    /\ Map(pending, PendingHttp)
    /\ pumps \subseteq StreamId \X Tunnel \X Guest
    /\ Map(visitors, Accepted)
    /\ sockets \in [Tunnel -> SocketState]

TunnelTypes == down \in [Tunnel -> Seq(Frames)] /\ up \in [Tunnel -> Seq(Frames)]

ClientTypes ==
    /\ session \in Tunnel \cup {0}
    /\ Map(httpStreams, HttpStream)
    /\ Map(wsStreams, WsStream)
    /\ DOMAIN httpStreams \cap DOMAIN wsStreams = {}
    /\ lingering \subseteq StreamId \X Visitor

GuestTypes ==
    /\ reply \in [Guest -> ReplyState]
    /\ gotFrom \in [Guest -> SUBSET (Guest \cup Visitor)]
    /\ visit \in [Visitor -> {"none", "open", "closed"}]
    /\ sent \in [Visitor -> 0..MaxMessages] /\ told \in [Visitor -> 0..MaxMessages]
    /\ served \in [Visitor -> Seq(Message)] /\ received \in [Visitor -> Seq(Message)]

\* Every id drawn was drawn for a guest or a visitor of its own, so that ids stay
\* within StreamId; also when the count resumes above the visitors' ids.
Started ==
    Cardinality({g \in Guest : reply[g] # "none"}) + Cardinality({v \in Visitor : visit[v] # "none"})

IdsCounted ==
    /\ nextStreamId <= Started + 1
    /\ \A i \in DOMAIN visitors : i < nextStreamId

Types == RelayTypes /\ TunnelTypes /\ ClientTypes /\ GuestTypes /\ IdsCounted

-----------------------------------------------------------------------------
\* Lemmas about maps, frames and counts.

\* A map with one stream more, or less, or another value for one, is a map.
LEMMA PutMap ==
    ASSUME NEW S, NEW f, Map(f, S), NEW i \in StreamId, NEW value \in S
    PROVE  Map(Put(f, i, value), S) /\ DOMAIN Put(f, i, value) = DOMAIN f \cup {i}
BY DEF Map, Put

LEMMA WithoutMap ==
    ASSUME NEW S, NEW f, Map(f, S), NEW i
    PROVE  Map(Without(f, i), S) /\ DOMAIN Without(f, i) = DOMAIN f \ {i}
BY DEF Map, Without, Restrict

LEMMA NoMapMap ==
    ASSUME NEW S
    PROVE  Map(NoMap, S) /\ DOMAIN NoMap = {}
BY DEF Map, NoMap

\* What a frame of each kind carries.
LEMMA FrameFields ==
    ASSUME NEW f \in Frames
    PROVE  /\ f.id \in StreamId /\ f.of \in Guest \cup Visitor
           /\ f.type \in FrameType
           /\ f.type \in {"open-http", "resp-head", "body-end"} => f.of \in Guest /\ f.info \in BOOLEAN
           /\ f.type = "open-ws" => f.of \in Visitor
           /\ f.type = "ws-data" => f.of \in Visitor /\ f.info \in 1..MaxMessages
           /\ f.type # "ws-data" => f.info \in BOOLEAN
BY DEF Frames, FrameType

\* Sending and taking frames leaves queues of frames.
LEMMA Queued ==
    ASSUME NEW queues \in [Tunnel -> Seq(Frames)], NEW t, NEW f \in Frames
    PROVE  [queues EXCEPT ![t] = Append(@, f)] \in [Tunnel -> Seq(Frames)]
<1>1. CASE t \in Tunnel
  <2>1. queues[t] \in Seq(Frames)
    BY <1>1
  <2>2. Append(queues[t], f) \in Seq(Frames)
    BY <2>1
  <2> QED  BY <1>1, <2>2, Zenon
<1>2. CASE t \notin Tunnel
  BY <1>2, Zenon
<1> QED  BY <1>1, <1>2

LEMMA Emptied ==
    ASSUME NEW queues \in [Tunnel -> Seq(Frames)], NEW t
    PROVE  [queues EXCEPT ![t] = <<>>] \in [Tunnel -> Seq(Frames)]
<1>1. <<>> \in Seq(Frames)
  OBVIOUS
<1> QED  BY <1>1, Zenon

\* So with a visitor's messages.
LEMMA Given ==
    ASSUME NEW got \in [Visitor -> Seq(Message)], NEW v, NEW m \in Message
    PROVE  [got EXCEPT ![v] = Append(@, m)] \in [Visitor -> Seq(Message)]
<1>1. CASE v \in Visitor
  <2>1. got[v] \in Seq(Message)
    BY <1>1
  <2>2. Append(got[v], m) \in Seq(Message)
    BY <2>1
  <2> QED  BY <1>1, <2>2, Zenon
<1>2. CASE v \notin Visitor
  BY <1>2, Zenon
<1> QED  BY <1>1, <1>2

LEMMA SentDownTyped ==
    ASSUME TunnelTypes, NEW t, NEW f \in Frames
    PROVE  SentDown(t, f) \in [Tunnel -> Seq(Frames)]
BY Queued, Zenon DEF TunnelTypes, SentDown

LEMMA SentUpTyped ==
    ASSUME TunnelTypes, NEW f \in Frames
    PROVE  SentUp(f) \in [Tunnel -> Seq(Frames)]
BY Queued, Zenon DEF TunnelTypes, SentUp

LEMMA TakenTyped ==
    ASSUME TunnelTypes, ClientTypes, NEW types, TakeDown(types)
    PROVE  /\ session \in Tunnel
           /\ Head(down[session]) \in Frames /\ Head(down[session]).type \in types
           /\ Taken \in [Tunnel -> Seq(Frames)]
BY DEF TunnelTypes, ClientTypes, TakeDown, Taken

LEMMA TakeUpTyped ==
    ASSUME TunnelTypes, NEW t \in Tunnel, NEW type, TakeUp(t, type)
    PROVE  /\ Head(up[t]) \in Frames /\ Head(up[t]).type = type
           /\ up' \in [Tunnel -> Seq(Frames)]
BY DEF TunnelTypes, TakeUp

\* Ids are drawn while one is left, and counted.
LEMMA StartedType ==
    ASSUME GuestTypes
    PROVE  /\ IsFiniteSet({g \in Guest : reply[g] # "none"})
           /\ IsFiniteSet({v \in Visitor : visit[v] # "none"})
           /\ Started \in Nat /\ Started <= Cardinality(Guest) + Cardinality(Visitor)
           /\ Cardinality(Guest) \in Nat /\ Cardinality(Visitor) \in Nat
<1> DEFINE G == {g \in Guest : reply[g] # "none"}
           V == {v \in Visitor : visit[v] # "none"}
<1>1. G \in SUBSET Guest /\ V \in SUBSET Visitor
  OBVIOUS
<1> HIDE DEF G, V
<1>2. IsFiniteSet(G) /\ IsFiniteSet(V)
      /\ Cardinality(G) <= Cardinality(Guest) /\ Cardinality(V) <= Cardinality(Visitor)
  BY <1>1, FS_Subset, TunnelAssumption
<1>3. /\ Cardinality(G) \in Nat /\ Cardinality(V) \in Nat
      /\ Cardinality(Guest) \in Nat /\ Cardinality(Visitor) \in Nat
  BY <1>2, FS_CardinalityType, TunnelAssumption
<1>4. Started = Cardinality(G) + Cardinality(V)
  BY DEF Started, G, V
<1>5. Started \in Nat /\ Started <= Cardinality(Guest) + Cardinality(Visitor)
  BY <1>2, <1>3, <1>4
<1> QED  BY <1>2, <1>3, <1>5 DEF G, V

\* Nobody's start is taken back.
LEMMA StartedGrows ==
    ASSUME GuestTypes, GuestTypes',
           \A g \in Guest : reply[g] # "none" => reply'[g] # "none",
           \A v \in Visitor : visit[v] # "none" => visit'[v] # "none"
    PROVE  Started <= Started' /\ Started \in Nat /\ Started' \in Nat
<1> DEFINE G  == {g \in Guest : reply[g] # "none"}
           V  == {v \in Visitor : visit[v] # "none"}
           G2 == {g \in Guest : reply'[g] # "none"}
           V2 == {v \in Visitor : visit'[v] # "none"}
<1>1. G \in SUBSET G2 /\ V \in SUBSET V2
  OBVIOUS
<1>2. G2 \in SUBSET Guest /\ V2 \in SUBSET Visitor
  OBVIOUS
<1>3. Started = Cardinality(G) + Cardinality(V) /\ Started' = Cardinality(G2) + Cardinality(V2)
  BY DEF Started
<1> HIDE DEF G, V, G2, V2
<1>4. IsFiniteSet(G2) /\ IsFiniteSet(V2)
  BY <1>2, FS_Subset, TunnelAssumption
<1>5. /\ IsFiniteSet(G) /\ IsFiniteSet(V)
      /\ Cardinality(G) <= Cardinality(G2) /\ Cardinality(V) <= Cardinality(V2)
  BY <1>1, <1>4, FS_Subset
<1>6. /\ Cardinality(G) \in Nat /\ Cardinality(V) \in Nat
      /\ Cardinality(G2) \in Nat /\ Cardinality(V2) \in Nat
  BY <1>4, <1>5, FS_CardinalityType
<1> QED  BY <1>3, <1>5, <1>6

\* A guest that starts is counted, and had an id left.
LEMMA GuestStarts ==
    ASSUME GuestTypes, NEW g \in Guest, reply[g] = "none",
           reply' = [reply EXCEPT ![g] = "waiting"], visit' = visit
    PROVE  Started' = Started + 1 /\ Started < Cardinality(Guest) + Cardinality(Visitor)
<1> DEFINE G  == {x \in Guest : reply[x] # "none"}
           V  == {v \in Visitor : visit[v] # "none"}
           G2 == {x \in Guest : reply'[x] # "none"}
<1>1. G2 = G \cup {g} /\ g \notin G /\ G2 \in SUBSET Guest
  BY DEF GuestTypes
<1>2. Started = Cardinality(G) + Cardinality(V) /\ Started' = Cardinality(G2) + Cardinality(V)
  BY DEF Started
<1>3. G \in SUBSET Guest /\ V \in SUBSET Visitor
  OBVIOUS
<1> HIDE DEF G, V, G2
<1>4. IsFiniteSet(G) /\ IsFiniteSet(V) /\ Cardinality(V) <= Cardinality(Visitor)
      /\ Cardinality(G2) <= Cardinality(Guest)
  BY <1>1, <1>3, FS_Subset, TunnelAssumption
<1>5. Cardinality(G2) = Cardinality(G) + 1
  BY <1>1, <1>4, FS_AddElement
<1>6. /\ Cardinality(G) \in Nat /\ Cardinality(V) \in Nat
      /\ Cardinality(Guest) \in Nat /\ Cardinality(Visitor) \in Nat
  BY <1>4, FS_CardinalityType, TunnelAssumption
<1> QED  BY <1>2, <1>4, <1>5, <1>6

\* So does a visitor.
LEMMA VisitorStarts ==
    ASSUME GuestTypes, NEW v \in Visitor, visit[v] = "none",
           visit' = [visit EXCEPT ![v] = "open"], reply' = reply
    PROVE  Started' = Started + 1 /\ Started < Cardinality(Guest) + Cardinality(Visitor)
<1> DEFINE G  == {g \in Guest : reply[g] # "none"}
           V  == {x \in Visitor : visit[x] # "none"}
           V2 == {x \in Visitor : visit'[x] # "none"}
<1>1. V2 = V \cup {v} /\ v \notin V /\ V2 \in SUBSET Visitor
  BY DEF GuestTypes
<1>2. Started = Cardinality(G) + Cardinality(V) /\ Started' = Cardinality(G) + Cardinality(V2)
  BY DEF Started
<1>3. G \in SUBSET Guest /\ V \in SUBSET Visitor
  OBVIOUS
<1> HIDE DEF G, V, V2
<1>4. IsFiniteSet(G) /\ IsFiniteSet(V) /\ Cardinality(G) <= Cardinality(Guest)
      /\ Cardinality(V2) <= Cardinality(Visitor)
  BY <1>1, <1>3, FS_Subset, TunnelAssumption
<1>5. Cardinality(V2) = Cardinality(V) + 1
  BY <1>1, <1>4, FS_AddElement
<1>6. /\ Cardinality(G) \in Nat /\ Cardinality(V) \in Nat
      /\ Cardinality(Guest) \in Nat /\ Cardinality(Visitor) \in Nat
  BY <1>4, FS_CardinalityType, TunnelAssumption
<1> QED  BY <1>2, <1>4, <1>5, <1>6

\* The active tunnel is a tunnel that reads OPEN.
LEMMA ActiveTunnelType ==
    /\ ActiveTunnel \in Tunnel \cup {0}
    /\ ActiveTunnel # 0 => Usable(ActiveTunnel)
<1> DEFINE S == {t \in Tunnel : Usable(t)}
<1>1. MaxDials \in Nat
  BY TunnelAssumption
<1>2. S \in SUBSET (0 .. MaxDials)
  BY <1>1 DEF Tunnel
<1>3. S # {} => Max(S) \in S
  <2> HIDE DEF S
  <2> QED  BY <1>1, <1>2, MaxExists
<1> QED  BY <1>3 DEF ActiveTunnel

-----------------------------------------------------------------------------
\* Every action keeps the types.

\* Where no id is drawn, nobody's start is taken back and no visitor is accepted,
\* the count holds.
LEMMA CountKept ==
    ASSUME Types, GuestTypes', nextStreamId' = nextStreamId,
           DOMAIN visitors' \subseteq DOMAIN visitors,
           \A g \in Guest : reply[g] # "none" => reply'[g] # "none",
           \A v \in Visitor : visit[v] # "none" => visit'[v] # "none"
    PROVE  IdsCounted'
<1>1. Started <= Started' /\ Started \in Nat /\ Started' \in Nat
  BY StartedGrows DEF Types
<1>2. nextStreamId \in Nat /\ nextStreamId <= Started + 1
  BY DEF Types, RelayTypes, IdsCounted
<1>3. \A n, a, b \in Nat : n <= a + 1 /\ a <= b => n <= b + 1
  OBVIOUS
<1>4. nextStreamId <= Started' + 1
  BY <1>1, <1>2, <1>3, Zenon
<1> QED  BY <1>4 DEF Types, IdsCounted

LEMMA AbandonTypes ==
    ASSUME Types, AbandonStreams
    PROVE  /\ Map(pending', PendingHttp)
           /\ Map(visitors', Accepted) /\ DOMAIN visitors' = DOMAIN visitors
           /\ reply' \in [Guest -> ReplyState]
           /\ \A g \in Guest : reply[g] # "none" => reply'[g] # "none"
<1>1. Map(pending', PendingHttp)
  BY NoMapMap DEF AbandonStreams
<1>2. Map(visitors', Accepted) /\ DOMAIN visitors' = DOMAIN visitors
  BY DEF AbandonStreams, Types, RelayTypes, Map, Accepted
<1>3. reply' \in [Guest -> ReplyState] /\ \A g \in Guest : reply[g] # "none" => reply'[g] # "none"
  BY DEF AbandonStreams, AbandonedReplies, Types, GuestTypes, ReplyState
<1> QED  BY <1>1, <1>2, <1>3

LEMMA AcceptTunnelTypes ==
    ASSUME Types, NEW t \in Tunnel, AcceptTunnel(t)
    PROVE  Types'
<1>1. AbandonStreams /\ UNCHANGED <<nextStreamId, pumps, visit>>
  BY DEF AcceptTunnel
<1>2. RelayTypes'
  BY <1>1, AbandonTypes DEF AcceptTunnel, Types, RelayTypes, SocketState
<1>3. TunnelTypes' /\ ClientTypes'
  BY DEF AcceptTunnel, Types, TunnelTypes, ClientTypes
<1>4. GuestTypes'
  BY <1>1, AbandonTypes DEF AcceptTunnel, Types, GuestTypes
<1>5. IdsCounted'
  BY <1>1, <1>4, AbandonTypes, CountKept
<1> QED  BY <1>2, <1>3, <1>4, <1>5 DEF Types

LEMMA TunnelCloseSeenTypes ==
    ASSUME Types, NEW t \in Tunnel, TunnelCloseSeen(t)
    PROVE  Types'
<1>1. UNCHANGED <<nextStreamId, pumps, visit>>
  BY DEF TunnelCloseSeen
<1>2. AbandonStreams \/ UNCHANGED <<pending, reply, visitors>>
  BY DEF TunnelCloseSeen
<1>3. RelayTypes'
  BY <1>1, <1>2, AbandonTypes DEF TunnelCloseSeen, Types, RelayTypes, SocketState, Map
<1>4. TunnelTypes' /\ ClientTypes'
  BY DEF TunnelCloseSeen, Types, TunnelTypes, ClientTypes, clientVars, Map
<1>5. GuestTypes'
  BY <1>1, <1>2, AbandonTypes DEF TunnelCloseSeen, Types, GuestTypes
<1>6. IdsCounted'
  BY <1>1, <1>2, <1>5, AbandonTypes, CountKept
<1> QED  BY <1>3, <1>4, <1>5, <1>6 DEF Types

LEMMA ProxyHttpTypes ==
    ASSUME Types, NEW g \in Guest, NEW hasBody \in BOOLEAN, ProxyHttp(g, hasBody)
    PROVE  Types'
<1>1. UNCHANGED <<visitors, sockets, up, visit, clientVars, sent, served, told, received, gotFrom>>
  BY DEF ProxyHttp
<1>2. ClientTypes'
  BY <1>1 DEF Types, ClientTypes, clientVars, Map
<1>3. GuestTypes'
  BY <1>1 DEF ProxyHttp, Types, GuestTypes, ReplyState
<1>4. CASE ActiveTunnel = 0
  <2>1. UNCHANGED <<nextStreamId, pending, pumps, down>> /\ reply' = [reply EXCEPT ![g] = "failed"]
    BY <1>4 DEF ProxyHttp
  <2>2. RelayTypes' /\ TunnelTypes'
    BY <1>1, <2>1 DEF Types, RelayTypes, TunnelTypes, Map
  <2>3. IdsCounted'
    BY <1>1, <1>3, <2>1, CountKept DEF Types, GuestTypes
  <2> QED  BY <1>2, <1>3, <2>2, <2>3 DEF Types
<1>5. CASE ActiveTunnel # 0
  <2>1. ActiveTunnel \in Tunnel
    BY <1>5, ActiveTunnelType
  <2>2. Started' = Started + 1 /\ Started < Cardinality(Guest) + Cardinality(Visitor)
    BY <1>1, <1>5, GuestStarts DEF ProxyHttp, Types
  <2>3. nextStreamId \in StreamId /\ nextStreamId \in Nat \ {0}
    BY <2>2, StartedType DEF Types, IdsCounted, RelayTypes, StreamId
  <2>4. [guest |-> g, phase |-> "head", tunnel |-> ActiveTunnel] \in PendingHttp
    BY <2>1 DEF PendingHttp
  <2>5. Frame("open-http", nextStreamId, g, hasBody) \in Frames
    BY <2>3 DEF Frame, Frames
  <2>6. RelayTypes'
    <3>1. /\ pending' = Put(pending, nextStreamId,
                             [guest |-> g, phase |-> "head", tunnel |-> ActiveTunnel])
          /\ nextStreamId' = nextStreamId + 1
          /\ pumps' \subseteq pumps \cup {<<nextStreamId, ActiveTunnel, g>>}
      BY <1>5 DEF ProxyHttp, FollowingId
    <3>2. Map(pending, PendingHttp) /\ Map(visitors, Accepted)
      BY DEF Types, RelayTypes
    <3>3. Map(pending', PendingHttp)
      BY <2>3, <2>4, <3>1, <3>2, PutMap, Zenon
    <3> QED  BY <1>1, <2>1, <2>3, <3>1, <3>2, <3>3 DEF Types, RelayTypes
  <2>7. TunnelTypes'
    BY <1>1, <1>5, <2>5, SentDownTyped DEF ProxyHttp, Types, TunnelTypes
  <2>8. IdsCounted'
    <3>1. nextStreamId' = nextStreamId + 1 /\ visitors' = visitors
      BY <1>1, <1>5 DEF ProxyHttp, FollowingId
    <3>2. \A i \in DOMAIN visitors : i \in Nat
      BY DEF Types, RelayTypes, Map, StreamId
    <3> QED  BY <2>2, <2>3, <3>1, <3>2, StartedType DEF Types, IdsCounted
  <2> QED  BY <1>2, <1>3, <2>6, <2>7, <2>8 DEF Types
<1> QED  BY <1>4, <1>5

LEMMA PumpEndsTypes ==
    ASSUME Types, NEW p \in pumps, PumpEnds(p)
    PROVE  Types'
<1>1. p[1] \in StreamId /\ p[2] \in Tunnel /\ p[3] \in Guest
  BY DEF Types, RelayTypes
<1>2. \A type \in {"body-end", "close-stream"} : Frame(type, p[1], p[3], FALSE) \in Frames
  BY <1>1 DEF Frame, Frames
<1>3. TunnelTypes'
  BY <1>2, SentDownTyped DEF PumpEnds, Types, TunnelTypes
<1>4. RelayTypes' /\ ClientTypes' /\ GuestTypes'
  BY DEF PumpEnds, Types, RelayTypes, ClientTypes, GuestTypes, clientVars, guestVars, Map
<1>5. IdsCounted'
  BY <1>4, CountKept DEF PumpEnds, guestVars
<1> QED  BY <1>3, <1>4, <1>5 DEF Types

\* HeadTimeout and VisitorCancels: a request that is dropped.
LEMMA RequestDropped ==
    ASSUME Types, NEW i \in StreamId, i \in DOMAIN pending, pending' = Without(pending, i),
           NEW state \in ReplyState \ {"none"},
           reply' = [reply EXCEPT ![pending[i].guest] = state],
           UNCHANGED <<nextStreamId, pumps, visitors, sockets, up, clientVars,
                       gotFrom, visit, sent, served, told, received>>,
           down' \in [Tunnel -> Seq(Frames)]
    PROVE  Types'
<1>1. RelayTypes'
  BY WithoutMap DEF Types, RelayTypes, Map
<1>2. TunnelTypes' /\ ClientTypes' /\ GuestTypes'
  BY DEF Types, TunnelTypes, ClientTypes, GuestTypes, clientVars, Map
<1>3. IdsCounted'
  BY <1>2, CountKept DEF Types, GuestTypes
<1> QED  BY <1>1, <1>2, <1>3 DEF Types

LEMMA HeadTimeoutTypes ==
    ASSUME Types, NEW i \in StreamId, HeadTimeout(i)
    PROVE  Types'
BY RequestDropped DEF HeadTimeout, Types, TunnelTypes, ReplyState

LEMMA VisitorCancelsTypes ==
    ASSUME Types, NEW i \in StreamId, VisitorCancels(i)
    PROVE  Types'
<1>1. pending[i].guest \in Guest
  BY DEF VisitorCancels, Types, RelayTypes, Map, PendingHttp
<1>2. Frame("close-stream", i, pending[i].guest, FALSE) \in Frames
  BY <1>1 DEF Frame, Frames
<1>3. down' \in [Tunnel -> Seq(Frames)]
  BY <1>2, SentDownTyped DEF VisitorCancels, Types, TunnelTypes
<1> QED  BY <1>3, RequestDropped DEF VisitorCancels, ReplyState

LEMMA OpenVisitorTypes ==
    ASSUME Types, NEW v \in Visitor, OpenVisitor(v)
    PROVE  Types'
<1>1. UNCHANGED <<pending, pumps, sockets, up, clientVars, reply, gotFrom, sent, served, told, received>>
  BY DEF OpenVisitor
<1>2. ClientTypes'
  BY <1>1 DEF Types, ClientTypes, clientVars, Map
<1>3. GuestTypes'
  BY <1>1 DEF OpenVisitor, Types, GuestTypes
<1>4. CASE ActiveTunnel = 0
  <2>1. UNCHANGED <<nextStreamId, visitors, down>> /\ visit' = [visit EXCEPT ![v] = "closed"]
    BY <1>4 DEF OpenVisitor
  <2>2. RelayTypes' /\ TunnelTypes'
    BY <1>1, <2>1 DEF Types, RelayTypes, TunnelTypes, Map
  <2>3. IdsCounted'
    BY <1>1, <1>3, <2>1, CountKept DEF Types, GuestTypes
  <2> QED  BY <1>2, <1>3, <2>2, <2>3 DEF Types
<1>5. CASE ActiveTunnel # 0
  <2>2. Started' = Started + 1 /\ Started < Cardinality(Guest) + Cardinality(Visitor)
    BY <1>1, <1>5, VisitorStarts DEF OpenVisitor, Types
  <2>3. nextStreamId \in StreamId /\ nextStreamId \in Nat \ {0}
    BY <2>2, StartedType DEF Types, IdsCounted, RelayTypes, StreamId
  <2>4. [visitor |-> v, closing |-> FALSE] \in Accepted
    BY DEF Accepted
  <2>5. Frame("open-ws", nextStreamId, v, FALSE) \in Frames
    BY <2>3 DEF Frame, Frames
  <2>6. RelayTypes' /\ DOMAIN visitors' = DOMAIN visitors \cup {nextStreamId}
    <3>1. /\ visitors' = Put(visitors, nextStreamId, [visitor |-> v, closing |-> FALSE])
          /\ nextStreamId' = nextStreamId + 1
      BY <1>5 DEF OpenVisitor, FollowingId
    <3>2. Map(pending, PendingHttp) /\ Map(visitors, Accepted)
      BY DEF Types, RelayTypes
    <3>3. \A value \in Accepted :
             /\ Map(Put(visitors, nextStreamId, value), Accepted)
             /\ DOMAIN Put(visitors, nextStreamId, value) = DOMAIN visitors \cup {nextStreamId}
      BY <2>3, <3>2, PutMap
    <3>4. Map(visitors', Accepted) /\ DOMAIN visitors' = DOMAIN visitors \cup {nextStreamId}
      BY <2>4, <3>1, <3>3, Zenon
    <3> QED  BY <1>1, <2>3, <3>1, <3>2, <3>4 DEF Types, RelayTypes
  <2>7. TunnelTypes'
    BY <1>1, <1>5, <2>5, SentDownTyped DEF OpenVisitor, Types, TunnelTypes
  <2>8. IdsCounted'
    <3>1. nextStreamId' = nextStreamId + 1
      BY <1>5 DEF OpenVisitor, FollowingId
    <3>2. \A i \in DOMAIN visitors : i \in Nat
      BY DEF Types, RelayTypes, Map, StreamId
    <3> QED  BY <2>2, <2>3, <2>6, <3>1, <3>2, StartedType DEF Types, IdsCounted
  <2> QED  BY <1>2, <1>3, <2>6, <2>7, <2>8 DEF Types
<1> QED  BY <1>4, <1>5

LEMMA VisitorSendsTypes ==
    ASSUME Types, NEW i \in StreamId, VisitorSends(i)
    PROVE  Types'
<1> DEFINE v == visitors[i].visitor
<1>1. v \in Visitor /\ visitors[i] \in Accepted /\ i \in DOMAIN visitors
  BY DEF VisitorSends, Types, RelayTypes, Map, Accepted
<1>2. sent[v] \in 0..MaxMessages /\ sent[v] < MaxMessages /\ MaxMessages \in Nat
  BY <1>1, TunnelAssumption DEF VisitorSends, Types, GuestTypes
<1>3. sent[v] + 1 \in 1..MaxMessages /\ sent[v] + 1 \in 0..MaxMessages
  BY <1>2
<1>4. Frame("ws-data", i, v, sent[v] + 1) \in Frames
  BY <1>1, <1>3 DEF Frame, Frames
<1>5. TunnelTypes'
  BY <1>4, SentDownTyped DEF VisitorSends, Types, TunnelTypes
<1>6. RelayTypes' /\ DOMAIN visitors' = DOMAIN visitors
  <2>1. Map(visitors, Accepted) /\ DOMAIN visitors \subseteq StreamId
    BY DEF Types, RelayTypes, Map
  <2>2. visitors' = visitors \/ visitors' = [visitors EXCEPT ![i].closing = TRUE]
    BY DEF VisitorSends
  <2>3. Map(visitors', Accepted) /\ DOMAIN visitors' = DOMAIN visitors
    BY <1>1, <2>1, <2>2 DEF Map, Accepted
  <2>4. UNCHANGED <<nextStreamId, pending, pumps, sockets>>
    BY DEF VisitorSends
  <2> QED  BY <2>3, <2>4 DEF Types, RelayTypes, Map
<1>7. ClientTypes' /\ GuestTypes'
  BY <1>3 DEF VisitorSends, Types, ClientTypes, GuestTypes, clientVars, Map
<1>8. IdsCounted'
  BY <1>6, <1>7, CountKept DEF VisitorSends
<1> QED  BY <1>5, <1>6, <1>7, <1>8 DEF Types

LEMMA VisitorCloseSeenTypes ==
    ASSUME Types, NEW i \in StreamId, VisitorCloseSeen(i)
    PROVE  Types'
<1>1. visitors[i].visitor \in Visitor
  BY DEF VisitorCloseSeen, Types, RelayTypes, Map, Accepted
<1>2. Frame("close-stream", i, visitors[i].visitor, FALSE) \in Frames
  BY <1>1 DEF Frame, Frames
<1>3. TunnelTypes'
  BY <1>2, SentDownTyped DEF VisitorCloseSeen, Types, TunnelTypes
<1>4. RelayTypes' /\ DOMAIN visitors' \subseteq DOMAIN visitors
  <2>1. Map(visitors, Accepted) /\ visitors' = Without(visitors, i)
    BY DEF VisitorCloseSeen, Types, RelayTypes
  <2>2. Map(Without(visitors, i), Accepted) /\ DOMAIN Without(visitors, i) = DOMAIN visitors \ {i}
    BY <2>1, WithoutMap, Zenon
  <2>3. Map(visitors', Accepted) /\ DOMAIN visitors' = DOMAIN visitors \ {i}
    BY <2>1, <2>2, Zenon
  <2> QED  BY <2>3 DEF VisitorCloseSeen, Types, RelayTypes
<1>5. ClientTypes' /\ GuestTypes'
  BY <1>1 DEF VisitorCloseSeen, Types, ClientTypes, GuestTypes, clientVars, Map
<1>6. IdsCounted'
  BY <1>1, <1>4, <1>5, CountKept DEF VisitorCloseSeen, Types, GuestTypes
<1> QED  BY <1>3, <1>4, <1>5, <1>6 DEF Types

\* The count resumes above the visitors' ids, and not above itself.
LEMMA HibernateTypes ==
    ASSUME Types, Hibernate
    PROVE  Types'
<1> DEFINE S == {0} \cup DOMAIN visitors
<1>1. nextStreamId \in Nat \ {0} /\ \A i \in DOMAIN visitors : i \in Nat /\ i < nextStreamId
  BY DEF Types, RelayTypes, IdsCounted, Map, StreamId
<1>2. S \in SUBSET (0 .. nextStreamId - 1) /\ S # {} /\ nextStreamId - 1 \in Nat
  BY <1>1
<1>3. Max(S) \in S /\ \A y \in S : Max(S) >= y
  <2> HIDE DEF S
  <2> QED  BY <1>2, MaxExists
<1>4. nextStreamId' = Max(S) + 1
  BY DEF Hibernate, ResumedId
<1>5. nextStreamId' \in Nat \ {0} /\ nextStreamId' <= nextStreamId
      /\ \A i \in DOMAIN visitors : i < nextStreamId'
  <2> HIDE DEF S
  <2>1. Max(S) \in 0 .. nextStreamId - 1
    BY <1>2, <1>3
  <2>2. \A i \in DOMAIN visitors : i <= Max(S)
    BY <1>1, <1>3, <2>1 DEF S
  <2> QED  BY <1>1, <1>4, <2>1, <2>2
<1>6. RelayTypes'
  BY <1>5, NoMapMap DEF Hibernate, Types, RelayTypes, Map
<1>7. TunnelTypes' /\ ClientTypes' /\ GuestTypes' /\ Started' = Started
  BY DEF Hibernate, Types, TunnelTypes, ClientTypes, GuestTypes, clientVars, guestVars, Map, Started
<1>8. IdsCounted'
  BY <1>1, <1>5, <1>7, StartedType DEF Hibernate, Types, IdsCounted
<1> QED  BY <1>6, <1>7, <1>8 DEF Types


\* What a frame to the relay leaves, given what its handler makes of the streams.
LEMMA FrameHandled ==
    ASSUME Types, NEW t \in Tunnel, NEW type, TakeUp(t, type),
           Map(pending', PendingHttp),
           Map(visitors', Accepted), DOMAIN visitors' \subseteq DOMAIN visitors,
           reply' \in [Guest -> ReplyState],
           \A g \in Guest : reply[g] # "none" => reply'[g] # "none",
           gotFrom' \in [Guest -> SUBSET (Guest \cup Visitor)],
           received' \in [Visitor -> Seq(Message)],
           visit' = visit
    PROVE  Types'
<1>1. UNCHANGED <<nextStreamId, pumps, sockets, down, clientVars, sent, served, told>>
  BY DEF TakeUp
<1>2. RelayTypes'
  BY <1>1 DEF Types, RelayTypes
<1>3. TunnelTypes' /\ ClientTypes'
  BY <1>1, TakeUpTyped DEF Types, TunnelTypes, ClientTypes, clientVars, Map
<1>4. GuestTypes'
  BY <1>1 DEF Types, GuestTypes
<1>5. IdsCounted'
  BY <1>1, <1>4, CountKept
<1> QED  BY <1>2, <1>3, <1>4, <1>5 DEF Types

LEMMA OnRespHeadTypes ==
    ASSUME Types, NEW t \in Tunnel, OnRespHead(t)
    PROVE  Types'
<1> DEFINE f == Head(up[t])
<1>1. TakeUp(t, "resp-head") /\ UNCHANGED <<visitors, visit, received>>
  BY DEF OnRespHead
<1>2. f.of \in Guest
  BY <1>1, TakeUpTyped, FrameFields DEF Types
<1>3. Map(pending, PendingHttp) /\ Map(visitors, Accepted)
  BY DEF Types, RelayTypes
<1>4. Map(pending', PendingHttp)
  <2>1. CASE UNCHANGED pending
    BY <1>3, <2>1 DEF Map
  <2>2. CASE f.id \in DOMAIN pending /\ pending' = Without(pending, f.id)
    <3>1. Map(Without(pending, f.id), PendingHttp)
      BY <1>3, WithoutMap, Zenon
    <3> QED  BY <2>2, <3>1, Zenon
  <2>3. CASE /\ f.id \in DOMAIN pending
             /\ \E phase \in {"orphan", "bodiless", "body"} :
                   pending' = [pending EXCEPT ![f.id].phase = phase]
    BY <1>3, <2>3 DEF Map, PendingHttp
  <2> QED  BY <2>1, <2>2, <2>3 DEF OnRespHead
<1>5. reply' \in [Guest -> ReplyState] /\ \A g \in Guest : reply[g] # "none" => reply'[g] # "none"
  BY DEF OnRespHead, Types, GuestTypes, ReplyState
<1>6. gotFrom' \in [Guest -> SUBSET (Guest \cup Visitor)]
  <2>1. gotFrom \in [Guest -> SUBSET (Guest \cup Visitor)]
    BY DEF Types, GuestTypes
  <2>2. CASE UNCHANGED gotFrom
    BY <2>1, <2>2
  <2>3. CASE gotFrom' = [gotFrom EXCEPT ![pending[f.id].guest] = @ \cup {f.of}]
    BY <1>2, <2>1, <2>3
  <2> QED  BY <2>2, <2>3 DEF OnRespHead
<1>7. received' \in [Visitor -> Seq(Message)]
  BY <1>1 DEF Types, GuestTypes
<1>8. Map(visitors', Accepted) /\ DOMAIN visitors' \subseteq DOMAIN visitors
  BY <1>1, <1>3 DEF Map
<1> QED  BY <1>1, <1>4, <1>5, <1>6, <1>7, <1>8, FrameHandled

LEMMA OnBodyEndTypes ==
    ASSUME Types, NEW t \in Tunnel, OnBodyEnd(t)
    PROVE  Types'
<1> DEFINE f == Head(up[t])
<1>1. TakeUp(t, "body-end") /\ UNCHANGED <<visitors, visit, received>>
  BY DEF OnBodyEnd
<1>2. f.of \in Guest
  BY <1>1, TakeUpTyped, FrameFields DEF Types
<1>3. Map(pending, PendingHttp) /\ Map(visitors, Accepted)
  BY DEF Types, RelayTypes
<1>4. Map(pending', PendingHttp)
  <2>1. CASE UNCHANGED pending
    BY <1>3, <2>1 DEF Map
  <2>2. CASE pending' = Without(pending, f.id)
    <3>1. Map(Without(pending, f.id), PendingHttp)
      BY <1>3, WithoutMap, Zenon
    <3> QED  BY <2>2, <3>1, Zenon
  <2> QED  BY <2>1, <2>2 DEF OnBodyEnd
<1>5. reply' \in [Guest -> ReplyState] /\ \A g \in Guest : reply[g] # "none" => reply'[g] # "none"
  BY DEF OnBodyEnd, Types, GuestTypes, ReplyState
<1>6. gotFrom' \in [Guest -> SUBSET (Guest \cup Visitor)]
  BY <1>2 DEF OnBodyEnd, Types, GuestTypes
<1>7. received' \in [Visitor -> Seq(Message)]
  BY <1>1 DEF Types, GuestTypes
<1>8. Map(visitors', Accepted) /\ DOMAIN visitors' \subseteq DOMAIN visitors
  BY <1>1, <1>3 DEF Map
<1> QED  BY <1>1, <1>4, <1>5, <1>6, <1>7, <1>8, FrameHandled

LEMMA OnCloseStreamTypes ==
    ASSUME Types, NEW t \in Tunnel, OnCloseStream(t)
    PROVE  Types'
<1> DEFINE f == Head(up[t])
<1>1. TakeUp(t, "close-stream") /\ UNCHANGED <<gotFrom, visit, received>>
  BY DEF OnCloseStream
<1>3. Map(pending, PendingHttp) /\ Map(visitors, Accepted)
  BY DEF Types, RelayTypes
<1>4. Map(pending', PendingHttp)
  <2>1. CASE UNCHANGED pending
    BY <1>3, <2>1 DEF Map
  <2>2. CASE pending' = Without(pending, f.id)
    <3>1. Map(Without(pending, f.id), PendingHttp)
      BY <1>3, WithoutMap, Zenon
    <3> QED  BY <2>2, <3>1, Zenon
  <2> QED  BY <2>1, <2>2 DEF OnCloseStream
<1>5. reply' \in [Guest -> ReplyState] /\ \A g \in Guest : reply[g] # "none" => reply'[g] # "none"
  BY DEF OnCloseStream, Types, GuestTypes, ReplyState
<1>6. /\ gotFrom' \in [Guest -> SUBSET (Guest \cup Visitor)]
      /\ received' \in [Visitor -> Seq(Message)]
  BY <1>1 DEF Types, GuestTypes
<1>8. Map(visitors', Accepted) /\ DOMAIN visitors' \subseteq DOMAIN visitors
  BY <1>3 DEF OnCloseStream, Map, Accepted
<1> QED  BY <1>1, <1>4, <1>5, <1>6, <1>8, FrameHandled

LEMMA OnWsDataTypes ==
    ASSUME Types, NEW t \in Tunnel, OnWsData(t)
    PROVE  Types'
<1> DEFINE f == Head(up[t])
<1>1. TakeUp(t, "ws-data") /\ UNCHANGED <<pending, visitors, reply, gotFrom, visit>>
  BY DEF OnWsData
<1>2. <<f.of, f.info>> \in Message
  BY <1>1, TakeUpTyped, FrameFields DEF Types, Message
<1>3. Map(pending', PendingHttp) /\ Map(visitors', Accepted) /\ DOMAIN visitors' \subseteq DOMAIN visitors
  BY <1>1 DEF Types, RelayTypes, Map
<1>4. /\ reply' \in [Guest -> ReplyState] /\ gotFrom' \in [Guest -> SUBSET (Guest \cup Visitor)]
      /\ \A g \in Guest : reply[g] # "none" => reply'[g] # "none"
  BY <1>1 DEF Types, GuestTypes
<1>5. received' \in [Visitor -> Seq(Message)]
  BY <1>2, Given DEF OnWsData, Types, GuestTypes
<1> QED  BY <1>1, <1>3, <1>4, <1>5, FrameHandled

\* The client changes nothing of the relay but what it reads of the sockets.
LEMMA ClientStepTypes ==
    ASSUME Types,
           UNCHANGED <<nextStreamId, pending, pumps, visitors, reply, gotFrom, visit, sent, received>>,
           sockets' \in [Tunnel -> SocketState], TunnelTypes', ClientTypes',
           told' \in [Visitor -> 0..MaxMessages], served' \in [Visitor -> Seq(Message)]
    PROVE  Types'
<1>1. RelayTypes' /\ GuestTypes'
  BY DEF Types, RelayTypes, GuestTypes, Map
<1>2. Started' = Started /\ IdsCounted'
  BY DEF Types, IdsCounted, Started
<1> QED  BY <1>1, <1>2 DEF Types

LEMMA SessionEndsTypes ==
    ASSUME Types, SessionEnds
    PROVE  ClientTypes' /\ sockets' \in [Tunnel -> SocketState]
<1>1. ClientTypes'
  BY NoMapMap DEF SessionEnds, ClientTypes
<1>2. sockets' \in [Tunnel -> SocketState]
  BY DEF SessionEnds, Types, RelayTypes, SocketState
<1> QED  BY <1>1, <1>2

LEMMA ClientLosesTunnelTypes ==
    ASSUME Types, ClientLosesTunnel
    PROVE  Types'
<1>1. TunnelTypes'
  BY Emptied, Zenon DEF ClientLosesTunnel, Types, TunnelTypes
<1>2. UNCHANGED <<told, served>>
  BY DEF ClientLosesTunnel, guestVars
<1> QED  BY <1>1, <1>2, SessionEndsTypes, ClientStepTypes
         DEF ClientLosesTunnel, guestVars, Types, GuestTypes

LEMMA RejectsTypes ==
    ASSUME Types, NEW types, TakeDown(types), Rejects
    PROVE  Types'
<1>1. TunnelTypes'
  BY Emptied, Zenon DEF Rejects, Types, TunnelTypes
<1>2. UNCHANGED <<told, served>>
  BY DEF TakeDown, Rejects
<1> QED  BY <1>1, <1>2, SessionEndsTypes, ClientStepTypes
         DEF TakeDown, Rejects, Types, GuestTypes

\* An opening that is neither out of turn nor refused: taken, and served unless
\* too much is served already.
TakesOpening ==
    LET f == Head(down[session]) IN
    /\ f.id \notin Streams
    /\ down' = Taken
    /\ UNCHANGED <<session, sockets, lingering, served>>
    /\ \/ Closes(f) /\ UNCHANGED <<httpStreams, wsStreams>>
       \/ Opens(f) /\ UNCHANGED up

LEMMA OpeningCases ==
    ASSUME OnOpen
    PROVE  /\ TakeDown({"open-http", "open-ws"})
           /\ Rejects \/ TakesOpening
<1>1. TakeDown({"open-http", "open-ws"})
  BY DEF OnOpen
<1>2. ~OutOfTurn(Head(down[session])) => Head(down[session]).id \notin Streams
  BY <1>1 DEF TakeDown, OutOfTurn
<1> QED  BY <1>1, <1>2 DEF OnOpen, TakesOpening

LEMMA OnOpenTypes ==
    ASSUME Types, OnOpen
    PROVE  Types'
<1> DEFINE f == Head(down[session])
<1>1. TakeDown({"open-http", "open-ws"})
  BY OpeningCases
<1>2. /\ session \in Tunnel /\ f \in Frames /\ f.type \in {"open-http", "open-ws"}
      /\ Taken \in [Tunnel -> Seq(Frames)]
  BY <1>1, TakenTyped DEF Types
<1>3. CASE Rejects
  BY <1>1, <1>3, RejectsTypes
<1>4. CASE TakesOpening
  <2>1. down' = Taken /\ UNCHANGED <<session, sockets, lingering, served, told>>
    BY <1>1, <1>4 DEF TakesOpening, TakeDown
  <2>2. TunnelTypes'
    <3>1. Frame("close-stream", f.id, f.of, FALSE) \in Frames
      BY <1>2, FrameFields DEF Frame, Frames
    <3>2. up' = up \/ up' = SentUp(Frame("close-stream", f.id, f.of, FALSE))
      BY <1>4 DEF TakesOpening, Closes
    <3>3. SentUp(Frame("close-stream", f.id, f.of, FALSE)) \in [Tunnel -> Seq(Frames)]
      BY <3>1, SentUpTyped DEF Types
    <3> QED  BY <1>2, <2>1, <3>2, <3>3 DEF Types, TunnelTypes
  <2>3. Map(httpStreams, HttpStream) /\ Map(wsStreams, WsStream)
        /\ DOMAIN httpStreams \cap DOMAIN wsStreams = {}
    BY DEF Types, ClientTypes
  <2>4. f.id \in StreamId /\ f.id \notin DOMAIN httpStreams /\ f.id \notin DOMAIN wsStreams
    BY <1>2, <1>4, FrameFields DEF TakesOpening, Streams
  <2>5. ClientTypes'
    <3>1. CASE UNCHANGED <<httpStreams, wsStreams>>
      BY <2>1, <2>3, <3>1 DEF Types, ClientTypes, Map
    <3>2. CASE f.type = "open-http" /\ Opens(f)
      <4> DEFINE entry == [of |-> f.of, phase |-> IF f.info THEN "body" ELSE "executing"]
      <4>1. entry \in HttpStream
        BY <1>2, <3>2, FrameFields DEF HttpStream
      <4>2. Map(Put(httpStreams, f.id, entry), HttpStream)
            /\ DOMAIN Put(httpStreams, f.id, entry) = DOMAIN httpStreams \cup {f.id}
        <5>1. \A i \in StreamId, value \in HttpStream :
                 /\ Map(Put(httpStreams, i, value), HttpStream)
                 /\ DOMAIN Put(httpStreams, i, value) = DOMAIN httpStreams \cup {i}
          BY <2>3, PutMap
        <5> QED  BY <2>4, <4>1, <5>1, Zenon
      <4>3. httpStreams' = Put(httpStreams, f.id, entry) /\ wsStreams' = wsStreams
        BY <3>2 DEF Opens
      <4>4. Map(httpStreams', HttpStream) /\ DOMAIN httpStreams' = DOMAIN httpStreams \cup {f.id}
        BY <4>2, <4>3, Zenon
      <4> QED  BY <2>1, <2>3, <2>4, <4>3, <4>4 DEF Types, ClientTypes, Map
    <3>3. CASE f.type = "open-ws" /\ Opens(f)
      <4> DEFINE entry == [of |-> f.of, open |-> FALSE, buffered |-> <<>>]
      <4>1. entry \in WsStream
        BY <1>2, <3>3, FrameFields DEF WsStream
      <4>2. Map(Put(wsStreams, f.id, entry), WsStream)
            /\ DOMAIN Put(wsStreams, f.id, entry) = DOMAIN wsStreams \cup {f.id}
        <5>1. \A i \in StreamId, value \in WsStream :
                 /\ Map(Put(wsStreams, i, value), WsStream)
                 /\ DOMAIN Put(wsStreams, i, value) = DOMAIN wsStreams \cup {i}
          BY <2>3, PutMap
        <5> QED  BY <2>4, <4>1, <5>1, Zenon
      <4>3. wsStreams' = Put(wsStreams, f.id, entry) /\ httpStreams' = httpStreams
        BY <3>3 DEF Opens
      <4>4. Map(wsStreams', WsStream) /\ DOMAIN wsStreams' = DOMAIN wsStreams \cup {f.id}
        BY <4>2, <4>3, Zenon
      <4> QED  BY <2>1, <2>3, <2>4, <4>3, <4>4 DEF Types, ClientTypes, Map
    <3> QED  BY <1>2, <1>4, <3>1, <3>2, <3>3 DEF TakesOpening
  <2> QED  BY <1>1, <2>1, <2>2, <2>5, ClientStepTypes DEF TakeDown, Types, RelayTypes, GuestTypes
<1> QED  BY <1>3, <1>4, OpeningCases

LEMMA OnRequestBodyTypes ==
    ASSUME Types, OnRequestBody
    PROVE  Types'
<1> DEFINE f == Head(down[session])
<1>1. TakeDown({"body-end"})
  BY DEF OnRequestBody
<1>2. Taken \in [Tunnel -> Seq(Frames)]
  BY <1>1, TakenTyped DEF Types
<1>3. CASE OutOfTurn(f)
  BY <1>1, <1>3, RejectsTypes DEF OnRequestBody
<1>4. CASE ~OutOfTurn(f)
  <2>1. down' = Taken /\ UNCHANGED <<session, sockets, wsStreams, lingering, up, served, told>>
    BY <1>4 DEF OnRequestBody, TakeDown
  <2>2. TunnelTypes'
    BY <1>2, <2>1 DEF Types, TunnelTypes
  <2>3. Map(httpStreams', HttpStream) /\ DOMAIN httpStreams' = DOMAIN httpStreams
    BY <1>4 DEF OnRequestBody, Types, ClientTypes, Map, HttpStream
  <2>4. ClientTypes'
    BY <2>1, <2>3 DEF Types, ClientTypes, Map
  <2> QED  BY <1>1, <2>1, <2>2, <2>4, ClientStepTypes DEF TakeDown, Types, RelayTypes, GuestTypes
<1> QED  BY <1>3, <1>4

LEMMA OnVisitorDataTypes ==
    ASSUME Types, OnVisitorData
    PROVE  Types'
<1> DEFINE f == Head(down[session])
<1>1. TakeDown({"ws-data"}) /\ down' = Taken /\ UNCHANGED <<session, sockets, httpStreams, lingering, told>>
  BY DEF OnVisitorData, TakeDown
<1>2. f \in Frames /\ f.type = "ws-data" /\ Taken \in [Tunnel -> Seq(Frames)]
  BY <1>1, TakenTyped DEF Types
<1>3. f.id \in StreamId /\ <<f.of, f.info>> \in Message
  BY <1>2, FrameFields DEF Message
<1>4. TunnelTypes'
  <2>1. Frame("close-stream", f.id, f.of, FALSE) \in Frames
    BY <1>2, FrameFields DEF Frame, Frames
  <2>2. up' = up \/ up' = SentUp(Frame("close-stream", f.id, f.of, FALSE))
    BY DEF OnVisitorData, Closes
  <2>3. SentUp(Frame("close-stream", f.id, f.of, FALSE)) \in [Tunnel -> Seq(Frames)]
    BY <2>1, SentUpTyped DEF Types
  <2> QED  BY <1>1, <1>2, <2>2, <2>3 DEF Types, TunnelTypes
<1>5. Map(wsStreams, WsStream)
  BY DEF Types, ClientTypes
<1>6. Map(wsStreams', WsStream) /\ DOMAIN wsStreams' \subseteq DOMAIN wsStreams
  <2>1. CASE UNCHANGED wsStreams
    BY <1>5, <2>1 DEF Map
  <2>2. CASE wsStreams' = Without(wsStreams, f.id)
    <3>1. Map(Without(wsStreams, f.id), WsStream)
          /\ DOMAIN Without(wsStreams, f.id) = DOMAIN wsStreams \ {f.id}
      BY <1>5, WithoutMap, Zenon
    <3>2. Map(wsStreams', WsStream) /\ DOMAIN wsStreams' = DOMAIN wsStreams \ {f.id}
      BY <2>2, <3>1, Zenon
    <3> QED  BY <3>2
  <2>3. CASE /\ f.id \in DOMAIN wsStreams
             /\ wsStreams' = [wsStreams EXCEPT ![f.id].buffered = Append(@, <<f.of, f.info>>)]
    <3>1. wsStreams[f.id] \in WsStream
      BY <1>5, <2>3 DEF Map
    <3>2. Append(wsStreams[f.id].buffered, <<f.of, f.info>>) \in Seq(Message)
      BY <1>3, <3>1 DEF WsStream
    <3>3. [wsStreams[f.id] EXCEPT !.buffered = Append(@, <<f.of, f.info>>)] \in WsStream
      BY <3>1, <3>2 DEF WsStream
    <3> QED  BY <1>5, <2>3, <3>3, Zenon DEF Map
  <2> QED  BY <2>1, <2>2, <2>3 DEF OnVisitorData
<1>7. ClientTypes'
  BY <1>1, <1>6 DEF Types, ClientTypes, Map
<1>8. served' \in [Visitor -> Seq(Message)]
  <2>1. served \in [Visitor -> Seq(Message)]
    BY DEF Types, GuestTypes
  <2>2. [served EXCEPT ![wsStreams[f.id].of] = Append(@, <<f.of, f.info>>)] \in [Visitor -> Seq(Message)]
    BY <1>3, <2>1, Given
  <2> QED  BY <2>1, <2>2 DEF OnVisitorData
<1> QED  BY <1>1, <1>4, <1>7, <1>8, ClientStepTypes DEF TakeDown, Types, RelayTypes, GuestTypes

LEMMA OnGuestLeftTypes ==
    ASSUME Types, OnGuestLeft
    PROVE  Types'
<1> DEFINE f == Head(down[session])
<1>1. TakeDown({"close-stream"}) /\ down' = Taken /\ UNCHANGED <<session, sockets, up, served, told>>
  BY DEF OnGuestLeft, TakeDown
<1>2. Taken \in [Tunnel -> Seq(Frames)]
  BY <1>1, TakenTyped DEF Types
<1>3. TunnelTypes'
  BY <1>1, <1>2 DEF Types, TunnelTypes
<1>4. Map(httpStreams, HttpStream) /\ Map(wsStreams, WsStream)
      /\ DOMAIN httpStreams \cap DOMAIN wsStreams = {}
  BY DEF Types, ClientTypes
<1>5. Map(Without(httpStreams, f.id), HttpStream)
      /\ DOMAIN Without(httpStreams, f.id) = DOMAIN httpStreams \ {f.id}
      /\ Map(Without(wsStreams, f.id), WsStream)
      /\ DOMAIN Without(wsStreams, f.id) = DOMAIN wsStreams \ {f.id}
  BY <1>4, WithoutMap, Zenon
<1>6. httpStreams' = Without(httpStreams, f.id) /\ wsStreams' = Without(wsStreams, f.id)
  BY DEF OnGuestLeft
<1>7. Map(httpStreams', HttpStream) /\ Map(wsStreams', WsStream)
      /\ DOMAIN httpStreams' \cap DOMAIN wsStreams' = {}
  <2>1. Map(httpStreams', HttpStream) /\ Map(wsStreams', WsStream)
    BY <1>5, <1>6, Zenon
  <2>2. DOMAIN httpStreams' = DOMAIN httpStreams \ {f.id}
        /\ DOMAIN wsStreams' = DOMAIN wsStreams \ {f.id}
    BY <1>5, <1>6, Zenon
  <2> QED  BY <1>4, <2>1, <2>2
<1>8. lingering' \subseteq StreamId \X Visitor
  BY <1>4 DEF OnGuestLeft, Types, ClientTypes, Map, WsStream
<1>9. ClientTypes'
  BY <1>1, <1>7, <1>8 DEF Types, ClientTypes
<1> QED  BY <1>1, <1>3, <1>9, ClientStepTypes DEF TakeDown, Types, RelayTypes, GuestTypes

\* The origin's answers leave the frames to the client and the relay's state.
LEMMA OriginStepTypes ==
    ASSUME Types, NEW frame \in Frames, up' = up \/ up' = SentUp(frame),
           UNCHANGED <<doVars, down, session, reply, gotFrom, visit, sent, received>>,
           Map(httpStreams', HttpStream), Map(wsStreams', WsStream),
           DOMAIN httpStreams' \subseteq DOMAIN httpStreams,
           DOMAIN wsStreams' \subseteq DOMAIN wsStreams,
           lingering' \subseteq StreamId \X Visitor,
           told' \in [Visitor -> 0..MaxMessages], served' \in [Visitor -> Seq(Message)]
    PROVE  Types'
<1>1. TunnelTypes'
  BY SentUpTyped DEF Types, TunnelTypes
<1>2. ClientTypes'
  BY DEF Types, ClientTypes
<1> QED  BY <1>1, <1>2, ClientStepTypes DEF doVars, Types, RelayTypes

LEMMA OriginRespondsTypes ==
    ASSUME Types, NEW i \in StreamId, OriginResponds(i)
    PROVE  Types'
<1>1. httpStreams[i].of \in Guest
  BY DEF OriginResponds, Types, ClientTypes, Map, HttpStream
<1>2. PICK bodiless \in BOOLEAN : up' = SentUp(Frame("resp-head", i, httpStreams[i].of, bodiless))
  BY DEF OriginResponds
<1>3. Frame("resp-head", i, httpStreams[i].of, bodiless) \in Frames
  BY <1>1 DEF Frame, Frames
<1>4. /\ Map(httpStreams', HttpStream) /\ DOMAIN httpStreams' \subseteq DOMAIN httpStreams
      /\ Map(wsStreams', WsStream) /\ DOMAIN wsStreams' \subseteq DOMAIN wsStreams
      /\ lingering' \subseteq StreamId \X Visitor
  BY DEF OriginResponds, Types, ClientTypes, Map, HttpStream
<1> QED  BY <1>2, <1>3, <1>4, OriginStepTypes DEF OriginResponds, guestVars, Types, GuestTypes

LEMMA OriginEndsTypes ==
    ASSUME Types, NEW i \in StreamId, OriginEnds(i) \/ BodyRejected(i)
    PROVE  Types'
<1>1. httpStreams[i].of \in Guest
  BY DEF OriginEnds, BodyRejected, Types, ClientTypes, Map, HttpStream
<1>2. PICK type \in {"body-end", "close-stream"} :
         up' = SentUp(Frame(type, i, httpStreams[i].of, FALSE))
  BY DEF OriginEnds, BodyRejected
<1>3. Frame(type, i, httpStreams[i].of, FALSE) \in Frames
  BY <1>1 DEF Frame, Frames
<1>4. /\ Map(httpStreams', HttpStream) /\ DOMAIN httpStreams' \subseteq DOMAIN httpStreams
      /\ Map(wsStreams', WsStream) /\ DOMAIN wsStreams' \subseteq DOMAIN wsStreams
      /\ lingering' \subseteq StreamId \X Visitor
  <2>1. Map(httpStreams, HttpStream) /\ httpStreams' = Without(httpStreams, i)
    BY DEF OriginEnds, BodyRejected, Types, ClientTypes
  <2>2. Map(Without(httpStreams, i), HttpStream)
        /\ DOMAIN Without(httpStreams, i) = DOMAIN httpStreams \ {i}
    BY <2>1, WithoutMap, Zenon
  <2>3. Map(httpStreams', HttpStream) /\ DOMAIN httpStreams' = DOMAIN httpStreams \ {i}
    BY <2>1, <2>2, Zenon
  <2> QED  BY <2>3 DEF OriginEnds, BodyRejected, Types, ClientTypes, Map
<1> QED  BY <1>2, <1>3, <1>4, OriginStepTypes DEF OriginEnds, BodyRejected, guestVars, Types, GuestTypes

LEMMA OriginWsOpensTypes ==
    ASSUME Types, NEW i \in StreamId, OriginWsOpens(i)
    PROVE  Types'
<1>1. wsStreams[i].buffered \in Seq(Message) /\ wsStreams[i].of \in Visitor /\ wsStreams[i] \in WsStream
  BY DEF OriginWsOpens, Types, ClientTypes, Map, WsStream
<1>2. served' \in [Visitor -> Seq(Message)]
  <2>1. served \in [Visitor -> Seq(Message)] /\ served[wsStreams[i].of] \in Seq(Message)
    BY <1>1 DEF Types, GuestTypes
  <2>2. served[wsStreams[i].of] \o wsStreams[i].buffered \in Seq(Message)
    BY <1>1, <2>1
  <2>3. [served EXCEPT ![wsStreams[i].of] = @ \o wsStreams[i].buffered] \in [Visitor -> Seq(Message)]
    BY <1>1, <2>1, <2>2, Zenon
  <2> QED  BY <2>3 DEF OriginWsOpens
<1>3. ClientTypes'
  <2>1. Map(wsStreams', WsStream) /\ DOMAIN wsStreams' = DOMAIN wsStreams
    <3>1. [wsStreams[i] EXCEPT !.open = TRUE, !.buffered = <<>>] \in WsStream
      <4>1. <<>> \in Seq(Message)
        OBVIOUS
      <4>2. \A buffered \in Seq(Message) :
               [wsStreams[i] EXCEPT !.open = TRUE, !.buffered = buffered] \in WsStream
        BY <1>1 DEF WsStream
      <4> QED  BY <4>1, <4>2
    <3>2. Map(wsStreams, WsStream)
      BY DEF Types, ClientTypes
    <3>3. wsStreams' = [wsStreams EXCEPT ![i] = [wsStreams[i] EXCEPT !.open = TRUE, !.buffered = <<>>]]
      BY <1>1 DEF OriginWsOpens, WsStream
    <3> QED  BY <3>1, <3>2, <3>3, Zenon DEF Map
  <2> QED  BY <2>1 DEF OriginWsOpens, Types, ClientTypes, Map
<1>4. TunnelTypes'
  BY DEF OriginWsOpens, Types, TunnelTypes
<1> QED  BY <1>2, <1>3, <1>4, ClientStepTypes DEF OriginWsOpens, doVars, Types, RelayTypes, GuestTypes

LEMMA OriginWsMessageTypes ==
    ASSUME Types, NEW i \in StreamId, NEW v \in Visitor, OriginWsMessage(i, v)
    PROVE  Types'
<1>1. told[v] \in 0..MaxMessages /\ told[v] < MaxMessages /\ MaxMessages \in Nat
  BY TunnelAssumption DEF OriginWsMessage, Types, GuestTypes
<1>2. told[v] + 1 \in 1..MaxMessages /\ told[v] + 1 \in 0..MaxMessages
  BY <1>1
<1>3. Frame("ws-data", i, v, told[v] + 1) \in Frames
  BY <1>2 DEF Frame, Frames
<1>4. /\ told' \in [Visitor -> 0..MaxMessages]
      /\ served' \in [Visitor -> Seq(Message)]
  BY <1>2 DEF OriginWsMessage, Types, GuestTypes
<1>5. /\ Map(httpStreams', HttpStream) /\ DOMAIN httpStreams' \subseteq DOMAIN httpStreams
      /\ Map(wsStreams', WsStream) /\ DOMAIN wsStreams' \subseteq DOMAIN wsStreams
      /\ lingering' \subseteq StreamId \X Visitor
  BY DEF OriginWsMessage, clientVars, Types, ClientTypes, Map
<1> QED  BY <1>3, <1>4, <1>5, OriginStepTypes DEF OriginWsMessage, clientVars

LEMMA OriginWsClosesTypes ==
    ASSUME Types, NEW i \in StreamId, NEW v \in Visitor, OriginWsCloses(i, v)
    PROVE  Types'
<1>1. Frame("close-stream", i, v, FALSE) \in Frames
  BY DEF Frame, Frames
<1>2. up' = up \/ up' = SentUp(Frame("close-stream", i, v, FALSE))
  BY DEF OriginWsCloses
<1>3. Map(wsStreams', WsStream) /\ DOMAIN wsStreams' \subseteq DOMAIN wsStreams
  <2>1. Map(wsStreams, WsStream)
    BY DEF Types, ClientTypes
  <2>2. Map(Without(wsStreams, i), WsStream)
        /\ DOMAIN Without(wsStreams, i) = DOMAIN wsStreams \ {i}
    BY <2>1, WithoutMap, Zenon
  <2>3. CASE wsStreams' = wsStreams
    BY <2>1, <2>3 DEF Map
  <2>4. CASE wsStreams' = Without(wsStreams, i)
    <3>1. Map(wsStreams', WsStream) /\ DOMAIN wsStreams' = DOMAIN wsStreams \ {i}
      BY <2>2, <2>4, Zenon
    <3> QED  BY <3>1
  <2> QED  BY <2>3, <2>4 DEF OriginWsCloses
<1>4. /\ Map(httpStreams', HttpStream) /\ DOMAIN httpStreams' \subseteq DOMAIN httpStreams
      /\ lingering' \subseteq StreamId \X Visitor
  BY DEF OriginWsCloses, Types, ClientTypes, Map
<1> QED  BY <1>1, <1>2, <1>3, <1>4, OriginStepTypes
         DEF OriginWsCloses, guestVars, Types, GuestTypes

LEMMA InitTypes == Init => Types
<1> SUFFICES ASSUME Init PROVE Types
  OBVIOUS
<1>1. RelayTypes
  BY NoMapMap DEF Init, RelayTypes, SocketState
<1>2. TunnelTypes
  BY DEF Init, TunnelTypes
<1>3. ClientTypes
  BY NoMapMap DEF Init, ClientTypes
<1>4. GuestTypes
  BY TunnelAssumption DEF Init, GuestTypes, ReplyState
<1>5. IdsCounted
  BY <1>4, StartedType, NoMapMap DEF Init, IdsCounted
<1> QED  BY <1>1, <1>2, <1>3, <1>4, <1>5 DEF Types

\* A step that changes nothing keeps the types.
LEMMA StutterTypes ==
    ASSUME Types, UNCHANGED vars
    PROVE  Types'
BY DEF vars, doVars, clientVars, guestVars, Types, RelayTypes, TunnelTypes, ClientTypes, GuestTypes,
       IdsCounted, Started, Map

LEMMA StepTypes == Types /\ [Next]_vars => Types'
<1> SUFFICES ASSUME Types, [Next]_vars PROVE Types'
  OBVIOUS
<1>1. CASE Relay
  BY <1>1, ProxyHttpTypes, PumpEndsTypes, HeadTimeoutTypes, VisitorCancelsTypes, VisitorSendsTypes,
     VisitorCloseSeenTypes, OpenVisitorTypes, AcceptTunnelTypes, TunnelCloseSeenTypes,
     OnRespHeadTypes, OnBodyEndTypes, OnCloseStreamTypes, OnWsDataTypes, HibernateTypes, Zenon
     DEF Relay, RelayReceives
<1>2. CASE Client
  BY <1>2, OnOpenTypes, OnRequestBodyTypes, OnVisitorDataTypes, OnGuestLeftTypes,
     ClientLosesTunnelTypes, OriginRespondsTypes, OriginEndsTypes, OriginWsOpensTypes,
     OriginWsMessageTypes, OriginWsClosesTypes, Zenon DEF Client, ClientReceives
<1> QED  BY <1>1, <1>2, StutterTypes DEF Next

\* The state keeps its types.
THEOREM RelayTyped == Spec => []Types
<1> QED  BY InitTypes, StepTypes, PTL DEF Spec

LEMMA TypesTypeOK == Types => TypeOK
<1> SUFFICES ASSUME Types PROVE TypeOK
  OBVIOUS
<1>1. \A t \in Tunnel : \A f \in ToSet(down[t]) \cup ToSet(up[t]) : FrameOk(f)
  <2> SUFFICES ASSUME NEW t \in Tunnel, NEW f \in ToSet(down[t]) \cup ToSet(up[t])
               PROVE  FrameOk(f)
    OBVIOUS
  <2>1. f \in Frames
    BY DEF Types, TunnelTypes, ToSet
  <2> QED  BY <2>1, FrameFields DEF FrameOk
<1> QED  BY <1>1 DEF TypeOK, Types, RelayTypes, ClientTypes, GuestTypes, Map, PendingHttp, Accepted,
                 HttpStream, WsStream, SocketState, ReplyState

\* Ids, streams, frames, sockets and replies have their types, whichever way
\* tunnels die, requests time out and the relay's object is evicted: an id is
\* drawn once for each guest and visitor, and no stream is both a request and a
\* socket.
THEOREM RelayTypeOK == Spec => []TypeOK
<1> QED  BY RelayTyped, TypesTypeOK, PTL

-----------------------------------------------------------------------------
\* Every id has one owner.

\* A frame in some queue carries id i for o.
Carried(queues, i, o) ==
    \E t \in Tunnel : \E k \in DOMAIN queues[t] : queues[t][k].id = i /\ queues[t][k].of = o

\* Somewhere in the relay, the client or the tunnel, id i stands for o.
Names(i, o) ==
    \/ i \in DOMAIN pending /\ pending[i].guest = o
    \/ \E p \in pumps : p[1] = i /\ p[3] = o
    \/ i \in DOMAIN visitors /\ visitors[i].visitor = o
    \/ Carried(down, i, o)
    \/ Carried(up, i, o)
    \/ i \in DOMAIN httpStreams /\ httpStreams[i].of = o
    \/ i \in DOMAIN wsStreams /\ wsStreams[i].of = o
    \/ <<i, o>> \in lingering

\* All that names an id names the same owner, and the next id is named by none.
OneOwner ==
    \A i \in StreamId : \A o \in Guest \cup Visitor : Names(i, o) =>
        /\ i < nextStreamId
        /\ \A other \in Guest \cup Visitor : Names(i, other) => other = o

LEMMA CarriedSent ==
    ASSUME NEW queues \in [Tunnel -> Seq(Frames)], NEW t \in Tunnel, NEW f \in Frames, NEW i, NEW o,
           Carried([queues EXCEPT ![t] = Append(@, f)], i, o)
    PROVE  Carried(queues, i, o) \/ (i = f.id /\ o = f.of)
<1> DEFINE after == [queues EXCEPT ![t] = Append(@, f)]
<1>0. PICK s \in Tunnel : \E k \in DOMAIN after[s] : after[s][k].id = i /\ after[s][k].of = o
  BY Zenon DEF Carried
<1>1. PICK k \in DOMAIN after[s] : after[s][k].id = i /\ after[s][k].of = o
  BY <1>0
<1>2. CASE s # t
  <2>1. after[s] = queues[s]
    BY <1>2
  <2> QED  BY <1>1, <2>1, Zenon DEF Carried
<1>3. CASE s = t
  <2>1. after[s] = Append(queues[t], f) /\ queues[t] \in Seq(Frames)
    BY <1>3
  <2>2. CASE k \in DOMAIN queues[t]
    <3>1. after[s][k] = queues[t][k]
      BY <2>1, <2>2
    <3> QED  BY <1>1, <2>2, <3>1, Zenon DEF Carried
  <2>3. CASE k \notin DOMAIN queues[t]
    <3>1. after[s][k] = f
      BY <1>1, <2>1, <2>3
    <3> QED  BY <1>1, <3>1, Zenon
  <2> QED  BY <2>2, <2>3
<1> QED  BY <1>2, <1>3

LEMMA CarriedTaken ==
    ASSUME NEW queues \in [Tunnel -> Seq(Frames)], NEW t \in Tunnel, queues[t] # <<>>, NEW i, NEW o,
           Carried([queues EXCEPT ![t] = Tail(@)], i, o)
    PROVE  Carried(queues, i, o)
<1> DEFINE after == [queues EXCEPT ![t] = Tail(@)]
<1>0. PICK s \in Tunnel : \E k \in DOMAIN after[s] : after[s][k].id = i /\ after[s][k].of = o
  BY Zenon DEF Carried
<1>1. PICK k \in DOMAIN after[s] : after[s][k].id = i /\ after[s][k].of = o
  BY <1>0
<1>2. CASE s # t
  <2>1. after[s] = queues[s]
    BY <1>2
  <2> QED  BY <1>1, <2>1, Zenon DEF Carried
<1>3. CASE s = t
  <2>1. after[s] = Tail(queues[t]) /\ queues[t] \in Seq(Frames)
    BY <1>3
  <2>2. k + 1 \in DOMAIN queues[t] /\ after[s][k] = queues[t][k + 1]
    BY <1>1, <2>1
  <2> QED  BY <1>1, <2>2, Zenon DEF Carried
<1> QED  BY <1>2, <1>3

LEMMA CarriedEmptied ==
    ASSUME NEW queues \in [Tunnel -> Seq(Frames)], NEW t, NEW i, NEW o,
           Carried([queues EXCEPT ![t] = <<>>], i, o)
    PROVE  Carried(queues, i, o)
BY DEF Carried

\* The first frame of a queue is carried.
LEMMA CarriedHead ==
    ASSUME NEW queues \in [Tunnel -> Seq(Frames)], NEW t \in Tunnel, queues[t] # <<>>
    PROVE  Carried(queues, Head(queues[t]).id, Head(queues[t]).of)
<1>1. queues[t] \in Seq(Frames) /\ 1 \in DOMAIN queues[t] /\ Head(queues[t]) = queues[t][1]
  OBVIOUS
<1> QED  BY <1>1, Zenon DEF Carried

LEMMA SentDownNames ==
    ASSUME TunnelTypes, NEW t, NEW f \in Frames, NEW i, NEW o, Carried(SentDown(t, f), i, o),
           sockets \in [Tunnel -> SocketState]
    PROVE  Carried(down, i, o) \/ (i = f.id /\ o = f.of)
<1>1. CASE t \in Tunnel
  BY <1>1, CarriedSent, Zenon DEF TunnelTypes, SentDown
<1>2. CASE t \notin Tunnel
  <2>1. [down EXCEPT ![t] = Append(@, f)] = down
    BY <1>2 DEF TunnelTypes
  <2> QED  BY <2>1, Zenon DEF SentDown
<1> QED  BY <1>1, <1>2

LEMMA SentUpNames ==
    ASSUME TunnelTypes, NEW f \in Frames, NEW i, NEW o, Carried(SentUp(f), i, o)
    PROVE  Carried(up, i, o) \/ (i = f.id /\ o = f.of)
<1>1. CASE session \in Tunnel
  BY <1>1, CarriedSent, Zenon DEF TunnelTypes, SentUp
<1>2. CASE session \notin Tunnel
  <2>1. [up EXCEPT ![session] = Append(@, f)] = up
    BY <1>2 DEF TunnelTypes
  <2> QED  BY <2>1, Zenon DEF SentUp
<1> QED  BY <1>1, <1>2

LEMMA DownNames ==
    ASSUME Types, NEW t, NEW type, NEW i, NEW o, NEW info, Frame(type, i, o, info) \in Frames,
           down' = SentDown(t, Frame(type, i, o, info))
    PROVE  \A j, other : Carried(down', j, other) => Carried(down, j, other) \/ (j = i /\ other = o)
<1> DEFINE f == Frame(type, i, o, info)
<1>1. f.id = i /\ f.of = o
  BY DEF Frame
<1> HIDE DEF f
<1>2. \A j, other : Carried(SentDown(t, f), j, other) => Carried(down, j, other) \/ (j = f.id /\ other = f.of)
  BY SentDownNames, Zenon DEF f, Types, RelayTypes
<1> QED  BY <1>1, <1>2, Zenon DEF f

LEMMA CloseDownNames ==
    ASSUME Types, NEW t, NEW i \in StreamId, NEW o \in Guest \cup Visitor,
           down' = SentDown(t, Frame("close-stream", i, o, FALSE))
    PROVE  \A j, other : Carried(down', j, other) => Carried(down, j, other) \/ (j = i /\ other = o)
<1>1. PICK type \in {"close-stream"}, info \in BOOLEAN : down' = SentDown(t, Frame(type, i, o, info))
  OBVIOUS
<1>2. Frame(type, i, o, info) \in Frames
  BY DEF Frame, Frames
<1>3. ASSUME NEW j, NEW other, Carried(down', j, other)
      PROVE  Carried(down, j, other) \/ (j = i /\ other = o)
  BY <1>1, <1>2, <1>3, DownNames, Zenon
<1> QED  BY <1>3

LEMMA UpNames ==
    ASSUME Types, NEW type, NEW i, NEW o, NEW info, Frame(type, i, o, info) \in Frames,
           up' = SentUp(Frame(type, i, o, info))
    PROVE  \A j, other : Carried(up', j, other) => Carried(up, j, other) \/ (j = i /\ other = o)
<1> DEFINE f == Frame(type, i, o, info)
<1>1. f.id = i /\ f.of = o
  BY DEF Frame
<1> HIDE DEF f
<1>2. \A j, other : Carried(SentUp(f), j, other) => Carried(up, j, other) \/ (j = f.id /\ other = f.of)
  BY SentUpNames, Zenon DEF f, Types
<1> QED  BY <1>1, <1>2, Zenon DEF f

LEMMA CloseUpNames ==
    ASSUME Types, NEW i \in StreamId, NEW o \in Guest \cup Visitor,
           up' = SentUp(Frame("close-stream", i, o, FALSE))
    PROVE  \A j, other : Carried(up', j, other) => Carried(up, j, other) \/ (j = i /\ other = o)
<1>1. PICK type \in {"close-stream"}, info \in BOOLEAN : up' = SentUp(Frame(type, i, o, info))
  OBVIOUS
<1>2. Frame(type, i, o, info) \in Frames
  BY DEF Frame, Frames
<1> QED  BY <1>1, <1>2, UpNames

\* A step names no owner anew.
NamesKept == \A i, o : Names(i, o)' => Names(i, o)

LEMMA RelayKeepsNames ==
    ASSUME Types, NEW t \in Tunnel, AcceptTunnel(t) \/ TunnelCloseSeen(t)
    PROVE  NamesKept
<1>1. UNCHANGED <<pumps, down, httpStreams, wsStreams, lingering>>
  BY DEF AcceptTunnel, TunnelCloseSeen, clientVars
<1>2. AbandonStreams \/ UNCHANGED <<pending, visitors>>
  BY DEF AcceptTunnel, TunnelCloseSeen
<1>3. \A i, o : Carried(up', i, o) => Carried(up, i, o)
  <2>1. up \in [Tunnel -> Seq(Frames)]
    BY DEF Types, TunnelTypes
  <2>2. up' = up \/ up' = [up EXCEPT ![t] = <<>>]
    BY DEF AcceptTunnel, TunnelCloseSeen
  <2> QED  BY <2>1, <2>2, CarriedEmptied, Zenon
<1>4. \A i : /\ i \in DOMAIN pending' => i \in DOMAIN pending /\ pending'[i].guest = pending[i].guest
             /\ i \in DOMAIN visitors' =>
                  i \in DOMAIN visitors /\ visitors'[i].visitor = visitors[i].visitor
  BY <1>2 DEF AbandonStreams, NoMap, Types, RelayTypes, Map, Accepted
<1> QED  BY <1>1, <1>3, <1>4 DEF NamesKept, Names

\* The next id is drawn for o.
NamesDrawn(o) == \A i, other : Names(i, other)' => Names(i, other) \/ (i = nextStreamId /\ other = o)

LEMMA ProxyHttpNames ==
    ASSUME Types, NEW g \in Guest, NEW hasBody \in BOOLEAN, ProxyHttp(g, hasBody), ActiveTunnel # 0
    PROVE  NamesDrawn(g) /\ nextStreamId' = nextStreamId + 1
<1>1. UNCHANGED <<visitors, up, httpStreams, wsStreams, lingering>>
  BY DEF ProxyHttp, clientVars
<1>2. nextStreamId \in StreamId
  BY GuestStarts, StartedType DEF ProxyHttp, Types, IdsCounted, RelayTypes, StreamId
<1>3. Frame("open-http", nextStreamId, g, hasBody) \in Frames
  BY <1>2 DEF Frame, Frames
<1>4. \A i, o : Carried(down', i, o) => Carried(down, i, o) \/ (i = nextStreamId /\ o = g)
  <2>1. down' = SentDown(ActiveTunnel, Frame("open-http", nextStreamId, g, hasBody))
    BY DEF ProxyHttp
  <2> QED  BY <1>3, <2>1, DownNames
<1>5. \A i, o : i \in DOMAIN pending' /\ pending'[i].guest = o =>
         (i \in DOMAIN pending /\ pending[i].guest = o) \/ (i = nextStreamId /\ o = g)
  BY DEF ProxyHttp, Put
<1>6. \A i, o : (\E p \in pumps' : p[1] = i /\ p[3] = o) =>
         (\E p \in pumps : p[1] = i /\ p[3] = o) \/ (i = nextStreamId /\ o = g)
  BY DEF ProxyHttp
<1> QED  BY <1>1, <1>4, <1>5, <1>6 DEF NamesDrawn, Names, ProxyHttp, FollowingId

LEMMA OpenVisitorNames ==
    ASSUME Types, NEW v \in Visitor, OpenVisitor(v), ActiveTunnel # 0
    PROVE  NamesDrawn(v) /\ nextStreamId' = nextStreamId + 1
<1>1. UNCHANGED <<pending, pumps, up, httpStreams, wsStreams, lingering>>
  BY DEF OpenVisitor, clientVars
<1>2. nextStreamId \in StreamId
  BY VisitorStarts, StartedType DEF OpenVisitor, Types, IdsCounted, RelayTypes, StreamId
<1>3. Frame("open-ws", nextStreamId, v, FALSE) \in Frames
  BY <1>2 DEF Frame, Frames
<1>4. \A i, o : Carried(down', i, o) => Carried(down, i, o) \/ (i = nextStreamId /\ o = v)
  BY <1>3, DownNames, Zenon DEF OpenVisitor
<1>5. \A i, o : i \in DOMAIN visitors' /\ visitors'[i].visitor = o =>
         (i \in DOMAIN visitors /\ visitors[i].visitor = o) \/ (i = nextStreamId /\ o = v)
  BY DEF OpenVisitor, Put
<1> QED  BY <1>1, <1>4, <1>5 DEF NamesDrawn, Names, OpenVisitor, FollowingId

\* Without a tunnel a guest is turned away.
LEMMA TurnedAwayNames ==
    ASSUME Types, ActiveTunnel = 0,
           (\E g \in Guest, hasBody \in BOOLEAN : ProxyHttp(g, hasBody)) \/ (\E v \in Visitor : OpenVisitor(v))
    PROVE  NamesKept /\ nextStreamId' = nextStreamId
BY DEF ProxyHttp, OpenVisitor, clientVars, NamesKept, Names

LEMMA PumpEndsNames ==
    ASSUME Types, NEW p \in pumps, PumpEnds(p)
    PROVE  NamesKept
<1>1. UNCHANGED <<pending, visitors, up, httpStreams, wsStreams, lingering>> /\ pumps' \subseteq pumps
  BY DEF PumpEnds, clientVars
<1>2. p[1] \in StreamId /\ p[2] \in Tunnel /\ p[3] \in Guest
  BY DEF Types, RelayTypes
<1>3. \A i, o : Carried(down', i, o) => Carried(down, i, o) \/ (i = p[1] /\ o = p[3])
  <2>1. PICK type \in {"body-end", "close-stream"} : down' = SentDown(p[2], Frame(type, p[1], p[3], FALSE))
    BY DEF PumpEnds
  <2>2. \A info \in BOOLEAN : Frame(type, p[1], p[3], info) \in Frames
    BY <1>2 DEF Frame, Frames
  <2>3. \E info \in BOOLEAN : down' = SentDown(p[2], Frame(type, p[1], p[3], info))
    BY <2>1
  <2> QED  BY <2>2, <2>3, DownNames
<1> QED  BY <1>1, <1>3 DEF NamesKept, Names

LEMMA HeadTimeoutNames ==
    ASSUME Types, NEW i \in StreamId, HeadTimeout(i)
    PROVE  NamesKept
BY DEF HeadTimeout, Without, Restrict, clientVars, NamesKept, Names

LEMMA VisitorCancelsNames ==
    ASSUME Types, NEW i \in StreamId, VisitorCancels(i)
    PROVE  NamesKept
<1>1. UNCHANGED <<pumps, visitors, up, httpStreams, wsStreams, lingering>>
  BY DEF VisitorCancels, clientVars
<1>2. i \in DOMAIN pending /\ pending[i].guest \in Guest
  BY DEF VisitorCancels, Types, RelayTypes, Map, PendingHttp
<1>3. \A j, o : Carried(down', j, o) => Carried(down, j, o) \/ (j = i /\ o = pending[i].guest)
  <2>1. CASE ActiveTunnel = 0
    BY <2>1 DEF VisitorCancels
  <2>2. CASE ActiveTunnel # 0
    <3>1. down' = SentDown(ActiveTunnel, Frame("close-stream", i, pending[i].guest, FALSE))
      BY <2>2 DEF VisitorCancels
    <3>2. pending[i].guest \in Guest \cup Visitor
      BY <1>2
    <3> QED  BY <3>1, <3>2, CloseDownNames
  <2> QED  BY <2>1, <2>2
<1>4. \A j \in DOMAIN pending' : j \in DOMAIN pending /\ pending'[j] = pending[j]
  BY DEF VisitorCancels, Without, Restrict
<1> QED  BY <1>1, <1>2, <1>3, <1>4 DEF NamesKept, Names

LEMMA VisitorSendsNames ==
    ASSUME Types, NEW i \in StreamId, VisitorSends(i)
    PROVE  NamesKept
<1>1. UNCHANGED <<pending, pumps, up, httpStreams, wsStreams, lingering>>
  BY DEF VisitorSends, clientVars
<1>2. i \in DOMAIN visitors /\ visitors[i].visitor \in Visitor
      /\ sent[visitors[i].visitor] + 1 \in 1..MaxMessages
  BY TunnelAssumption DEF VisitorSends, Types, RelayTypes, Map, Accepted, GuestTypes
<1>3. \A j, o : Carried(down', j, o) => Carried(down, j, o) \/ (j = i /\ o = visitors[i].visitor)
  <2>1. Frame("ws-data", i, visitors[i].visitor, sent[visitors[i].visitor] + 1) \in Frames
    BY <1>2 DEF Frame, Frames
  <2>2. \/ down' = down
        \/ down' = SentDown(ActiveTunnel,
                            Frame("ws-data", i, visitors[i].visitor, sent[visitors[i].visitor] + 1))
    BY DEF VisitorSends
  <2> QED  BY <2>1, <2>2, DownNames
<1>4. \A j \in DOMAIN visitors' : j \in DOMAIN visitors /\ visitors'[j].visitor = visitors[j].visitor
  BY DEF VisitorSends, Types, RelayTypes, Map, Accepted
<1> QED  BY <1>1, <1>2, <1>3, <1>4 DEF NamesKept, Names

LEMMA VisitorCloseSeenNames ==
    ASSUME Types, NEW i \in StreamId, VisitorCloseSeen(i)
    PROVE  NamesKept
<1>1. UNCHANGED <<pending, pumps, up, httpStreams, wsStreams, lingering>>
  BY DEF VisitorCloseSeen, clientVars
<1>2. i \in DOMAIN visitors /\ visitors[i].visitor \in Visitor
  BY DEF VisitorCloseSeen, Types, RelayTypes, Map, Accepted
<1>3. \A j, o : Carried(down', j, o) => Carried(down, j, o) \/ (j = i /\ o = visitors[i].visitor)
  <2>1. CASE ActiveTunnel = 0
    BY <2>1 DEF VisitorCloseSeen
  <2>2. CASE ActiveTunnel # 0
    <3>1. down' = SentDown(ActiveTunnel, Frame("close-stream", i, visitors[i].visitor, FALSE))
      BY <2>2 DEF VisitorCloseSeen
    <3>2. visitors[i].visitor \in Guest \cup Visitor
      BY <1>2
    <3> QED  BY <3>1, <3>2, CloseDownNames
  <2> QED  BY <2>1, <2>2
<1>4. \A j \in DOMAIN visitors' : j \in DOMAIN visitors /\ visitors'[j] = visitors[j]
  BY DEF VisitorCloseSeen, Without, Restrict
<1> QED  BY <1>1, <1>2, <1>3, <1>4 DEF NamesKept, Names

LEMMA RelayReceivesNames ==
    ASSUME Types, NEW t \in Tunnel, RelayReceives(t)
    PROVE  NamesKept
<1>1. UNCHANGED <<pumps, down, httpStreams, wsStreams, lingering>>
  BY DEF RelayReceives, OnRespHead, OnBodyEnd, OnCloseStream, OnWsData, TakeUp, clientVars
<1>2. up[t] # <<>> /\ up' = [up EXCEPT ![t] = Tail(@)]
  BY DEF RelayReceives, OnRespHead, OnBodyEnd, OnCloseStream, OnWsData, TakeUp
<1>3. \A i, o : Carried(up', i, o) => Carried(up, i, o)
  BY <1>2, CarriedTaken, Zenon DEF Types, TunnelTypes
<1>4. \A i : /\ i \in DOMAIN pending' => i \in DOMAIN pending /\ pending'[i].guest = pending[i].guest
             /\ i \in DOMAIN visitors' =>
                  i \in DOMAIN visitors /\ visitors'[i].visitor = visitors[i].visitor
  <2>1. /\ pending \in [DOMAIN pending -> PendingHttp]
        /\ visitors \in [DOMAIN visitors -> Accepted]
    BY DEF Types, RelayTypes, Map
  <2>2. CASE OnRespHead(t)
    <3> DEFINE a == Head(up[t]).id
    <3>1. visitors' = visitors /\ (a \notin DOMAIN pending => pending' = pending)
      BY <2>2 DEF OnRespHead
    <3>2. a \in DOMAIN pending => \/ pending' \in {pending, Without(pending, a)}
                                  \/ \E p \in {"orphan", "bodiless", "body"} :
                                       pending' = [pending EXCEPT ![a].phase = p]
      BY <2>2 DEF OnRespHead
    <3> HIDE DEF a
    <3>3. CASE \E p \in {"orphan", "bodiless", "body"} : pending' = [pending EXCEPT ![a].phase = p]
      BY <2>1, <3>1, <3>3 DEF PendingHttp
    <3>4. CASE pending' \in {pending, Without(pending, a)}
      BY <3>1, <3>4 DEF Without, Restrict
    <3> QED  BY <3>1, <3>2, <3>3, <3>4
  <2>3. CASE OnBodyEnd(t)
    BY <2>1, <2>3 DEF OnBodyEnd, Without, Restrict, PendingHttp
  <2>4. CASE OnCloseStream(t)
    BY <2>1, <2>4 DEF OnCloseStream, Without, Restrict, PendingHttp, Accepted
  <2>5. CASE OnWsData(t)
    BY <2>1, <2>5 DEF OnWsData
  <2> QED  BY <2>2, <2>3, <2>4, <2>5 DEF RelayReceives
<1> QED  BY <1>1, <1>3, <1>4 DEF NamesKept, Names

\* The client takes a frame, and may refuse what it asks for.
LEMMA TakenNames ==
    ASSUME Types, NEW types, TakeDown(types)
    PROVE  /\ Carried(down, Head(down[session]).id, Head(down[session]).of)
           /\ \A i, o : Carried(Taken, i, o) => Carried(down, i, o)
<1>1. session \in Tunnel /\ down[session] # <<>> /\ down \in [Tunnel -> Seq(Frames)]
  BY TakenTyped DEF Types, TunnelTypes, TakeDown
<1>2. Carried(down, Head(down[session]).id, Head(down[session]).of)
  BY <1>1, CarriedHead
<1>3. \A i, o : Carried(Taken, i, o) => Carried(down, i, o)
  BY <1>1, CarriedTaken, Zenon DEF Taken
<1> QED  BY <1>2, <1>3

LEMMA SessionEndsNames ==
    ASSUME Types, SessionEnds, down' = [down EXCEPT ![session] = <<>>],
           UNCHANGED <<pending, pumps, visitors, up>>
    PROVE  NamesKept
<1>1. \A i, o : Carried(down', i, o) => Carried(down, i, o)
  BY CarriedEmptied, Zenon DEF Types, TunnelTypes
<1>2. httpStreams' = NoMap /\ wsStreams' = NoMap /\ lingering' = {}
  BY DEF SessionEnds
<1> QED  BY <1>1, <1>2 DEF NamesKept, Names, NoMap

LEMMA OnOpenNames ==
    ASSUME Types, OnOpen
    PROVE  NamesKept
<1> DEFINE f == Head(down[session])
<1>1. TakeDown({"open-http", "open-ws"})
  BY OpeningCases
<1>2. UNCHANGED <<pending, pumps, visitors>>
  BY <1>1 DEF TakeDown
<1>3. CASE Rejects
  BY <1>2, <1>3, SessionEndsNames DEF Rejects
<1>4. CASE TakesOpening
  <2>1. Carried(down, f.id, f.of) /\ f \in Frames
    BY <1>1, TakenNames, TakenTyped, Zenon DEF Types
  <2>2. \A i, o : Carried(down', i, o) => Carried(down, i, o)
    BY <1>1, <1>4, TakenNames, Zenon DEF TakesOpening
  <2>3. UNCHANGED lingering
    BY <1>4 DEF TakesOpening
  <2>4. CASE Closes(f) /\ UNCHANGED <<httpStreams, wsStreams>>
    <3>1. \A i, o : Carried(up', i, o) => Carried(up, i, o) \/ (i = f.id /\ o = f.of)
      BY <2>1, <2>4, FrameFields, CloseUpNames DEF Closes
    <3> QED  BY <1>2, <2>1, <2>2, <2>3, <2>4, <3>1 DEF NamesKept, Names
  <2>5. CASE Opens(f) /\ UNCHANGED up
    <3>1. \A i, o : i \in DOMAIN httpStreams' /\ httpStreams'[i].of = o =>
             (i \in DOMAIN httpStreams /\ httpStreams[i].of = o) \/ (i = f.id /\ o = f.of)
      BY <2>5 DEF Opens, Put
    <3>2. \A i, o : i \in DOMAIN wsStreams' /\ wsStreams'[i].of = o =>
             (i \in DOMAIN wsStreams /\ wsStreams[i].of = o) \/ (i = f.id /\ o = f.of)
      BY <2>5 DEF Opens, Put
    <3> QED  BY <1>2, <2>1, <2>2, <2>3, <2>5, <3>1, <3>2 DEF NamesKept, Names
  <2> QED  BY <1>4, <2>4, <2>5 DEF TakesOpening
<1> QED  BY <1>3, <1>4, OpeningCases

LEMMA OnRequestBodyNames ==
    ASSUME Types, OnRequestBody
    PROVE  NamesKept
<1> DEFINE f == Head(down[session])
<1>1. TakeDown({"body-end"})
  BY DEF OnRequestBody
<1>2. UNCHANGED <<pending, pumps, visitors>>
  BY <1>1 DEF TakeDown
<1>3. CASE OutOfTurn(f)
  BY <1>2, <1>3, SessionEndsNames DEF OnRequestBody, Rejects
<1>4. CASE ~OutOfTurn(f)
  <2>1. \A i, o : Carried(down', i, o) => Carried(down, i, o)
    BY <1>1, <1>4, TakenNames, Zenon DEF OnRequestBody
  <2>2. \A i \in DOMAIN httpStreams' : i \in DOMAIN httpStreams /\ httpStreams'[i].of = httpStreams[i].of
    BY <1>4 DEF OnRequestBody, Types, ClientTypes, Map, HttpStream
  <2>3. UNCHANGED <<wsStreams, lingering, up>>
    BY <1>4 DEF OnRequestBody
  <2> QED  BY <1>2, <2>1, <2>2, <2>3 DEF NamesKept, Names
<1> QED  BY <1>3, <1>4

LEMMA OnVisitorDataNames ==
    ASSUME Types, OnVisitorData
    PROVE  NamesKept
<1> DEFINE f == Head(down[session])
<1>1. TakeDown({"ws-data"}) /\ UNCHANGED <<pending, pumps, visitors, httpStreams, lingering>>
  BY DEF OnVisitorData, TakeDown
<1>2. Carried(down, f.id, f.of) /\ f \in Frames
  BY <1>1, TakenNames, TakenTyped, Zenon DEF Types
<1>3. \A i, o : Carried(down', i, o) => Carried(down, i, o)
  BY <1>1, TakenNames, Zenon DEF OnVisitorData
<1>4. \A i, o : Carried(up', i, o) => Carried(up, i, o) \/ (i = f.id /\ o = f.of)
  <2>1. CASE UNCHANGED up
    BY <2>1
  <2>2. CASE Closes(f)
    BY <1>2, <2>2, FrameFields, CloseUpNames DEF Closes
  <2> QED  BY <2>1, <2>2 DEF OnVisitorData
<1>5. \A i \in DOMAIN wsStreams' : i \in DOMAIN wsStreams /\ wsStreams'[i].of = wsStreams[i].of
  <2>1. wsStreams \in [DOMAIN wsStreams -> WsStream]
    BY DEF Types, ClientTypes, Map
  <2>2. CASE UNCHANGED wsStreams
    BY <2>2
  <2>3. CASE wsStreams' = Without(wsStreams, f.id)
    BY <2>3 DEF Without, Restrict
  <2>4. CASE wsStreams' = [wsStreams EXCEPT ![f.id].buffered = Append(@, <<f.of, f.info>>)]
    BY <2>1, <2>4 DEF WsStream
  <2> QED  BY <2>2, <2>3, <2>4 DEF OnVisitorData
<1> QED  BY <1>1, <1>2, <1>3, <1>4, <1>5 DEF NamesKept, Names

LEMMA OnGuestLeftNames ==
    ASSUME Types, OnGuestLeft
    PROVE  NamesKept
<1>1. TakeDown({"close-stream"}) /\ UNCHANGED <<pending, pumps, visitors, up>>
  BY DEF OnGuestLeft, TakeDown
<1>2. \A i, o : Carried(down', i, o) => Carried(down, i, o)
  BY <1>1, TakenNames, Zenon DEF OnGuestLeft
<1>3. /\ \A i \in DOMAIN httpStreams' : i \in DOMAIN httpStreams /\ httpStreams'[i] = httpStreams[i]
      /\ \A i \in DOMAIN wsStreams' : i \in DOMAIN wsStreams /\ wsStreams'[i] = wsStreams[i]
  BY DEF OnGuestLeft, Without, Restrict
<1>4. \A i, o : <<i, o>> \in lingering' =>
         <<i, o>> \in lingering \/ (i \in DOMAIN wsStreams /\ wsStreams[i].of = o)
  BY DEF OnGuestLeft
<1> QED  BY <1>1, <1>2, <1>3, <1>4 DEF NamesKept, Names

LEMMA OriginNames ==
    ASSUME Types, NEW i \in StreamId,
           \/ OriginResponds(i) \/ OriginEnds(i) \/ BodyRejected(i) \/ OriginWsOpens(i)
           \/ \E v \in Visitor : OriginWsMessage(i, v) \/ OriginWsCloses(i, v)
    PROVE  NamesKept
<1>1. UNCHANGED <<pending, pumps, visitors, down>>
  BY DEF OriginResponds, OriginEnds, BodyRejected, OriginWsOpens, OriginWsMessage, OriginWsCloses, doVars
<1>2. httpStreams \in [DOMAIN httpStreams -> HttpStream] /\ wsStreams \in [DOMAIN wsStreams -> WsStream]
  BY DEF Types, ClientTypes, Map
<1>3. CASE OriginResponds(i)
  <2>1. httpStreams[i].of \in Guest /\ i \in DOMAIN httpStreams
    BY <1>2, <1>3 DEF OriginResponds, HttpStream
  <2>2. PICK type \in {"resp-head"}, bodiless \in BOOLEAN :
           up' = SentUp(Frame(type, i, httpStreams[i].of, bodiless))
    BY <1>3 DEF OriginResponds
  <2>3. Frame(type, i, httpStreams[i].of, bodiless) \in Frames
    BY <2>1 DEF Frame, Frames
  <2>4. \A j, o : Carried(up', j, o) => Carried(up, j, o) \/ (j = i /\ o = httpStreams[i].of)
    BY <2>2, <2>3, UpNames
  <2>5. \A j \in DOMAIN httpStreams' : j \in DOMAIN httpStreams /\ httpStreams'[j].of = httpStreams[j].of
    BY <1>2, <1>3 DEF OriginResponds, HttpStream
  <2> QED  BY <1>1, <1>3, <2>1, <2>4, <2>5 DEF OriginResponds, NamesKept, Names
<1>4. CASE OriginEnds(i) \/ BodyRejected(i)
  <2>1. httpStreams[i].of \in Guest /\ i \in DOMAIN httpStreams
    BY <1>2, <1>4 DEF OriginEnds, BodyRejected, HttpStream
  <2>2. PICK type \in {"body-end", "close-stream"}, info \in BOOLEAN :
           up' = SentUp(Frame(type, i, httpStreams[i].of, info))
    BY <1>4 DEF OriginEnds, BodyRejected
  <2>3. Frame(type, i, httpStreams[i].of, info) \in Frames
    BY <2>1 DEF Frame, Frames
  <2>4. \A j, o : Carried(up', j, o) => Carried(up, j, o) \/ (j = i /\ o = httpStreams[i].of)
    BY <2>2, <2>3, UpNames
  <2>5. \A j \in DOMAIN httpStreams' : j \in DOMAIN httpStreams /\ httpStreams'[j] = httpStreams[j]
    BY <1>4 DEF OriginEnds, BodyRejected, Without, Restrict
  <2> QED  BY <1>1, <1>4, <2>1, <2>4, <2>5 DEF OriginEnds, BodyRejected, NamesKept, Names
<1>5. CASE OriginWsOpens(i)
  <2>1. \A j \in DOMAIN wsStreams' : j \in DOMAIN wsStreams /\ wsStreams'[j].of = wsStreams[j].of
    BY <1>2, <1>5 DEF OriginWsOpens, WsStream
  <2> QED  BY <1>1, <1>5, <2>1 DEF OriginWsOpens, NamesKept, Names
<1>6. ASSUME NEW v \in Visitor, OriginWsMessage(i, v) PROVE NamesKept
  <2>1. told[v] + 1 \in 1..MaxMessages
    BY <1>6, TunnelAssumption DEF OriginWsMessage, Types, GuestTypes
  <2>2. PICK type \in {"ws-data"} : up' = SentUp(Frame(type, i, v, told[v] + 1))
    BY <1>6 DEF OriginWsMessage
  <2>3. Frame(type, i, v, told[v] + 1) \in Frames
    BY <2>1 DEF Frame, Frames
  <2>4. \A j, o : Carried(up', j, o) => Carried(up, j, o) \/ (j = i /\ o = v)
    BY <2>2, <2>3, UpNames
  <2> QED  BY <1>1, <1>6, <2>4 DEF OriginWsMessage, clientVars, NamesKept, Names
<1>7. ASSUME NEW v \in Visitor, OriginWsCloses(i, v) PROVE NamesKept
  <2>1. <<i, v>> \in lingering \/ (i \in DOMAIN wsStreams /\ wsStreams[i].of = v)
    BY <1>7 DEF OriginWsCloses
  <2>2. \A j, o : Carried(up', j, o) => Carried(up, j, o) \/ (j = i /\ o = v)
    <3>1. CASE UNCHANGED up
      BY <3>1
    <3>2. CASE up' = SentUp(Frame("close-stream", i, v, FALSE))
      BY <3>2, CloseUpNames
    <3> QED  BY <1>7, <3>1, <3>2 DEF OriginWsCloses
  <2>3. \A j \in DOMAIN wsStreams' : j \in DOMAIN wsStreams /\ wsStreams'[j] = wsStreams[j]
    BY <1>7 DEF OriginWsCloses, Without, Restrict
  <2>4. lingering' \subseteq lingering
    BY <1>7 DEF OriginWsCloses
  <2> QED  BY <1>1, <1>7, <2>1, <2>2, <2>3, <2>4 DEF OriginWsCloses, NamesKept, Names
<1> QED  BY <1>3, <1>4, <1>5, <1>6, <1>7

\* Each step keeps what the ids stand for, or draws the next one.
NamesFollow ==
    \/ NamesKept /\ nextStreamId' = nextStreamId
    \/ nextStreamId' = nextStreamId + 1 /\ \E o \in Guest \cup Visitor : NamesDrawn(o)

LEMMA StepNames ==
    ASSUME Types, [Next]_vars, ~Hibernate
    PROVE  NamesFollow
<1>1. ASSUME NEW g \in Guest, NEW hasBody \in BOOLEAN, ProxyHttp(g, hasBody)
      PROVE  NamesFollow
  BY <1>1, ProxyHttpNames, TurnedAwayNames DEF NamesFollow
<1>2. ASSUME NEW v \in Visitor, OpenVisitor(v)
      PROVE  NamesFollow
  BY <1>2, OpenVisitorNames, TurnedAwayNames DEF NamesFollow
<1>3. ASSUME NEW p \in pumps, PumpEnds(p)
      PROVE  NamesFollow
  BY <1>3, PumpEndsNames DEF PumpEnds, NamesFollow
<1>4. ASSUME NEW i \in StreamId,
             HeadTimeout(i) \/ VisitorCancels(i) \/ VisitorSends(i) \/ VisitorCloseSeen(i)
      PROVE  NamesFollow
  <2>1. nextStreamId' = nextStreamId
    BY <1>4 DEF HeadTimeout, VisitorCancels, VisitorSends, VisitorCloseSeen
  <2> QED  BY <1>4, <2>1, HeadTimeoutNames, VisitorCancelsNames, VisitorSendsNames, VisitorCloseSeenNames
           DEF NamesFollow
<1>5. ASSUME NEW t \in Tunnel, AcceptTunnel(t) \/ TunnelCloseSeen(t) \/ RelayReceives(t)
      PROVE  NamesFollow
  <2>1. nextStreamId' = nextStreamId
    BY <1>5 DEF AcceptTunnel, TunnelCloseSeen, RelayReceives, OnRespHead, OnBodyEnd, OnCloseStream,
                OnWsData, TakeUp
  <2> QED  BY <1>5, <2>1, RelayKeepsNames, RelayReceivesNames DEF NamesFollow
<1>6. CASE Hibernate
  BY <1>6
<1>7. CASE ClientReceives
  <2>1. nextStreamId' = nextStreamId
    BY <1>7 DEF ClientReceives, OnOpen, OnRequestBody, OnVisitorData, OnGuestLeft, TakeDown
  <2> QED  BY <1>7, <2>1, OnOpenNames, OnRequestBodyNames, OnVisitorDataNames, OnGuestLeftNames
           DEF ClientReceives, NamesFollow
<1>8. CASE ClientLosesTunnel
  BY <1>8, SessionEndsNames DEF ClientLosesTunnel, NamesFollow
<1>9. ASSUME NEW i \in StreamId,
             \/ OriginResponds(i) \/ OriginEnds(i) \/ BodyRejected(i) \/ OriginWsOpens(i)
             \/ \E v \in Visitor : OriginWsMessage(i, v) \/ OriginWsCloses(i, v)
      PROVE  NamesFollow
  <2>1. nextStreamId' = nextStreamId
    BY <1>9 DEF OriginResponds, OriginEnds, BodyRejected, OriginWsOpens, OriginWsMessage,
                OriginWsCloses, doVars
  <2> QED  BY <1>9, <2>1, OriginNames DEF NamesFollow
<1>10. CASE UNCHANGED vars
  BY <1>10 DEF vars, doVars, clientVars, NamesKept, Names, NamesFollow
<1>11. CASE Relay
  BY <1>1, <1>2, <1>3, <1>4, <1>5, <1>6, <1>11, Zenon DEF Relay
<1>12. CASE Client
  BY <1>7, <1>8, <1>9, <1>12, Zenon DEF Client
<1> QED  BY <1>10, <1>11, <1>12 DEF Next

LEMMA StepOneOwner == Types /\ OneOwner /\ [Next]_vars /\ ~Hibernates => OneOwner'
<1> SUFFICES ASSUME Types, OneOwner, [Next]_vars, ~Hibernates PROVE OneOwner'
  OBVIOUS
<1>1. nextStreamId \in Nat /\ \A i \in StreamId : i \in Nat
  BY DEF Types, RelayTypes, StreamId
<1>2. CASE NamesKept /\ nextStreamId' = nextStreamId
  BY <1>2 DEF NamesKept, OneOwner
<1>3. ASSUME nextStreamId' = nextStreamId + 1, NEW x \in Guest \cup Visitor, NamesDrawn(x)
      PROVE  OneOwner'
  <2> SUFFICES ASSUME NEW i \in StreamId, NEW o \in Guest \cup Visitor, Names(i, o)'
               PROVE  /\ i < nextStreamId'
                      /\ \A other \in Guest \cup Visitor : Names(i, other)' => other = o
    BY DEF OneOwner
  <2>1. CASE i = nextStreamId
    <3>1. \A other \in Guest \cup Visitor : ~Names(i, other)
      BY <1>1, <2>1 DEF OneOwner
    <3> QED  BY <1>1, <1>3, <2>1, <3>1 DEF NamesDrawn
  <2>2. CASE i # nextStreamId
    <3>1. \A other : Names(i, other)' => Names(i, other)
      BY <1>3, <2>2 DEF NamesDrawn
    <3>2. i < nextStreamId
      BY <3>1 DEF OneOwner
    <3> QED  BY <1>1, <1>3, <3>1, <3>2 DEF OneOwner
  <2> QED  BY <2>1, <2>2
<1>4. ~Hibernate
  BY DEF Hibernate
<1> QED  BY <1>2, <1>3, <1>4, StepNames DEF NamesFollow

\* Only a head or a body's end gives a guest what an origin sent, and the frame
\* names the guest the stream is for.
LEMMA StepOwnResponse == Types /\ OneOwner /\ OwnResponse /\ [Next]_vars => OwnResponse'
<1> SUFFICES ASSUME Types, OneOwner, OwnResponse, [Next]_vars PROVE OwnResponse'
  OBVIOUS
<1>1. ASSUME NEW t \in Tunnel, OnRespHead(t) \/ OnBodyEnd(t)
      PROVE  OwnResponse'
  <2> DEFINE f == Head(up[t])
  <2>1. up \in [Tunnel -> Seq(Frames)] /\ up[t] # <<>>
    BY <1>1 DEF OnRespHead, OnBodyEnd, TakeUp, Types, TunnelTypes
  <2>2. Carried(up, f.id, f.of) /\ f \in Frames
    <3>1. up[t] \in Seq(Frames)
      BY <2>1
    <3> QED  BY <2>1, <3>1, CarriedHead
  <2>3. f.id \in StreamId /\ f.of \in Guest \cup Visitor
    BY <2>2, FrameFields
  <2>4. ASSUME f.id \in DOMAIN pending PROVE pending[f.id].guest = f.of
    <3>1. Names(f.id, f.of) /\ Names(f.id, pending[f.id].guest)
      BY <2>2, <2>4 DEF Names
    <3>2. pending[f.id].guest \in Guest
      BY <2>4 DEF Types, RelayTypes, Map, PendingHttp
    <3> QED  BY <2>3, <3>1, <3>2 DEF OneOwner
  <2>5. \/ UNCHANGED gotFrom
        \/ /\ f.id \in DOMAIN pending
           /\ gotFrom' = [gotFrom EXCEPT ![pending[f.id].guest] = @ \cup {f.of}]
    BY <1>1 DEF OnRespHead, OnBodyEnd
  <2>6. CASE UNCHANGED gotFrom
    BY <2>6 DEF OwnResponse
  <2>7. ASSUME f.id \in DOMAIN pending, gotFrom' = [gotFrom EXCEPT ![pending[f.id].guest] = @ \cup {f.of}]
        PROVE  OwnResponse'
    <3>1. pending[f.id].guest = f.of
      BY <2>4, <2>7
    <3>2. gotFrom' = [gotFrom EXCEPT ![f.of] = @ \cup {f.of}]
      BY <2>7, <3>1
    <3>3. gotFrom \in [Guest -> SUBSET (Guest \cup Visitor)]
      BY DEF Types, GuestTypes
    <3> HIDE DEF f
    <3> QED  BY <3>2, <3>3 DEF OwnResponse
  <2> QED  BY <2>5, <2>6, <2>7
<1>2. CASE UNCHANGED gotFrom
  BY <1>2 DEF OwnResponse
<1>3. (\E t \in Tunnel : OnRespHead(t) \/ OnBodyEnd(t)) \/ UNCHANGED gotFrom
  BY DEF Next, Relay, ProxyHttp, PumpEnds, HeadTimeout, VisitorCancels, VisitorSends, VisitorCloseSeen,
         OpenVisitor, AcceptTunnel, TunnelCloseSeen, RelayReceives, OnCloseStream, OnWsData, Hibernate,
         Client, ClientReceives, OnOpen, OnRequestBody, OnVisitorData, OnGuestLeft, TakeDown,
         ClientLosesTunnel, OriginResponds, OriginEnds, BodyRejected, OriginWsOpens, OriginWsMessage,
         OriginWsCloses, guestVars, vars
<1> QED  BY <1>1, <1>2, <1>3

LEMMA InitOneOwner == Init => OneOwner /\ OwnResponse
<1> SUFFICES ASSUME Init PROVE OneOwner /\ OwnResponse
  OBVIOUS
<1>1. \A i, o : ~Carried(down, i, o) /\ ~Carried(up, i, o)
  BY DEF Init, Carried
<1> QED  BY <1>1 DEF Init, NoMap, OneOwner, Names, OwnResponse

\* No guest is given another guest's response at a relay that stays in memory,
\* however many tunnels die, requests time out, guests leave and answers come
\* late: whatever still carries a stream's id was made for the same guest.
THEOREM RelayOwnResponse ==
    ASSUME ~Hibernates
    PROVE  Spec => []OwnResponse
<1>1. Init => Types /\ OneOwner /\ OwnResponse
  BY InitTypes, InitOneOwner
<1>2. (Types /\ OneOwner /\ OwnResponse) /\ [Next]_vars => (Types /\ OneOwner /\ OwnResponse)'
  BY StepTypes, StepOneOwner, StepOwnResponse
<1> QED  BY <1>1, <1>2, PTL DEF Spec

-----------------------------------------------------------------------------
\* The client's line is orderly.

\* The frames on their way to the client: those of its session's socket.
Line == IF session = 0 THEN <<>> ELSE down[session]

Opening(f) == f.type \in {"open-http", "open-ws"}

\* What opens a stream comes before all else of that stream.
OpensFirst ==
    \A k \in DOMAIN Line : Opening(Line[k]) =>
        /\ Line[k].id \notin Streams
        /\ \A j \in DOMAIN Line : j # k /\ Line[j].id = Line[k].id => k < j

\* A body may still end at the client: its request waits for it, now or when it
\* will have been opened.
BodyAwaited(i) ==
    /\ i \in DOMAIN httpStreams => httpStreams[i].phase = "body"
    /\ \A k \in DOMAIN Line : Line[k].type = "open-http" /\ Line[k].id = i => Line[k].info = TRUE

\* A body ends once.
EndsOnce ==
    \A i \in StreamId : \A k \in DOMAIN Line : Line[k].type = "body-end" /\ Line[k].id = i =>
        /\ BodyAwaited(i)
        /\ \A p \in pumps : p[1] # i
        /\ \A j \in DOMAIN Line : Line[j].type = "body-end" /\ Line[j].id = i => j = k

PumpsAwaited ==
    \A p \in pumps :
        /\ sockets[p[2]] # "unused"
        /\ p[2] = session => BodyAwaited(p[1])
        /\ \A other \in pumps : other[1] = p[1] => other = p

\* Only the session's socket works, and without a session nothing is served.
SessionsApart ==
    /\ \A t \in Tunnel : sockets[t] = "open" \/ down[t] # <<>> => t = session
    /\ session = 0 => Streams = {}

Orderly == OpensFirst /\ EndsOnce /\ PumpsAwaited /\ SessionsApart

LEMMA LineTyped ==
    ASSUME Types
    PROVE  Line \in Seq(Frames)
BY DEF Types, TunnelTypes, ClientTypes, Line

\* A frame that neither opens a stream nor ends a body.
Quiet(f) == f.type \notin {"open-http", "open-ws", "body-end"}

\* The line keeps its order; one frame may be taken from it, a quiet one added.
LineFollows ==
    \E d \in {0, 1} : \A k \in DOMAIN Line' :
        \/ k + d \in DOMAIN Line /\ Line'[k] = Line[k + d]
        \/ Quiet(Line'[k]) /\ \A j \in DOMAIN Line' : j <= k

LEMMA LineSent ==
    ASSUME Types, SessionsApart, NEW t, t \in Tunnel, NEW f, down' = SentDown(t, f), session' = session
    PROVE  /\ Line' = Line \/ (Line' = Append(Line, f) /\ t = session)
           /\ \A s \in Tunnel : down'[s] # <<>> => s = session
<1>0. 0 \notin Tunnel
  BY TunnelAssumption DEF Tunnel
<1>1. CASE sockets[t] = "open"
  <2>1. t = session /\ t # 0
    BY <1>0, <1>1 DEF SessionsApart
  <2>2. down' = [down EXCEPT ![t] = Append(@, f)] /\ down \in [Tunnel -> Seq(Frames)]
    BY <1>1 DEF SentDown, Types, TunnelTypes
  <2>3. down'[t] = Append(down[t], f) /\ \A s \in Tunnel \ {t} : down'[s] = down[s]
    BY <2>2
  <2>4. Line' = Append(Line, f)
    BY <2>1, <2>3 DEF Line
  <2> QED  BY <2>1, <2>3, <2>4 DEF SessionsApart
<1>2. CASE sockets[t] # "open"
  BY <1>2 DEF SentDown, Line, SessionsApart
<1> QED  BY <1>1, <1>2

LEMMA LineTaken ==
    ASSUME Types, SessionsApart, NEW types, TakeDown(types), down' = Taken, session' = session
    PROVE  /\ Line # <<>> /\ Line' = Tail(Line) /\ Head(Line) = Head(down[session])
           /\ \A s \in Tunnel : down'[s] # <<>> => s = session
<1>1. session \in Tunnel /\ session # 0 /\ down[session] # <<>> /\ down \in [Tunnel -> Seq(Frames)]
  BY TakenTyped DEF Types, TunnelTypes, TakeDown
<1>2. down'[session] = Tail(down[session]) /\ \A s \in Tunnel \ {session} : down'[s] = down[s]
  BY <1>1 DEF Taken
<1> QED  BY <1>1, <1>2 DEF Line, SessionsApart

LEMMA SameFollows ==
    ASSUME Types, Line' = Line
    PROVE  LineFollows
<1>1. \A k \in DOMAIN Line : k + 0 = k
  BY LineTyped
<1> QED  BY <1>1 DEF LineFollows

LEMMA TailFollows ==
    ASSUME Types, Line # <<>>, Line' = Tail(Line)
    PROVE  LineFollows
<1>1. \A k \in DOMAIN Tail(Line) : k + 1 \in DOMAIN Line /\ Tail(Line)[k] = Line[k + 1]
  BY LineTyped
<1> QED  BY <1>1 DEF LineFollows

LEMMA QuietFollows ==
    ASSUME Types, NEW f, Quiet(f), Line' = Append(Line, f)
    PROVE  LineFollows
<1>1. \A k \in DOMAIN Append(Line, f) :
         \/ k + 0 \in DOMAIN Line /\ Append(Line, f)[k] = Line[k + 0]
         \/ Append(Line, f)[k] = f /\ \A j \in DOMAIN Append(Line, f) : j <= k
  BY LineTyped
<1> QED  BY <1>1 DEF LineFollows

\* Order survives a step that does not open a stream, end a body or change the
\* session.
LEMMA QuietStep ==
    ASSUME Types, Types', Orderly, LineFollows, session' = session, pumps' \subseteq pumps,
           \A t \in Tunnel : /\ sockets'[t] = "open" => sockets[t] = "open"
                             /\ sockets'[t] = "unused" => sockets[t] = "unused"
                             /\ down'[t] # <<>> => t = session,
           DOMAIN wsStreams' \subseteq DOMAIN wsStreams,
           \A i \in DOMAIN httpStreams' :
              /\ i \in DOMAIN httpStreams
              /\ httpStreams[i].phase = "body" => httpStreams'[i].phase = "body"
    PROVE  Orderly'
<1>1. PICK d \in {0, 1} : \A k \in DOMAIN Line' :
         \/ k + d \in DOMAIN Line /\ Line'[k] = Line[k + d]
         \/ Quiet(Line'[k]) /\ \A j \in DOMAIN Line' : j <= k
  BY DEF LineFollows
<1>2. /\ \A k \in DOMAIN Line' : k \in Nat
      /\ \A k \in DOMAIN Line : k \in Nat
  BY LineTyped
<1>3. \A k \in DOMAIN Line' : ~Quiet(Line'[k]) => k + d \in DOMAIN Line /\ Line'[k] = Line[k + d]
  BY <1>1
<1>4. Streams' \subseteq Streams
  BY DEF Streams
<1>5. \A i : BodyAwaited(i) => BodyAwaited(i)'
  BY <1>3 DEF BodyAwaited, Quiet
<1>6. OpensFirst'
  <2> SUFFICES ASSUME NEW k \in DOMAIN Line', Opening(Line'[k])
               PROVE  /\ Line'[k].id \notin Streams'
                      /\ \A j \in DOMAIN Line' : j # k /\ Line'[j].id = Line'[k].id => k < j
    BY DEF OpensFirst
  <2>1. k + d \in DOMAIN Line /\ Line'[k] = Line[k + d]
    BY <1>3 DEF Opening, Quiet
  <2>2. /\ Line[k + d].id \notin Streams
        /\ \A j \in DOMAIN Line : j # k + d /\ Line[j].id = Line[k + d].id => k + d < j
    BY <2>1 DEF Orderly, OpensFirst
  <2>3. ASSUME NEW j \in DOMAIN Line', j # k, Line'[j].id = Line'[k].id
        PROVE  k < j
    <3>1. CASE j + d \in DOMAIN Line /\ Line'[j] = Line[j + d]
      BY <1>2, <2>1, <2>2, <2>3, <3>1
    <3>2. CASE k <= j
      BY <1>2, <2>3, <3>2
    <3> QED  BY <1>1, <3>1, <3>2
  <2> QED  BY <1>4, <2>1, <2>2, <2>3
<1>7. EndsOnce'
  <2> SUFFICES ASSUME NEW i \in StreamId, NEW k \in DOMAIN Line',
                      Line'[k].type = "body-end", Line'[k].id = i
               PROVE  /\ BodyAwaited(i)'
                      /\ \A p \in pumps' : p[1] # i
                      /\ \A j \in DOMAIN Line' : Line'[j].type = "body-end" /\ Line'[j].id = i => j = k
    BY DEF EndsOnce
  <2>1. k + d \in DOMAIN Line /\ Line'[k] = Line[k + d]
    BY <1>3 DEF Quiet
  <2>2. /\ BodyAwaited(i)
        /\ \A p \in pumps : p[1] # i
        /\ \A j \in DOMAIN Line : Line[j].type = "body-end" /\ Line[j].id = i => j = k + d
    BY <2>1 DEF Orderly, EndsOnce
  <2>3. BodyAwaited(i)'
    BY <1>5, <2>2
  <2>4. ASSUME NEW j \in DOMAIN Line', Line'[j].type = "body-end", Line'[j].id = i
        PROVE  j = k
    <3>1. j + d \in DOMAIN Line /\ Line'[j] = Line[j + d]
      BY <1>3, <2>4 DEF Quiet
    <3>2. j + d = k + d
      BY <2>2, <2>4, <3>1
    <3> QED  BY <1>2, <3>2
  <2> QED  BY <2>2, <2>3, <2>4
<1>8. PumpsAwaited'
  BY <1>5 DEF Orderly, PumpsAwaited, Types, RelayTypes
<1>9. SessionsApart'
  BY <1>4 DEF Orderly, SessionsApart
<1> QED  BY <1>6, <1>7, <1>8, <1>9 DEF Orderly

\* Nothing is sent to the client and nothing new is served.
LEMMA SilentOrderly ==
    ASSUME Types, Types', Orderly, UNCHANGED <<down, session>>, pumps' \subseteq pumps,
           \A t \in Tunnel : /\ sockets'[t] = "open" => sockets[t] = "open"
                             /\ sockets'[t] = "unused" => sockets[t] = "unused",
           DOMAIN wsStreams' \subseteq DOMAIN wsStreams,
           \A i \in DOMAIN httpStreams' :
              /\ i \in DOMAIN httpStreams
              /\ httpStreams[i].phase = "body" => httpStreams'[i].phase = "body"
    PROVE  Orderly'
<1>1. Line' = Line
  BY DEF Line
<1>2. LineFollows
  BY <1>1, SameFollows
<1>3. \A t \in Tunnel : down'[t] # <<>> => t = session
  BY DEF Orderly, SessionsApart
<1> QED  BY <1>2, <1>3, QuietStep

\* A quiet frame is sent.
LEMMA QuietSentOrderly ==
    ASSUME Types, Types', Orderly, NEW t \in Tunnel, NEW f, Quiet(f), down' = SentDown(t, f),
           UNCHANGED <<session, sockets, httpStreams, wsStreams>>, pumps' \subseteq pumps
    PROVE  Orderly'
<1>1. LineFollows /\ \A s \in Tunnel : down'[s] # <<>> => s = session
  BY LineSent, SameFollows, QuietFollows DEF Orderly
<1> QED  BY <1>1, QuietStep

\* The client takes a frame and serves nothing new.
LEMMA TakenOrderly ==
    ASSUME Types, Types', Orderly, NEW types, TakeDown(types), down' = Taken,
           UNCHANGED <<session, sockets>>,
           DOMAIN wsStreams' \subseteq DOMAIN wsStreams,
           \A i \in DOMAIN httpStreams' :
              /\ i \in DOMAIN httpStreams
              /\ httpStreams[i].phase = "body" => httpStreams'[i].phase = "body"
    PROVE  Orderly'
<1>1. LineFollows /\ \A s \in Tunnel : down'[s] # <<>> => s = session
  BY LineTaken, TailFollows DEF Orderly
<1>2. UNCHANGED pumps
  BY DEF TakeDown
<1> QED  BY <1>1, <1>2, QuietStep

\* A session that ends takes its line and its streams along.
LEMMA SessionEndsOrderly ==
    ASSUME Types, Types', Orderly, SessionEnds, down' = [down EXCEPT ![session] = <<>>], UNCHANGED pumps
    PROVE  Orderly'
<1>0. 0 \notin Tunnel
  BY TunnelAssumption DEF Tunnel
<1>1. session' = 0 /\ Line' = <<>> /\ Streams' = {}
  BY DEF SessionEnds, Line, Streams, NoMap
<1>2. sockets \in [Tunnel -> SocketState] /\ down \in [Tunnel -> Seq(Frames)]
  BY DEF Types, RelayTypes, TunnelTypes
<1>3. \A t \in Tunnel : /\ sockets'[t] # "open" /\ down'[t] = <<>>
                        /\ sockets'[t] = "unused" => sockets[t] = "unused"
  BY <1>2 DEF SessionEnds, Orderly, SessionsApart
<1>4. OpensFirst' /\ EndsOnce'
  BY <1>1 DEF OpensFirst, EndsOnce
<1>5. PumpsAwaited'
  BY <1>0, <1>1, <1>3 DEF Orderly, PumpsAwaited, Types, RelayTypes
<1>6. SessionsApart'
  BY <1>1, <1>3 DEF SessionsApart
<1> QED  BY <1>4, <1>5, <1>6 DEF Orderly

\* A session starts with an empty line, over a socket no body was promised on.
LEMMA AcceptTunnelOrderly ==
    ASSUME Types, Types', Orderly, NEW t \in Tunnel, AcceptTunnel(t)
    PROVE  Orderly'
<1>0. 0 \notin Tunnel
  BY TunnelAssumption DEF Tunnel
<1>1. session = 0 /\ session' = t /\ sockets[t] = "unused"
      /\ UNCHANGED <<pumps, down, httpStreams, wsStreams>>
  BY DEF AcceptTunnel
<1>2. \A s \in Tunnel : down'[s] = <<>>
  BY <1>0, <1>1 DEF Orderly, SessionsApart
<1>3. Line' = <<>>
  BY <1>1, <1>2 DEF Line
<1>4. \A s \in Tunnel : /\ sockets'[s] = "open" => s = t
                        /\ sockets'[s] = "unused" => sockets[s] = "unused"
  BY <1>0, <1>1 DEF AcceptTunnel, Orderly, SessionsApart
<1>5. OpensFirst' /\ EndsOnce'
  BY <1>3 DEF OpensFirst, EndsOnce
<1>6. PumpsAwaited'
  BY <1>1, <1>4 DEF Orderly, PumpsAwaited, Types, RelayTypes
<1>7. SessionsApart'
  BY <1>0, <1>1, <1>2, <1>4 DEF SessionsApart
<1> QED  BY <1>5, <1>6, <1>7 DEF Orderly

\* The next id is new to the line, to what is served and to the pumps.
LEMMA NextIsNew ==
    ASSUME Types, OneOwner
    PROVE  /\ \A k \in DOMAIN Line : Line[k].id # nextStreamId
           /\ nextStreamId \notin Streams
           /\ \A p \in pumps : p[1] # nextStreamId
<1>1. nextStreamId \in Nat
  BY DEF Types, RelayTypes
<1>2. ASSUME NEW k \in DOMAIN Line PROVE Line[k].id # nextStreamId
  <2>1. session \in Tunnel /\ k \in DOMAIN down[session] /\ Line[k] = down[session][k] /\ Line[k] \in Frames
    BY <1>2, LineTyped DEF Line, Types, ClientTypes
  <2>2. Names(Line[k].id, Line[k].of)
    BY <2>1, Zenon DEF Names, Carried
  <2>3. Line[k].id \in StreamId /\ Line[k].of \in Guest \cup Visitor
    BY <2>1, FrameFields
  <2> QED  BY <1>1, <2>2, <2>3 DEF OneOwner
<1>3. nextStreamId \notin DOMAIN httpStreams
  <2> SUFFICES ASSUME nextStreamId \in DOMAIN httpStreams PROVE FALSE
    OBVIOUS
  <2>1. nextStreamId \in StreamId /\ httpStreams[nextStreamId].of \in Guest
    BY DEF Types, ClientTypes, Map, HttpStream
  <2>2. Names(nextStreamId, httpStreams[nextStreamId].of)
    BY DEF Names
  <2> QED  BY <1>1, <2>1, <2>2 DEF OneOwner
<1>4. nextStreamId \notin DOMAIN wsStreams
  <2> SUFFICES ASSUME nextStreamId \in DOMAIN wsStreams PROVE FALSE
    OBVIOUS
  <2>1. nextStreamId \in StreamId /\ wsStreams[nextStreamId].of \in Visitor
    BY DEF Types, ClientTypes, Map, WsStream
  <2>2. Names(nextStreamId, wsStreams[nextStreamId].of)
    BY DEF Names
  <2> QED  BY <1>1, <2>1, <2>2 DEF OneOwner
<1>5. ASSUME NEW p \in pumps PROVE p[1] # nextStreamId
  <2>1. p[1] \in StreamId /\ p[3] \in Guest
    BY DEF Types, RelayTypes
  <2>2. Names(p[1], p[3])
    BY Zenon DEF Names
  <2> QED  BY <1>1, <2>1, <2>2 DEF OneOwner
<1> QED  BY <1>2, <1>3, <1>4, <1>5 DEF Streams

\* The relay opens a stream, and starts its pump if it has a body.
LEMMA OpeningSentOrderly ==
    ASSUME Types, Types', OneOwner, Orderly, NEW t \in Tunnel, sockets[t] # "unused",
           NEW f \in Frames, Opening(f), f.id = nextStreamId, down' = SentDown(t, f),
           UNCHANGED <<session, sockets, httpStreams, wsStreams>>, NEW owner,
           \A p \in pumps' : p \in pumps \/ (p = <<nextStreamId, t, owner>> /\ f.info = TRUE)
    PROVE  Orderly'
<1>1. /\ \A k \in DOMAIN Line : Line[k].id # nextStreamId
      /\ nextStreamId \notin Streams
      /\ \A p \in pumps : p[1] # nextStreamId
  BY NextIsNew
<1>2. /\ Line' = Line \/ Line' = Append(Line, f)
      /\ \A s \in Tunnel : down'[s] # <<>> => s = session
  BY LineSent DEF Orderly
<1>3. /\ \A k \in DOMAIN Line' : \/ k \in DOMAIN Line /\ Line'[k] = Line[k]
                                 \/ Line'[k] = f /\ \A j \in DOMAIN Line' : j <= k
      /\ \A k \in DOMAIN Line' : k \in Nat
  BY <1>2, LineTyped
<1>4. Streams' = Streams
  BY DEF Streams
<1>5. OpensFirst'
  <2> SUFFICES ASSUME NEW k \in DOMAIN Line', Opening(Line'[k])
               PROVE  /\ Line'[k].id \notin Streams'
                      /\ \A j \in DOMAIN Line' : j # k /\ Line'[j].id = Line'[k].id => k < j
    BY DEF OpensFirst
  <2>1. CASE k \in DOMAIN Line /\ Line'[k] = Line[k]
    <3>1. /\ Line[k].id \notin Streams
          /\ \A j \in DOMAIN Line : j # k /\ Line[j].id = Line[k].id => k < j
      BY <2>1 DEF Orderly, OpensFirst
    <3>2. ASSUME NEW j \in DOMAIN Line', j # k, Line'[j].id = Line'[k].id
          PROVE  k < j
      <4>1. j \in DOMAIN Line /\ Line'[j] = Line[j]
        BY <1>1, <1>3, <2>1, <3>2
      <4> QED  BY <2>1, <3>1, <3>2, <4>1
    <3> QED  BY <1>4, <2>1, <3>1, <3>2
  <2>2. CASE Line'[k] = f /\ \A j \in DOMAIN Line' : j <= k
    <3>1. ASSUME NEW j \in DOMAIN Line', j # k, Line'[j].id = Line'[k].id
          PROVE  k < j
      <4>1. Line'[j] = f /\ k <= j
        BY <1>1, <1>3, <2>2, <3>1
      <4> QED  BY <1>3, <3>1, <4>1
    <3> QED  BY <1>1, <1>4, <2>2, <3>1
  <2> QED  BY <1>3, <2>1, <2>2
<1>6. \A i : i # nextStreamId /\ BodyAwaited(i) => BodyAwaited(i)'
  BY <1>3 DEF BodyAwaited
<1>7. EndsOnce'
  <2> SUFFICES ASSUME NEW i \in StreamId, NEW k \in DOMAIN Line',
                      Line'[k].type = "body-end", Line'[k].id = i
               PROVE  /\ BodyAwaited(i)'
                      /\ \A p \in pumps' : p[1] # i
                      /\ \A j \in DOMAIN Line' : Line'[j].type = "body-end" /\ Line'[j].id = i => j = k
    BY DEF EndsOnce
  <2>1. \A j \in DOMAIN Line' : Line'[j].type = "body-end" => j \in DOMAIN Line /\ Line'[j] = Line[j]
    BY <1>3 DEF Opening
  <2>2. /\ BodyAwaited(i)
        /\ \A p \in pumps : p[1] # i
        /\ \A j \in DOMAIN Line : Line[j].type = "body-end" /\ Line[j].id = i => j = k
    BY <2>1 DEF Orderly, EndsOnce
  <2>3. i # nextStreamId
    BY <1>1, <2>1
  <2> QED  BY <1>6, <2>1, <2>2, <2>3
<1>8. PumpsAwaited'
  <2>1. \A i : i = nextStreamId /\ f.info = TRUE => BodyAwaited(i)'
    BY <1>1, <1>3 DEF BodyAwaited, Streams
  <2> QED  BY <1>1, <1>6, <2>1 DEF Orderly, PumpsAwaited
<1>9. SessionsApart'
  BY <1>2, <1>4 DEF Orderly, SessionsApart
<1> QED  BY <1>5, <1>7, <1>8, <1>9 DEF Orderly

LEMMA ProxyHttpOrderly ==
    ASSUME Types, Types', OneOwner, Orderly, NEW g \in Guest, NEW hasBody \in BOOLEAN,
           ProxyHttp(g, hasBody)
    PROVE  Orderly'
<1>1. UNCHANGED <<session, sockets, httpStreams, wsStreams>>
  BY DEF ProxyHttp, clientVars
<1>2. CASE ActiveTunnel = 0
  BY <1>1, <1>2, SilentOrderly DEF ProxyHttp
<1>3. CASE ActiveTunnel # 0
  <2> DEFINE f == Frame("open-http", nextStreamId, g, hasBody)
  <2>1. ActiveTunnel \in Tunnel /\ sockets[ActiveTunnel] # "unused"
    BY <1>3, ActiveTunnelType DEF Usable
  <2>2. nextStreamId \in StreamId
    BY <1>1, <1>3, GuestStarts, StartedType DEF ProxyHttp, Types, IdsCounted, RelayTypes, StreamId
  <2>3. f \in Frames /\ Opening(f) /\ f.id = nextStreamId /\ f.info = hasBody
    BY <2>2 DEF Frame, Frames, Opening
  <2>4. down' = SentDown(ActiveTunnel, f)
        /\ \A p \in pumps' : p \in pumps \/ (p = <<nextStreamId, ActiveTunnel, g>> /\ hasBody)
    BY <1>3 DEF ProxyHttp
  <2> HIDE DEF f
  <2> QED  BY <1>1, <2>1, <2>3, <2>4, OpeningSentOrderly
<1> QED  BY <1>2, <1>3

LEMMA OpenVisitorOrderly ==
    ASSUME Types, Types', OneOwner, Orderly, NEW v \in Visitor, OpenVisitor(v)
    PROVE  Orderly'
<1>1. UNCHANGED <<session, sockets, httpStreams, wsStreams, pumps>>
  BY DEF OpenVisitor, clientVars
<1>2. CASE ActiveTunnel = 0
  BY <1>1, <1>2, SilentOrderly DEF OpenVisitor
<1>3. CASE ActiveTunnel # 0
  <2> DEFINE f == Frame("open-ws", nextStreamId, v, FALSE)
  <2>1. ActiveTunnel \in Tunnel /\ sockets[ActiveTunnel] # "unused"
    BY <1>3, ActiveTunnelType DEF Usable
  <2>2. nextStreamId \in StreamId
    BY <1>1, <1>3, VisitorStarts, StartedType DEF OpenVisitor, Types, IdsCounted, RelayTypes, StreamId
  <2>3. f \in Frames /\ Opening(f) /\ f.id = nextStreamId
    BY <2>2 DEF Frame, Frames, Opening
  <2>4. down' = SentDown(ActiveTunnel, f)
    BY <1>3 DEF OpenVisitor
  <2> HIDE DEF f
  <2> QED  BY <1>1, <2>1, <2>3, <2>4, OpeningSentOrderly
<1> QED  BY <1>2, <1>3

\* A pump's last frame reaches a client whose request waits for it, or none.
LEMMA PumpEndsOrderly ==
    ASSUME Types, Types', Orderly, NEW q \in pumps, PumpEnds(q)
    PROVE  Orderly'
<1>1. UNCHANGED <<session, sockets, httpStreams, wsStreams>> /\ pumps' = pumps \ {q}
  BY DEF PumpEnds, clientVars
<1>2. q[1] \in StreamId /\ q[2] \in Tunnel
  BY DEF Types, RelayTypes
<1>3. PICK f : /\ down' = SentDown(q[2], f)
               /\ f.type \in {"body-end", "close-stream"} /\ f.id = q[1]
  <2>1. \A type : /\ Frame(type, q[1], q[3], FALSE).type = type
                  /\ Frame(type, q[1], q[3], FALSE).id = q[1]
    BY DEF Frame
  <2> QED  BY <2>1 DEF PumpEnds
<1>4. CASE f.type = "close-stream"
  BY <1>1, <1>2, <1>3, <1>4, QuietSentOrderly DEF Quiet
<1>5. /\ Line' = Line \/ (Line' = Append(Line, f) /\ q[2] = session)
      /\ \A s \in Tunnel : down'[s] # <<>> => s = session
  BY <1>1, <1>2, <1>3, LineSent DEF Orderly
<1>6. CASE Line' = Line
  BY <1>1, <1>5, <1>6, SameFollows, QuietStep
<1>7. CASE f.type = "body-end" /\ Line' = Append(Line, f) /\ q[2] = session
  <2>1. /\ \A k \in DOMAIN Line' : \/ k \in DOMAIN Line /\ Line'[k] = Line[k]
                                   \/ Line'[k] = f /\ \A j \in DOMAIN Line' : j <= k
        /\ \A k \in DOMAIN Line' : k \in Nat
    BY <1>7, LineTyped
  <2>2. Streams' = Streams
    BY <1>1 DEF Streams
  <2>3. \A i : BodyAwaited(i) => BodyAwaited(i)'
    BY <1>1, <1>7, <2>1 DEF BodyAwaited
  <2>4. BodyAwaited(q[1]) /\ \A p \in pumps' : p[1] # q[1]
    BY <1>1, <1>7 DEF Orderly, PumpsAwaited
  <2>5. \A k \in DOMAIN Line : Line[k].type = "body-end" => Line[k].id # q[1]
    BY <1>2 DEF Orderly, EndsOnce
  <2>6. OpensFirst'
    <3> SUFFICES ASSUME NEW k \in DOMAIN Line', Opening(Line'[k])
                 PROVE  /\ Line'[k].id \notin Streams'
                        /\ \A j \in DOMAIN Line' : j # k /\ Line'[j].id = Line'[k].id => k < j
      BY DEF OpensFirst
    <3>1. k \in DOMAIN Line /\ Line'[k] = Line[k]
      BY <1>7, <2>1 DEF Opening
    <3>2. /\ Line[k].id \notin Streams
          /\ \A j \in DOMAIN Line : j # k /\ Line[j].id = Line[k].id => k < j
      BY <3>1 DEF Orderly, OpensFirst
    <3>3. ASSUME NEW j \in DOMAIN Line', j # k, Line'[j].id = Line'[k].id
          PROVE  k < j
      BY <2>1, <3>1, <3>2, <3>3
    <3> QED  BY <2>2, <3>1, <3>2, <3>3
  <2>7. EndsOnce'
    <3> SUFFICES ASSUME NEW i \in StreamId, NEW k \in DOMAIN Line',
                        Line'[k].type = "body-end", Line'[k].id = i
                 PROVE  /\ BodyAwaited(i)'
                        /\ \A p \in pumps' : p[1] # i
                        /\ \A j \in DOMAIN Line' : Line'[j].type = "body-end" /\ Line'[j].id = i => j = k
      BY DEF EndsOnce
    <3>1. CASE k \in DOMAIN Line /\ Line'[k] = Line[k]
      <4>1. /\ BodyAwaited(i)
            /\ \A p \in pumps : p[1] # i
            /\ \A j \in DOMAIN Line : Line[j].type = "body-end" /\ Line[j].id = i => j = k
        BY <3>1 DEF Orderly, EndsOnce
      <4>2. \A j \in DOMAIN Line' : Line'[j].id = i => j \in DOMAIN Line /\ Line'[j] = Line[j]
        BY <1>3, <2>1, <2>5, <3>1
      <4> QED  BY <1>1, <2>3, <4>1, <4>2
    <3>2. CASE Line'[k] = f /\ \A j \in DOMAIN Line' : j <= k
      <4>1. i = q[1]
        BY <1>3, <3>2
      <4>2. \A j \in DOMAIN Line' : Line'[j].type = "body-end" /\ Line'[j].id = i => k <= j
        BY <2>1, <2>5, <3>2, <4>1
      <4>3. BodyAwaited(i)'
        BY <2>3, <2>4, <4>1
      <4> QED  BY <2>1, <2>4, <3>2, <4>1, <4>2, <4>3
    <3> QED  BY <2>1, <3>1, <3>2
  <2>8. PumpsAwaited'
    BY <1>1, <2>3 DEF Orderly, PumpsAwaited
  <2>9. SessionsApart'
    BY <1>1, <1>5, <2>2 DEF Orderly, SessionsApart
  <2> QED  BY <2>6, <2>7, <2>8, <2>9 DEF Orderly
<1> QED  BY <1>3, <1>4, <1>5, <1>6, <1>7

\* What opens a stream is taken: the stream waits for its body if one is coming.
LEMMA OnOpenOrderly ==
    ASSUME Types, Types', Orderly, OnOpen
    PROVE  Orderly'
<1> DEFINE f == Head(down[session])
<1>1. TakeDown({"open-http", "open-ws"}) /\ UNCHANGED pumps
  BY OpeningCases DEF TakeDown
<1>2. CASE Rejects
  BY <1>1, <1>2, SessionEndsOrderly DEF Rejects
<1>3. CASE TakesOpening /\ UNCHANGED <<httpStreams, wsStreams>>
  BY <1>1, <1>3, TakenOrderly DEF TakesOpening
<1>4. CASE TakesOpening /\ Opens(f)
  <2>1. down' = Taken /\ UNCHANGED <<session, sockets>>
    BY <1>4 DEF TakesOpening
  <2>2. /\ Line # <<>> /\ Line' = Tail(Line) /\ Head(Line) = f
        /\ \A s \in Tunnel : down'[s] # <<>> => s = session
    BY <1>1, <2>1, LineTaken DEF Orderly
  <2>3. /\ 1 \in DOMAIN Line /\ Line[1] = f
        /\ \A k \in DOMAIN Line' : k \in Nat /\ k >= 1 /\ k + 1 \in DOMAIN Line /\ Line'[k] = Line[k + 1]
    BY <2>2, LineTyped
  <2>4. f.type \in {"open-http", "open-ws"} /\ session # 0
    BY <1>1 DEF TakeDown
  <2>5. Streams' \subseteq Streams \cup {f.id}
    BY <1>4 DEF Opens, Put, Streams
  <2>6. \A j \in DOMAIN Line : j # 1 /\ Line[j].id = f.id => 1 < j
    BY <2>3, <2>4 DEF Orderly, OpensFirst, Opening
  <2>7. OpensFirst'
    <3> SUFFICES ASSUME NEW k \in DOMAIN Line', Opening(Line'[k])
                 PROVE  /\ Line'[k].id \notin Streams'
                        /\ \A j \in DOMAIN Line' : j # k /\ Line'[j].id = Line'[k].id => k < j
      BY DEF OpensFirst
    <3>1. /\ Line[k + 1].id \notin Streams
          /\ \A j \in DOMAIN Line : j # k + 1 /\ Line[j].id = Line[k + 1].id => k + 1 < j
      BY <2>3 DEF Orderly, OpensFirst
    <3>2. Line[k + 1].id # f.id
      <4> SUFFICES ASSUME Line[k + 1].id = f.id PROVE FALSE
        OBVIOUS
      <4>1. 1 # k + 1 /\ ~(k + 1 < 1)
        BY <2>3
      <4> QED  BY <2>3, <3>1, <4>1
    <3>3. ASSUME NEW j \in DOMAIN Line', j # k, Line'[j].id = Line'[k].id
          PROVE  k < j
      <4>1. j + 1 # k + 1 /\ (k + 1 < j + 1 => k < j)
        BY <2>3, <3>3
      <4> QED  BY <2>3, <3>1, <3>3, <4>1
    <3> QED  BY <2>3, <2>5, <3>1, <3>2, <3>3
  <2>8. \A i : BodyAwaited(i) => BodyAwaited(i)'
    <3> SUFFICES ASSUME NEW i, BodyAwaited(i) PROVE BodyAwaited(i)'
      OBVIOUS
    <3>1. i \in DOMAIN httpStreams' => httpStreams'[i].phase = "body"
      <4>1. CASE i = f.id /\ f.type = "open-http"
        <5>1. f.info = TRUE
          BY <2>3, <4>1 DEF BodyAwaited
        <5> QED  BY <1>4, <4>1, <5>1 DEF Opens, Put
      <4>2. CASE i # f.id \/ f.type = "open-ws"
        BY <1>4, <4>2 DEF Opens, Put, BodyAwaited
      <4> QED  BY <2>4, <4>1, <4>2
    <3>2. \A k \in DOMAIN Line' : Line'[k].type = "open-http" /\ Line'[k].id = i => Line'[k].info = TRUE
      BY <2>3 DEF BodyAwaited
    <3> QED  BY <3>1, <3>2 DEF BodyAwaited
  <2>9. EndsOnce'
    <3> SUFFICES ASSUME NEW i \in StreamId, NEW k \in DOMAIN Line',
                        Line'[k].type = "body-end", Line'[k].id = i
                 PROVE  /\ BodyAwaited(i)'
                        /\ \A p \in pumps' : p[1] # i
                        /\ \A j \in DOMAIN Line' : Line'[j].type = "body-end" /\ Line'[j].id = i => j = k
      BY DEF EndsOnce
    <3>1. /\ BodyAwaited(i)
          /\ \A p \in pumps : p[1] # i
          /\ \A j \in DOMAIN Line : Line[j].type = "body-end" /\ Line[j].id = i => j = k + 1
      BY <2>3 DEF Orderly, EndsOnce
    <3>2. BodyAwaited(i)'
      BY <2>8, <3>1
    <3>3. ASSUME NEW j \in DOMAIN Line', Line'[j].type = "body-end", Line'[j].id = i
          PROVE  j = k
      <4>1. j + 1 = k + 1
        BY <2>3, <3>1, <3>3
      <4> QED  BY <2>3, <4>1
    <3> QED  BY <1>1, <3>1, <3>2, <3>3
  <2>10. PumpsAwaited'
    BY <1>1, <2>1, <2>8 DEF Orderly, PumpsAwaited
  <2>11. SessionsApart'
    BY <2>1, <2>2, <2>4 DEF Orderly, SessionsApart
  <2> QED  BY <2>7, <2>9, <2>10, <2>11 DEF Orderly
<1> QED  BY <1>2, <1>3, <1>4, OpeningCases DEF TakesOpening

\* The end of a body is taken, and no other is coming for that stream.
LEMMA OnRequestBodyOrderly ==
    ASSUME Types, Types', Orderly, OnRequestBody
    PROVE  Orderly'
<1> DEFINE f == Head(down[session])
<1>1. TakeDown({"body-end"}) /\ UNCHANGED pumps
  BY DEF OnRequestBody, TakeDown
<1>2. CASE OutOfTurn(f)
  BY <1>1, <1>2, SessionEndsOrderly DEF OnRequestBody, Rejects
<1>3. CASE ~OutOfTurn(f)
  <2>1. down' = Taken /\ UNCHANGED <<session, sockets, wsStreams>>
    BY <1>3 DEF OnRequestBody
  <2>2. /\ Line # <<>> /\ Line' = Tail(Line) /\ Head(Line) = f
        /\ \A s \in Tunnel : down'[s] # <<>> => s = session
    BY <1>1, <2>1, LineTaken DEF Orderly
  <2>3. /\ 1 \in DOMAIN Line /\ Line[1] = f /\ f \in Frames
        /\ \A k \in DOMAIN Line' : k \in Nat /\ k >= 1 /\ k + 1 \in DOMAIN Line /\ Line'[k] = Line[k + 1]
    BY <2>2, LineTyped
  <2>4. f.type = "body-end" /\ session # 0 /\ f.id \in StreamId
    BY <1>1, <2>3, FrameFields DEF TakeDown
  <2>5. Streams' = Streams /\ \A i \in DOMAIN httpStreams' :
           i \in DOMAIN httpStreams /\ (i # f.id => httpStreams'[i] = httpStreams[i])
    BY <1>3, <2>1 DEF OnRequestBody, Streams
  <2>6. /\ \A p \in pumps : p[1] # f.id
        /\ \A j \in DOMAIN Line : Line[j].type = "body-end" /\ Line[j].id = f.id => j = 1
    BY <2>3, <2>4 DEF Orderly, EndsOnce
  <2>7. OpensFirst'
    <3> SUFFICES ASSUME NEW k \in DOMAIN Line', Opening(Line'[k])
                 PROVE  /\ Line'[k].id \notin Streams'
                        /\ \A j \in DOMAIN Line' : j # k /\ Line'[j].id = Line'[k].id => k < j
      BY DEF OpensFirst
    <3>1. /\ Line[k + 1].id \notin Streams
          /\ \A j \in DOMAIN Line : j # k + 1 /\ Line[j].id = Line[k + 1].id => k + 1 < j
      BY <2>3 DEF Orderly, OpensFirst
    <3>2. ASSUME NEW j \in DOMAIN Line', j # k, Line'[j].id = Line'[k].id
          PROVE  k < j
      <4>1. j + 1 # k + 1 /\ (k + 1 < j + 1 => k < j)
        BY <2>3, <3>2
      <4> QED  BY <2>3, <3>1, <3>2, <4>1
    <3> QED  BY <2>3, <2>5, <3>1, <3>2
  <2>8. \A i : i # f.id /\ BodyAwaited(i) => BodyAwaited(i)'
    BY <2>3, <2>5 DEF BodyAwaited
  <2>9. EndsOnce'
    <3> SUFFICES ASSUME NEW i \in StreamId, NEW k \in DOMAIN Line',
                        Line'[k].type = "body-end", Line'[k].id = i
                 PROVE  /\ BodyAwaited(i)'
                        /\ \A p \in pumps' : p[1] # i
                        /\ \A j \in DOMAIN Line' : Line'[j].type = "body-end" /\ Line'[j].id = i => j = k
      BY DEF EndsOnce
    <3>1. /\ BodyAwaited(i)
          /\ \A p \in pumps : p[1] # i
          /\ \A j \in DOMAIN Line : Line[j].type = "body-end" /\ Line[j].id = i => j = k + 1
      BY <2>3 DEF Orderly, EndsOnce
    <3>2. i # f.id
      <4>1. k + 1 # 1
        BY <2>3
      <4> QED  BY <2>3, <2>6, <4>1
    <3>3. BodyAwaited(i)'
      BY <2>8, <3>1, <3>2
    <3>4. ASSUME NEW j \in DOMAIN Line', Line'[j].type = "body-end", Line'[j].id = i
          PROVE  j = k
      <4>1. j + 1 = k + 1
        BY <2>3, <3>1, <3>4
      <4> QED  BY <2>3, <4>1
    <3> QED  BY <1>1, <3>1, <3>3, <3>4
  <2>10. PumpsAwaited'
    BY <1>1, <2>1, <2>6, <2>8 DEF Orderly, PumpsAwaited
  <2>11. SessionsApart'
    BY <2>1, <2>2, <2>5 DEF Orderly, SessionsApart
  <2> QED  BY <2>7, <2>9, <2>10, <2>11 DEF Orderly
<1> QED  BY <1>2, <1>3

LEMMA VisitorFrameOrderly ==
    ASSUME Types, Types', Orderly, NEW i \in StreamId,
           VisitorCancels(i) \/ VisitorSends(i) \/ VisitorCloseSeen(i)
    PROVE  Orderly'
<1>1. UNCHANGED <<session, sockets, httpStreams, wsStreams, pumps>>
  BY DEF VisitorCancels, VisitorSends, VisitorCloseSeen, clientVars
<1>2. \A type \in {"close-stream", "ws-data"} : \A of, info : Quiet(Frame(type, i, of, info))
  BY DEF Quiet, Frame
<1>3. UNCHANGED down \/ (ActiveTunnel # 0 /\ \E f : Quiet(f) /\ down' = SentDown(ActiveTunnel, f))
  BY <1>2 DEF VisitorCancels, VisitorSends, VisitorCloseSeen
<1>4. CASE UNCHANGED down
  BY <1>1, <1>4, SilentOrderly
<1>5. CASE ActiveTunnel # 0 /\ \E f : Quiet(f) /\ down' = SentDown(ActiveTunnel, f)
  <2>1. ActiveTunnel \in Tunnel
    BY <1>5, ActiveTunnelType
  <2> QED  BY <1>1, <1>5, <2>1, QuietSentOrderly
<1> QED  BY <1>3, <1>4, <1>5

LEMMA OnVisitorDataOrderly ==
    ASSUME Types, Types', Orderly, OnVisitorData
    PROVE  Orderly'
<1>1. TakeDown({"ws-data"}) /\ down' = Taken /\ UNCHANGED <<session, sockets, httpStreams>>
  BY DEF OnVisitorData
<1>2. DOMAIN wsStreams' \subseteq DOMAIN wsStreams
  BY DEF OnVisitorData, Without, Restrict
<1> QED  BY <1>1, <1>2, TakenOrderly

LEMMA OnGuestLeftOrderly ==
    ASSUME Types, Types', Orderly, OnGuestLeft
    PROVE  Orderly'
<1>1. TakeDown({"close-stream"}) /\ down' = Taken /\ UNCHANGED <<session, sockets>>
  BY DEF OnGuestLeft
<1>2. DOMAIN wsStreams' \subseteq DOMAIN wsStreams
      /\ \A i \in DOMAIN httpStreams' : i \in DOMAIN httpStreams /\ httpStreams'[i] = httpStreams[i]
  BY DEF OnGuestLeft, Without, Restrict
<1> QED  BY <1>1, <1>2, TakenOrderly

\* What the origin does at most ends a stream.
LEMMA OriginOrderly ==
    ASSUME Types, Types', Orderly, NEW i \in StreamId,
           \/ OriginResponds(i) \/ OriginEnds(i) \/ BodyRejected(i) \/ OriginWsOpens(i)
           \/ \E v \in Visitor : OriginWsMessage(i, v) \/ OriginWsCloses(i, v)
    PROVE  Orderly'
<1>1. UNCHANGED <<down, session, sockets, pumps>>
  BY DEF OriginResponds, OriginEnds, BodyRejected, OriginWsOpens, OriginWsMessage, OriginWsCloses,
         doVars, clientVars
<1>2. DOMAIN wsStreams' \subseteq DOMAIN wsStreams
  BY DEF OriginResponds, OriginEnds, BodyRejected, OriginWsOpens, OriginWsMessage, OriginWsCloses,
         clientVars, Without, Restrict
<1>3. \A j \in DOMAIN httpStreams' :
         /\ j \in DOMAIN httpStreams
         /\ httpStreams[j].phase = "body" => httpStreams'[j].phase = "body"
  <2>1. CASE OriginResponds(i)
    BY <2>1 DEF OriginResponds, Types, ClientTypes, Map, HttpStream
  <2>2. CASE OriginEnds(i) \/ BodyRejected(i)
    BY <2>2 DEF OriginEnds, BodyRejected, Without, Restrict
  <2>3. CASE UNCHANGED httpStreams
    BY <2>3
  <2> QED  BY <2>1, <2>2, <2>3 DEF OriginWsOpens, OriginWsMessage, OriginWsCloses, clientVars
<1> QED  BY <1>1, <1>2, <1>3, SilentOrderly

\* What the relay does without a frame to the client.
LEMMA RelaySilentOrderly ==
    ASSUME Types, Types', Orderly,
           \/ \E t \in Tunnel : TunnelCloseSeen(t) \/ RelayReceives(t)
           \/ \E i \in StreamId : HeadTimeout(i)
           \/ UNCHANGED vars
    PROVE  Orderly'
<1>1. UNCHANGED <<down, session, httpStreams, wsStreams, pumps>>
  BY DEF TunnelCloseSeen, RelayReceives, OnRespHead, OnBodyEnd, OnCloseStream, OnWsData, TakeUp,
         HeadTimeout, vars, doVars, clientVars
<1>2. \A t \in Tunnel : /\ sockets'[t] = "open" => sockets[t] = "open"
                        /\ sockets'[t] = "unused" => sockets[t] = "unused"
  <2>1. CASE \E t \in Tunnel : TunnelCloseSeen(t)
    BY <2>1 DEF TunnelCloseSeen, Types, RelayTypes
  <2>2. CASE UNCHANGED sockets
    BY <2>2
  <2> QED  BY <2>1, <2>2 DEF RelayReceives, OnRespHead, OnBodyEnd, OnCloseStream, OnWsData, TakeUp,
                             HeadTimeout, vars, doVars
<1> QED  BY <1>1, <1>2, SilentOrderly

LEMMA StepOrderly == Types /\ Types' /\ OneOwner /\ Orderly /\ [Next]_vars /\ ~Hibernates => Orderly'
<1> SUFFICES ASSUME Types, Types', OneOwner, Orderly, [Next]_vars, ~Hibernates PROVE Orderly'
  OBVIOUS
<1>1. CASE Relay
  <2>1. ~Hibernate
    BY DEF Hibernate
  <2> QED  BY <1>1, <2>1, ProxyHttpOrderly, PumpEndsOrderly, RelaySilentOrderly, VisitorFrameOrderly,
              OpenVisitorOrderly, AcceptTunnelOrderly, Zenon DEF Relay
<1>2. CASE Client
  <2>1. ClientLosesTunnel => Orderly'
    BY SessionEndsOrderly DEF ClientLosesTunnel
  <2> QED  BY <1>2, <2>1, OnOpenOrderly, OnRequestBodyOrderly, OnVisitorDataOrderly, OnGuestLeftOrderly,
              OriginOrderly, Zenon DEF Client, ClientReceives
<1>3. CASE UNCHANGED vars
  BY <1>3, RelaySilentOrderly
<1> QED  BY <1>1, <1>2, <1>3 DEF Next

LEMMA InitOrderly == Init => Orderly
<1> SUFFICES ASSUME Init PROVE Orderly
  OBVIOUS
<1>1. Line = <<>>
  BY DEF Init, Line
<1>2. pumps = {} /\ Streams = {} /\ \A t \in Tunnel : sockets[t] # "open" /\ down[t] = <<>>
  BY DEF Init, Streams, NoMap
<1> QED  BY <1>1, <1>2 DEF Orderly, OpensFirst, EndsOnce, PumpsAwaited, SessionsApart

LEMMA OrderlyInTurn == Types /\ Orderly => OnlyMetadataRejected
<1> SUFFICES ASSUME Types, Orderly, session # 0, down[session] # <<>>
             PROVE  ~OutOfTurn(Head(down[session]))
  BY DEF OnlyMetadataRejected
<1> DEFINE f == Head(down[session])
<1>1. 1 \in DOMAIN Line /\ Line[1] = f /\ f \in Frames
  BY LineTyped DEF Line
<1>2. f.id \in StreamId
  BY <1>1, FrameFields
<1>3. f.type \in {"open-http", "open-ws"} => f.id \notin Streams
  BY <1>1 DEF Orderly, OpensFirst, Opening
<1>4. f.type = "body-end" => BodyAwaited(f.id)
  BY <1>1, <1>2 DEF Orderly, EndsOnce
<1> QED  BY <1>3, <1>4 DEF BodyAwaited, OutOfTurn

\* What a relay that stays in memory sends, the client can only refuse for the
\* metadata of an opening, and drop the tunnel with every guest on it: ids are
\* drawn once, what opens a stream precedes all else of it, and a body ends once,
\* over the socket its request went over, at a request that waits for it.
THEOREM RelayOnlyMetadataRejected ==
    ASSUME ~Hibernates
    PROVE  Spec => []OnlyMetadataRejected
<1> DEFINE Inv == Types /\ OneOwner /\ Orderly
<1>1. Init => Inv
  BY InitTypes, InitOneOwner, InitOrderly
<1>2. Inv /\ [Next]_vars => Inv'
  BY StepTypes, StepOneOwner, StepOrderly
<1>3. Inv => OnlyMetadataRejected
  BY OrderlyInTurn
<1> QED  BY <1>1, <1>2, <1>3, PTL DEF Spec

-----------------------------------------------------------------------------
\* Each visitor's messages.

\* Of the tunnel's sockets, those that read OPEN were accepted last, and the
\* client knows of the last one only.
Latest ==
    /\ \A s, t \in Tunnel : /\ sockets[t] # "unused" /\ s < t => sockets[s] # "unused"
                            /\ Usable(s) /\ sockets[t] # "unused" => t <= s
    /\ \A t \in Tunnel : sockets[t] = "open" \/ down[t] # <<>> => t = session
    /\ session = 0 => Streams = {} /\ lingering = {}
    /\ session # 0 => /\ sockets[session] \in {"open", "gone"}
                      /\ \A t \in Tunnel : sockets[t] # "unused" => t <= session

\* A visitor has one stream, and before it opens that one nothing of it is known.
OneStream ==
    \A v \in Visitor :
        /\ \A i, j \in StreamId : Names(i, v) /\ Names(j, v) => i = j
        /\ visit[v] = "none" =>
              /\ \A i \in StreamId : ~Names(i, v)
              /\ sent[v] = 0 /\ told[v] = 0 /\ served[v] = <<>> /\ received[v] = <<>>

\* The client's frames may still reach the origin: its socket works, or some are
\* on their way.
Connected == session # 0 /\ sockets[session] = "open"
Linked    == Connected \/ Line # <<>>

\* Id i is a visitor's, where frames still say so.
IsVisitors(f) == f.type \in {"open-ws", "ws-data"}

Belongs(i, v) ==
    \/ i \in DOMAIN visitors /\ visitors[i].visitor = v
    \/ \E k \in DOMAIN Line : IsVisitors(Line[k]) /\ Line[k].id = i /\ Line[k].of = v
    \/ \E t \in Tunnel : \E k \in DOMAIN up[t] :
          up[t][k].type = "ws-data" /\ up[t][k].id = i /\ up[t][k].of = v
    \/ <<i, v>> \in lingering
    \/ Linked /\ i \in DOMAIN wsStreams /\ wsStreams[i].of = v

\* Where something is still sent or served for an id, it is not drawn again.
IdsDrawn ==
    /\ \A i \in StreamId : \A v \in Visitor : Belongs(i, v) =>
          /\ i < nextStreamId
          /\ \A w \in Visitor : Belongs(i, w) => w = v
    /\ \A i \in DOMAIN pending : i < nextStreamId
    /\ \A p \in pumps : p[1] < nextStreamId
    /\ \A k \in DOMAIN Line : Line[k].id < nextStreamId

\* A visitor's stream is opened before all else of it is sent.
OpensSockets ==
    \A k \in DOMAIN Line : Line[k].type = "open-ws" =>
        /\ Line[k].id \notin DOMAIN wsStreams
        /\ \A j \in DOMAIN Line : j # k /\ Line[j].id = Line[k].id => k < j

Opened(i) ==
    \/ i \in DOMAIN wsStreams
    \/ \E k \in DOMAIN Line : Line[k].type = "open-ws" /\ Line[k].id = i

\* The client serves a visitor no longer than the relay does, but for what the
\* relay has told it.
Companions ==
    Connected => \A i \in StreamId : Opened(i) =>
        \/ i \in DOMAIN visitors
        \/ \E k \in DOMAIN Line : Line[k].type = "close-stream" /\ Line[k].id = i

\* The messages for stream i in queue q go on after message n, without a gap and
\* up to message top at most.
MessageOf(f, i) == f.type = "ws-data" /\ f.id = i

GoesOn(q, i, n, top) ==
    /\ n <= top
    /\ \A k \in DOMAIN q : MessageOf(q[k], i) =>
          /\ n < q[k].info /\ q[k].info <= top
          /\ \/ q[k].info = n + 1
             \/ \E j \in DOMAIN q : j < k /\ MessageOf(q[j], i) /\ q[j].info + 1 = q[k].info
          /\ \A j \in DOMAIN q : j < k /\ MessageOf(q[j], i) => q[j].info < q[k].info

\* None of them is missing.
Reaches(q, i, n, top) ==
    n = top \/ \E k \in DOMAIN q : MessageOf(q[k], i) /\ q[k].info = top

\* What the origin was given and what the client keeps for it is in order, and
\* what is on its way goes on from there.
Kept(i) == served[wsStreams[i].of] \o wsStreams[i].buffered

DownGoesOn ==
    /\ \A i \in DOMAIN wsStreams :
          /\ InOrder(Kept(i), wsStreams[i].of)
          /\ wsStreams[i].open => wsStreams[i].buffered = <<>>
          /\ GoesOn(Line, i, Len(Kept(i)), sent[wsStreams[i].of])
          /\ Connected => Reaches(Line, i, Len(Kept(i)), sent[wsStreams[i].of])
    /\ \A k \in DOMAIN Line : Line[k].type = "open-ws" =>
          /\ served[Line[k].of] = <<>>
          /\ GoesOn(Line, Line[k].id, 0, sent[Line[k].of])
          /\ Connected => Reaches(Line, Line[k].id, 0, sent[Line[k].of])

\* A visitor that the relay has not closed is served over the socket that reads
\* OPEN, and what is on its way over that goes on from what it was given.
UpGoesOn ==
    \A i \in DOMAIN visitors : ~visitors[i].closing =>
        LET v == visitors[i].visitor IN
        /\ \E t \in Tunnel : Usable(t)
        /\ \A t \in Tunnel :
              IF Usable(t)
                THEN GoesOn(up[t], i, Len(received[v]), told[v]) /\ Reaches(up[t], i, Len(received[v]), told[v])
                ELSE \A k \in DOMAIN up[t] : ~MessageOf(up[t][k], i)

-----------------------------------------------------------------------------
\* Messages in a queue.

\* Queue r is q after a step that neither adds a message for stream i nor takes one.
SameMessages(q, r, i) ==
    \E d \in {0, 1} :
        /\ \A k \in DOMAIN r : MessageOf(r[k], i) => k + d \in DOMAIN q /\ r[k] = q[k + d]
        /\ \A k \in DOMAIN q : MessageOf(q[k], i) => k - d \in DOMAIN r /\ r[k - d] = q[k]

LEMMA SameQueue ==
    ASSUME NEW q \in Seq(Frames), NEW i
    PROVE  SameMessages(q, q, i)
<1>1. \A k \in DOMAIN q : k + 0 = k /\ k - 0 = k
  OBVIOUS
<1> QED  BY <1>1 DEF SameMessages

LEMMA OtherTaken ==
    ASSUME NEW q \in Seq(Frames), q # <<>>, NEW i, ~MessageOf(Head(q), i)
    PROVE  SameMessages(q, Tail(q), i)
<1>1. \A k \in DOMAIN Tail(q) : k + 1 \in DOMAIN q /\ Tail(q)[k] = q[k + 1]
  OBVIOUS
<1>2. \A k \in DOMAIN q : k # 1 => k - 1 \in DOMAIN Tail(q) /\ Tail(q)[k - 1] = q[k]
  OBVIOUS
<1>3. q[1] = Head(q)
  OBVIOUS
<1> QED  BY <1>1, <1>2, <1>3 DEF SameMessages

LEMMA OtherSent ==
    ASSUME NEW q \in Seq(Frames), NEW f, NEW i, ~MessageOf(f, i)
    PROVE  SameMessages(q, Append(q, f), i)
<1>1. \A k \in DOMAIN Append(q, f) :
         \/ k + 0 \in DOMAIN q /\ Append(q, f)[k] = q[k + 0]
         \/ Append(q, f)[k] = f
  OBVIOUS
<1>2. \A k \in DOMAIN q : k - 0 \in DOMAIN Append(q, f) /\ Append(q, f)[k - 0] = q[k]
  OBVIOUS
<1> QED  BY <1>1, <1>2 DEF SameMessages

LEMMA MessageTyped ==
    ASSUME NEW q \in Seq(Frames), NEW i, NEW k \in DOMAIN q, MessageOf(q[k], i)
    PROVE  k \in Nat /\ q[k].info \in 1..MaxMessages /\ q[k].info \in Nat
           /\ q[k].of \in Visitor /\ q[k].id = i /\ i \in StreamId
<1>1. q[k] \in Frames /\ k \in Nat
  OBVIOUS
<1> QED  BY <1>1, FrameFields, TunnelAssumption DEF MessageOf

\* Then the messages for i go on as before.
LEMMA SameGoesOn ==
    ASSUME NEW q \in Seq(Frames), NEW r \in Seq(Frames), NEW i, SameMessages(q, r, i), NEW n, NEW top
    PROVE  /\ GoesOn(q, i, n, top) => GoesOn(r, i, n, top)
           /\ Reaches(q, i, n, top) => Reaches(r, i, n, top)
<1>1. PICK d \in {0, 1} :
        /\ \A k \in DOMAIN r : MessageOf(r[k], i) => k + d \in DOMAIN q /\ r[k] = q[k + d]
        /\ \A k \in DOMAIN q : MessageOf(q[k], i) => k - d \in DOMAIN r /\ r[k - d] = q[k]
  BY DEF SameMessages
<1>2. (\A k \in DOMAIN q : k \in Nat) /\ (\A k \in DOMAIN r : k \in Nat)
  OBVIOUS
<1>3. ASSUME GoesOn(q, i, n, top), NEW k \in DOMAIN r, MessageOf(r[k], i)
      PROVE  /\ n < r[k].info /\ r[k].info <= top
             /\ \/ r[k].info = n + 1
                \/ \E j \in DOMAIN r : j < k /\ MessageOf(r[j], i) /\ r[j].info + 1 = r[k].info
             /\ \A j \in DOMAIN r : j < k /\ MessageOf(r[j], i) => r[j].info < r[k].info
  <2>1. k + d \in DOMAIN q /\ r[k] = q[k + d] /\ MessageOf(q[k + d], i)
    BY <1>1, <1>3
  <2>2. /\ n < r[k].info /\ r[k].info <= top
        /\ \/ r[k].info = n + 1
           \/ \E j \in DOMAIN q : j < k + d /\ MessageOf(q[j], i) /\ q[j].info + 1 = r[k].info
        /\ \A j \in DOMAIN q : j < k + d /\ MessageOf(q[j], i) => q[j].info < r[k].info
    BY <1>3, <2>1 DEF GoesOn
  <2>3. ASSUME NEW j \in DOMAIN q, j < k + d, MessageOf(q[j], i), q[j].info + 1 = r[k].info
        PROVE  \E h \in DOMAIN r : h < k /\ MessageOf(r[h], i) /\ r[h].info + 1 = r[k].info
    <3>1. j - d \in DOMAIN r /\ r[j - d] = q[j]
      BY <1>1, <2>3
    <3>2. j - d < k
      BY <1>2, <2>3
    <3> QED  BY <2>3, <3>1, <3>2
  <2>4. ASSUME NEW j \in DOMAIN r, j < k, MessageOf(r[j], i)
        PROVE  r[j].info < r[k].info
    <3>1. j + d \in DOMAIN q /\ r[j] = q[j + d]
      BY <1>1, <2>4
    <3>2. j + d < k + d
      BY <1>2, <2>4
    <3> QED  BY <2>2, <2>4, <3>1, <3>2
  <2> QED  BY <2>2, <2>3, <2>4
<1>4. GoesOn(q, i, n, top) => GoesOn(r, i, n, top)
  BY <1>3 DEF GoesOn
<1>5. Reaches(q, i, n, top) => Reaches(r, i, n, top)
  BY <1>1 DEF Reaches
<1> QED  BY <1>4, <1>5

\* The first message for i is the next one.
LEMMA MessageTaken ==
    ASSUME NEW q \in Seq(Frames), q # <<>>, NEW i, NEW n \in Nat, NEW top \in Nat,
           GoesOn(q, i, n, top), MessageOf(Head(q), i)
    PROVE  /\ Head(q).info = n + 1
           /\ GoesOn(Tail(q), i, n + 1, top)
           /\ Reaches(q, i, n, top) => Reaches(Tail(q), i, n + 1, top)
<1> DEFINE r == Tail(q)
<1>1. 1 \in DOMAIN q /\ q[1] = Head(q) /\ \A k \in DOMAIN q : k \in Nat /\ ~(k < 1)
  OBVIOUS
<1>2. (\A k \in DOMAIN r : k \in Nat /\ k + 1 \in DOMAIN q /\ r[k] = q[k + 1]) /\ r \in Seq(Frames)
  OBVIOUS
<1>3. \A k \in DOMAIN q : k # 1 => k - 1 \in DOMAIN r /\ r[k - 1] = q[k]
  OBVIOUS
<1>4. q[1].info = n + 1 /\ q[1].info <= top
  BY <1>1 DEF GoesOn
<1> HIDE DEF r
<1>5. ASSUME NEW k \in DOMAIN r, MessageOf(r[k], i)
      PROVE  /\ n + 1 < r[k].info /\ r[k].info <= top
             /\ \/ r[k].info = n + 1 + 1
                \/ \E j \in DOMAIN r : j < k /\ MessageOf(r[j], i) /\ r[j].info + 1 = r[k].info
             /\ \A j \in DOMAIN r : j < k /\ MessageOf(r[j], i) => r[j].info < r[k].info
  <2>1. k + 1 \in DOMAIN q /\ r[k] = q[k + 1] /\ MessageOf(q[k + 1], i) /\ k \in Nat /\ 1 < k + 1
    <3>1. k # 0
      BY <1>1, <1>2
    <3> QED  BY <1>2, <1>5, <3>1
  <2>2. /\ n < r[k].info /\ r[k].info <= top
        /\ \/ r[k].info = n + 1
           \/ \E j \in DOMAIN q : j < k + 1 /\ MessageOf(q[j], i) /\ q[j].info + 1 = r[k].info
        /\ \A j \in DOMAIN q : j < k + 1 /\ MessageOf(q[j], i) => q[j].info < r[k].info
    BY <2>1 DEF GoesOn
  <2>3. n + 1 < r[k].info /\ r[k].info # n + 1
    <3>1. q[1].info < r[k].info
      BY <1>1, <2>1, <2>2
    <3>2. r[k].info \in Nat
      BY <1>2, <1>5, MessageTyped
    <3> QED  BY <1>4, <3>1, <3>2
  <2>4. ASSUME NEW j \in DOMAIN q, j < k + 1, MessageOf(q[j], i), q[j].info + 1 = r[k].info
        PROVE  \/ r[k].info = n + 1 + 1
               \/ \E h \in DOMAIN r : h < k /\ MessageOf(r[h], i) /\ r[h].info + 1 = r[k].info
    <3>1. CASE j = 1
      BY <1>4, <2>4, <3>1
    <3>2. CASE j # 1
      <4>1. j - 1 \in DOMAIN r /\ r[j - 1] = q[j]
        BY <1>3, <3>2
      <4>2. j - 1 < k
        BY <1>1, <2>1, <2>4
      <4> QED  BY <2>4, <4>1, <4>2
    <3> QED  BY <3>1, <3>2
  <2>5. ASSUME NEW j \in DOMAIN r, j < k, MessageOf(r[j], i)
        PROVE  r[j].info < r[k].info
    <3>1. j + 1 \in DOMAIN q /\ r[j] = q[j + 1] /\ j + 1 < k + 1
      BY <1>2, <2>1, <2>5
    <3> QED  BY <2>2, <2>5, <3>1
  <2> QED  BY <2>2, <2>3, <2>4, <2>5
<1>6. GoesOn(r, i, n + 1, top)
  BY <1>4, <1>5 DEF GoesOn
<1>7. ASSUME Reaches(q, i, n, top)
      PROVE  Reaches(r, i, n + 1, top)
  <2>1. CASE n = top
    BY <1>4, <2>1
  <2>2. ASSUME NEW k \in DOMAIN q, MessageOf(q[k], i), q[k].info = top
        PROVE  Reaches(r, i, n + 1, top)
    <3>1. CASE k = 1
      BY <1>4, <2>2, <3>1 DEF Reaches
    <3>2. CASE k # 1
      BY <1>3, <2>2, <3>2 DEF Reaches
    <3> QED  BY <3>1, <3>2
  <2> QED  BY <1>7, <2>1, <2>2 DEF Reaches
<1> QED  BY <1>1, <1>4, <1>6, <1>7 DEF r

\* The next message may be sent.
LEMMA MessageSent ==
    ASSUME NEW q \in Seq(Frames), NEW i, NEW n \in Nat, NEW top \in Nat,
           GoesOn(q, i, n, top), Reaches(q, i, n, top), NEW f \in Frames, MessageOf(f, i), f.info = top + 1
    PROVE  GoesOn(Append(q, f), i, n, top + 1) /\ Reaches(Append(q, f), i, n, top + 1)
<1> DEFINE r == Append(q, f)
           last == Len(q) + 1
<1>1. last \in DOMAIN r /\ r[last] = f
      /\ \A k \in DOMAIN r : k \in Nat /\ k <= last /\ (k # last => k \in DOMAIN q /\ r[k] = q[k])
  OBVIOUS
<1>2. \A k \in DOMAIN q : k \in DOMAIN r /\ r[k] = q[k] /\ k < last
  OBVIOUS
<1>3. last \in Nat
  OBVIOUS
<1> HIDE DEF r, last
<1>4. ASSUME NEW k \in DOMAIN q, MessageOf(q[k], i)
      PROVE  q[k].info \in Nat /\ q[k].info <= top
  BY <1>4, MessageTyped DEF GoesOn
<1>5. ASSUME NEW k \in DOMAIN r, MessageOf(r[k], i)
      PROVE  /\ n < r[k].info /\ r[k].info <= top + 1
             /\ \/ r[k].info = n + 1
                \/ \E j \in DOMAIN r : j < k /\ MessageOf(r[j], i) /\ r[j].info + 1 = r[k].info
             /\ \A j \in DOMAIN r : j < k /\ MessageOf(r[j], i) => r[j].info < r[k].info
  <2>1. CASE k = last
    <3>1. n < r[k].info /\ r[k].info <= top + 1
      BY <1>1, <2>1 DEF GoesOn
    <3>2. ASSUME NEW j \in DOMAIN r, j < k, MessageOf(r[j], i)
          PROVE  r[j].info < r[k].info
      <4>1. j \in DOMAIN q /\ r[j] = q[j]
        BY <1>1, <1>3, <2>1, <3>2
      <4>2. r[j].info \in Nat /\ r[j].info <= top
        BY <1>4, <3>2, <4>1
      <4> QED  BY <1>1, <2>1, <4>2
    <3>3. \/ r[k].info = n + 1
          \/ \E j \in DOMAIN r : j < k /\ MessageOf(r[j], i) /\ r[j].info + 1 = r[k].info
      <4>1. CASE n = top
        BY <1>1, <2>1, <4>1
      <4>2. ASSUME NEW j \in DOMAIN q, MessageOf(q[j], i), q[j].info = top
            PROVE  \E h \in DOMAIN r : h < k /\ MessageOf(r[h], i) /\ r[h].info + 1 = r[k].info
        BY <1>1, <1>2, <2>1, <4>2
      <4> QED  BY <4>1, <4>2 DEF Reaches
    <3> QED  BY <3>1, <3>2, <3>3
  <2>2. CASE k # last
    <3>1. k \in DOMAIN q /\ r[k] = q[k] /\ k < last /\ k \in Nat
      BY <1>1, <1>2, <2>2
    <3>2. /\ n < r[k].info /\ r[k].info <= top
          /\ \/ r[k].info = n + 1
             \/ \E j \in DOMAIN q : j < k /\ MessageOf(q[j], i) /\ q[j].info + 1 = r[k].info
          /\ \A j \in DOMAIN q : j < k /\ MessageOf(q[j], i) => q[j].info < r[k].info
      BY <1>5, <3>1 DEF GoesOn
    <3>3. r[k].info <= top + 1
      BY <1>4, <1>5, <3>1
    <3>4. \A j \in DOMAIN r : j < k => j \in DOMAIN q /\ r[j] = q[j]
      BY <1>1, <1>3, <3>1
    <3> QED  BY <1>2, <3>2, <3>3, <3>4
  <2> QED  BY <2>1, <2>2
<1>6. GoesOn(r, i, n, top + 1)
  <2>1. n <= top + 1
    BY DEF GoesOn
  <2> QED  BY <1>5, <2>1 DEF GoesOn
<1>7. Reaches(r, i, n, top + 1)
  BY <1>1 DEF Reaches
<1> QED  BY <1>6, <1>7 DEF r

\* What is sent and lost may only go beyond them.
LEMMA MessageLost ==
    ASSUME NEW q \in Seq(Frames), NEW i, NEW n \in Nat, NEW top \in Nat, GoesOn(q, i, n, top)
    PROVE  GoesOn(q, i, n, top + 1)
<1>1. n <= top + 1
  BY DEF GoesOn
<1>2. ASSUME NEW k \in DOMAIN q, MessageOf(q[k], i)
      PROVE  q[k].info <= top + 1
  <2>1. q[k].info \in Nat /\ q[k].info <= top
    BY <1>2, MessageTyped DEF GoesOn
  <2> QED  BY <2>1
<1> QED  BY <1>1, <1>2 DEF GoesOn

LEMMA NoMessages ==
    ASSUME NEW q, NEW i, NEW n \in Nat, \A k \in DOMAIN q : ~MessageOf(q[k], i)
    PROVE  GoesOn(q, i, n, n) /\ Reaches(q, i, n, n)
BY DEF GoesOn, Reaches

-----------------------------------------------------------------------------
\* Steps that touch no visitor's message.

Delivery == Latest /\ IdsDrawn /\ OpensSockets /\ Companions /\ DownGoesOn /\ UpGoesOn /\ OwnMessages

LEMMA NextLineTyped ==
    ASSUME Types'
    PROVE  Line' \in Seq(Frames)
BY DEF Types, TunnelTypes, ClientTypes, Line

\* A queue moves by at most a frame that is not a visitor's.
Moves(q, r) ==
    \/ r = q
    \/ q # <<>> /\ Head(q).type # "ws-data" /\ r = Tail(q)
    \/ \E f \in Frames : ~IsVisitors(f) /\ r = Append(q, f)

LEMMA MovesSame ==
    ASSUME NEW q \in Seq(Frames), NEW r, Moves(q, r), NEW i
    PROVE  SameMessages(q, r, i)
<1>1. CASE r = q
  BY <1>1, SameQueue
<1>2. CASE q # <<>> /\ Head(q).type # "ws-data" /\ r = Tail(q)
  BY <1>2, OtherTaken DEF MessageOf
<1>3. CASE \E f \in Frames : ~IsVisitors(f) /\ r = Append(q, f)
  BY <1>3, OtherSent DEF MessageOf, IsVisitors
<1> QED  BY <1>1, <1>2, <1>3 DEF Moves

LEMMA MovesFrom ==
    ASSUME NEW q \in Seq(Frames), NEW r, Moves(q, r)
    PROVE  \E d \in {0, 1} : \A k \in DOMAIN r :
              \/ k + d \in DOMAIN q /\ r[k] = q[k + d]
              \/ ~IsVisitors(r[k]) /\ \A j \in DOMAIN r : j <= k
<1>1. CASE r = q
  <2>1. \A k \in DOMAIN r : k + 0 \in DOMAIN q /\ r[k] = q[k + 0]
    BY <1>1
  <2> QED  BY <2>1
<1>2. CASE q # <<>> /\ Head(q).type # "ws-data" /\ r = Tail(q)
  <2>1. \A k \in DOMAIN r : k + 1 \in DOMAIN q /\ r[k] = q[k + 1]
    BY <1>2
  <2> QED  BY <2>1
<1>3. ASSUME NEW f \in Frames, ~IsVisitors(f), r = Append(q, f)
      PROVE  \E d \in {0, 1} : \A k \in DOMAIN r :
                \/ k + d \in DOMAIN q /\ r[k] = q[k + d]
                \/ ~IsVisitors(r[k]) /\ \A j \in DOMAIN r : j <= k
  <2>1. \A k \in DOMAIN r : \/ k + 0 \in DOMAIN q /\ r[k] = q[k + 0]
                            \/ r[k] = f /\ \A j \in DOMAIN r : j <= k
    BY <1>3
  <2> QED  BY <1>3, <2>1
<1> QED  BY <1>1, <1>2, <1>3 DEF Moves

\* The line's ids were drawn.
LEMMA LineIds ==
    ASSUME Types, IdsDrawn, Types', nextStreamId <= nextStreamId',
           \/ Line' = Line \/ Line' = <<>>
           \/ Line # <<>> /\ Line' = Tail(Line)
           \/ \E f \in Frames : f.id < nextStreamId' /\ Line' = Append(Line, f)
    PROVE  \A k \in DOMAIN Line' : Line'[k].id < nextStreamId'
<1>0. Line \in Seq(Frames) /\ \A k \in DOMAIN Line : Line[k].id \in Nat /\ Line[k].id < nextStreamId
  <2>1. \A k \in DOMAIN Line : Line[k].id \in Nat
    BY LineTyped, FrameFields DEF StreamId
  <2> QED  BY <2>1, LineTyped DEF IdsDrawn
<1>1. nextStreamId \in Nat /\ nextStreamId' \in Nat
  BY DEF Types, RelayTypes
<1>2. \A k \in DOMAIN Line' :
         (\E j \in DOMAIN Line : Line'[k] = Line[j]) \/ Line'[k].id < nextStreamId'
  <2>1. CASE Line' = Line \/ Line' = <<>>
    BY <2>1
  <2>2. CASE Line # <<>> /\ Line' = Tail(Line)
    <3>1. \A k \in DOMAIN Line' : k + 1 \in DOMAIN Line /\ Line'[k] = Line[k + 1]
      BY <1>0, <2>2
    <3> QED  BY <3>1
  <2>3. ASSUME NEW f \in Frames, f.id < nextStreamId', Line' = Append(Line, f)
        PROVE  \A k \in DOMAIN Line' : (k \in DOMAIN Line /\ Line'[k] = Line[k]) \/ Line'[k] = f
    BY <1>0, <2>3
  <2> QED  BY <2>1, <2>2, <2>3
<1> QED  BY <1>0, <1>1, <1>2

\* Who an id belongs to is only forgotten.
BelongsKept == \A i, v : Belongs(i, v)' => Belongs(i, v)

LEMMA IdsKept ==
    ASSUME Types, Types', IdsDrawn, BelongsKept, nextStreamId <= nextStreamId',
           \A i \in DOMAIN pending' : i < nextStreamId',
           \A p \in pumps' : p[1] < nextStreamId',
           \A k \in DOMAIN Line' : Line'[k].id < nextStreamId'
    PROVE  IdsDrawn'
<1>1. nextStreamId \in Nat /\ nextStreamId' \in Nat /\ \A i \in StreamId : i \in Nat
  BY DEF Types, RelayTypes, StreamId
<1>2. ASSUME NEW i \in StreamId, NEW v \in Visitor, Belongs(i, v)'
      PROVE  i < nextStreamId' /\ \A w \in Visitor : Belongs(i, w)' => w = v
  <2>1. Belongs(i, v) /\ \A w \in Visitor : Belongs(i, w)' => Belongs(i, w)
    BY <1>2 DEF BelongsKept
  <2>2. i < nextStreamId /\ \A w \in Visitor : Belongs(i, w) => w = v
    BY <2>1 DEF IdsDrawn
  <2> QED  BY <1>1, <2>1, <2>2
<1> QED  BY <1>2 DEF IdsDrawn

\* A step that only ends or adds what belongs to no visitor's messages.
LEMMA QuietBelongs ==
    ASSUME Types, Types', UNCHANGED <<session, sockets>>, Moves(Line, Line'),
           \A t \in Tunnel : Moves(up[t], up'[t]),
           \A i \in DOMAIN visitors' : i \in DOMAIN visitors /\ visitors'[i].visitor = visitors[i].visitor,
           \A i \in DOMAIN wsStreams' : i \in DOMAIN wsStreams /\ wsStreams'[i] = wsStreams[i],
           \A i, v : <<i, v>> \in lingering' =>
              <<i, v>> \in lingering \/ (Linked /\ i \in DOMAIN wsStreams /\ wsStreams[i].of = v),
           Line' # <<>> => Linked
    PROVE  BelongsKept
<1>1. Line \in Seq(Frames) /\ \A t \in Tunnel : up[t] \in Seq(Frames)
  BY LineTyped DEF Types, TunnelTypes
<1>2. \A k \in DOMAIN Line' : IsVisitors(Line'[k]) => \E j \in DOMAIN Line : Line[j] = Line'[k]
  BY <1>1, MovesFrom
<1>3. \A t \in Tunnel : \A k \in DOMAIN up'[t] :
         up'[t][k].type = "ws-data" => \E j \in DOMAIN up[t] : up[t][j] = up'[t][k]
  <2> SUFFICES ASSUME NEW t \in Tunnel, NEW k \in DOMAIN up'[t], up'[t][k].type = "ws-data"
               PROVE  \E j \in DOMAIN up[t] : up[t][j] = up'[t][k]
    OBVIOUS
  <2>1. IsVisitors(up'[t][k])
    BY DEF IsVisitors
  <2>2. Moves(up[t], up'[t]) /\ up[t] \in Seq(Frames)
    BY <1>1
  <2>3. PICK d \in {0, 1} : \A h \in DOMAIN up'[t] :
              \/ h + d \in DOMAIN up[t] /\ up'[t][h] = up[t][h + d]
              \/ ~IsVisitors(up'[t][h]) /\ \A j \in DOMAIN up'[t] : j <= h
    BY <2>2, MovesFrom
  <2> QED  BY <2>1, <2>3
<1>4. Linked' => Linked
  BY DEF Linked, Connected, Line
<1> QED  BY <1>2, <1>3, <1>4 DEF BelongsKept, Belongs

LEMMA QuietOpens ==
    ASSUME Types, Types', OpensSockets, Moves(Line, Line'), DOMAIN wsStreams' \subseteq DOMAIN wsStreams
    PROVE  OpensSockets'
<1>1. PICK d \in {0, 1} : \A k \in DOMAIN Line' :
              \/ k + d \in DOMAIN Line /\ Line'[k] = Line[k + d]
              \/ ~IsVisitors(Line'[k]) /\ \A j \in DOMAIN Line' : j <= k
  BY LineTyped, MovesFrom
<1>2. (\A k \in DOMAIN Line : k \in Nat) /\ (\A k \in DOMAIN Line' : k \in Nat)
  BY LineTyped
<1> SUFFICES ASSUME NEW k \in DOMAIN Line', Line'[k].type = "open-ws"
             PROVE  /\ Line'[k].id \notin DOMAIN wsStreams'
                    /\ \A j \in DOMAIN Line' : j # k /\ Line'[j].id = Line'[k].id => k < j
  BY DEF OpensSockets
<1>3. k + d \in DOMAIN Line /\ Line'[k] = Line[k + d]
  BY <1>1 DEF IsVisitors
<1>4. /\ Line[k + d].id \notin DOMAIN wsStreams
      /\ \A j \in DOMAIN Line : j # k + d /\ Line[j].id = Line[k + d].id => k + d < j
  BY <1>3 DEF OpensSockets
<1>5. ASSUME NEW j \in DOMAIN Line', j # k, Line'[j].id = Line'[k].id
      PROVE  k < j
  <2>1. CASE j + d \in DOMAIN Line /\ Line'[j] = Line[j + d]
    BY <1>2, <1>3, <1>4, <1>5, <2>1
  <2>2. CASE k <= j
    BY <1>2, <1>5, <2>2
  <2> QED  BY <1>1, <2>1, <2>2
<1> QED  BY <1>3, <1>4, <1>5

LEMMA QuietLatest ==
    ASSUME Types, Types', Latest, UNCHANGED <<session, sockets>>,
           \A t \in Tunnel : down'[t] # <<>> => t = session,
           session = 0 => Streams' = {} /\ lingering' = {}
    PROVE  Latest'
BY DEF Latest, Usable

\* What is on its way to the client goes on as before.
LEMMA QuietDown ==
    ASSUME Types, Types', DownGoesOn, UNCHANGED <<session, sockets, sent, served>>, Moves(Line, Line'),
           \A i \in DOMAIN wsStreams' : i \in DOMAIN wsStreams /\ wsStreams'[i] = wsStreams[i]
    PROVE  DownGoesOn'
<1>1. \A i : SameMessages(Line, Line', i)
  BY LineTyped, MovesSame
<1>2. ASSUME NEW i, NEW n, NEW top
      PROVE  /\ GoesOn(Line, i, n, top) => GoesOn(Line', i, n, top)
             /\ Reaches(Line, i, n, top) => Reaches(Line', i, n, top)
  BY <1>1, LineTyped, NextLineTyped, SameGoesOn
<1>3. \A k \in DOMAIN Line' : Line'[k].type = "open-ws" => \E j \in DOMAIN Line : Line[j] = Line'[k]
  BY LineTyped, MovesFrom DEF IsVisitors
<1>4. Connected' = Connected
  BY DEF Connected
<1>5. \A i \in DOMAIN wsStreams' : i \in DOMAIN wsStreams /\ wsStreams'[i] = wsStreams[i] /\ Kept(i)' = Kept(i)
  BY DEF Kept
<1>6. ASSUME NEW i \in DOMAIN wsStreams'
      PROVE  /\ InOrder(Kept(i), wsStreams[i].of)'
             /\ wsStreams'[i].open => wsStreams'[i].buffered = <<>>
             /\ GoesOn(Line', i, Len(Kept(i))', sent'[wsStreams'[i].of])
             /\ Connected' => Reaches(Line', i, Len(Kept(i))', sent'[wsStreams'[i].of])
  <2>1. i \in DOMAIN wsStreams /\ wsStreams'[i] = wsStreams[i] /\ Kept(i)' = Kept(i)
    BY <1>5
  <2>2. /\ InOrder(Kept(i), wsStreams[i].of)
        /\ wsStreams[i].open => wsStreams[i].buffered = <<>>
        /\ GoesOn(Line, i, Len(Kept(i)), sent[wsStreams[i].of])
        /\ Connected => Reaches(Line, i, Len(Kept(i)), sent[wsStreams[i].of])
    BY <2>1 DEF DownGoesOn
  <2>3. InOrder(Kept(i), wsStreams[i].of)'
    BY <2>1, <2>2 DEF InOrder
  <2> HIDE DEF Kept
  <2> QED  BY <1>2, <1>4, <2>1, <2>2, <2>3
<1>7. ASSUME NEW k \in DOMAIN Line', Line'[k].type = "open-ws"
      PROVE  /\ served'[Line'[k].of] = <<>>
             /\ GoesOn(Line', Line'[k].id, 0, sent'[Line'[k].of])
             /\ Connected' => Reaches(Line', Line'[k].id, 0, sent'[Line'[k].of])
  <2>1. PICK j \in DOMAIN Line : Line[j] = Line'[k]
    BY <1>3, <1>7
  <2> QED  BY <1>2, <1>4, <1>7, <2>1 DEF DownGoesOn
<1> QED  BY <1>6, <1>7 DEF DownGoesOn

\* And so does what is on its way to the visitors.
LEMMA QuietUp ==
    ASSUME Types, Types', UpGoesOn, UNCHANGED <<sockets, told, received>>,
           \A t \in Tunnel : Moves(up[t], up'[t]),
           \A i \in DOMAIN visitors' :
              /\ i \in DOMAIN visitors /\ visitors'[i].visitor = visitors[i].visitor
              /\ visitors[i].closing => visitors'[i].closing
    PROVE  UpGoesOn'
<1> SUFFICES ASSUME NEW i \in DOMAIN visitors', ~visitors'[i].closing
             PROVE  LET v == visitors'[i].visitor IN
                    /\ \E t \in Tunnel : Usable(t)'
                    /\ \A t \in Tunnel :
                          IF Usable(t)'
                            THEN /\ GoesOn(up'[t], i, Len(received'[v]), told'[v])
                                 /\ Reaches(up'[t], i, Len(received'[v]), told'[v])
                            ELSE \A k \in DOMAIN up'[t] : ~MessageOf(up'[t][k], i)
  BY DEF UpGoesOn
<1> DEFINE v == visitors[i].visitor
<1>1. i \in DOMAIN visitors /\ visitors'[i].visitor = v /\ ~visitors[i].closing
  OBVIOUS
<1>2. /\ \E t \in Tunnel : Usable(t)
      /\ \A t \in Tunnel :
            IF Usable(t)
              THEN GoesOn(up[t], i, Len(received[v]), told[v]) /\ Reaches(up[t], i, Len(received[v]), told[v])
              ELSE \A k \in DOMAIN up[t] : ~MessageOf(up[t][k], i)
  BY <1>1 DEF UpGoesOn
<1>3. \A t : Usable(t)' = Usable(t)
  BY DEF Usable
<1>4. ASSUME NEW t \in Tunnel
      PROVE  IF Usable(t) THEN /\ GoesOn(up'[t], i, Len(received[v]), told[v])
                               /\ Reaches(up'[t], i, Len(received[v]), told[v])
                          ELSE \A k \in DOMAIN up'[t] : ~MessageOf(up'[t][k], i)
  <2>1. up[t] \in Seq(Frames) /\ up'[t] \in Seq(Frames) /\ Moves(up[t], up'[t])
    BY DEF Types, TunnelTypes
  <2>2. SameMessages(up[t], up'[t], i)
    BY <2>1, MovesSame
  <2>3. CASE Usable(t)
    BY <1>2, <2>1, <2>2, <2>3, SameGoesOn
  <2>4. CASE ~Usable(t)
    BY <1>2, <2>2, <2>4 DEF SameMessages
  <2> QED  BY <2>3, <2>4
<1> QED  BY <1>1, <1>2, <1>3, <1>4

LEMMA LatestApart ==
    ASSUME Latest
    PROVE  SessionsApart
BY DEF Latest, SessionsApart

\* A step after which the line holds at most one frame more, none of a visitor's,
\* or one less, no message.
LineMoves ==
    /\ Moves(Line, Line')
    /\ Line' # <<>> => Linked
    /\ \A k \in DOMAIN Line' : Line'[k].id < nextStreamId'
    /\ \A t \in Tunnel : down'[t] # <<>> => t = session

UpMoves == \A t \in Tunnel : Moves(up[t], up'[t])

LEMMA DownKept ==
    ASSUME Types, Types', Latest, IdsDrawn, UNCHANGED <<session, down>>, nextStreamId <= nextStreamId'
    PROVE  LineMoves
<1>1. Line' = Line
  BY DEF Line
<1>2. \A k \in DOMAIN Line' : Line'[k].id < nextStreamId'
  BY <1>1, LineIds
<1> QED  BY <1>1, <1>2 DEF LineMoves, Moves, Linked, Latest

LEMMA DownSent ==
    ASSUME Types, Types', Latest, IdsDrawn, NEW t \in Tunnel, NEW f \in Frames, ~IsVisitors(f),
           f.id < nextStreamId', nextStreamId <= nextStreamId', UNCHANGED session,
           down' = SentDown(t, f)
    PROVE  LineMoves
<1>1. /\ Line' = Line \/ (Line' = Append(Line, f) /\ t = session)
      /\ \A s \in Tunnel : down'[s] # <<>> => s = session
  BY LatestApart, LineSent
<1>2. \A k \in DOMAIN Line' : Line'[k].id < nextStreamId'
  BY <1>1, LineIds
<1>3. Line' # Line => Connected
  <2>1. sockets[t] # "open" => Line' = Line
    BY DEF SentDown, Line
  <2>2. t # 0
    BY TunnelAssumption DEF Tunnel
  <2> QED  BY <1>1, <2>1, <2>2 DEF Connected
<1> QED  BY <1>1, <1>2, <1>3 DEF LineMoves, Moves, Linked

LEMMA DownTaken ==
    ASSUME Types, Types', Latest, IdsDrawn, NEW types, TakeDown(types), "ws-data" \notin types,
           down' = Taken, session' = session
    PROVE  LineMoves
<1>1. /\ Line # <<>> /\ Line' = Tail(Line) /\ Head(Line) = Head(down[session])
      /\ \A s \in Tunnel : down'[s] # <<>> => s = session
  BY LatestApart, LineTaken
<1>2. nextStreamId' = nextStreamId /\ nextStreamId \in Nat
  BY DEF TakeDown, Types, RelayTypes
<1>3. \A k \in DOMAIN Line' : Line'[k].id < nextStreamId'
  BY <1>1, <1>2, LineIds
<1>4. Head(Line).type # "ws-data"
  BY <1>1 DEF TakeDown
<1> QED  BY <1>1, <1>3, <1>4 DEF LineMoves, Moves, Linked

LEMMA UpKept ==
    ASSUME UNCHANGED up
    PROVE  UpMoves
BY DEF UpMoves, Moves

LEMMA UpSent ==
    ASSUME Types, NEW f \in Frames, ~IsVisitors(f), up' = SentUp(f)
    PROVE  UpMoves
BY DEF UpMoves, Moves, SentUp, Types, TunnelTypes

LEMMA UpTaken ==
    ASSUME Types, NEW t \in Tunnel, NEW type, type # "ws-data", TakeUp(t, type)
    PROVE  UpMoves
<1>1. up' = [up EXCEPT ![t] = Tail(@)] /\ up[t] # <<>> /\ Head(up[t]).type # "ws-data"
      /\ up \in [Tunnel -> Seq(Frames)]
  BY DEF TakeUp, Types, TunnelTypes
<1> QED  BY <1>1 DEF UpMoves, Moves

\* The client serves the visitors it served, and is told what it was told.
LEMMA CompanionsKept ==
    ASSUME Types, Types', Companions, UNCHANGED <<session, sockets>>, Moves(Line, Line'),
           Line # <<>> /\ Line' = Tail(Line) => Head(Line).type # "close-stream",
           DOMAIN wsStreams' \subseteq DOMAIN wsStreams,
           \A i \in DOMAIN visitors :
              \/ i \in DOMAIN visitors' \/ ~Connected
              \/ \E k \in DOMAIN Line' : Line'[k].type = "close-stream" /\ Line'[k].id = i
    PROVE  Companions'
<1>1. Connected' = Connected
  BY DEF Connected
<1>2. \A i : Opened(i)' => Opened(i)
  <2>1. \A k \in DOMAIN Line' : IsVisitors(Line'[k]) => \E j \in DOMAIN Line : Line[j] = Line'[k]
    BY LineTyped, MovesFrom
  <2> QED  BY <2>1 DEF Opened, IsVisitors
<1>3. \A k \in DOMAIN Line : Line[k].type = "close-stream" => \E j \in DOMAIN Line' : Line'[j] = Line[k]
  <2>1. CASE Line' = Line
    BY <2>1
  <2>2. CASE Line # <<>> /\ Line' = Tail(Line)
    <3>1. \A k \in DOMAIN Line : k # 1 => k - 1 \in DOMAIN Line' /\ Line'[k - 1] = Line[k]
      BY <2>2, LineTyped
    <3>2. Line[1] = Head(Line)
      BY <2>2, LineTyped
    <3> QED  BY <2>2, <3>1, <3>2
  <2>3. ASSUME NEW f \in Frames, Line' = Append(Line, f)
        PROVE  \A k \in DOMAIN Line : k \in DOMAIN Line' /\ Line'[k] = Line[k]
    BY <2>3, LineTyped
  <2> QED  BY <2>1, <2>2, <2>3 DEF Moves
<1> QED  BY <1>1, <1>2, <1>3 DEF Companions

LEMMA QuietDelivers ==
    ASSUME Types, Types', Delivery, UNCHANGED <<session, sockets, sent, told, served, received>>,
           nextStreamId <= nextStreamId', LineMoves, UpMoves, Companions',
           \A i \in DOMAIN visitors' :
              /\ i \in DOMAIN visitors /\ visitors'[i].visitor = visitors[i].visitor
              /\ visitors[i].closing => visitors'[i].closing,
           \A i \in DOMAIN wsStreams' : i \in DOMAIN wsStreams /\ wsStreams'[i] = wsStreams[i],
           \A i, v : <<i, v>> \in lingering' =>
              <<i, v>> \in lingering \/ (Linked /\ i \in DOMAIN wsStreams /\ wsStreams[i].of = v),
           session = 0 => Streams' = {} /\ lingering' = {},
           \A i \in DOMAIN pending' : i < nextStreamId',
           \A p \in pumps' : p[1] < nextStreamId'
    PROVE  Delivery'
<1>1. Latest'
  BY QuietLatest DEF Delivery, LineMoves
<1>2. BelongsKept
  BY QuietBelongs DEF LineMoves, UpMoves
<1>3. IdsDrawn'
  BY <1>2, IdsKept DEF Delivery, LineMoves
<1>4. OpensSockets'
  <2>1. DOMAIN wsStreams' \subseteq DOMAIN wsStreams
    OBVIOUS
  <2> QED  BY <2>1, QuietOpens DEF Delivery, LineMoves
<1>5. DownGoesOn'
  BY QuietDown DEF Delivery, LineMoves
<1>6. UpGoesOn'
  BY QuietUp DEF Delivery, UpMoves
<1>7. OwnMessages'
  BY DEF Delivery, OwnMessages, InOrder
<1> QED  BY <1>1, <1>3, <1>4, <1>5, <1>6, <1>7 DEF Delivery

\* HTTP requests share the line with the visitors' messages and touch none.
LEMMA RelayHttpDelivers ==
    ASSUME Types, Types', Delivery,
           UNCHANGED <<visitors, sockets, up, clientVars, sent, served, told, received>>,
           nextStreamId <= nextStreamId',
           \/ UNCHANGED down
           \/ \E t \in Tunnel : \E f \in Frames :
                 ~IsVisitors(f) /\ f.id < nextStreamId' /\ down' = SentDown(t, f),
           \A i \in DOMAIN pending' : i \in DOMAIN pending \/ i < nextStreamId',
           \A p \in pumps' : p \in pumps \/ p[1] < nextStreamId'
    PROVE  Delivery'
<1>1. UNCHANGED <<session, httpStreams, wsStreams, lingering>>
  BY DEF clientVars
<1>2. LineMoves
  BY <1>1, DownKept, DownSent DEF Delivery
<1>3. UpMoves
  BY UpKept
<1>4. ~(Line # <<>> /\ Line' = Tail(Line))
  <2>1. CASE UNCHANGED down
    <3>1. Line' = Line
      BY <1>1, <2>1 DEF Line
    <3>2. Line # <<>> => Tail(Line) # Line
      BY LineTyped
    <3> QED  BY <3>1, <3>2
  <2>2. ASSUME NEW t \in Tunnel, NEW f \in Frames, down' = SentDown(t, f)
        PROVE  ~(Line # <<>> /\ Line' = Tail(Line))
    <3>1. Line' = Line \/ Line' = Append(Line, f)
      BY <1>1, <2>2, LatestApart, LineSent DEF Delivery
    <3>2. Line # <<>> => Tail(Line) # Line /\ Tail(Line) # Append(Line, f)
      <4>1. Line # <<>> => Len(Tail(Line)) = Len(Line) - 1 /\ Len(Append(Line, f)) = Len(Line) + 1
                           /\ Len(Line) \in Nat
        BY LineTyped
      <4> QED  BY <4>1
    <3> QED  BY <3>1, <3>2
  <2> QED  BY <2>1, <2>2
<1>5. Companions'
  BY <1>1, <1>2, <1>4, CompanionsKept DEF Delivery, LineMoves
<1>6. /\ \A i \in DOMAIN pending' : i < nextStreamId'
      /\ \A p \in pumps' : p[1] < nextStreamId'
  <2>1. nextStreamId \in Nat /\ nextStreamId' \in Nat
        /\ (\A i \in DOMAIN pending : i \in Nat) /\ (\A p \in pumps : p[1] \in Nat)
    BY DEF Types, RelayTypes, Map, StreamId
  <2>2. \A i \in Nat : i < nextStreamId => i < nextStreamId'
    BY <2>1
  <2> QED  BY <2>1, <2>2 DEF Delivery, IdsDrawn
<1> QED  BY <1>1, <1>2, <1>3, <1>5, <1>6, QuietDelivers DEF Delivery, Latest, Streams

LEMMA StutterDelivers ==
    ASSUME Types, Types', Delivery, UNCHANGED vars
    PROVE  Delivery'
<1>1. UNCHANGED <<doVars, down, up, clientVars, guestVars>> /\ nextStreamId <= nextStreamId'
  BY DEF vars, doVars, Types, RelayTypes
<1> QED  BY <1>1, RelayHttpDelivers DEF doVars, guestVars

LEMMA ProxyHttpDelivers ==
    ASSUME Types, Types', Delivery, NEW g \in Guest, NEW hasBody \in BOOLEAN, ProxyHttp(g, hasBody)
    PROVE  Delivery'
<1>0. UNCHANGED <<visitors, sockets, up, clientVars, sent, served, told, received>>
      /\ nextStreamId \in Nat
  BY DEF ProxyHttp, Types, RelayTypes
<1>1. CASE ActiveTunnel = 0
  <2>1. UNCHANGED <<nextStreamId, pending, pumps, down>> /\ nextStreamId <= nextStreamId'
    BY <1>0, <1>1 DEF ProxyHttp
  <2> QED  BY <1>0, <2>1, RelayHttpDelivers
<1>2. CASE ActiveTunnel # 0
  <2> DEFINE f == Frame("open-http", nextStreamId, g, hasBody)
  <2>1. nextStreamId' = nextStreamId + 1
        /\ (\A i \in DOMAIN pending' : i \in DOMAIN pending \/ i = nextStreamId)
        /\ (\A p \in pumps' : p \in pumps \/ p[1] = nextStreamId)
        /\ down' = SentDown(ActiveTunnel, f)
    BY <1>2 DEF ProxyHttp, FollowingId, Put
  <2>2. nextStreamId \in StreamId
    BY <1>2, GuestStarts, StartedType DEF ProxyHttp, Types, IdsCounted, RelayTypes, StreamId
  <2>3. f \in Frames /\ ~IsVisitors(f) /\ f.id = nextStreamId
    BY <2>2 DEF Frame, Frames, IsVisitors
  <2> HIDE DEF f
  <2>4. ActiveTunnel \in Tunnel
    BY <1>2, ActiveTunnelType
  <2>5. nextStreamId <= nextStreamId' /\ nextStreamId < nextStreamId'
    BY <1>0, <2>1
  <2>6. \E t \in Tunnel : \E h \in Frames :
           ~IsVisitors(h) /\ h.id < nextStreamId' /\ down' = SentDown(t, h)
    BY <2>1, <2>3, <2>4, <2>5
  <2> QED  BY <1>0, <2>1, <2>5, <2>6, RelayHttpDelivers
<1> QED  BY <1>1, <1>2

LEMMA PumpEndsDelivers ==
    ASSUME Types, Types', Delivery, NEW p \in pumps, PumpEnds(p)
    PROVE  Delivery'
<1>1. UNCHANGED <<nextStreamId, pending, visitors, sockets, up, clientVars, sent, served, told, received>>
      /\ pumps' \subseteq pumps /\ nextStreamId <= nextStreamId'
  BY DEF PumpEnds, guestVars, Types, RelayTypes
<1>2. p[1] \in StreamId /\ p[2] \in Tunnel /\ p[3] \in Guest /\ p[1] < nextStreamId'
  BY <1>1 DEF Types, RelayTypes, Delivery, IdsDrawn
<1>3. PICK type \in {"body-end", "close-stream"} : down' = SentDown(p[2], Frame(type, p[1], p[3], FALSE))
  BY DEF PumpEnds
<1>4. Frame(type, p[1], p[3], FALSE) \in Frames /\ ~IsVisitors(Frame(type, p[1], p[3], FALSE))
      /\ Frame(type, p[1], p[3], FALSE).id = p[1]
  BY <1>2 DEF Frame, Frames, IsVisitors
<1>5. \E t \in Tunnel : \E h \in Frames :
         ~IsVisitors(h) /\ h.id < nextStreamId' /\ down' = SentDown(t, h)
  BY <1>2, <1>3, <1>4
<1> QED  BY <1>1, <1>5, RelayHttpDelivers

LEMMA HeadTimeoutDelivers ==
    ASSUME Types, Types', Delivery, NEW i \in StreamId, HeadTimeout(i)
    PROVE  Delivery'
<1>1. UNCHANGED <<nextStreamId, pumps, visitors, sockets, down, up, clientVars, sent, served, told, received>>
      /\ nextStreamId <= nextStreamId' /\ DOMAIN pending' \subseteq DOMAIN pending
  BY DEF HeadTimeout, Without, Restrict, Types, RelayTypes
<1> QED  BY <1>1, RelayHttpDelivers

\* The relay tells the client that a stream is over.
LEMMA CloseFrame ==
    ASSUME NEW i \in StreamId, NEW o \in Guest \cup Visitor
    PROVE  LET f == Frame("close-stream", i, o, FALSE) IN
           f \in Frames /\ ~IsVisitors(f) /\ f.id = i /\ f.type = "close-stream"
BY DEF Frame, Frames, IsVisitors

LEMMA VisitorCancelsDelivers ==
    ASSUME Types, Types', Delivery, NEW i \in StreamId, VisitorCancels(i)
    PROVE  Delivery'
<1>1. UNCHANGED <<nextStreamId, pumps, visitors, sockets, up, clientVars, sent, served, told, received>>
      /\ nextStreamId <= nextStreamId' /\ DOMAIN pending' \subseteq DOMAIN pending
  BY DEF VisitorCancels, Without, Restrict, Types, RelayTypes
<1>2. i \in DOMAIN pending /\ pending[i].guest \in Guest /\ i < nextStreamId'
  BY <1>1 DEF VisitorCancels, Types, RelayTypes, Map, PendingHttp, Delivery, IdsDrawn
<1>3. CASE ActiveTunnel = 0
  BY <1>1, <1>3, RelayHttpDelivers DEF VisitorCancels
<1>4. CASE ActiveTunnel # 0
  <2>1. ActiveTunnel \in Tunnel /\ down' = SentDown(ActiveTunnel, Frame("close-stream", i, pending[i].guest, FALSE))
    BY <1>4, ActiveTunnelType DEF VisitorCancels
  <2>2. \E t \in Tunnel : \E h \in Frames :
           ~IsVisitors(h) /\ h.id < nextStreamId' /\ down' = SentDown(t, h)
    BY <1>2, <2>1, CloseFrame
  <2> QED  BY <1>1, <2>2, RelayHttpDelivers
<1> QED  BY <1>3, <1>4

\* A visitor that leaves is told to the client, where that serves it.
LEMMA ConnectedActive ==
    ASSUME Types, Latest, Connected
    PROVE  ActiveTunnel = session /\ session \in Tunnel
<1>1. session \in Tunnel /\ Usable(session) /\ sockets[session] # "unused"
  BY DEF Connected, Types, ClientTypes, Usable
<1>2. ActiveTunnel \in Tunnel
  <2> DEFINE S == {t \in Tunnel : Usable(t)}
  <2>1. S \in SUBSET (0 .. MaxDials) /\ S # {} /\ MaxDials \in Nat
    BY <1>1, TunnelAssumption DEF Tunnel
  <2>2. Max(S) \in S
    <3> HIDE DEF S
    <3> QED  BY <2>1, MaxExists
  <2> QED  BY <1>1, <2>2 DEF ActiveTunnel
<1>3. Usable(ActiveTunnel) /\ sockets[ActiveTunnel] # "unused"
  BY <1>2, ActiveTunnelType, TunnelAssumption DEF Tunnel, Usable
<1>4. session <= ActiveTunnel /\ ActiveTunnel <= session
  BY <1>1, <1>2, <1>3 DEF Latest, Connected
<1> QED  BY <1>1, <1>2, <1>4 DEF Tunnel

LEMMA VisitorCloseSeenDelivers ==
    ASSUME Types, Types', Delivery, NEW i \in StreamId, VisitorCloseSeen(i)
    PROVE  Delivery'
<1>1. UNCHANGED <<nextStreamId, pending, pumps, sockets, up, clientVars, sent, served, told, received>>
      /\ UNCHANGED <<session, httpStreams, wsStreams, lingering>>
      /\ nextStreamId <= nextStreamId' /\ visitors' = Without(visitors, i)
  BY DEF VisitorCloseSeen, clientVars, Types, RelayTypes
<1>2. i \in DOMAIN visitors /\ visitors[i].visitor \in Visitor
      /\ DOMAIN visitors' = DOMAIN visitors \ {i} /\ \A j \in DOMAIN visitors' : visitors'[j] = visitors[j]
  BY <1>1 DEF VisitorCloseSeen, Types, RelayTypes, Map, Accepted, Without, Restrict
<1>3. i < nextStreamId'
  BY <1>1, <1>2 DEF Types, IdsCounted
<1> DEFINE f == Frame("close-stream", i, visitors[i].visitor, FALSE)
<1>4. f \in Frames /\ ~IsVisitors(f) /\ f.id = i /\ f.type = "close-stream"
  BY <1>2, CloseFrame
<1>5. down' = IF ActiveTunnel = 0 THEN down ELSE SentDown(ActiveTunnel, f)
  BY DEF VisitorCloseSeen
<1> HIDE DEF f
<1>6. LineMoves /\ (Line' = Line \/ Line' = Append(Line, f))
  <2>1. CASE ActiveTunnel = 0
    <3>1. UNCHANGED down
      BY <1>5, <2>1
    <3> QED  BY <1>1, <3>1, DownKept DEF Delivery, Line
  <2>2. CASE ActiveTunnel # 0
    <3>1. ActiveTunnel \in Tunnel /\ down' = SentDown(ActiveTunnel, f)
      BY <1>5, <2>2, ActiveTunnelType
    <3>2. LineMoves
      BY <1>1, <1>3, <1>4, <3>1, DownSent DEF Delivery
    <3> QED  BY <1>1, <3>1, <3>2, LatestApart, LineSent DEF Delivery
  <2> QED  BY <2>1, <2>2
<1>7. UpMoves
  BY <1>1, UpKept
<1>8. Connected => \E k \in DOMAIN Line' : Line'[k].type = "close-stream" /\ Line'[k].id = i
  <2> SUFFICES ASSUME Connected
               PROVE  \E k \in DOMAIN Line' : Line'[k].type = "close-stream" /\ Line'[k].id = i
    OBVIOUS
  <2>1. ActiveTunnel = session /\ session \in Tunnel /\ session # 0 /\ sockets[session] = "open"
    BY ConnectedActive DEF Delivery, Connected
  <2>2. down' = [down EXCEPT ![session] = Append(@, f)] /\ down \in [Tunnel -> Seq(Frames)]
    BY <1>5, <2>1 DEF SentDown, Types, TunnelTypes
  <2>3. Line' = Append(Line, f)
    BY <1>1, <2>1, <2>2 DEF Line
  <2>4. Len(Line) + 1 \in DOMAIN Line' /\ Line'[Len(Line) + 1] = f
    BY <2>3, LineTyped
  <2> QED  BY <1>4, <2>4
<1>9. ~(Line # <<>> /\ Line' = Tail(Line))
  <2>1. Line # <<>> => Len(Tail(Line)) = Len(Line) - 1 /\ Len(Append(Line, f)) = Len(Line) + 1
                       /\ Len(Line) \in Nat
    BY LineTyped
  <2> QED  BY <1>6, <2>1
<1>10. Companions'
  BY <1>1, <1>2, <1>6, <1>8, <1>9, CompanionsKept DEF Delivery, LineMoves
<1> QED  BY <1>1, <1>2, <1>6, <1>7, <1>10, QuietDelivers DEF Delivery, Latest, Streams, IdsDrawn

\* Neither end of the line is touched.
LEMMA SilentDelivers ==
    ASSUME Types, Types', Delivery,
           UNCHANGED <<nextStreamId, pumps, session, sockets, down, sent, told, served, received>>, UpMoves,
           DOMAIN pending' \subseteq DOMAIN pending, DOMAIN visitors' = DOMAIN visitors,
           \A i \in DOMAIN visitors' :
              visitors'[i].visitor = visitors[i].visitor /\ (visitors[i].closing => visitors'[i].closing),
           DOMAIN httpStreams' \subseteq DOMAIN httpStreams,
           \A i \in DOMAIN wsStreams' : i \in DOMAIN wsStreams /\ wsStreams'[i] = wsStreams[i],
           lingering' \subseteq lingering
    PROVE  Delivery'
<1>1. nextStreamId <= nextStreamId' /\ Line' = Line
  BY DEF Types, RelayTypes, Line
<1>2. LineMoves
  BY <1>1, DownKept DEF Delivery
<1>3. ~(Line # <<>> /\ Line' = Tail(Line))
  <2>1. Line # <<>> => Tail(Line) # Line
    BY LineTyped
  <2> QED  BY <1>1, <2>1
<1>4. Companions'
  <2>1. DOMAIN wsStreams' \subseteq DOMAIN wsStreams
    OBVIOUS
  <2> QED  BY <1>2, <1>3, <2>1, CompanionsKept DEF Delivery, LineMoves
<1> QED  BY <1>1, <1>2, <1>4, QuietDelivers DEF Delivery, Latest, Streams, IdsDrawn

LEMMA RelayReceivesDelivers ==
    ASSUME Types, Types', Delivery, NEW t \in Tunnel, OnRespHead(t) \/ OnBodyEnd(t) \/ OnCloseStream(t)
    PROVE  Delivery'
<1>1. \E type \in {"resp-head", "body-end", "close-stream"} : TakeUp(t, type) /\ UNCHANGED received
  <2>1. OnRespHead(t) => TakeUp(t, "resp-head") /\ UNCHANGED received
    BY Zenon DEF OnRespHead
  <2>2. OnBodyEnd(t) => TakeUp(t, "body-end") /\ UNCHANGED received
    BY Zenon DEF OnBodyEnd
  <2>3. OnCloseStream(t) => TakeUp(t, "close-stream") /\ UNCHANGED received
    BY Zenon DEF OnCloseStream
  <2> QED  BY <2>1, <2>2, <2>3
<1>3. UNCHANGED <<nextStreamId, pumps, session, sockets, down, sent, told, served, received>>
      /\ UNCHANGED <<httpStreams, wsStreams, lingering>>
  BY <1>1 DEF TakeUp, clientVars
<1>4. UpMoves
  BY <1>1, UpTaken
<1>5. DOMAIN pending' \subseteq DOMAIN pending
  <2>1. CASE OnRespHead(t)
    <3>1. \/ pending' = pending \/ pending' = Without(pending, Head(up[t]).id)
          \/ \E phase : pending' = [pending EXCEPT ![Head(up[t]).id].phase = phase]
      BY <2>1, Zenon DEF OnRespHead
    <3>2. DOMAIN Without(pending, Head(up[t]).id) \subseteq DOMAIN pending
      BY DEF Without, Restrict
    <3>3. ASSUME NEW phase, pending' = [pending EXCEPT ![Head(up[t]).id].phase = phase]
          PROVE  DOMAIN pending' = DOMAIN pending
      BY <3>3
    <3> QED  BY <3>1, <3>2, <3>3
  <2>2. CASE OnBodyEnd(t)
    BY <2>2 DEF OnBodyEnd, Without, Restrict
  <2>3. CASE OnCloseStream(t)
    BY <2>3 DEF OnCloseStream, Without, Restrict
  <2> QED  BY <2>1, <2>2, <2>3
<1>6. DOMAIN visitors' = DOMAIN visitors /\ \A i \in DOMAIN visitors' :
         visitors'[i].visitor = visitors[i].visitor /\ (visitors[i].closing => visitors'[i].closing)
  <2>1. CASE UNCHANGED visitors
    BY <2>1
  <2>2. CASE visitors' = [visitors EXCEPT ![Head(up[t]).id].closing = TRUE]
    BY <2>2 DEF Types, RelayTypes, Map, Accepted
  <2>3. CASE OnRespHead(t)
    BY <2>1, <2>3, Zenon DEF OnRespHead
  <2>4. CASE OnBodyEnd(t)
    BY <2>1, <2>4 DEF OnBodyEnd
  <2>5. CASE OnCloseStream(t)
    BY <2>1, <2>2, <2>5 DEF OnCloseStream
  <2> QED  BY <2>3, <2>4, <2>5
<1> QED  BY <1>3, <1>4, <1>5, <1>6, SilentDelivers

LEMMA OriginHttpDelivers ==
    ASSUME Types, Types', Delivery, NEW i \in StreamId,
           OriginResponds(i) \/ OriginEnds(i) \/ BodyRejected(i)
    PROVE  Delivery'
<1>1. UNCHANGED <<doVars, down, session, wsStreams, lingering, guestVars>>
  BY DEF OriginResponds, OriginEnds, BodyRejected
<1>2. i \in DOMAIN httpStreams /\ httpStreams[i].of \in Guest /\ DOMAIN httpStreams' \subseteq DOMAIN httpStreams
  BY DEF OriginResponds, OriginEnds, BodyRejected, Without, Restrict, Types, ClientTypes, Map, HttpStream
<1>3. PICK type \in {"resp-head", "body-end", "close-stream"}, info \in BOOLEAN :
         up' = SentUp(Frame(type, i, httpStreams[i].of, info))
  BY DEF OriginResponds, OriginEnds, BodyRejected
<1>4. Frame(type, i, httpStreams[i].of, info) \in Frames /\ ~IsVisitors(Frame(type, i, httpStreams[i].of, info))
  BY <1>2 DEF Frame, Frames, IsVisitors
<1>5. UpMoves
  BY <1>3, <1>4, UpSent
<1> QED  BY <1>1, <1>2, <1>5, SilentDelivers DEF doVars, guestVars

LEMMA OriginWsClosesDelivers ==
    ASSUME Types, Types', Delivery, NEW i \in StreamId, NEW v \in Visitor, OriginWsCloses(i, v)
    PROVE  Delivery'
<1>1. UNCHANGED <<doVars, down, session, httpStreams, guestVars>>
  BY DEF OriginWsCloses
<1>2. UpMoves
  <2>1. CASE UNCHANGED up
    BY <2>1, UpKept
  <2>2. CASE up' = SentUp(Frame("close-stream", i, v, FALSE))
    BY <2>2, CloseFrame, UpSent
  <2> QED  BY <2>1, <2>2 DEF OriginWsCloses
<1>3. lingering' \subseteq lingering
      /\ \A j \in DOMAIN wsStreams' : j \in DOMAIN wsStreams /\ wsStreams'[j] = wsStreams[j]
  BY DEF OriginWsCloses, Without, Restrict
<1> QED  BY <1>1, <1>2, <1>3, SilentDelivers DEF doVars, guestVars

\* The client takes a frame that is no message and serves no new visitor.
LEMMA TakenDelivers ==
    ASSUME Types, Types', Delivery, NEW types, TakeDown(types), "ws-data" \notin types, down' = Taken,
           UNCHANGED <<session, sockets, served, lingering>>, UpMoves,
           \A i \in DOMAIN wsStreams' : i \in DOMAIN wsStreams /\ wsStreams'[i] = wsStreams[i],
           "close-stream" \notin types
    PROVE  Delivery'
<1>1. UNCHANGED <<nextStreamId, pending, pumps, visitors, sent, told, received>> /\ nextStreamId <= nextStreamId'
      /\ session # 0
  BY DEF TakeDown, Types, RelayTypes
<1>2. LineMoves
  BY DownTaken DEF Delivery
<1>3. Line # <<>> /\ Line' = Tail(Line) /\ Head(Line) = Head(down[session])
  BY LatestApart, LineTaken DEF Delivery
<1>4. Head(Line).type # "close-stream"
  BY <1>3 DEF TakeDown
<1>5. Companions'
  <2>1. DOMAIN wsStreams' \subseteq DOMAIN wsStreams
    OBVIOUS
  <2> QED  BY <1>1, <1>2, <1>4, <2>1, CompanionsKept DEF Delivery, LineMoves
<1> QED  BY <1>1, <1>2, <1>5, QuietDelivers DEF Delivery, IdsDrawn

\* What the client drops on being told was opened before, and not again.
LEMMA OnGuestLeftDelivers ==
    ASSUME Types, Types', Delivery, OnGuestLeft
    PROVE  Delivery'
<1> DEFINE f == Head(down[session])
<1>1. TakeDown({"close-stream"}) /\ down' = Taken /\ UNCHANGED <<session, sockets, up, served>>
  BY DEF OnGuestLeft
<1>2. UNCHANGED <<nextStreamId, pending, pumps, visitors, sent, told, received>> /\ nextStreamId <= nextStreamId'
      /\ session # 0
  BY <1>1 DEF TakeDown, Types, RelayTypes
<1>3. LineMoves
  BY <1>1, DownTaken DEF Delivery
<1>4. Line # <<>> /\ Line' = Tail(Line) /\ Head(Line) = f
  BY <1>1, LatestApart, LineTaken DEF Delivery
<1>5. DOMAIN wsStreams' = DOMAIN wsStreams \ {f.id} /\ \A i \in DOMAIN wsStreams' : wsStreams'[i] = wsStreams[i]
  BY DEF OnGuestLeft, Without, Restrict
<1>6. \A k \in DOMAIN Line' : k \in Nat /\ k + 1 \in DOMAIN Line /\ Line'[k] = Line[k + 1] /\ ~(k + 1 < 1)
  BY <1>4, LineTyped
<1>7. 1 \in DOMAIN Line /\ Line[1] = f
  BY <1>4, LineTyped
<1> HIDE DEF f
<1>8. Companions'
  <2> SUFFICES ASSUME Connected', NEW i \in StreamId, Opened(i)'
               PROVE  \/ i \in DOMAIN visitors
                      \/ \E k \in DOMAIN Line' : Line'[k].type = "close-stream" /\ Line'[k].id = i
    BY <1>2 DEF Companions
  <2>1. Connected
    BY <1>1 DEF Connected
  <2>2. i # f.id
    <3>1. CASE i \in DOMAIN wsStreams'
      BY <1>5, <3>1
    <3>2. ASSUME NEW k \in DOMAIN Line', Line'[k].type = "open-ws", Line'[k].id = i
          PROVE  i # f.id
      <4>1. \A j \in DOMAIN Line : j # k + 1 /\ Line[j].id = Line[k + 1].id => k + 1 < j
        BY <1>6, <3>2 DEF Delivery, OpensSockets
      <4>2. 1 # k + 1
        <5>1. k # 0
          BY <1>3, NextLineTyped
        <5> QED  BY <1>6, <5>1
      <4> QED  BY <1>6, <1>7, <3>2, <4>1, <4>2
    <3> QED  BY <3>1, <3>2 DEF Opened
  <2>3. Opened(i)
    BY <1>5, <1>6 DEF Opened
  <2>4. ASSUME NEW k \in DOMAIN Line, Line[k].type = "close-stream", Line[k].id = i
        PROVE  \E j \in DOMAIN Line' : Line'[j].type = "close-stream" /\ Line'[j].id = i
    <3>1. k # 1
      BY <1>7, <2>2, <2>4
    <3>2. k - 1 \in DOMAIN Line' /\ Line'[k - 1] = Line[k]
      BY <1>4, <3>1, LineTyped
    <3> QED  BY <2>4, <3>2
  <2> QED  BY <2>1, <2>3, <2>4 DEF Delivery, Companions
<1>9. \A i, v : <<i, v>> \in lingering' =>
         <<i, v>> \in lingering \/ (Linked /\ i \in DOMAIN wsStreams /\ wsStreams[i].of = v)
  BY <1>4 DEF OnGuestLeft, Linked, f
<1>10. UpMoves
  BY <1>1, UpKept
<1> QED  BY <1>1, <1>2, <1>3, <1>5, <1>8, <1>9, <1>10, QuietDelivers DEF Delivery, IdsDrawn

LEMMA OnRequestBodyDelivers ==
    ASSUME Types, Types', Delivery, OnRequestBody, ~Rejects
    PROVE  Delivery'
<1>1. TakeDown({"body-end"}) /\ down' = Taken /\ UNCHANGED <<session, sockets, served, lingering, wsStreams, up>>
  BY DEF OnRequestBody
<1> QED  BY <1>1, UpKept, TakenDelivers

-----------------------------------------------------------------------------
\* Steps that start, lose or end a session, or evict the relay.

\* Where nothing is served and the line is empty, nothing is on its way down.
LEMMA NothingDown ==
    ASSUME Types, Types', DOMAIN wsStreams' = {}, Line' = <<>>
    PROVE  OpensSockets' /\ Companions' /\ DownGoesOn'
<1>1. DOMAIN wsStreams' = {} /\ DOMAIN Line' = {}
  OBVIOUS
<1>2. OpensSockets'
  BY <1>1 DEF OpensSockets
<1>3. Companions'
  BY <1>1 DEF Companions, Opened
<1>4. DownGoesOn'
  BY <1>1 DEF DownGoesOn
<1> QED  BY <1>2, <1>3, <1>4

LEMMA AcceptTunnelDelivers ==
    ASSUME Types, Types', Delivery, NEW t \in Tunnel, AcceptTunnel(t)
    PROVE  Delivery'
<1>0. 0 \notin Tunnel /\ \A s \in Tunnel : s \in Nat /\ s # 0
  BY TunnelAssumption DEF Tunnel
<1>1. session = 0 /\ session' = t /\ sockets[t] = "unused" /\ AbandonStreams
      /\ UNCHANGED <<nextStreamId, pumps, down, up, httpStreams, wsStreams, lingering, sent, served, told, received>>
  BY DEF AcceptTunnel
<1>2. Streams = {} /\ lingering = {} /\ \A s \in Tunnel : down[s] = <<>>
  BY <1>0, <1>1 DEF Delivery, Latest
<1>3. Line = <<>> /\ Line' = <<>>
  BY <1>1, <1>2 DEF Line
<1>4. /\ \A s \in Tunnel : sockets[s] = "unused" => ~(s < t)
      /\ \A s \in Tunnel : sockets[s] # "unused" => s < t
  <2>1. \A s \in Tunnel : s < t => sockets[s] # "unused"
    <3>1. \A s \in Tunnel : s < t => s \in 1..(t - 1)
      BY <1>0 DEF Tunnel
    <3> QED  BY <3>1 DEF AcceptTunnel
  <2>2. \A s \in Tunnel : sockets[s] # "unused" => s < t
    <3> SUFFICES ASSUME NEW s \in Tunnel, sockets[s] # "unused" PROVE s < t
      OBVIOUS
    <3>1. ~(t < s)
      BY <1>1 DEF Delivery, Latest
    <3>2. s # t
      BY <1>1
    <3> QED  BY <1>0, <3>1, <3>2
  <2> QED  BY <2>1, <2>2
<1>5. /\ sockets'[t] = "open" /\ Usable(t)'
      /\ \A s \in Tunnel : s # t => ~Usable(s)' /\ (sockets'[s] = "unused" <=> sockets[s] = "unused")
  BY DEF AcceptTunnel, Usable
<1>6. Latest'
  <2>1. \A s \in Tunnel : Usable(s)' \/ sockets'[s] = "open" \/ down'[s] # <<>> => s = t
    BY <1>1, <1>2, <1>5 DEF Usable
  <2>2. \A s \in Tunnel : sockets'[s] # "unused" => s <= t
    BY <1>0, <1>4, <1>5
  <2>3. ASSUME NEW s \in Tunnel, NEW u \in Tunnel, sockets'[u] # "unused", s < u
        PROVE  sockets'[s] # "unused"
    <3>1. s < t
      BY <1>0, <2>2, <2>3
    <3> QED  BY <1>4, <1>5, <3>1
  <2>4. session' # 0
    BY <1>0, <1>1
  <2> QED  BY <1>1, <1>5, <2>1, <2>2, <2>3, <2>4 DEF Latest
<1>7. DOMAIN pending' = {} /\ DOMAIN visitors' = DOMAIN visitors
      /\ \A i \in DOMAIN visitors' : visitors'[i].visitor = visitors[i].visitor /\ visitors'[i].closing = TRUE
  BY <1>1 DEF AbandonStreams, NoMap, Types, RelayTypes, Map, Accepted
<1>8. IdsDrawn'
  <2>1. DOMAIN wsStreams = {}
    BY <1>2 DEF Streams
  <2>2. BelongsKept
    BY <1>1, <1>2, <1>3, <1>7, <2>1 DEF BelongsKept, Belongs
  <2>3. nextStreamId <= nextStreamId' /\ nextStreamId' = nextStreamId
    BY <1>1 DEF Types, RelayTypes
  <2>4. \A p \in pumps' : p[1] < nextStreamId'
    BY <1>1, <2>3 DEF Delivery, IdsDrawn
  <2> QED  BY <1>3, <1>7, <2>2, <2>3, <2>4, IdsKept DEF Delivery
<1>9. OpensSockets' /\ Companions' /\ DownGoesOn'
  <2>1. DOMAIN wsStreams' = {}
    BY <1>1, <1>2 DEF Streams
  <2> QED  BY <1>3, <2>1, NothingDown
<1>10. UpGoesOn'
  BY <1>7 DEF UpGoesOn
<1>11. OwnMessages'
  BY <1>1 DEF Delivery, OwnMessages, InOrder
<1> QED  BY <1>6, <1>8, <1>9, <1>10, <1>11 DEF Delivery

LEMMA TunnelCloseSeenDelivers ==
    ASSUME Types, Types', Delivery, NEW t \in Tunnel, TunnelCloseSeen(t)
    PROVE  Delivery'
<1>1. UNCHANGED <<nextStreamId, pumps, down, session, httpStreams, wsStreams, lingering, sent, served, told, received>>
      /\ nextStreamId <= nextStreamId'
  BY DEF TunnelCloseSeen, clientVars, Types, RelayTypes
<1>2. /\ sockets'[t] = "gone" /\ sockets[t] \in {"open", "dead", "closing"}
      /\ \A s \in Tunnel : s # t => sockets'[s] = sockets[s]
      /\ up'[t] = <<>> /\ \A s \in Tunnel : s # t => up'[s] = up[s]
  BY DEF TunnelCloseSeen, Types, RelayTypes, TunnelTypes
<1>3. Line' = Line /\ (Connected' => Connected) /\ (Linked' => Linked)
  BY <1>1, <1>2 DEF Line, Connected, Linked, Types, ClientTypes
<1>4. Latest'
  <2>1. \A s \in Tunnel : /\ sockets'[s] # "unused" <=> sockets[s] # "unused"
                          /\ Usable(s)' => Usable(s)
                          /\ sockets'[s] = "open" => sockets[s] = "open"
    BY <1>2 DEF Usable
  <2>2. session # 0 => sockets'[session] \in {"open", "gone"}
    BY <1>2 DEF Types, ClientTypes, Delivery, Latest
  <2> QED  BY <1>1, <2>1, <2>2 DEF Delivery, Latest, Streams
<1>5. DOMAIN pending' \subseteq DOMAIN pending /\ DOMAIN visitors' = DOMAIN visitors
      /\ \A i \in DOMAIN visitors' : visitors'[i].visitor = visitors[i].visitor
  BY DEF TunnelCloseSeen, AbandonStreams, NoMap, Types, RelayTypes, Map, Accepted
<1>6. BelongsKept
  <2>1. \A s \in Tunnel : \A k \in DOMAIN up'[s] : k \in DOMAIN up[s] /\ up'[s][k] = up[s][k]
    BY <1>2
  <2> QED  BY <1>1, <1>3, <1>5, <2>1 DEF BelongsKept, Belongs
<1>7. IdsDrawn'
  BY <1>1, <1>3, <1>5, <1>6, IdsKept DEF Delivery, IdsDrawn
<1>8. OpensSockets'
  BY <1>1, <1>3 DEF Delivery, OpensSockets
<1>9. Companions'
  BY <1>1, <1>3, <1>5 DEF Delivery, Companions, Opened
<1>10. DownGoesOn'
  <2>1. \A i : Kept(i)' = Kept(i) /\ (InOrder(Kept(i), wsStreams[i].of)' <=> InOrder(Kept(i), wsStreams[i].of))
    BY <1>1 DEF Kept, InOrder
  <2>2. DownGoesOn
    BY DEF Delivery
  <2> HIDE DEF Kept
  <2> QED  BY <1>1, <1>3, <2>1, <2>2 DEF DownGoesOn
<1>11. UpGoesOn'
  <2>1. CASE \E s \in Tunnel \ {t} : Usable(s)
    <3>1. PICK u \in Tunnel \ {t} : Usable(u)
      BY <2>1
    <3>2. ~Usable(t)
      <4>1. Usable(t) => t <= u /\ u <= t
        BY <3>1 DEF Delivery, Latest, Usable
      <4> QED  BY <3>1, <4>1 DEF Tunnel
    <3>3. UNCHANGED visitors
      BY <2>1 DEF TunnelCloseSeen
    <3>4. \A s \in Tunnel : Usable(s)' <=> Usable(s)
      BY <1>2, <3>2 DEF Usable
    <3>5. \A s \in Tunnel : Usable(s) => up'[s] = up[s]
      BY <1>2, <3>2
    <3>6. \A s \in Tunnel : \A i : (\A k \in DOMAIN up[s] : ~MessageOf(up[s][k], i))
             => \A k \in DOMAIN up'[s] : ~MessageOf(up'[s][k], i)
      BY <1>2
    <3>7. UpGoesOn
      BY DEF Delivery
    <3> QED  BY <1>1, <3>3, <3>4, <3>5, <3>6, <3>7 DEF UpGoesOn
  <2>2. CASE ~\E s \in Tunnel \ {t} : Usable(s)
    <3>1. AbandonStreams
      BY <2>2 DEF TunnelCloseSeen
    <3>2. \A i \in DOMAIN visitors' : visitors'[i].closing = TRUE
      BY <3>1 DEF AbandonStreams, Types, RelayTypes, Map, Accepted
    <3> QED  BY <3>2 DEF UpGoesOn
  <2> QED  BY <2>1, <2>2
<1>12. OwnMessages'
  BY <1>1 DEF Delivery, OwnMessages, InOrder
<1> QED  BY <1>4, <1>7, <1>8, <1>9, <1>10, <1>11, <1>12 DEF Delivery

LEMMA SessionEndsDelivers ==
    ASSUME Types, Types', Delivery, session # 0, SessionEnds, down' = [down EXCEPT ![session] = <<>>],
           UNCHANGED <<nextStreamId, pending, pumps, visitors, up, sent, served, told, received>>
    PROVE  Delivery'
<1>1. session' = 0 /\ Line' = <<>> /\ Streams' = {} /\ wsStreams' = NoMap /\ lingering' = {}
      /\ nextStreamId <= nextStreamId'
  BY DEF SessionEnds, Line, Streams, NoMap, Types, RelayTypes
<1>2. sockets \in [Tunnel -> SocketState] /\ down \in [Tunnel -> Seq(Frames)] /\ session \in Tunnel
  BY DEF Types, RelayTypes, TunnelTypes, ClientTypes
<1>3. \A t \in Tunnel : /\ sockets'[t] # "open" /\ down'[t] = <<>>
                        /\ sockets'[t] = "unused" <=> sockets[t] = "unused"
                        /\ Usable(t)' <=> Usable(t)
  BY <1>2 DEF SessionEnds, Delivery, Latest, Usable
<1>4. Latest'
  BY <1>1, <1>3 DEF Delivery, Latest
<1>5. BelongsKept
  BY <1>1 DEF BelongsKept, Belongs, NoMap
<1>6. IdsDrawn'
  BY <1>1, <1>5, IdsKept DEF Delivery, IdsDrawn
<1>7. OpensSockets' /\ Companions' /\ DownGoesOn'
  BY <1>1, NothingDown DEF NoMap
<1>8. UpGoesOn'
  <2>1. UpGoesOn
    BY DEF Delivery
  <2> QED  BY <1>3, <2>1 DEF UpGoesOn
<1>9. OwnMessages'
  BY DEF Delivery, OwnMessages, InOrder
<1> QED  BY <1>4, <1>6, <1>7, <1>8, <1>9 DEF Delivery

\* The ids that are drawn again after an eviction belong to nobody.
LEMMA HibernateDelivers ==
    ASSUME Types, Types', Delivery, Hibernate
    PROVE  Delivery'
<1>1. UNCHANGED <<pumps, visitors, sockets, down, up, session, httpStreams, wsStreams, lingering>>
      /\ UNCHANGED <<sent, served, told, received>>
  BY DEF Hibernate, clientVars, guestVars
<1>2. pumps = {} /\ lingering = {} /\ pending' = NoMap /\ \A t \in Tunnel : up[t] = <<>> /\ down[t] = <<>>
  BY DEF Hibernate
<1>3. Line = <<>> /\ Line' = <<>>
  BY <1>1, <1>2 DEF Line, Types, ClientTypes
<1>4. Connected' = Connected /\ Linked' = Linked
  BY <1>1, <1>3 DEF Connected, Linked
<1>5. \A i, v : Belongs(i, v)' <=> Belongs(i, v)
  BY <1>1, <1>3, <1>4 DEF Belongs
<1>6. ASSUME NEW i \in StreamId, NEW v \in Visitor, Belongs(i, v)
      PROVE  i \in DOMAIN visitors'
  <2>1. CASE i \in DOMAIN visitors
    BY <1>1, <2>1
  <2>2. CASE Linked /\ i \in DOMAIN wsStreams
    BY <1>1, <1>3, <2>2 DEF Delivery, Companions, Opened, Linked
  <2> QED  BY <1>2, <1>3, <1>6, <2>1, <2>2 DEF Belongs
<1>7. IdsDrawn'
  <2>1. \A i \in DOMAIN visitors' : i < nextStreamId'
    BY DEF Types, IdsCounted
  <2>2. \A i \in StreamId : \A v \in Visitor : Belongs(i, v)' =>
          /\ i < nextStreamId'
          /\ \A w \in Visitor : Belongs(i, w)' => w = v
    BY <1>5, <1>6, <2>1 DEF Delivery, IdsDrawn
  <2> QED  BY <1>1, <1>2, <1>3, <2>2 DEF IdsDrawn, NoMap
<1>8. Latest'
  BY <1>1 DEF Delivery, Latest, Usable, Streams
<1>9. OpensSockets'
  BY <1>1, <1>3 DEF OpensSockets
<1>10. Companions'
  BY <1>1, <1>3, <1>4 DEF Delivery, Companions, Opened
<1>11. DownGoesOn'
  <2>1. \A i : Kept(i)' = Kept(i) /\ (InOrder(Kept(i), wsStreams[i].of)' <=> InOrder(Kept(i), wsStreams[i].of))
    BY <1>1 DEF Kept, InOrder
  <2>2. DownGoesOn /\ Line' = Line
    BY <1>3 DEF Delivery
  <2> HIDE DEF Kept
  <2> QED  BY <1>1, <1>4, <2>1, <2>2 DEF DownGoesOn
<1>12. UpGoesOn'
  <2>1. UpGoesOn
    BY DEF Delivery
  <2> QED  BY <1>1, <2>1 DEF UpGoesOn, Usable
<1>13. OwnMessages'
  BY <1>1 DEF Delivery, OwnMessages, InOrder
<1> QED  BY <1>7, <1>8, <1>9, <1>10, <1>11, <1>12, <1>13 DEF Delivery

-----------------------------------------------------------------------------
\* Steps that open a visitor's stream, or send or take its messages.

LEMMA LineNames ==
    ASSUME Types, NEW k \in DOMAIN Line
    PROVE  Names(Line[k].id, Line[k].of)
<1>1. session \in Tunnel /\ Line = down[session]
  BY DEF Line, Types, ClientTypes
<1>2. Carried(down, Line[k].id, Line[k].of)
  BY <1>1, Zenon DEF Carried
<1> QED  BY <1>2 DEF Names

\* Wherever a visitor is named, it is by the id of its one stream.
LEMMA SameStream ==
    ASSUME OneStream, NEW v \in Visitor, NEW i \in StreamId, NEW j \in StreamId, Names(i, v), Names(j, v)
    PROVE  i = j
BY DEF OneStream

LEMMA OpenVisitorDelivers ==
    ASSUME Types, Types', Delivery, OneStream, NEW v \in Visitor, OpenVisitor(v)
    PROVE  Delivery'
<1>0. UNCHANGED <<pending, pumps, sockets, up, sent, served, told, received>>
      /\ UNCHANGED <<session, httpStreams, wsStreams, lingering>> /\ nextStreamId \in Nat
  BY DEF OpenVisitor, clientVars, Types, RelayTypes
<1>1. CASE ActiveTunnel = 0
  <2>1. UNCHANGED <<nextStreamId, visitors, down>> /\ nextStreamId <= nextStreamId'
    BY <1>0, <1>1 DEF OpenVisitor
  <2> QED  BY <1>0, <2>1, RelayHttpDelivers DEF clientVars
<1>2. CASE ActiveTunnel # 0
  <2> DEFINE n == nextStreamId
             f == Frame("open-ws", n, v, FALSE)
  <2>1. n' = n + 1 /\ visitors' = Put(visitors, n, [visitor |-> v, closing |-> FALSE])
        /\ down' = SentDown(ActiveTunnel, f) /\ visit[v] = "none"
    BY <1>2 DEF OpenVisitor, FollowingId
  <2>2. n \in StreamId /\ n \in Nat /\ n < n' /\ n <= n'
    BY <1>0, <1>2, <2>1, VisitorStarts, StartedType DEF OpenVisitor, Types, IdsCounted, RelayTypes, StreamId
  <2>3. f \in Frames /\ f.id = n /\ f.of = v /\ f.type = "open-ws"
    BY <2>2 DEF Frame, Frames
  <2>4. ActiveTunnel \in Tunnel /\ Usable(ActiveTunnel) /\ ActiveTunnel # 0
    BY <1>2, ActiveTunnelType
  <2>5. /\ n \notin DOMAIN visitors /\ \A k \in DOMAIN Line : Line[k].id # n
        /\ \A w \in Visitor : ~Belongs(n, w)
    <3>1. /\ \A k \in DOMAIN Line : Line[k].id < n
          /\ \A i \in DOMAIN visitors : i < n
          /\ \A w \in Visitor : Belongs(n, w) => n < n
      BY <2>2 DEF Delivery, IdsDrawn, Types, IdsCounted
    <3>2. ~(n < n)
      BY <2>2
    <3> QED  BY <3>1, <3>2
  <2>6. /\ DOMAIN visitors' = DOMAIN visitors \cup {n}
        /\ visitors'[n].visitor = v
        /\ \A i \in DOMAIN visitors : visitors'[i] = visitors[i]
    BY <2>1, <2>5 DEF Put
  <2>7. sent[v] = 0 /\ told[v] = 0 /\ served[v] = <<>> /\ received[v] = <<>>
    BY <2>1 DEF OneStream
  <2> HIDE DEF f
  <2>8. /\ Line' = Line \/ (Line' = Append(Line, f) /\ Connected)
        /\ \A s \in Tunnel : down'[s] # <<>> => s = session
    <3>1. /\ Line' = Line \/ (Line' = Append(Line, f) /\ ActiveTunnel = session)
          /\ \A s \in Tunnel : down'[s] # <<>> => s = session
      BY <1>0, <2>1, <2>4, LatestApart, LineSent DEF Delivery
    <3>2. sockets[ActiveTunnel] # "open" => Line' = Line
      BY <1>0, <2>1 DEF SentDown, Line
    <3> QED  BY <2>4, <3>1, <3>2 DEF Connected
  <2>9. Connected' = Connected /\ (Linked' => Linked)
    BY <1>0, <2>8 DEF Connected, Linked
  <2>10. \A k \in DOMAIN Line' :
            \/ k \in DOMAIN Line /\ Line'[k] = Line[k]
            \/ Line'[k] = f /\ Connected /\ k = Len(Line) + 1 /\ \A j \in DOMAIN Line : j < k
    BY <2>8, LineTyped
  <2>11. \A k \in DOMAIN Line : k \in DOMAIN Line' /\ Line'[k] = Line[k]
    BY <2>8, LineTyped
  <2>12. Latest'
    BY <1>0, <2>8 DEF Delivery, Latest, Usable, Streams
  <2>13. \A i, w : Belongs(i, w)' => Belongs(i, w) \/ (i = n /\ w = v)
    <3>1. \A i, w : i \in DOMAIN visitors' /\ visitors'[i].visitor = w =>
             (i \in DOMAIN visitors /\ visitors[i].visitor = w) \/ (i = n /\ w = v)
      BY <2>6
    <3>2. \A i, w : (\E k \in DOMAIN Line' : IsVisitors(Line'[k]) /\ Line'[k].id = i /\ Line'[k].of = w) =>
             \/ \E k \in DOMAIN Line : IsVisitors(Line[k]) /\ Line[k].id = i /\ Line[k].of = w
             \/ i = n /\ w = v
      BY <2>3, <2>10
    <3> SUFFICES ASSUME NEW i, NEW w, Belongs(i, w)' PROVE Belongs(i, w) \/ (i = n /\ w = v)
      OBVIOUS
    <3>3. CASE \/ i \in DOMAIN visitors' /\ visitors'[i].visitor = w
               \/ \E k \in DOMAIN Line' : IsVisitors(Line'[k]) /\ Line'[k].id = i /\ Line'[k].of = w
      <4>1. \/ i \in DOMAIN visitors /\ visitors[i].visitor = w
            \/ \E k \in DOMAIN Line : IsVisitors(Line[k]) /\ Line[k].id = i /\ Line[k].of = w
            \/ i = n /\ w = v
        BY <3>1, <3>2, <3>3
      <4> QED  BY <4>1, Zenon DEF Belongs
    <3>4. CASE ~ \/ i \in DOMAIN visitors' /\ visitors'[i].visitor = w
                 \/ \E k \in DOMAIN Line' : IsVisitors(Line'[k]) /\ Line'[k].id = i /\ Line'[k].of = w
      <4>1. \/ \E t \in Tunnel : \E k \in DOMAIN up[t] :
                  up[t][k].type = "ws-data" /\ up[t][k].id = i /\ up[t][k].of = w
            \/ <<i, w>> \in lingering
            \/ Linked' /\ i \in DOMAIN wsStreams /\ wsStreams[i].of = w
        BY <1>0, <3>4 DEF Belongs
      <4> QED  BY <2>9, <4>1, Zenon DEF Belongs
    <3> QED  BY <3>3, <3>4
  <2>14. IdsDrawn'
    <3>1. \A i \in StreamId : i \in Nat
      BY DEF StreamId
    <3>2. ASSUME NEW i \in StreamId, NEW w \in Visitor, Belongs(i, w)'
          PROVE  i < n' /\ \A u \in Visitor : Belongs(i, u)' => u = w
      <4>1. CASE i = n
        BY <2>2, <2>5, <2>13, <3>2, <4>1
      <4>2. CASE i # n
        <5>1. i < n /\ \A u \in Visitor : Belongs(i, u) => u = w
          BY <2>13, <3>2, <4>2 DEF Delivery, IdsDrawn
        <5> QED  BY <2>1, <2>2, <2>13, <3>1, <4>2, <5>1
      <4> QED  BY <4>1, <4>2
    <3>3. \A k \in DOMAIN Line' : Line'[k].id < n'
      BY <2>2, <2>3, <2>8, LineIds DEF Delivery
    <3>4. \A i \in Nat : i < n => i < n'
      BY <2>1, <2>2
    <3>5. (\A i \in DOMAIN pending : i \in Nat) /\ (\A p \in pumps : p[1] \in Nat)
      BY DEF Types, RelayTypes, Map, StreamId
    <3>6. (\A i \in DOMAIN pending' : i < n') /\ (\A p \in pumps' : p[1] < n')
      BY <1>0, <3>4, <3>5 DEF Delivery, IdsDrawn
    <3> QED  BY <3>2, <3>3, <3>6 DEF IdsDrawn
  <2>15. OpensSockets'
    <3> SUFFICES ASSUME NEW k \in DOMAIN Line', Line'[k].type = "open-ws"
                 PROVE  /\ Line'[k].id \notin DOMAIN wsStreams'
                        /\ \A j \in DOMAIN Line' : j # k /\ Line'[j].id = Line'[k].id => k < j
      BY DEF OpensSockets
    <3>1. CASE k \in DOMAIN Line /\ Line'[k] = Line[k]
      <4>1. Line[k].id \notin DOMAIN wsStreams /\ Line[k].id # n
            /\ \A j \in DOMAIN Line : j # k /\ Line[j].id = Line[k].id => k < j
        BY <2>5, <3>1 DEF Delivery, OpensSockets
      <4> QED  BY <1>0, <2>3, <2>10, <3>1, <4>1
    <3>2. CASE Line'[k] = f /\ Connected /\ k = Len(Line) + 1
      <4>1. n \notin DOMAIN wsStreams
        <5>1. n \in DOMAIN wsStreams => Belongs(n, wsStreams[n].of) /\ wsStreams[n].of \in Visitor
          BY <3>2 DEF Belongs, Linked, Types, ClientTypes, Map, WsStream
        <5> QED  BY <2>5, <5>1
      <4>2. \A j \in DOMAIN Line' : j # k => Line'[j].id # n
        BY <2>5, <2>10, <3>2
      <4> QED  BY <1>0, <2>3, <3>2, <4>1, <4>2
    <3> QED  BY <2>10, <3>1, <3>2
  <2>16. Companions'
    <3> SUFFICES ASSUME Connected', NEW i \in StreamId, Opened(i)'
                 PROVE  \/ i \in DOMAIN visitors'
                        \/ \E k \in DOMAIN Line' : Line'[k].type = "close-stream" /\ Line'[k].id = i
      BY DEF Companions
    <3>1. i = n \/ Opened(i)
      BY <1>0, <2>3, <2>10 DEF Opened
    <3> QED  BY <2>6, <2>9, <2>11, <3>1 DEF Delivery, Companions
  <2>17. \A i : SameMessages(Line, Line', i)
    BY <2>3, <2>8, LineTyped, SameQueue, OtherSent DEF MessageOf
  <2>18. ASSUME NEW i, NEW m, NEW top
         PROVE  /\ GoesOn(Line, i, m, top) => GoesOn(Line', i, m, top)
                /\ Reaches(Line, i, m, top) => Reaches(Line', i, m, top)
    BY <2>17, LineTyped, NextLineTyped, SameGoesOn
  <2>19. DownGoesOn'
    <3>1. DownGoesOn /\ Connected' = Connected
      BY <2>9 DEF Delivery
    <3>2. \A i : Kept(i)' = Kept(i) /\ (InOrder(Kept(i), wsStreams[i].of)' <=> InOrder(Kept(i), wsStreams[i].of))
      BY <1>0 DEF Kept, InOrder
    <3>3. GoesOn(Line', n, 0, 0) /\ Reaches(Line', n, 0, 0)
      <4>1. \A k \in DOMAIN Line' : ~MessageOf(Line'[k], n)
        BY <2>3, <2>5, <2>10 DEF MessageOf
      <4> QED  BY <4>1, NoMessages
    <3>4. ASSUME NEW k \in DOMAIN Line', Line'[k].type = "open-ws"
          PROVE  /\ served'[Line'[k].of] = <<>>
                 /\ GoesOn(Line', Line'[k].id, 0, sent'[Line'[k].of])
                 /\ Connected' => Reaches(Line', Line'[k].id, 0, sent'[Line'[k].of])
      <4>1. CASE k \in DOMAIN Line /\ Line'[k] = Line[k]
        BY <1>0, <2>18, <3>1, <3>4, <4>1 DEF DownGoesOn
      <4>2. CASE Line'[k] = f
        BY <1>0, <2>3, <2>7, <3>3, <4>2
      <4> QED  BY <2>10, <4>1, <4>2
    <3> HIDE DEF Kept
    <3> QED  BY <1>0, <2>18, <3>1, <3>2, <3>4 DEF DownGoesOn
  <2>20. UpGoesOn'
    <3>1. UpGoesOn
      BY DEF Delivery
    <3>2. ASSUME NEW t \in Tunnel
          PROVE  (\A k \in DOMAIN up[t] : ~MessageOf(up[t][k], n))
                 /\ GoesOn(up[t], n, 0, 0) /\ Reaches(up[t], n, 0, 0)
      <4>1. ASSUME NEW k \in DOMAIN up[t], MessageOf(up[t][k], n)
            PROVE  FALSE
        <5>1. up[t] \in Seq(Frames)
          BY DEF Types, TunnelTypes
        <5>2. up[t][k].of \in Visitor /\ Belongs(n, up[t][k].of)
          BY <4>1, <5>1, MessageTyped DEF Belongs, MessageOf
        <5> QED  BY <2>5, <5>2
      <4> QED  BY <4>1, NoMessages
    <3>3. \E t \in Tunnel : Usable(t)'
      BY <1>0, <2>4 DEF Usable
    <3>4. \A t : Usable(t)' = Usable(t)
      BY <1>0 DEF Usable
    <3>5. Len(received'[v]) = 0 /\ told'[v] = 0
      BY <1>0, <2>7
    <3> SUFFICES ASSUME NEW i \in DOMAIN visitors', ~visitors'[i].closing
                 PROVE  LET w == visitors'[i].visitor IN
                        /\ \E t \in Tunnel : Usable(t)'
                        /\ \A t \in Tunnel :
                              IF Usable(t)'
                                THEN /\ GoesOn(up'[t], i, Len(received'[w]), told'[w])
                                     /\ Reaches(up'[t], i, Len(received'[w]), told'[w])
                                ELSE \A k \in DOMAIN up'[t] : ~MessageOf(up'[t][k], i)
      BY DEF UpGoesOn
    <3>6. CASE i = n
      BY <1>0, <2>6, <3>2, <3>3, <3>5, <3>6
    <3>7. CASE i # n
      <4>1. i \in DOMAIN visitors /\ visitors'[i] = visitors[i]
        BY <2>6, <3>7
      <4> QED  BY <1>0, <3>1, <3>4, <4>1 DEF UpGoesOn
    <3> QED  BY <3>6, <3>7
  <2>21. OwnMessages'
    BY <1>0 DEF Delivery, OwnMessages, InOrder
  <2> QED  BY <2>12, <2>14, <2>15, <2>16, <2>19, <2>20, <2>21 DEF Delivery
<1> QED  BY <1>1, <1>2

\* What the client serves is a visitor's, by its one stream.
LEMMA ServedStream ==
    ASSUME Types, NEW i \in DOMAIN wsStreams
    PROVE  /\ i \in StreamId /\ wsStreams[i].of \in Visitor /\ Names(i, wsStreams[i].of)
           /\ served[wsStreams[i].of] \in Seq(Message) /\ wsStreams[i].buffered \in Seq(Message)
           /\ Kept(i) \in Seq(Message) /\ Len(Kept(i)) \in Nat
<1>1. i \in StreamId /\ wsStreams[i] \in WsStream
  BY DEF Types, ClientTypes, Map
<1>2. wsStreams[i].of \in Visitor /\ wsStreams[i].buffered \in Seq(Message)
  BY <1>1 DEF WsStream
<1>3. served[wsStreams[i].of] \in Seq(Message)
  BY <1>2 DEF Types, GuestTypes
<1>4. Kept(i) \in Seq(Message)
  BY <1>2, <1>3 DEF Kept
<1> QED  BY <1>1, <1>2, <1>3, <1>4 DEF Names

LEMMA VisitorSendsDelivers ==
    ASSUME Types, Types', Delivery, OneStream, NEW i \in StreamId, VisitorSends(i)
    PROVE  Delivery'
<1> DEFINE v == visitors[i].visitor
           f == Frame("ws-data", i, v, sent[v] + 1)
<1>0. /\ UNCHANGED <<nextStreamId, pending, pumps, sockets, up, served, told, received>>
      /\ UNCHANGED <<session, httpStreams, wsStreams, lingering>>
      /\ nextStreamId <= nextStreamId' /\ i \in DOMAIN visitors
      /\ sent' = [sent EXCEPT ![v] = @ + 1]
  BY DEF VisitorSends, clientVars, Types, RelayTypes
<1>1. v \in Visitor /\ Names(i, v) /\ Belongs(i, v)
  BY <1>0 DEF Types, RelayTypes, Map, Accepted, Names, Belongs
<1>2. sent[v] \in Nat /\ sent[v] + 1 \in 1..MaxMessages /\ sent'[v] = sent[v] + 1
      /\ \A w \in Visitor : w # v => sent'[w] = sent[w]
  BY <1>0, <1>1, TunnelAssumption DEF VisitorSends, Types, GuestTypes
<1>3. f \in Frames /\ f.type = "ws-data" /\ f.id = i /\ f.of = v /\ f.info = sent[v] + 1
  BY <1>1, <1>2 DEF Frame, Frames
<1>4. /\ DOMAIN visitors' = DOMAIN visitors
      /\ \A j \in DOMAIN visitors : visitors'[j].visitor = visitors[j].visitor
                                    /\ (visitors[j].closing => visitors'[j].closing)
  BY DEF VisitorSends, Types, RelayTypes, Map, Accepted
<1>5. /\ ActiveTunnel = 0 => down' = down
      /\ ActiveTunnel # 0 => down' = SentDown(ActiveTunnel, f)
  BY DEF VisitorSends
<1> HIDE DEF f
<1>6. /\ Line' = IF Connected THEN Append(Line, f) ELSE Line
      /\ \A s \in Tunnel : down'[s] # <<>> => s = session
  <2>1. CASE Connected
    <3>1. ActiveTunnel = session /\ session \in Tunnel /\ session # 0 /\ sockets[session] = "open"
      BY <2>1, ConnectedActive DEF Delivery, Connected
    <3>2. down' = SentDown(session, f)
      BY <1>5, <3>1
    <3>3. down' = [down EXCEPT ![session] = Append(@, f)] /\ down \in [Tunnel -> Seq(Frames)]
      BY <3>1, <3>2 DEF SentDown, Types, TunnelTypes
    <3>4. Line' = Append(Line, f)
      BY <1>0, <3>1, <3>3 DEF Line
    <3> QED  BY <1>0, <2>1, <3>1, <3>2, <3>4, LatestApart, LineSent DEF Delivery
  <2>2. CASE ~Connected
    <3>1. CASE ActiveTunnel = 0
      BY <1>0, <1>5, <2>2, <3>1 DEF Line, Delivery, Latest
    <3>2. CASE ActiveTunnel # 0
      <4>1. ActiveTunnel \in Tunnel /\ down' = SentDown(ActiveTunnel, f)
        BY <1>5, <3>2, ActiveTunnelType
      <4>2. sockets[ActiveTunnel] # "open"
        BY <2>2, <3>2, <4>1 DEF Delivery, Latest, Connected
      <4> QED  BY <1>0, <2>2, <4>1, <4>2 DEF SentDown, Line, Delivery, Latest
    <3> QED  BY <3>1, <3>2
  <2> QED  BY <2>1, <2>2
<1>7. Connected' = Connected /\ (Linked' => Linked)
  BY <1>0, <1>6 DEF Connected, Linked
<1>8. \A k \in DOMAIN Line' :
         \/ k \in DOMAIN Line /\ Line'[k] = Line[k]
         \/ Line'[k] = f /\ Connected /\ \A j \in DOMAIN Line : j < k
  BY <1>6, LineTyped
<1>9. \A k \in DOMAIN Line : k \in DOMAIN Line' /\ Line'[k] = Line[k]
  BY <1>6, LineTyped
<1>10. Latest'
  BY <1>0, <1>6 DEF Delivery, Latest, Usable, Streams
<1>11. BelongsKept
  <2>1. \A j, w : (\E k \in DOMAIN Line' : IsVisitors(Line'[k]) /\ Line'[k].id = j /\ Line'[k].of = w) =>
           \/ \E k \in DOMAIN Line : IsVisitors(Line[k]) /\ Line[k].id = j /\ Line[k].of = w
           \/ j = i /\ w = v
    BY <1>3, <1>8
  <2>2. \A j, w : j \in DOMAIN visitors' /\ visitors'[j].visitor = w =>
           j \in DOMAIN visitors /\ visitors[j].visitor = w
    BY <1>4
  <2> SUFFICES ASSUME NEW j, NEW w, Belongs(j, w)' PROVE Belongs(j, w)
    BY DEF BelongsKept
  <2> HIDE DEF v
  <2>3. CASE j = i /\ w = v
    BY <1>1, <2>3
  <2>4. CASE ~(j = i /\ w = v)
    BY <1>0, <1>7, <2>1, <2>2, <2>4 DEF Belongs
  <2> QED  BY <2>3, <2>4
<1>12. IdsDrawn'
  <2>1. i < nextStreamId'
    BY <1>0 DEF Types, IdsCounted
  <2>2. \A k \in DOMAIN Line' : Line'[k].id < nextStreamId'
    BY <1>0, <1>3, <1>6, <2>1, LineIds DEF Delivery
  <2> QED  BY <1>0, <1>11, <2>2, IdsKept DEF Delivery, IdsDrawn
<1>13. OpensSockets'
  BY <1>0, <1>3, <1>8 DEF Delivery, OpensSockets
<1>14. Companions'
  <2>1. \A j : Opened(j)' => Opened(j)
    BY <1>0, <1>3, <1>8 DEF Opened
  <2> QED  BY <1>4, <1>7, <1>9, <2>1 DEF Delivery, Companions
<1>15. ASSUME NEW j \in StreamId, NEW w \in Visitor, NEW m \in Nat,
              w = v => j = i, Connected /\ w # v => j # i,
              GoesOn(Line, j, m, sent[w]), Connected => Reaches(Line, j, m, sent[w])
       PROVE  GoesOn(Line', j, m, sent'[w]) /\ (Connected => Reaches(Line', j, m, sent'[w]))
  <2>1. CASE w = v /\ Connected
    <3>1. MessageOf(f, j) /\ f.info = sent[w] + 1 /\ Line' = Append(Line, f) /\ sent'[w] = sent[w] + 1
      BY <1>2, <1>3, <1>6, <1>15, <2>1 DEF MessageOf
    <3>2. sent[w] \in Nat
      BY <1>2, <2>1
    <3>3. GoesOn(Append(Line, f), j, m, sent[w] + 1) /\ Reaches(Append(Line, f), j, m, sent[w] + 1)
      BY <1>3, <1>15, <2>1, <3>1, <3>2, LineTyped, MessageSent
    <3> QED  BY <3>1, <3>3
  <2>2. CASE w = v /\ ~Connected
    <3>1. Line' = Line /\ sent'[w] = sent[w] + 1 /\ sent[w] \in Nat
      BY <1>2, <1>6, <2>2
    <3>2. GoesOn(Line, j, m, sent[w] + 1)
      BY <1>15, <3>1, LineTyped, MessageLost
    <3> QED  BY <2>2, <3>1, <3>2
  <2>3. CASE w # v
    <3>1. sent'[w] = sent[w]
      BY <1>2, <2>3
    <3>2. SameMessages(Line, Line', j)
      BY <1>3, <1>6, <1>15, <2>3, LineTyped, SameQueue, OtherSent DEF MessageOf
    <3> QED  BY <1>15, <3>1, <3>2, LineTyped, NextLineTyped, SameGoesOn
  <2> QED  BY <2>1, <2>2, <2>3
<1>16. DownGoesOn'
  <2>1. ASSUME NEW j \in DOMAIN wsStreams
        PROVE  /\ InOrder(Kept(j), wsStreams[j].of)'
               /\ wsStreams'[j].open => wsStreams'[j].buffered = <<>>
               /\ GoesOn(Line', j, Len(Kept(j))', sent'[wsStreams'[j].of])
               /\ Connected' => Reaches(Line', j, Len(Kept(j))', sent'[wsStreams'[j].of])
    <3>1. j \in StreamId /\ wsStreams[j].of \in Visitor /\ Names(j, wsStreams[j].of) /\ Len(Kept(j)) \in Nat
      BY ServedStream
    <3>2. /\ InOrder(Kept(j), wsStreams[j].of)
          /\ wsStreams[j].open => wsStreams[j].buffered = <<>>
          /\ GoesOn(Line, j, Len(Kept(j)), sent[wsStreams[j].of])
          /\ Connected => Reaches(Line, j, Len(Kept(j)), sent[wsStreams[j].of])
      BY DEF Delivery, DownGoesOn
    <3>3. wsStreams[j].of = v => j = i
      BY <1>1, <3>1, SameStream
    <3>4. Connected /\ wsStreams[j].of # v => j # i
      <4>1. Connected => Belongs(j, wsStreams[j].of)
        BY DEF Belongs, Linked
      <4> QED  BY <1>1, <3>1, <4>1 DEF Delivery, IdsDrawn
    <3>5. Kept(j)' = Kept(j) /\ wsStreams' = wsStreams
      BY <1>0 DEF Kept
    <3>6. InOrder(Kept(j), wsStreams[j].of)'
      BY <3>2, <3>5 DEF InOrder
    <3> HIDE DEF Kept
    <3> QED  BY <1>7, <1>15, <3>1, <3>2, <3>3, <3>4, <3>5, <3>6
  <2>2. ASSUME NEW k \in DOMAIN Line', Line'[k].type = "open-ws"
        PROVE  /\ served'[Line'[k].of] = <<>>
               /\ GoesOn(Line', Line'[k].id, 0, sent'[Line'[k].of])
               /\ Connected' => Reaches(Line', Line'[k].id, 0, sent'[Line'[k].of])
    <3>1. k \in DOMAIN Line /\ Line'[k] = Line[k] /\ Line[k].type = "open-ws"
      BY <1>3, <1>8, <2>2
    <3>2. Line[k].id \in StreamId /\ Line[k].of \in Visitor
      BY <3>1, LineTyped, FrameFields
    <3>3. /\ served[Line[k].of] = <<>>
          /\ GoesOn(Line, Line[k].id, 0, sent[Line[k].of])
          /\ Connected => Reaches(Line, Line[k].id, 0, sent[Line[k].of])
      BY <3>1 DEF Delivery, DownGoesOn
    <3>4. Line[k].of = v => Line[k].id = i
      BY <1>1, <3>1, <3>2, LineNames, SameStream
    <3>5. Line[k].of # v => Line[k].id # i
      <4>1. Belongs(Line[k].id, Line[k].of)
        BY <3>1 DEF Belongs, IsVisitors
      <4> QED  BY <1>1, <3>2, <4>1 DEF Delivery, IdsDrawn
    <3> QED  BY <1>0, <1>7, <1>15, <3>1, <3>2, <3>3, <3>4, <3>5
  <2> QED  BY <1>0, <2>1, <2>2 DEF DownGoesOn
<1>17. UpGoesOn'
  <2>1. UpMoves
    BY <1>0, UpKept
  <2> QED  BY <1>0, <1>4, <2>1, QuietUp DEF Delivery, UpMoves
<1>18. OwnMessages'
  BY <1>0 DEF Delivery, OwnMessages, InOrder
<1> QED  BY <1>10, <1>12, <1>13, <1>14, <1>16, <1>17, <1>18 DEF Delivery

\* A message that is next keeps what was given in order.
LEMMA NextInOrder ==
    ASSUME NEW q \in Seq(Message), NEW v, InOrder(q, v)
    PROVE  InOrder(Append(q, <<v, Len(q) + 1>>), v)
<1>1. \A k \in DOMAIN Append(q, <<v, Len(q) + 1>>) :
         \/ k \in DOMAIN q /\ Append(q, <<v, Len(q) + 1>>)[k] = q[k]
         \/ k = Len(q) + 1 /\ Append(q, <<v, Len(q) + 1>>)[k] = <<v, Len(q) + 1>>
  OBVIOUS
<1> QED  BY <1>1 DEF InOrder

\* The relay's sockets but for the frames on their way up.
LEMMA DownRests ==
    ASSUME Types, Types', Delivery, UNCHANGED <<nextStreamId, pending, pumps, visitors, sockets, down>>,
           UNCHANGED <<session, httpStreams, wsStreams, lingering, sent, served>>, BelongsKept
    PROVE  Latest' /\ IdsDrawn' /\ OpensSockets' /\ Companions' /\ DownGoesOn'
<1>1. Line' = Line /\ Connected' = Connected /\ nextStreamId <= nextStreamId'
  BY DEF Line, Connected, Types, RelayTypes
<1>2. Latest'
  BY DEF Delivery, Latest, Usable, Streams
<1>3. IdsDrawn'
  BY <1>1, IdsKept DEF Delivery, IdsDrawn
<1>4. OpensSockets' /\ Companions'
  BY <1>1 DEF Delivery, OpensSockets, Companions, Opened
<1>5. DownGoesOn'
  <2>1. \A i : Kept(i)' = Kept(i) /\ (InOrder(Kept(i), wsStreams[i].of)' <=> InOrder(Kept(i), wsStreams[i].of))
    BY DEF Kept, InOrder
  <2>2. DownGoesOn
    BY DEF Delivery
  <2> HIDE DEF Kept
  <2> QED  BY <1>1, <2>1, <2>2 DEF DownGoesOn
<1> QED  BY <1>2, <1>3, <1>4, <1>5

\* At most one socket reads OPEN.
LEMMA OneUsable ==
    ASSUME Latest, NEW s \in Tunnel, NEW t \in Tunnel, Usable(s), Usable(t)
    PROVE  s = t
<1>1. sockets[s] # "unused" /\ sockets[t] # "unused"
  BY DEF Usable
<1>2. s <= t /\ t <= s
  BY <1>1 DEF Latest
<1> QED  BY <1>2 DEF Tunnel

LEMMA OnWsDataDelivers ==
    ASSUME Types, Types', Delivery, OneStream, NEW t \in Tunnel, OnWsData(t)
    PROVE  Delivery'
<1> DEFINE f == Head(up[t])
           a == f.id
<1>0. /\ UNCHANGED <<nextStreamId, pending, pumps, visitors, sockets, down>>
      /\ UNCHANGED <<session, httpStreams, wsStreams, lingering, sent, served, told>>
      /\ up[t] # <<>> /\ f.type = "ws-data"
  BY DEF OnWsData, TakeUp, clientVars
<1>1. up \in [Tunnel -> Seq(Frames)] /\ up[t] \in Seq(Frames)
  BY DEF Types, TunnelTypes
<1>2. up'[t] = Tail(up[t]) /\ \A s \in Tunnel : s # t => up'[s] = up[s]
  BY <1>1 DEF OnWsData, TakeUp
<1>3. f \in Frames /\ 1 \in DOMAIN up[t] /\ up[t][1] = f
  BY <1>0, <1>1
<1>4. a \in StreamId /\ f.of \in Visitor /\ f.info \in 1..MaxMessages
  BY <1>0, <1>3, FrameFields
<1>5. Belongs(a, f.of) /\ MessageOf(f, a)
  BY <1>0, <1>3 DEF Belongs, MessageOf
<1>6. \A s \in Tunnel : \A k \in DOMAIN up'[s] : \E j \in DOMAIN up[s] : up[s][j] = up'[s][k]
  <2>1. \A k \in DOMAIN up'[t] : k + 1 \in DOMAIN up[t] /\ up'[t][k] = up[t][k + 1]
    BY <1>0, <1>1, <1>2
  <2> QED  BY <1>2, <2>1
<1>7. BelongsKept
  <2>1. Line' = Line /\ Linked' = Linked
    BY <1>0 DEF Line, Linked, Connected
  <2> QED  BY <1>0, <1>6, <2>1 DEF BelongsKept, Belongs
<1>8. Latest' /\ IdsDrawn' /\ OpensSockets' /\ Companions' /\ DownGoesOn'
  BY <1>0, <1>7, DownRests
<1> HIDE DEF f
<1>9. ASSUME NEW j \in DOMAIN visitors, ~visitors[j].closing
      PROVE  LET v == visitors[j].visitor IN
             /\ v \in Visitor /\ Names(j, v) /\ Belongs(j, v) /\ j \in StreamId
             /\ received[v] \in Seq(Message) /\ Len(received[v]) \in Nat /\ told[v] \in Nat
  BY <1>9, TunnelAssumption DEF Types, RelayTypes, GuestTypes, Map, Accepted, Names, Belongs
<1>10. ASSUME NEW j \in DOMAIN visitors, ~visitors[j].closing, NEW s \in Tunnel
       PROVE  LET v == visitors[j].visitor IN
              IF Usable(s)
                THEN GoesOn(up[s], j, Len(received[v]), told[v]) /\ Reaches(up[s], j, Len(received[v]), told[v])
                ELSE \A k \in DOMAIN up[s] : ~MessageOf(up[s][k], j)
  BY <1>10 DEF Delivery, UpGoesOn
<1>11. ASSUME NEW j, j # a, NEW s \in Tunnel, NEW n, NEW top
       PROVE  /\ GoesOn(up[s], j, n, top) => GoesOn(up'[s], j, n, top)
              /\ Reaches(up[s], j, n, top) => Reaches(up'[s], j, n, top)
  <2>1. CASE s = t
    <3>1. SameMessages(up[t], up'[t], j)
      BY <1>0, <1>1, <1>2, <1>11, OtherTaken DEF MessageOf, f
    <3>2. up'[t] \in Seq(Frames)
      BY DEF Types, TunnelTypes
    <3> QED  BY <1>1, <2>1, <3>1, <3>2, SameGoesOn
  <2>2. CASE s # t
    BY <1>2, <2>2
  <2> QED  BY <2>1, <2>2
<1>12. CASE ~(a \in DOMAIN visitors /\ ~visitors[a].closing)
  <2>1. received' = received
    BY <1>12 DEF OnWsData, f
  <2>2. UpGoesOn'
    <3> SUFFICES ASSUME NEW j \in DOMAIN visitors, ~visitors[j].closing
                 PROVE  LET v == visitors[j].visitor IN
                        /\ \E s \in Tunnel : Usable(s)
                        /\ \A s \in Tunnel :
                              IF Usable(s)
                                THEN /\ GoesOn(up'[s], j, Len(received[v]), told[v])
                                     /\ Reaches(up'[s], j, Len(received[v]), told[v])
                                ELSE \A k \in DOMAIN up'[s] : ~MessageOf(up'[s][k], j)
      BY <1>0, <2>1 DEF UpGoesOn, Usable
    <3>1. j # a
      BY <1>12
    <3>2. \E s \in Tunnel : Usable(s)
      BY DEF Delivery, UpGoesOn
    <3> QED  BY <1>6, <1>10, <1>11, <3>1, <3>2
  <2> QED  BY <1>0, <1>8, <2>1, <2>2 DEF Delivery, OwnMessages, InOrder
<1>13. CASE a \in DOMAIN visitors /\ ~visitors[a].closing
  <2> DEFINE v == visitors[a].visitor
             n == Len(received[v])
  <2>1. v \in Visitor /\ Names(a, v) /\ Belongs(a, v) /\ received[v] \in Seq(Message)
        /\ n \in Nat /\ told[v] \in Nat
    BY <1>9, <1>13
  <2>2. f.of = v
    BY <1>4, <1>5, <2>1 DEF Delivery, IdsDrawn
  <2>3. Usable(t)
    BY <1>3, <1>5, <1>10, <1>13
  <2>4. GoesOn(up[t], a, n, told[v]) /\ Reaches(up[t], a, n, told[v])
    BY <1>10, <1>13, <2>3
  <2> HIDE DEF n
  <2>5. f.info = n + 1 /\ GoesOn(up'[t], a, n + 1, told[v]) /\ Reaches(up'[t], a, n + 1, told[v])
    <3>1. MessageOf(Head(up[t]), a)
      BY <1>5 DEF f
    <3> QED  BY <1>0, <1>1, <1>2, <2>1, <2>4, <3>1, MessageTaken DEF f
  <2>6. received' = [received EXCEPT ![v] = Append(@, <<v, n + 1>>)]
    <3>1. received' = [received EXCEPT ![visitors[a].visitor] = Append(@, <<f.of, f.info>>)]
      BY <1>13, Zenon DEF OnWsData, f
    <3> QED  BY <2>2, <2>5, <3>1
  <2>7. received \in [Visitor -> Seq(Message)]
    BY DEF Types, GuestTypes
  <2>8. received'[v] = Append(received[v], <<v, n + 1>>) /\ \A w \in Visitor : w # v => received'[w] = received[w]
    BY <2>1, <2>6, <2>7
  <2>9. Len(received'[v]) = n + 1
    <3>1. received[v] \in Seq(Message) /\ n = Len(received[v])
      BY <2>1 DEF n
    <3> HIDE DEF v
    <3>2. Len(Append(received[v], <<v, n + 1>>)) = n + 1
      BY <3>1
    <3> QED  BY <2>8, <3>2
  <2>10. OwnMessages'
    <3>1. InOrder(received'[v], v)
      <4>1. InOrder(received[v], v)
        BY <2>1 DEF Delivery, OwnMessages
      <4>2. received'[v] = Append(received[v], <<v, Len(received[v]) + 1>>)
        BY <2>8 DEF n
      <4> HIDE DEF v
      <4>3. InOrder(Append(received[v], <<v, Len(received[v]) + 1>>), v)
        BY <2>1, <4>1, NextInOrder
      <4> QED  BY <4>2, <4>3
    <3>2. ASSUME NEW w \in Visitor
          PROVE  InOrder(served'[w], w) /\ InOrder(received'[w], w)
      <4>1. InOrder(served[w], w) /\ InOrder(received[w], w)
        BY DEF Delivery, OwnMessages
      <4> HIDE DEF v
      <4> QED  BY <1>0, <2>8, <3>1, <4>1
    <3> QED  BY <3>2 DEF OwnMessages, InOrder
  <2>11. UpGoesOn'
    <3> SUFFICES ASSUME NEW j \in DOMAIN visitors, ~visitors[j].closing
                 PROVE  LET w == visitors[j].visitor IN
                        /\ \E s \in Tunnel : Usable(s)
                        /\ \A s \in Tunnel :
                              IF Usable(s)
                                THEN /\ GoesOn(up'[s], j, Len(received'[w]), told[w])
                                     /\ Reaches(up'[s], j, Len(received'[w]), told[w])
                                ELSE \A k \in DOMAIN up'[s] : ~MessageOf(up'[s][k], j)
      BY <1>0 DEF UpGoesOn, Usable
    <3>1. CASE j = a
      <4>1. \A s \in Tunnel : Usable(s) => s = t
        BY <2>3, OneUsable DEF Delivery
      <4> QED  BY <1>6, <1>10, <2>3, <2>5, <2>9, <3>1, <4>1
    <3>2. CASE j # a
      <4> DEFINE w == visitors[j].visitor
      <4>1. w \in Visitor /\ Names(j, w) /\ j \in StreamId
        BY <1>9
      <4>2. w # v
        BY <1>4, <2>1, <3>2, <4>1, SameStream
      <4>3. received'[w] = received[w]
        BY <2>8, <4>1, <4>2
      <4> QED  BY <1>6, <1>10, <1>11, <2>3, <3>2, <4>3
    <3> QED  BY <3>1, <3>2
  <2> QED  BY <1>8, <2>10, <2>11 DEF Delivery
<1> QED  BY <1>12, <1>13

LEMMA OriginWsMessageDelivers ==
    ASSUME Types, Types', Delivery, OneStream, NEW i \in StreamId, NEW v \in Visitor, OriginWsMessage(i, v)
    PROVE  Delivery'
<1> DEFINE f == Frame("ws-data", i, v, told[v] + 1)
<1>0. /\ UNCHANGED <<nextStreamId, pending, pumps, visitors, sockets, down>>
      /\ UNCHANGED <<session, httpStreams, wsStreams, lingering, sent, served, received>>
      /\ told' = [told EXCEPT ![v] = @ + 1] /\ up' = SentUp(f)
      /\ \/ <<i, v>> \in lingering
         \/ i \in DOMAIN wsStreams /\ wsStreams[i].of = v
  BY DEF OriginWsMessage, doVars, clientVars
<1>1. told[v] \in Nat /\ told[v] + 1 \in 1..MaxMessages /\ told'[v] = told[v] + 1
      /\ \A w \in Visitor : w # v => told'[w] = told[w]
  BY <1>0, TunnelAssumption DEF OriginWsMessage, Types, GuestTypes
<1>2. f \in Frames /\ f.type = "ws-data" /\ f.id = i /\ f.of = v /\ f.info = told[v] + 1
  BY <1>1 DEF Frame, Frames
<1>3. Names(i, v) /\ (Connected => Belongs(i, v))
  BY <1>0 DEF Names, Belongs, Linked
<1>4. session # 0 /\ session \in Tunnel
  <2>1. session = 0 => wsStreams = NoMap \/ DOMAIN wsStreams = {}
    BY DEF Delivery, Latest, Streams
  <2> QED  BY <1>0, <2>1 DEF Delivery, Latest, Types, ClientTypes, NoMap
<1>5. \A t \in Tunnel : up[t] \in Seq(Frames) /\ up'[t] \in Seq(Frames)
  BY DEF Types, TunnelTypes
<1>6. /\ up'[session] = IF Connected THEN Append(up[session], f) ELSE up[session]
      /\ \A t \in Tunnel : t # session => up'[t] = up[t]
  BY <1>0, <1>4 DEF SentUp, Connected, Types, TunnelTypes
<1> HIDE DEF f
<1>7. BelongsKept
  <2>1. Line' = Line /\ Linked' = Linked
    BY <1>0 DEF Line, Linked, Connected
  <2>2. ASSUME NEW t \in Tunnel, NEW k \in DOMAIN up'[t]
        PROVE  (\E j \in DOMAIN up[t] : up[t][j] = up'[t][k]) \/ (up'[t][k] = f /\ Connected)
    <3>1. CASE t = session /\ Connected
      <4>1. up'[t] = Append(up[t], f) /\ up[t] \in Seq(Frames)
        BY <1>5, <1>6, <3>1
      <4>2. (k \in DOMAIN up[t] /\ up'[t][k] = up[t][k]) \/ up'[t][k] = f
        BY <4>1
      <4> QED  BY <3>1, <4>2
    <3>2. CASE ~(t = session /\ Connected)
      <4>1. up'[t] = up[t]
        BY <1>6, <3>2
      <4> QED  BY <4>1
    <3> QED  BY <3>1, <3>2
  <2> SUFFICES ASSUME NEW j, NEW w, Belongs(j, w)' PROVE Belongs(j, w)
    BY DEF BelongsKept
  <2>3. CASE \E t \in Tunnel : \E k \in DOMAIN up'[t] :
                up'[t][k].type = "ws-data" /\ up'[t][k].id = j /\ up'[t][k].of = w
    <3>0. PICK t \in Tunnel : \E k \in DOMAIN up'[t] :
             up'[t][k].type = "ws-data" /\ up'[t][k].id = j /\ up'[t][k].of = w
      BY <2>3
    <3>1. PICK k \in DOMAIN up'[t] :
             up'[t][k].type = "ws-data" /\ up'[t][k].id = j /\ up'[t][k].of = w
      BY <3>0
    <3>2. CASE up'[t][k] = f /\ Connected
      BY <1>2, <1>3, <3>1, <3>2
    <3>3. CASE \E h \in DOMAIN up[t] : up[t][h] = up'[t][k]
      BY <3>1, <3>3 DEF Belongs
    <3> QED  BY <2>2, <3>2, <3>3
  <2>4. CASE ~\E t \in Tunnel : \E k \in DOMAIN up'[t] :
                up'[t][k].type = "ws-data" /\ up'[t][k].id = j /\ up'[t][k].of = w
    BY <1>0, <2>1, <2>4 DEF Belongs
  <2> QED  BY <2>3, <2>4
<1>8. Latest' /\ IdsDrawn' /\ OpensSockets' /\ Companions' /\ DownGoesOn'
  BY <1>0, <1>7, DownRests
<1>9. \A t \in Tunnel : Usable(t) => t = session /\ Connected
  <2> SUFFICES ASSUME NEW t \in Tunnel, Usable(t) PROVE t = session /\ Connected
    OBVIOUS
  <2>1. sockets[t] # "unused" /\ sockets[session] \in {"open", "gone"} /\ sockets[session] # "unused"
    BY <1>4 DEF Delivery, Latest, Usable
  <2>2. t <= session /\ session <= t
    BY <1>4, <2>1 DEF Delivery, Latest
  <2>3. t = session
    BY <1>4, <2>2 DEF Tunnel
  <2> QED  BY <1>4, <2>1, <2>3 DEF Connected, Usable
<1>10. UpGoesOn'
  <2> SUFFICES ASSUME NEW j \in DOMAIN visitors, ~visitors[j].closing
               PROVE  LET w == visitors[j].visitor IN
                      /\ \E s \in Tunnel : Usable(s)
                      /\ \A s \in Tunnel :
                            IF Usable(s)
                              THEN /\ GoesOn(up'[s], j, Len(received[w]), told'[w])
                                   /\ Reaches(up'[s], j, Len(received[w]), told'[w])
                              ELSE \A k \in DOMAIN up'[s] : ~MessageOf(up'[s][k], j)
    BY <1>0 DEF UpGoesOn, Usable
  <2> DEFINE w == visitors[j].visitor
  <2>1. w \in Visitor /\ Names(j, w) /\ Belongs(j, w) /\ j \in StreamId /\ Len(received[w]) \in Nat
    <3>1. w \in Visitor /\ j \in StreamId
      BY DEF Types, RelayTypes, Map, Accepted
    <3>2. received[w] \in Seq(Message)
      BY <3>1 DEF Types, GuestTypes
    <3>3. Names(j, w) /\ Belongs(j, w)
      BY DEF Names, Belongs
    <3> QED  BY <3>1, <3>2, <3>3
  <2>2. \E s \in Tunnel : Usable(s)
    BY DEF Delivery, UpGoesOn
  <2>3. Connected
    BY <1>9, <2>2
  <2>4. w = v <=> j = i
    <3>1. w = v => j = i
      BY <1>3, <2>1, SameStream
    <3>2. j = i => w = v
      BY <1>3, <2>1, <2>3 DEF Delivery, IdsDrawn
    <3> QED  BY <3>1, <3>2
  <2>5. ASSUME NEW s \in Tunnel, Usable(s)
        PROVE  GoesOn(up'[s], j, Len(received[w]), told'[w]) /\ Reaches(up'[s], j, Len(received[w]), told'[w])
    <3>1. s = session /\ up'[s] = Append(up[s], f)
      BY <1>6, <1>9, <2>5
    <3>2. GoesOn(up[s], j, Len(received[w]), told[w]) /\ Reaches(up[s], j, Len(received[w]), told[w])
      BY <2>5 DEF Delivery, UpGoesOn
    <3>3. CASE w = v
      <4>1. MessageOf(f, j) /\ f.info = told[w] + 1 /\ told'[w] = told[w] + 1 /\ told[w] \in Nat
        BY <1>1, <1>2, <2>4, <3>3 DEF MessageOf
      <4>2. /\ GoesOn(Append(up[s], f), j, Len(received[w]), told[w] + 1)
            /\ Reaches(Append(up[s], f), j, Len(received[w]), told[w] + 1)
        BY <1>2, <1>5, <2>1, <3>2, <4>1, MessageSent
      <4> QED  BY <3>1, <4>1, <4>2
    <3>4. CASE w # v
      <4>1. SameMessages(up[s], up'[s], j)
        BY <1>2, <1>5, <2>4, <3>1, <3>4, OtherSent DEF MessageOf
      <4>2. told'[w] = told[w]
        BY <1>1, <2>1, <3>4
      <4> QED  BY <1>5, <3>2, <4>1, <4>2, SameGoesOn
    <3> QED  BY <3>3, <3>4
  <2>6. ASSUME NEW s \in Tunnel, ~Usable(s)
        PROVE  \A k \in DOMAIN up'[s] : ~MessageOf(up'[s][k], j)
    <3>1. s # session
      BY <1>9, <2>2, <2>6
    <3>2. up'[s] = up[s]
      BY <1>6, <3>1
    <3> QED  BY <2>6, <3>2 DEF Delivery, UpGoesOn
  <2> QED  BY <2>2, <2>5, <2>6
<1>11. OwnMessages'
  BY <1>0 DEF Delivery, OwnMessages, InOrder
<1> QED  BY <1>8, <1>10, <1>11 DEF Delivery

\* What opens a stream comes before all else of it, so it is not what follows the
\* line's first frame.
LEMMA OpensLater ==
    ASSUME Types, OpensSockets, Line # <<>>, Line' = Tail(Line), NEW k \in DOMAIN Line', Line'[k].type = "open-ws"
    PROVE  /\ k \in Nat /\ k + 1 \in DOMAIN Line /\ Line'[k] = Line[k + 1]
           /\ Line'[k].id # Head(Line).id /\ Line'[k].id \notin DOMAIN wsStreams
<1>1. k \in Nat /\ k # 0 /\ k + 1 \in DOMAIN Line /\ Line'[k] = Line[k + 1]
  BY LineTyped
<1>2. 1 \in DOMAIN Line /\ Line[1] = Head(Line)
  BY LineTyped
<1>3. /\ Line[k + 1].id \notin DOMAIN wsStreams
      /\ \A j \in DOMAIN Line : j # k + 1 /\ Line[j].id = Line[k + 1].id => k + 1 < j
  BY <1>1 DEF OpensSockets
<1>4. 1 # k + 1 /\ ~(k + 1 < 1)
  BY <1>1
<1> QED  BY <1>1, <1>2, <1>3, <1>4

\* The client takes a frame, and serves what it served but for a visitor the
\* frame opens.
LEMMA TakenRests ==
    ASSUME Types, Types', Delivery, NEW types, TakeDown(types), "close-stream" \notin types, down' = Taken,
           UNCHANGED <<session, sockets, lingering>>, UpMoves,
           \A i \in DOMAIN wsStreams' :
              \/ i \in DOMAIN wsStreams /\ wsStreams'[i].of = wsStreams[i].of
              \/ /\ Head(Line).type = "open-ws"
                 /\ i = Head(Line).id /\ wsStreams'[i].of = Head(Line).of
    PROVE  /\ Latest' /\ IdsDrawn' /\ OpensSockets' /\ Companions' /\ UpGoesOn'
           /\ Line # <<>> /\ Line' = Tail(Line) /\ Head(Line) = Head(down[session]) /\ Connected' = Connected
<1>1. UNCHANGED <<nextStreamId, pending, pumps, visitors, sent, told, received>> /\ nextStreamId <= nextStreamId'
      /\ session # 0
  BY DEF TakeDown, Types, RelayTypes
<1>2. /\ Line # <<>> /\ Line' = Tail(Line) /\ Head(Line) = Head(down[session])
      /\ \A s \in Tunnel : down'[s] # <<>> => s = session
  BY LatestApart, LineTaken DEF Delivery
<1>3. /\ \A k \in DOMAIN Line' : k \in Nat /\ k + 1 \in DOMAIN Line /\ Line'[k] = Line[k + 1]
      /\ \A k \in DOMAIN Line : k # 1 => k - 1 \in DOMAIN Line' /\ Line'[k - 1] = Line[k]
      /\ 1 \in DOMAIN Line /\ Line[1] = Head(Line)
  BY <1>2, LineTyped
<1>4. Connected' = Connected /\ Linked
  BY <1>2 DEF Connected, Linked
<1>5. Latest'
  BY <1>1, <1>2 DEF Delivery, Latest, Usable
<1>6. BelongsKept
  <2>2. \A j, w : (\E k \in DOMAIN Line' : IsVisitors(Line'[k]) /\ Line'[k].id = j /\ Line'[k].of = w) =>
           \E k \in DOMAIN Line : IsVisitors(Line[k]) /\ Line[k].id = j /\ Line[k].of = w
    BY <1>3
  <2>3. ASSUME NEW t \in Tunnel, NEW k \in DOMAIN up'[t], up'[t][k].type = "ws-data"
        PROVE  \E j \in DOMAIN up[t] : up[t][j] = up'[t][k]
    <3>1. up[t] \in Seq(Frames) /\ Moves(up[t], up'[t]) /\ IsVisitors(up'[t][k])
      BY <2>3 DEF Types, TunnelTypes, UpMoves, IsVisitors
    <3>2. PICK d \in {0, 1} : \A h \in DOMAIN up'[t] :
                \/ h + d \in DOMAIN up[t] /\ up'[t][h] = up[t][h + d]
                \/ ~IsVisitors(up'[t][h]) /\ \A j \in DOMAIN up'[t] : j <= h
      BY <3>1, MovesFrom
    <3> QED  BY <3>1, <3>2
  <2>4. \A j, w : j \in DOMAIN wsStreams' /\ wsStreams'[j].of = w =>
           \/ j \in DOMAIN wsStreams /\ wsStreams[j].of = w
           \/ \E k \in DOMAIN Line : IsVisitors(Line[k]) /\ Line[k].id = j /\ Line[k].of = w
    BY <1>3 DEF IsVisitors
  <2> SUFFICES ASSUME NEW j, NEW w, Belongs(j, w)' PROVE Belongs(j, w)
    BY DEF BelongsKept
  <2>5. CASE \E t \in Tunnel : \E k \in DOMAIN up'[t] :
                up'[t][k].type = "ws-data" /\ up'[t][k].id = j /\ up'[t][k].of = w
    BY <2>3, <2>5 DEF Belongs
  <2>6. CASE ~\E t \in Tunnel : \E k \in DOMAIN up'[t] :
                up'[t][k].type = "ws-data" /\ up'[t][k].id = j /\ up'[t][k].of = w
    <3> DEFINE InLine == \E k \in DOMAIN Line : IsVisitors(Line[k]) /\ Line[k].id = j /\ Line[k].of = w
    <3>1. \/ j \in DOMAIN visitors /\ visitors[j].visitor = w
          \/ \E k \in DOMAIN Line' : IsVisitors(Line'[k]) /\ Line'[k].id = j /\ Line'[k].of = w
          \/ <<j, w>> \in lingering
          \/ j \in DOMAIN wsStreams' /\ wsStreams'[j].of = w
      BY <1>1, <2>6 DEF Belongs
    <3>2. InLine => Belongs(j, w)
      BY Zenon DEF Belongs
    <3>3. (\E k \in DOMAIN Line' : IsVisitors(Line'[k]) /\ Line'[k].id = j /\ Line'[k].of = w) => InLine
      BY <2>2
    <3>4. j \in DOMAIN wsStreams' /\ wsStreams'[j].of = w =>
             (j \in DOMAIN wsStreams /\ wsStreams[j].of = w) \/ InLine
      BY <2>4
    <3> HIDE DEF InLine
    <3>5. CASE \/ j \in DOMAIN visitors /\ visitors[j].visitor = w
               \/ <<j, w>> \in lingering
               \/ j \in DOMAIN wsStreams /\ wsStreams[j].of = w
      BY <1>4, <3>5, Zenon DEF Belongs
    <3> QED  BY <3>1, <3>2, <3>3, <3>4, <3>5
  <2> QED  BY <2>5, <2>6
<1>7. IdsDrawn'
  <2>1. \A k \in DOMAIN Line' : Line'[k].id < nextStreamId'
    BY <1>1, <1>2, LineIds DEF Delivery
  <2> QED  BY <1>1, <1>6, <2>1, IdsKept DEF Delivery, IdsDrawn
<1>8. OpensSockets'
  <2> SUFFICES ASSUME NEW k \in DOMAIN Line', Line'[k].type = "open-ws"
               PROVE  /\ Line'[k].id \notin DOMAIN wsStreams'
                      /\ \A j \in DOMAIN Line' : j # k /\ Line'[j].id = Line'[k].id => k < j
    BY DEF OpensSockets
  <2>1. /\ k \in Nat /\ k + 1 \in DOMAIN Line /\ Line'[k] = Line[k + 1]
        /\ Line'[k].id # Head(Line).id /\ Line'[k].id \notin DOMAIN wsStreams
    BY <1>2, OpensLater DEF Delivery
  <2>2. ASSUME NEW j \in DOMAIN Line', j # k, Line'[j].id = Line'[k].id
        PROVE  k < j
    <3>1. j \in Nat /\ j + 1 \in DOMAIN Line /\ Line'[j] = Line[j + 1] /\ j + 1 # k + 1
      BY <1>3, <2>1, <2>2
    <3>2. k + 1 < j + 1
      BY <2>1, <2>2, <3>1 DEF Delivery, OpensSockets
    <3> QED  BY <2>1, <3>1, <3>2
  <2> QED  BY <2>1, <2>2
<1>9. Companions'
  <2>1. Head(Line).type # "close-stream"
    BY <1>2 DEF TakeDown
  <2>2. \A j : Opened(j)' => Opened(j)
    BY <1>3 DEF Opened
  <2>3. \A k \in DOMAIN Line : Line[k].type = "close-stream" => \E j \in DOMAIN Line' : Line'[j] = Line[k]
    BY <1>3, <2>1
  <2> QED  BY <1>1, <1>4, <2>2, <2>3 DEF Delivery, Companions
<1>10. UpGoesOn'
  BY <1>1, QuietUp DEF Delivery, UpMoves
<1> QED  BY <1>2, <1>4, <1>5, <1>7, <1>8, <1>9, <1>10

\* What is on its way for other visitors goes on as before, and so does what the
\* origin was given of them.
LEMMA OthersGoOn ==
    ASSUME Types, Types', Delivery, UNCHANGED sent, Line # <<>>, Line' = Tail(Line), Connected' = Connected,
           NEW j, ~MessageOf(Head(Line), j), NEW n, NEW w,
           GoesOn(Line, j, n, sent[w]), Connected => Reaches(Line, j, n, sent[w])
    PROVE  GoesOn(Line', j, n, sent'[w]) /\ (Connected' => Reaches(Line', j, n, sent'[w]))
<1>1. SameMessages(Line, Line', j)
  BY LineTyped, OtherTaken
<1> QED  BY <1>1, LineTyped, NextLineTyped, SameGoesOn

\* The visitors whose streams wait to be opened.
LEMMA OpeningGoesOn ==
    ASSUME Types, Types', Delivery, OneStream, UNCHANGED sent, Line # <<>>, Line' = Tail(Line),
           Connected' = Connected, Head(Line).of \in Visitor,
           \A w \in Visitor : w # Head(Line).of => served'[w] = served[w],
           NEW k \in DOMAIN Line', Line'[k].type = "open-ws"
    PROVE  /\ served'[Line'[k].of] = <<>>
           /\ GoesOn(Line', Line'[k].id, 0, sent'[Line'[k].of])
           /\ Connected' => Reaches(Line', Line'[k].id, 0, sent'[Line'[k].of])
<1>1. /\ k + 1 \in DOMAIN Line /\ Line'[k] = Line[k + 1] /\ Line'[k].id # Head(Line).id
  BY OpensLater DEF Delivery
<1> DEFINE i == Line'[k].id
           w == Line'[k].of
<1>2. w \in Visitor /\ i \in StreamId /\ Names(i, w)
  BY <1>1, LineTyped, FrameFields, LineNames
<1>3. Head(Line).id \in StreamId /\ Names(Head(Line).id, Head(Line).of)
  <2>1. 1 \in DOMAIN Line /\ Line[1] = Head(Line)
    BY LineTyped
  <2> QED  BY <2>1, LineTyped, FrameFields, LineNames
<1>4. w # Head(Line).of
  BY <1>1, <1>2, <1>3, SameStream
<1>5. /\ served[w] = <<>>
      /\ GoesOn(Line, i, 0, sent[w])
      /\ Connected => Reaches(Line, i, 0, sent[w])
  BY <1>1 DEF Delivery, DownGoesOn
<1>6. ~MessageOf(Head(Line), i)
  BY <1>1 DEF MessageOf
<1>7. GoesOn(Line', i, 0, sent'[w]) /\ (Connected' => Reaches(Line', i, 0, sent'[w]))
  BY <1>5, <1>6, OthersGoOn
<1> QED  BY <1>2, <1>4, <1>5, <1>7

\* What the client does with a visitor's message.
VisitorData(f) ==
    \/ f.id \notin DOMAIN wsStreams /\ UNCHANGED <<wsStreams, served, up>>
    \/ /\ f.id \in DOMAIN wsStreams /\ wsStreams[f.id].open
       /\ served' = [served EXCEPT ![wsStreams[f.id].of] = Append(@, <<f.of, f.info>>)]
       /\ UNCHANGED <<wsStreams, up>>
    \/ /\ f.id \in DOMAIN wsStreams /\ ~wsStreams[f.id].open
       /\ wsStreams' = [wsStreams EXCEPT ![f.id].buffered = Append(@, <<f.of, f.info>>)]
       /\ UNCHANGED <<served, up>>
    \/ /\ f.id \in DOMAIN wsStreams
       /\ wsStreams' = Without(wsStreams, f.id) /\ Closes(f) /\ UNCHANGED served

LEMMA VisitorDataCases ==
    ASSUME Types, OnVisitorData, NEW f, f = Head(down[session])
    PROVE  /\ TakeDown({"ws-data"}) /\ down' = Taken /\ UNCHANGED <<session, sockets, lingering, sent, received>>
           /\ f \in Frames /\ f.type = "ws-data" /\ f.id \in StreamId /\ <<f.of, f.info>> \in Message
           /\ f.of \in Visitor
           /\ VisitorData(f)
<1>1. TakeDown({"ws-data"}) /\ down' = Taken /\ UNCHANGED <<session, sockets, lingering, sent, received>>
  <2>1. TakeDown({"ws-data"}) /\ down' = Taken /\ UNCHANGED <<session, sockets, httpStreams, lingering>>
    BY Zenon DEF OnVisitorData
  <2> QED  BY <2>1 DEF TakeDown
<1>2. f \in Frames /\ f.type = "ws-data"
  BY <1>1, TakenTyped DEF Types
<1>3. f.id \in StreamId /\ <<f.of, f.info>> \in Message /\ f.of \in Visitor
  BY <1>2, FrameFields DEF Message
<1>4. VisitorData(f)
  BY Zenon DEF OnVisitorData, VisitorData
<1> QED  BY <1>1, <1>2, <1>3, <1>4

LEMMA AppendedLast ==
    ASSUME NEW S, NEW q \in Seq(S), NEW r \in Seq(S), NEW m \in S
    PROVE  q \o Append(r, m) = Append(q \o r, m)
<1> DEFINE left  == q \o Append(r, m)
           right == Append(q \o r, m)
<1>1. left \in Seq(S) /\ right \in Seq(S)
  OBVIOUS
<1>2. Len(left) = Len(q) + Len(r) + 1 /\ Len(right) = Len(q) + Len(r) + 1
      /\ Len(q) \in Nat /\ Len(r) \in Nat
  OBVIOUS
<1>3. \A k \in 1..(Len(q) + Len(r) + 1) : left[k] = right[k]
  OBVIOUS
<1> HIDE DEF left, right
<1>4. left = right
  BY <1>1, <1>2, <1>3
<1> QED  BY <1>4 DEF left, right

\* It is kept after those before it, or given after them, and nothing else is.
LEMMA VisitorDataKept ==
    ASSUME Types, Types', Delivery, NEW f \in Frames, VisitorData(f), f.of \in Visitor,
           f.id \in StreamId, <<f.of, f.info>> \in Message,
           f.id \in DOMAIN wsStreams => wsStreams[f.id].of = f.of
    PROVE  /\ \A j \in DOMAIN wsStreams' :
                /\ j \in DOMAIN wsStreams /\ wsStreams'[j].of = wsStreams[j].of
                /\ j # f.id => wsStreams'[j] = wsStreams[j]
           /\ \A w \in Visitor : w # f.of => served'[w] = served[w]
           /\ f.id \in DOMAIN wsStreams' =>
                /\ Kept(f.id)' = Append(Kept(f.id), <<f.of, f.info>>)
                /\ wsStreams'[f.id].open => wsStreams'[f.id].buffered = <<>>
           /\ \/ served'[f.of] = served[f.of]
              \/ f.id \in DOMAIN wsStreams' /\ served'[f.of] = Kept(f.id)'
<1> DEFINE a == f.id
           m == <<f.of, f.info>>
           w == wsStreams[a]
<1>1. CASE a \notin DOMAIN wsStreams
  BY <1>1 DEF VisitorData
<1>2. CASE a \in DOMAIN wsStreams
  <2>1. w.of = f.of /\ w.buffered \in Seq(Message) /\ served[f.of] \in Seq(Message)
        /\ (w.open => w.buffered = <<>>)
    BY <1>2, ServedStream DEF Delivery, DownGoesOn
  <2>2. Kept(a) = served[f.of] \o w.buffered
    BY <2>1 DEF Kept
  <2>3. w \in WsStream /\ wsStreams \in [DOMAIN wsStreams -> WsStream]
        /\ served \in [Visitor -> Seq(Message)] /\ m \in Message
    BY <1>2 DEF Types, ClientTypes, GuestTypes, Map
  <2> HIDE DEF m
  <2>4. CASE w.open /\ served' = [served EXCEPT ![w.of] = Append(@, m)] /\ UNCHANGED wsStreams
    <3>1. served'[f.of] = Append(served[f.of], m) /\ \A v \in Visitor : v # f.of => served'[v] = served[v]
      BY <2>1, <2>3, <2>4
    <3>2. Kept(a)' = Append(served[f.of], m) \o <<>> /\ Kept(a) = served[f.of] \o <<>>
      <4>1. wsStreams'[a].of = f.of /\ wsStreams'[a].buffered = <<>> /\ w.buffered = <<>>
        BY <2>1, <2>4
      <4> QED  BY <2>2, <3>1, <4>1 DEF Kept
    <3>3. Kept(a)' = Append(served[f.of], m) /\ Kept(a) = served[f.of]
      BY <2>1, <2>3, <3>2
    <3> QED  BY <1>2, <2>1, <2>4, <3>1, <3>3 DEF m
  <2>5. CASE ~w.open /\ wsStreams' = [wsStreams EXCEPT ![a].buffered = Append(@, m)] /\ UNCHANGED served
    <3>1. /\ DOMAIN wsStreams' = DOMAIN wsStreams /\ wsStreams'[a] = [w EXCEPT !.buffered = Append(@, m)]
          /\ \A j \in DOMAIN wsStreams : j # a => wsStreams'[j] = wsStreams[j]
      BY <1>2, <2>3, <2>5
    <3>2. wsStreams'[a].of = w.of /\ wsStreams'[a].open = w.open /\ wsStreams'[a].buffered = Append(w.buffered, m)
      BY <2>3, <3>1 DEF WsStream
    <3>3. Kept(a)' = served[f.of] \o Append(w.buffered, m)
      <4>1. Kept(a)' = served'[wsStreams'[a].of] \o wsStreams'[a].buffered
        BY DEF Kept
      <4> QED  BY <2>1, <2>5, <3>2, <4>1
    <3>4. served[f.of] \o Append(w.buffered, m) = Append(served[f.of] \o w.buffered, m)
      <4>1. m \in Message
        BY <2>3
      <4>2. \A q, r \in Seq(Message) : q \o Append(r, m) = Append(q \o r, m)
        BY <4>1, AppendedLast
      <4> QED  BY <2>1, <4>2, Zenon
    <3>5. \A j \in DOMAIN wsStreams : wsStreams'[j].of = wsStreams[j].of
      BY <3>1, <3>2
    <3>6. Kept(a)' = Append(Kept(a), m)
      BY <2>2, <3>3, <3>4
    <3>7. wsStreams'[a].open => wsStreams'[a].buffered = <<>>
      BY <2>5, <3>2
    <3> HIDE DEF Kept, w
    <3> QED  BY <1>2, <2>5, <3>1, <3>5, <3>6, <3>7 DEF m
  <2>6. CASE wsStreams' = Without(wsStreams, a) /\ UNCHANGED served
    BY <2>6 DEF Without, Restrict
  <2> QED  BY <1>2, <2>4, <2>5, <2>6 DEF VisitorData, m
<1> QED  BY <1>1, <1>2

LEMMA OnVisitorDataDelivers ==
    ASSUME Types, Types', Delivery, OneStream, OnVisitorData
    PROVE  Delivery'
<1> PICK f : f = Head(down[session])
  OBVIOUS
<1> DEFINE a == f.id
<1>0. /\ TakeDown({"ws-data"}) /\ down' = Taken /\ UNCHANGED <<session, sockets, lingering, sent, received>>
      /\ f.type = "ws-data" /\ f \in Frames /\ VisitorData(f)
  BY VisitorDataCases
<1>1. a \in StreamId /\ f.of \in Visitor /\ <<f.of, f.info>> \in Message
  BY VisitorDataCases
<1>2. UpMoves
  <2>1. CASE UNCHANGED up
    BY <2>1, UpKept
  <2>2. CASE Closes(f)
    BY <1>1, <2>2, CloseFrame, UpSent DEF Closes
  <2>3. UNCHANGED up \/ Closes(f)
    BY <1>0, Zenon DEF VisitorData
  <2> QED  BY <2>1, <2>2, <2>3
<1>3. Line # <<>> /\ Head(Line) = f
  BY <1>0, LatestApart, LineTaken DEF Delivery
<1>5. Names(a, f.of) /\ Belongs(a, f.of) /\ MessageOf(Head(Line), a)
  <2>1. 1 \in DOMAIN Line /\ Line[1] = f
    BY <1>3, LineTyped
  <2> QED  BY <1>0, <1>3, <2>1, LineNames DEF Belongs, IsVisitors, MessageOf
<1>6. a \in DOMAIN wsStreams => wsStreams[a].of = f.of
  <2> SUFFICES ASSUME a \in DOMAIN wsStreams PROVE wsStreams[a].of = f.of
    OBVIOUS
  <2>1. Belongs(a, wsStreams[a].of) /\ wsStreams[a].of \in Visitor
    BY <1>3, ServedStream DEF Belongs, Linked
  <2> QED  BY <1>1, <1>5, <2>1 DEF Delivery, IdsDrawn
<1>7. /\ \A j \in DOMAIN wsStreams' :
           /\ j \in DOMAIN wsStreams /\ wsStreams'[j].of = wsStreams[j].of
           /\ j # a => wsStreams'[j] = wsStreams[j]
      /\ \A w \in Visitor : w # f.of => served'[w] = served[w]
      /\ a \in DOMAIN wsStreams' =>
           /\ Kept(a)' = Append(Kept(a), <<f.of, f.info>>)
           /\ wsStreams'[a].open => wsStreams'[a].buffered = <<>>
      /\ \/ served'[f.of] = served[f.of]
         \/ a \in DOMAIN wsStreams' /\ served'[f.of] = Kept(a)'
  BY <1>0, <1>1, <1>6, VisitorDataKept
<1>4. /\ Latest' /\ IdsDrawn' /\ OpensSockets' /\ Companions' /\ UpGoesOn'
      /\ Line' = Tail(Line) /\ Connected' = Connected
  BY <1>0, <1>2, <1>7, TakenRests
<1>8. ASSUME a \in DOMAIN wsStreams'
      PROVE  /\ InOrder(Kept(a)', f.of)
             /\ GoesOn(Line', a, Len(Kept(a)'), sent'[f.of])
             /\ Connected' => Reaches(Line', a, Len(Kept(a)'), sent'[f.of])
  <2> DEFINE n == Len(Kept(a))
             top == sent[f.of]
  <2>1. a \in DOMAIN wsStreams /\ Kept(a) \in Seq(Message) /\ n \in Nat
    BY <1>7, <1>8, ServedStream
  <2>2. InOrder(Kept(a), f.of) /\ GoesOn(Line, a, n, top) /\ (Connected => Reaches(Line, a, n, top))
    BY <1>6, <2>1 DEF Delivery, DownGoesOn
  <2>3. top \in Nat
    BY <1>1, TunnelAssumption DEF Types, GuestTypes
  <2>4. f.info = n + 1 /\ GoesOn(Line', a, n + 1, top)
        /\ (Reaches(Line, a, n, top) => Reaches(Line', a, n + 1, top))
    BY <1>3, <1>4, <1>5, <2>1, <2>2, <2>3, LineTyped, MessageTaken
  <2>5. Kept(a)' = Append(Kept(a), <<f.of, n + 1>>)
    BY <1>7, <1>8, <2>4
  <2>6. InOrder(Append(Kept(a), <<f.of, n + 1>>), f.of)
    BY <2>1, <2>2, NextInOrder
  <2>7. Len(Append(Kept(a), <<f.of, n + 1>>)) = n + 1
    BY <2>1
  <2> HIDE DEF n, top
  <2>8. sent'[f.of] = top
    BY <1>0 DEF top
  <2> QED  BY <1>4, <2>2, <2>4, <2>5, <2>6, <2>7, <2>8
<1>9. DownGoesOn'
  <2>1. ASSUME NEW j \in DOMAIN wsStreams'
        PROVE  /\ InOrder(Kept(j)', wsStreams'[j].of)
               /\ wsStreams'[j].open => wsStreams'[j].buffered = <<>>
               /\ GoesOn(Line', j, Len(Kept(j)'), sent'[wsStreams'[j].of])
               /\ Connected' => Reaches(Line', j, Len(Kept(j)'), sent'[wsStreams'[j].of])
    <3>1. CASE j = a
      <4> HIDE DEF Kept
      <4> QED  BY <1>6, <1>7, <1>8, <2>1, <3>1
    <3>2. CASE j # a
      <4>1. j \in DOMAIN wsStreams /\ wsStreams'[j] = wsStreams[j]
        BY <1>7, <3>2
      <4>2. j \in StreamId /\ wsStreams[j].of \in Visitor /\ Names(j, wsStreams[j].of)
        BY <4>1, ServedStream
      <4>3. wsStreams[j].of # f.of
        BY <1>1, <1>5, <3>2, <4>2, SameStream
      <4>4. Kept(j)' = Kept(j)
        <5>1. served'[wsStreams[j].of] = served[wsStreams[j].of]
          BY <1>7, <4>2, <4>3
        <5>2. Kept(j)' = served'[wsStreams'[j].of] \o wsStreams'[j].buffered
          BY DEF Kept
        <5> QED  BY <4>1, <5>1, <5>2 DEF Kept
      <4>5. /\ InOrder(Kept(j), wsStreams[j].of)
            /\ wsStreams[j].open => wsStreams[j].buffered = <<>>
            /\ GoesOn(Line, j, Len(Kept(j)), sent[wsStreams[j].of])
            /\ Connected => Reaches(Line, j, Len(Kept(j)), sent[wsStreams[j].of])
        BY <4>1 DEF Delivery, DownGoesOn
      <4>6. ~MessageOf(Head(Line), j)
        BY <1>3, <3>2 DEF MessageOf
      <4>7. /\ GoesOn(Line', j, Len(Kept(j)), sent'[wsStreams[j].of])
            /\ Connected' => Reaches(Line', j, Len(Kept(j)), sent'[wsStreams[j].of])
        BY <1>0, <1>3, <1>4, <4>5, <4>6, OthersGoOn
      <4> HIDE DEF Kept
      <4> QED  BY <4>1, <4>4, <4>5, <4>7
    <3> QED  BY <3>1, <3>2
  <2>2. ASSUME NEW k \in DOMAIN Line', Line'[k].type = "open-ws"
        PROVE  /\ served'[Line'[k].of] = <<>>
               /\ GoesOn(Line', Line'[k].id, 0, sent'[Line'[k].of])
               /\ Connected' => Reaches(Line', Line'[k].id, 0, sent'[Line'[k].of])
    BY <1>0, <1>1, <1>3, <1>4, <1>7, <2>2, OpeningGoesOn
  <2> QED  BY <2>1, <2>2 DEF DownGoesOn, InOrder
<1>10. OwnMessages'
  <2>1. InOrder(served'[f.of], f.of)
    <3>1. CASE served'[f.of] = served[f.of]
      BY <1>1, <3>1 DEF Delivery, OwnMessages
    <3>2. CASE a \in DOMAIN wsStreams' /\ served'[f.of] = Kept(a)'
      BY <1>8, <3>2
    <3> QED  BY <1>7, <3>1, <3>2
  <2>2. ASSUME NEW w \in Visitor
        PROVE  InOrder(served'[w], w) /\ InOrder(received'[w], w)
    BY <1>0, <1>7, <2>1 DEF Delivery, OwnMessages
  <2> QED  BY <2>2 DEF OwnMessages, InOrder
<1> QED  BY <1>4, <1>9, <1>10 DEF Delivery

LEMMA RejectsDelivers ==
    ASSUME Types, Types', Delivery, NEW types, TakeDown(types), Rejects
    PROVE  Delivery'
BY SessionEndsDelivers DEF TakeDown, Rejects

LEMMA ClientLosesTunnelDelivers ==
    ASSUME Types, Types', Delivery, ClientLosesTunnel
    PROVE  Delivery'
<1>1. session # 0
  BY TunnelAssumption DEF ClientLosesTunnel
<1> QED  BY <1>1, SessionEndsDelivers DEF ClientLosesTunnel, guestVars

LEMMA OnOpenDelivers ==
    ASSUME Types, Types', Delivery, OneStream, OnOpen
    PROVE  Delivery'
<1> PICK f : f = Head(down[session])
  OBVIOUS
<1> DEFINE a == f.id
<1>0. TakeDown({"open-http", "open-ws"}) /\ f \in Frames /\ f.type \in {"open-http", "open-ws"}
      /\ UNCHANGED <<sent, received>>
  BY OpeningCases, TakenTyped DEF TakeDown, Types
<1>1. CASE Rejects
  BY <1>0, <1>1, RejectsDelivers
<1>2. CASE TakesOpening
  <2>1. down' = Taken /\ UNCHANGED <<session, sockets, lingering, served>>
    BY <1>2 DEF TakesOpening
  <2>2. (Closes(f) /\ UNCHANGED wsStreams) \/ (Opens(f) /\ UNCHANGED up)
    BY <1>2 DEF TakesOpening
  <2>3. UpMoves
    <3>1. a \in StreamId /\ f.of \in Guest \cup Visitor
      BY <1>0, FrameFields
    <3> QED  BY <2>2, <3>1, CloseFrame, UpKept, UpSent DEF Closes
  <2>4. CASE UNCHANGED wsStreams
    <3>1. \A i \in DOMAIN wsStreams' : i \in DOMAIN wsStreams /\ wsStreams'[i] = wsStreams[i]
      BY <2>4
    <3>2. "ws-data" \notin {"open-http", "open-ws"} /\ "close-stream" \notin {"open-http", "open-ws"}
      OBVIOUS
    <3> QED  BY <1>0, <2>1, <2>3, <3>1, <3>2, TakenDelivers
  <2>5. CASE f.type = "open-ws" /\ wsStreams' = Put(wsStreams, a, [of |-> f.of, open |-> FALSE, buffered |-> <<>>])
    <3>1. f.of \in Visitor /\ a \in StreamId
      BY <1>0, <2>5, FrameFields
    <3>2. /\ a \notin DOMAIN wsStreams /\ DOMAIN wsStreams' = DOMAIN wsStreams \cup {a}
          /\ wsStreams'[a] = [of |-> f.of, open |-> FALSE, buffered |-> <<>>]
          /\ \A j \in DOMAIN wsStreams : wsStreams'[j] = wsStreams[j]
      BY <1>2, <2>5 DEF TakesOpening, Streams, Put
    <3>3. Head(Line) = f
      BY <1>0, <2>1, LatestApart, LineTaken DEF Delivery
    <3>4. /\ Latest' /\ IdsDrawn' /\ OpensSockets' /\ Companions' /\ UpGoesOn'
          /\ Line # <<>> /\ Line' = Tail(Line) /\ Connected' = Connected
      <4>1. \A i \in DOMAIN wsStreams' :
              \/ i \in DOMAIN wsStreams /\ wsStreams'[i].of = wsStreams[i].of
              \/ Head(Line).type = "open-ws" /\ i = Head(Line).id /\ wsStreams'[i].of = Head(Line).of
        <5>1. wsStreams'[a].of = f.of
          BY <3>2
        <5> QED  BY <2>5, <3>2, <3>3, <5>1
      <4> QED  BY <1>0, <2>1, <2>3, <4>1, TakenRests
    <3>5. served[f.of] = <<>> /\ GoesOn(Line, a, 0, sent[f.of]) /\ (Connected => Reaches(Line, a, 0, sent[f.of]))
      <4>1. 1 \in DOMAIN Line /\ Line[1] = f
        BY <3>3, <3>4, LineTyped
      <4> QED  BY <2>5, <4>1 DEF Delivery, DownGoesOn
    <3>6. ~\E j : MessageOf(Head(Line), j)
      BY <2>5, <3>3 DEF MessageOf
    <3>7. Kept(a)' = <<>>
      BY <2>1, <3>2, <3>5 DEF Kept
    <3>8. ASSUME NEW j \in DOMAIN wsStreams'
          PROVE  /\ InOrder(Kept(j)', wsStreams'[j].of)
                 /\ wsStreams'[j].open => wsStreams'[j].buffered = <<>>
                 /\ GoesOn(Line', j, Len(Kept(j)'), sent'[wsStreams'[j].of])
                 /\ Connected' => Reaches(Line', j, Len(Kept(j)'), sent'[wsStreams'[j].of])
      <4>1. CASE j = a
        <5>1. GoesOn(Line', a, 0, sent'[f.of]) /\ (Connected' => Reaches(Line', a, 0, sent'[f.of]))
          BY <1>0, <3>4, <3>5, <3>6, OthersGoOn
        <5>2. InOrder(<<>>, f.of) /\ Len(<<>>) = 0
          BY DEF InOrder
        <5> HIDE DEF Kept
        <5> QED  BY <3>2, <3>7, <4>1, <5>1, <5>2
      <4>2. CASE j # a
        <5>1. j \in DOMAIN wsStreams /\ wsStreams'[j] = wsStreams[j] /\ Kept(j)' = Kept(j)
          BY <2>1, <3>2, <4>2 DEF Kept
        <5>2. /\ InOrder(Kept(j), wsStreams[j].of)
              /\ wsStreams[j].open => wsStreams[j].buffered = <<>>
              /\ GoesOn(Line, j, Len(Kept(j)), sent[wsStreams[j].of])
              /\ Connected => Reaches(Line, j, Len(Kept(j)), sent[wsStreams[j].of])
          BY <5>1 DEF Delivery, DownGoesOn
        <5>3. /\ GoesOn(Line', j, Len(Kept(j)), sent'[wsStreams[j].of])
              /\ Connected' => Reaches(Line', j, Len(Kept(j)), sent'[wsStreams[j].of])
          BY <1>0, <3>4, <3>6, <5>2, OthersGoOn
        <5> HIDE DEF Kept
        <5> QED  BY <5>1, <5>2, <5>3
      <4> QED  BY <4>1, <4>2
    <3>9. ASSUME NEW k \in DOMAIN Line', Line'[k].type = "open-ws"
          PROVE  /\ served'[Line'[k].of] = <<>>
                 /\ GoesOn(Line', Line'[k].id, 0, sent'[Line'[k].of])
                 /\ Connected' => Reaches(Line', Line'[k].id, 0, sent'[Line'[k].of])
      BY <1>0, <2>1, <3>1, <3>3, <3>4, <3>9, OpeningGoesOn
    <3>10. DownGoesOn'
      BY <3>8, <3>9 DEF DownGoesOn, InOrder
    <3>11. OwnMessages'
      BY <1>0, <2>1 DEF Delivery, OwnMessages, InOrder
    <3> QED  BY <3>4, <3>10, <3>11 DEF Delivery
  <2> QED  BY <2>2, <2>4, <2>5 DEF Opens
<1> QED  BY <1>1, <1>2, OpeningCases

\* What was kept for the origin's socket is given to it when it opens.
LEMMA OriginWsOpensDelivers ==
    ASSUME Types, Types', Delivery, OneStream, NEW i \in StreamId, OriginWsOpens(i)
    PROVE  Delivery'
<1> DEFINE v == wsStreams[i].of
<1>0. /\ UNCHANGED <<nextStreamId, pending, pumps, visitors, sockets, down, up>>
      /\ UNCHANGED <<session, httpStreams, lingering, sent, told, received>>
      /\ i \in DOMAIN wsStreams /\ nextStreamId <= nextStreamId'
      /\ served' = [served EXCEPT ![v] = @ \o wsStreams[i].buffered]
      /\ wsStreams' = [wsStreams EXCEPT ![i].open = TRUE, ![i].buffered = <<>>]
  BY DEF OriginWsOpens, doVars, Types, RelayTypes
<1>1. /\ v \in Visitor /\ Names(i, v)
      /\ served[v] \in Seq(Message) /\ wsStreams[i].buffered \in Seq(Message)
  BY <1>0, ServedStream
<1>2. /\ DOMAIN wsStreams' = DOMAIN wsStreams
      /\ wsStreams'[i].of = v /\ wsStreams'[i].buffered = <<>>
      /\ \A j \in DOMAIN wsStreams : j # i => wsStreams'[j] = wsStreams[j]
  BY <1>0 DEF Types, ClientTypes, Map, WsStream
<1>3. /\ served'[v] = served[v] \o wsStreams[i].buffered
      /\ \A w \in Visitor : w # v => served'[w] = served[w]
  BY <1>0, <1>1 DEF Types, GuestTypes
<1>4. Kept(i)' = Kept(i) /\ served'[v] = Kept(i)
  <2>1. Kept(i)' = (served[v] \o wsStreams[i].buffered) \o <<>> /\ Kept(i) = served[v] \o wsStreams[i].buffered
    BY <1>2, <1>3 DEF Kept
  <2>2. (served[v] \o wsStreams[i].buffered) \o <<>> = served[v] \o wsStreams[i].buffered
    BY <1>1
  <2> QED  BY <1>3, <2>1, <2>2
<1>5. Line' = Line /\ Connected' = Connected
  BY <1>0 DEF Line, Connected
<1>6. \A j \in DOMAIN wsStreams : wsStreams'[j].of = wsStreams[j].of
  BY <1>2
<1>7. Latest'
  BY <1>0, <1>2 DEF Delivery, Latest, Usable, Streams
<1>8. BelongsKept
  BY <1>0, <1>2, <1>5, <1>6 DEF BelongsKept, Belongs, Linked
<1>9. IdsDrawn'
  BY <1>0, <1>5, <1>8, IdsKept DEF Delivery, IdsDrawn
<1>10. OpensSockets' /\ Companions'
  BY <1>0, <1>2, <1>5 DEF Delivery, OpensSockets, Companions, Opened
<1>11. UpGoesOn'
  BY <1>0 DEF Delivery, UpGoesOn, Usable
<1>12. ASSUME NEW j \in DOMAIN wsStreams, j # i
       PROVE  wsStreams'[j] = wsStreams[j] /\ Kept(j)' = Kept(j)
  <2>1. j \in StreamId /\ wsStreams[j].of \in Visitor /\ Names(j, wsStreams[j].of)
    BY ServedStream
  <2>2. wsStreams[j].of # v
    BY <1>1, <1>12, <2>1, SameStream
  <2> QED  BY <1>2, <1>3, <1>12, <2>1, <2>2 DEF Kept
<1>13. DownGoesOn'
  <2>1. ASSUME NEW j \in DOMAIN wsStreams'
        PROVE  /\ InOrder(Kept(j)', wsStreams'[j].of)
               /\ wsStreams'[j].open => wsStreams'[j].buffered = <<>>
               /\ GoesOn(Line', j, Len(Kept(j)'), sent'[wsStreams'[j].of])
               /\ Connected' => Reaches(Line', j, Len(Kept(j)'), sent'[wsStreams'[j].of])
    <3>1. /\ InOrder(Kept(j), wsStreams[j].of)
          /\ wsStreams[j].open => wsStreams[j].buffered = <<>>
          /\ GoesOn(Line, j, Len(Kept(j)), sent[wsStreams[j].of])
          /\ Connected => Reaches(Line, j, Len(Kept(j)), sent[wsStreams[j].of])
      BY <1>2 DEF Delivery, DownGoesOn
    <3> HIDE DEF Kept
    <3> QED  BY <1>0, <1>2, <1>4, <1>5, <1>12, <3>1
  <2>2. ASSUME NEW k \in DOMAIN Line, Line[k].type = "open-ws"
        PROVE  /\ served'[Line[k].of] = <<>>
               /\ GoesOn(Line, Line[k].id, 0, sent[Line[k].of])
               /\ Connected => Reaches(Line, Line[k].id, 0, sent[Line[k].of])
    <3>1. Line[k].id \in StreamId /\ Line[k].of \in Visitor /\ Names(Line[k].id, Line[k].of)
      BY <2>2, LineTyped, FrameFields, LineNames
    <3>2. Line[k].id # i
      BY <1>0, <2>2 DEF Delivery, OpensSockets
    <3>3. Line[k].of # v
      BY <1>1, <3>1, <3>2, SameStream
    <3> QED  BY <1>3, <2>2, <3>1, <3>3 DEF Delivery, DownGoesOn
  <2> QED  BY <1>0, <1>5, <2>1, <2>2 DEF DownGoesOn, InOrder
<1>14. OwnMessages'
  <2>1. InOrder(served'[v], v)
    BY <1>0, <1>4 DEF Delivery, DownGoesOn
  <2>2. ASSUME NEW w \in Visitor
        PROVE  InOrder(served'[w], w) /\ InOrder(received'[w], w)
    <3> HIDE DEF v
    <3> QED  BY <1>0, <1>3, <2>1 DEF Delivery, OwnMessages
  <2> QED  BY <2>2 DEF OwnMessages, InOrder
<1> QED  BY <1>7, <1>9, <1>10, <1>11, <1>13, <1>14 DEF Delivery

-----------------------------------------------------------------------------
\* A visitor keeps the one stream it is given.

LEMMA HibernateNames ==
    ASSUME Types, Hibernate
    PROVE  NamesKept
BY DEF Hibernate, clientVars, NoMap, NamesKept, Names

\* Before a visitor is given a stream, nobody sends for it.
Spared ==
    \A v \in Visitor : visit[v] = "none" =>
        sent'[v] = sent[v] /\ told'[v] = told[v] /\ served'[v] = served[v] /\ received'[v] = received[v]

LEMMA StreamsKept ==
    ASSUME OneStream, NamesKept, Spared, \A v \in Visitor : visit'[v] = "none" => visit[v] = "none"
    PROVE  OneStream'
BY DEF OneStream, NamesKept, Spared

LEMMA ProxyHttpStreams ==
    ASSUME Types, OneStream, NEW g \in Guest, NEW hasBody \in BOOLEAN, ProxyHttp(g, hasBody)
    PROVE  OneStream'
<1>1. UNCHANGED <<visit, sent, served, told, received>>
  BY DEF ProxyHttp
<1>2. \A i : \A v \in Visitor : Names(i, v)' => Names(i, v)
  <2>1. CASE ActiveTunnel = 0
    BY <2>1, TurnedAwayNames DEF NamesKept
  <2>2. CASE ActiveTunnel # 0
    <3>1. NamesDrawn(g) /\ \A v \in Visitor : v # g
      BY <2>2, ProxyHttpNames, TunnelAssumption
    <3> QED  BY <3>1 DEF NamesDrawn
  <2> QED  BY <2>1, <2>2
<1> QED  BY <1>1, <1>2 DEF OneStream

LEMMA OpenVisitorStreams ==
    ASSUME Types, OneStream, NEW v \in Visitor, OpenVisitor(v)
    PROVE  OneStream'
<1>1. UNCHANGED <<sent, served, told, received>> /\ visit[v] = "none"
      /\ visit'[v] # "none" /\ \A w \in Visitor : w # v => visit'[w] = visit[w]
  BY DEF OpenVisitor, Types, GuestTypes
<1>2. CASE ActiveTunnel = 0
  <2>1. NamesKept
    BY <1>2, TurnedAwayNames
  <2> QED  BY <1>1, <2>1, StreamsKept DEF Spared
<1>3. CASE ActiveTunnel # 0
  <2>1. NamesDrawn(v)
    BY <1>3, OpenVisitorNames
  <2>2. \A i : \A w \in Visitor : w # v /\ Names(i, w)' => Names(i, w)
    BY <2>1 DEF NamesDrawn
  <2>3. \A i \in StreamId : Names(i, v)' => i = nextStreamId
    BY <1>1, <2>1 DEF NamesDrawn, OneStream
  <2> SUFFICES ASSUME NEW w \in Visitor
               PROVE  /\ \A i, j \in StreamId : Names(i, w)' /\ Names(j, w)' => i = j
                      /\ visit'[w] = "none" =>
                            /\ \A i \in StreamId : ~Names(i, w)'
                            /\ sent'[w] = 0 /\ told'[w] = 0 /\ served'[w] = <<>> /\ received'[w] = <<>>
    BY DEF OneStream
  <2>4. CASE w = v
    BY <1>1, <2>3, <2>4
  <2>5. CASE w # v
    BY <1>1, <2>2, <2>5 DEF OneStream
  <2> QED  BY <2>4, <2>5
<1> QED  BY <1>2, <1>3

\* Who sends or is sent to has a stream.
LEMMA NamedOnly ==
    ASSUME Types, OneStream, NEW i \in StreamId, NEW v \in Visitor, Names(i, v)
    PROVE  visit[v] # "none"
BY DEF OneStream

LEMMA StepSpares ==
    ASSUME Types, OneStream, [Next]_vars
    PROVE  Spared
<1>1. ASSUME NEW i \in StreamId, VisitorSends(i)
      PROVE  Spared
  <2>1. UNCHANGED <<served, told, received>> /\ i \in DOMAIN visitors
        /\ sent' = [sent EXCEPT ![visitors[i].visitor] = @ + 1]
    BY <1>1 DEF VisitorSends
  <2>2. visitors[i].visitor \in Visitor /\ Names(i, visitors[i].visitor)
    BY <2>1 DEF Types, RelayTypes, Map, Accepted, Names
  <2>3. \A v \in Visitor : v # visitors[i].visitor => sent'[v] = sent[v]
    BY <2>1 DEF Types, GuestTypes
  <2> QED  BY <2>1, <2>2, <2>3, NamedOnly DEF Spared
<1>2. ASSUME NEW t \in Tunnel, OnWsData(t)
      PROVE  Spared
  <2>1. UNCHANGED <<sent, served, told>>
    BY <1>2 DEF OnWsData, TakeUp
  <2> DEFINE i == Head(up[t]).id
  <2>0. \/ UNCHANGED received
        \/ /\ i \in DOMAIN visitors
           /\ received' = [received EXCEPT ![visitors[i].visitor]
                                             = Append(@, <<Head(up[t]).of, Head(up[t]).info>>)]
    BY <1>2, Zenon DEF OnWsData
  <2>2. CASE UNCHANGED received
    BY <2>1, <2>2 DEF Spared
  <2>3. CASE /\ i \in DOMAIN visitors
             /\ received' = [received EXCEPT ![visitors[i].visitor]
                                               = Append(@, <<Head(up[t]).of, Head(up[t]).info>>)]
    <3>1. i \in StreamId /\ visitors[i].visitor \in Visitor /\ Names(i, visitors[i].visitor)
      BY <2>3 DEF Types, RelayTypes, Map, Accepted, Names
    <3>2. \A v \in Visitor : v # visitors[i].visitor => received'[v] = received[v]
      BY <2>3 DEF Types, GuestTypes
    <3> QED  BY <2>1, <3>1, <3>2, NamedOnly DEF Spared
  <2> QED  BY <2>0, <2>2, <2>3, Zenon
<1>3. CASE OnVisitorData
  <2> PICK f : f = Head(down[session])
    OBVIOUS
  <2>1. UNCHANGED <<sent, received>> /\ VisitorData(f) /\ UNCHANGED told
    <3>1. TakeDown({"ws-data"}) /\ UNCHANGED <<sent, received>> /\ VisitorData(f)
      BY <1>3, VisitorDataCases
    <3> QED  BY <3>1 DEF TakeDown
  <2>2. CASE UNCHANGED served
    BY <2>1, <2>2 DEF Spared
  <2>3. CASE /\ f.id \in DOMAIN wsStreams
             /\ served' = [served EXCEPT ![wsStreams[f.id].of] = Append(@, <<f.of, f.info>>)]
    <3>1. f.id \in StreamId /\ wsStreams[f.id].of \in Visitor /\ Names(f.id, wsStreams[f.id].of)
      BY <2>3, ServedStream
    <3>2. \A v \in Visitor : v # wsStreams[f.id].of => served'[v] = served[v]
      BY <2>3 DEF Types, GuestTypes
    <3> QED  BY <2>1, <3>1, <3>2, NamedOnly DEF Spared
  <2> QED  BY <2>1, <2>2, <2>3, Zenon DEF VisitorData
<1>4. ASSUME NEW i \in StreamId, OriginWsOpens(i)
      PROVE  Spared
  <2>1. UNCHANGED <<sent, told, received>> /\ i \in DOMAIN wsStreams
        /\ served' = [served EXCEPT ![wsStreams[i].of] = @ \o wsStreams[i].buffered]
    BY <1>4 DEF OriginWsOpens
  <2>2. wsStreams[i].of \in Visitor /\ Names(i, wsStreams[i].of)
    BY <2>1, ServedStream
  <2>3. \A v \in Visitor : v # wsStreams[i].of => served'[v] = served[v]
    BY <2>1 DEF Types, GuestTypes
  <2> QED  BY <2>1, <2>2, <2>3, NamedOnly DEF Spared
<1>5. ASSUME NEW i \in StreamId, NEW v \in Visitor, OriginWsMessage(i, v)
      PROVE  Spared
  <2>1. UNCHANGED <<sent, served, received>> /\ told' = [told EXCEPT ![v] = @ + 1] /\ Names(i, v)
    BY <1>5 DEF OriginWsMessage, Names
  <2>2. \A w \in Visitor : w # v => told'[w] = told[w]
    BY <2>1 DEF Types, GuestTypes
  <2> QED  BY <2>1, <2>2, NamedOnly DEF Spared
<1>6. ASSUME UNCHANGED <<sent, served, told, received>>
      PROVE  Spared
  BY <1>6 DEF Spared
<1>7. CASE Relay
  <2>1. \/ UNCHANGED <<sent, served, told, received>>
        \/ \E i \in StreamId : VisitorSends(i)
        \/ \E t \in Tunnel : OnWsData(t)
    <3>1. \A g \in Guest, hasBody \in BOOLEAN : ProxyHttp(g, hasBody) => UNCHANGED <<sent, served, told, received>>
      BY DEF ProxyHttp
    <3>2. \A p \in pumps : PumpEnds(p) => UNCHANGED <<sent, served, told, received>>
      BY DEF PumpEnds, guestVars
    <3>3. \A i \in StreamId : HeadTimeout(i) \/ VisitorCancels(i) \/ VisitorCloseSeen(i)
             => UNCHANGED <<sent, served, told, received>>
      BY DEF HeadTimeout, VisitorCancels, VisitorCloseSeen
    <3>4. \A v \in Visitor : OpenVisitor(v) => UNCHANGED <<sent, served, told, received>>
      BY DEF OpenVisitor
    <3>5. \A t \in Tunnel : AcceptTunnel(t) \/ TunnelCloseSeen(t) => UNCHANGED <<sent, served, told, received>>
      BY DEF AcceptTunnel, TunnelCloseSeen
    <3>6. \A t \in Tunnel : OnRespHead(t) => UNCHANGED <<sent, served, told, received>>
      <4> SUFFICES ASSUME NEW t \in Tunnel, OnRespHead(t) PROVE UNCHANGED <<sent, served, told, received>>
        OBVIOUS
      <4>1. TakeUp(t, "resp-head") /\ UNCHANGED received
        BY Zenon DEF OnRespHead
      <4> QED  BY <4>1 DEF TakeUp
    <3>7. \A t \in Tunnel : OnBodyEnd(t) \/ OnCloseStream(t) => UNCHANGED <<sent, served, told, received>>
      BY DEF OnBodyEnd, OnCloseStream, TakeUp
    <3>8. Hibernate => UNCHANGED <<sent, served, told, received>>
      BY DEF Hibernate, guestVars
    <3> QED  BY <1>7, <3>1, <3>2, <3>3, <3>4, <3>5, <3>6, <3>7, <3>8, Zenon DEF Relay, RelayReceives
  <2> QED  BY <1>1, <1>2, <1>6, <2>1
<1>8. CASE Client
  <2>1. \/ UNCHANGED <<sent, served, told, received>>
        \/ OnVisitorData
        \/ \E i \in StreamId : OriginWsOpens(i) \/ \E v \in Visitor : OriginWsMessage(i, v)
    <3>1. OnOpen \/ OnRequestBody \/ OnGuestLeft => UNCHANGED <<sent, served, told, received>>
      BY DEF OnOpen, OnRequestBody, OnGuestLeft, TakeDown, Rejects
    <3>2. ClientLosesTunnel => UNCHANGED <<sent, served, told, received>>
      BY DEF ClientLosesTunnel, guestVars
    <3>3. \A i \in StreamId : OriginResponds(i) \/ OriginEnds(i) \/ BodyRejected(i)
             => UNCHANGED <<sent, served, told, received>>
      BY DEF OriginResponds, OriginEnds, BodyRejected, guestVars
    <3>4. \A i \in StreamId, v \in Visitor : OriginWsCloses(i, v) => UNCHANGED <<sent, served, told, received>>
      BY DEF OriginWsCloses, guestVars
    <3> QED  BY <1>8, <3>1, <3>2, <3>3, <3>4, Zenon DEF Client, ClientReceives
  <2> QED  BY <1>3, <1>4, <1>5, <1>6, <2>1
<1>9. CASE UNCHANGED vars
  BY <1>6, <1>9 DEF vars, guestVars
<1> QED  BY <1>7, <1>8, <1>9 DEF Next

LEMMA ReceivesTakes ==
    ASSUME ClientReceives
    PROVE  UNCHANGED <<nextStreamId, visit>>
<1>1. ASSUME NEW types, TakeDown(types)
      PROVE  UNCHANGED <<nextStreamId, visit>>
  BY <1>1 DEF TakeDown
<1>2. \E types : TakeDown(types)
  BY Zenon DEF ClientReceives, OnOpen, OnRequestBody, OnVisitorData, OnGuestLeft
<1> QED  BY <1>1, <1>2

LEMMA StepOneStream == Types /\ OneStream /\ [Next]_vars => OneStream'
<1> SUFFICES ASSUME Types, OneStream, [Next]_vars PROVE OneStream'
  OBVIOUS
<1>1. CASE \E g \in Guest, hasBody \in BOOLEAN : ProxyHttp(g, hasBody)
  BY <1>1, ProxyHttpStreams
<1>2. CASE \E v \in Visitor : OpenVisitor(v)
  BY <1>2, OpenVisitorStreams
<1>3. CASE ~(\E g \in Guest, hasBody \in BOOLEAN : ProxyHttp(g, hasBody)) /\ ~\E v \in Visitor : OpenVisitor(v)
  <2>1. \A v \in Visitor : visit'[v] = "none" => visit[v] = "none"
    <3>1. visit' = visit \/ \E i \in StreamId : VisitorCloseSeen(i)
      <4>1. \A p \in pumps : PumpEnds(p) => visit' = visit
        BY DEF PumpEnds, guestVars
      <4>2. \A i \in StreamId : HeadTimeout(i) \/ VisitorCancels(i) \/ VisitorSends(i) => visit' = visit
        BY DEF HeadTimeout, VisitorCancels, VisitorSends
      <4>3. \A t \in Tunnel : AcceptTunnel(t) \/ TunnelCloseSeen(t) => visit' = visit
        BY DEF AcceptTunnel, TunnelCloseSeen
      <4>4. \A t \in Tunnel : OnRespHead(t) \/ OnBodyEnd(t) \/ OnCloseStream(t) \/ OnWsData(t) => visit' = visit
        BY Zenon DEF OnRespHead, OnBodyEnd, OnCloseStream, OnWsData
      <4>5. Hibernate => visit' = visit
        BY DEF Hibernate, guestVars
      <4>6. ClientReceives => visit' = visit
        BY ReceivesTakes
      <4>7. ClientLosesTunnel => visit' = visit
        BY DEF ClientLosesTunnel, guestVars
      <4>8. \A i \in StreamId : OriginResponds(i) \/ OriginEnds(i) \/ BodyRejected(i) \/ OriginWsOpens(i) => visit' = visit
        BY DEF OriginResponds, OriginEnds, BodyRejected, OriginWsOpens, guestVars
      <4>9. \A i \in StreamId, v \in Visitor : OriginWsMessage(i, v) \/ OriginWsCloses(i, v) => visit' = visit
        BY DEF OriginWsMessage, OriginWsCloses, guestVars
      <4>10. UNCHANGED vars => visit' = visit
        BY DEF vars, guestVars
      <4>11. CASE Relay
        BY <1>3, <4>1, <4>2, <4>3, <4>4, <4>5, <4>11, Zenon DEF Relay, RelayReceives
      <4>12. CASE Client
        BY <4>6, <4>7, <4>8, <4>9, <4>12, Zenon DEF Client
      <4> QED  BY <4>10, <4>11, <4>12 DEF Next
    <3>2. \A i \in StreamId : VisitorCloseSeen(i) => visit' = [visit EXCEPT ![visitors[i].visitor] = "closed"]
      BY DEF VisitorCloseSeen
    <3> QED  BY <3>1, <3>2 DEF Types, GuestTypes
  <2>2. NamesKept
    <3>1. CASE Hibernate
      BY <3>1, HibernateNames
    <3>2. CASE ~Hibernate
      <4>1. nextStreamId' = nextStreamId
        <5>1. \A p \in pumps : PumpEnds(p) => nextStreamId' = nextStreamId
          BY DEF PumpEnds
        <5>2. \A i \in StreamId : HeadTimeout(i) \/ VisitorCancels(i) \/ VisitorSends(i) \/ VisitorCloseSeen(i)
                 => nextStreamId' = nextStreamId
          BY DEF HeadTimeout, VisitorCancels, VisitorSends, VisitorCloseSeen
        <5>3. \A t \in Tunnel : AcceptTunnel(t) \/ TunnelCloseSeen(t) => nextStreamId' = nextStreamId
          BY DEF AcceptTunnel, TunnelCloseSeen
        <5>4. \A t \in Tunnel : \A type : TakeUp(t, type) => nextStreamId' = nextStreamId
          BY DEF TakeUp
        <5>5. \A t \in Tunnel : RelayReceives(t) => nextStreamId' = nextStreamId
          BY <5>4, Zenon DEF RelayReceives, OnRespHead, OnBodyEnd, OnCloseStream, OnWsData
        <5>6. ClientReceives => nextStreamId' = nextStreamId
          BY ReceivesTakes
        <5>7. ClientLosesTunnel => nextStreamId' = nextStreamId
          BY DEF ClientLosesTunnel
        <5>8. \A i \in StreamId : OriginResponds(i) \/ OriginEnds(i) \/ BodyRejected(i) \/ OriginWsOpens(i)
                 => nextStreamId' = nextStreamId
          BY DEF OriginResponds, OriginEnds, BodyRejected, OriginWsOpens, doVars
        <5>9. \A i \in StreamId, v \in Visitor : OriginWsMessage(i, v) \/ OriginWsCloses(i, v)
                 => nextStreamId' = nextStreamId
          BY DEF OriginWsMessage, OriginWsCloses, doVars
        <5>10. UNCHANGED vars => nextStreamId' = nextStreamId
          BY DEF vars, doVars
        <5>11. CASE Relay
          BY <1>3, <3>2, <5>1, <5>2, <5>3, <5>5, <5>11, Zenon DEF Relay
        <5>12. CASE Client
          BY <5>6, <5>7, <5>8, <5>9, <5>12, Zenon DEF Client
        <5> QED  BY <5>10, <5>11, <5>12 DEF Next
      <4>2. nextStreamId \in Nat
        BY DEF Types, RelayTypes
      <4> QED  BY <3>2, <4>1, <4>2, StepNames DEF NamesFollow
    <3> QED  BY <3>1, <3>2
  <2> QED  BY <2>1, <2>2, StepSpares, StreamsKept
<1> QED  BY <1>1, <1>2, <1>3

LEMMA StepDelivers == Types /\ Types' /\ OneStream /\ Delivery /\ [Next]_vars => Delivery'
<1> SUFFICES ASSUME Types, Types', OneStream, Delivery, [Next]_vars PROVE Delivery'
  OBVIOUS
<1>1. CASE Relay
  BY <1>1, ProxyHttpDelivers, PumpEndsDelivers, HeadTimeoutDelivers, VisitorCancelsDelivers,
     VisitorSendsDelivers, VisitorCloseSeenDelivers, OpenVisitorDelivers, AcceptTunnelDelivers,
     TunnelCloseSeenDelivers, RelayReceivesDelivers, OnWsDataDelivers, HibernateDelivers, Zenon
     DEF Relay, RelayReceives
<1>2. CASE Client
  <2>1. ASSUME OnRequestBody PROVE Delivery'
    <3>1. CASE Rejects
      <4>1. TakeDown({"body-end"})
        BY <2>1 DEF OnRequestBody
      <4> QED  BY <3>1, <4>1, RejectsDelivers
    <3>2. CASE ~Rejects
      BY <2>1, <3>2, OnRequestBodyDelivers
    <3> QED  BY <3>1, <3>2
  <2> QED  BY <1>2, <2>1, OnOpenDelivers, OnVisitorDataDelivers, OnGuestLeftDelivers,
     ClientLosesTunnelDelivers, OriginHttpDelivers, OriginWsOpensDelivers, OriginWsMessageDelivers,
     OriginWsClosesDelivers, Zenon DEF Client, ClientReceives
<1>3. CASE UNCHANGED vars
  BY <1>3, StutterDelivers
<1> QED  BY <1>1, <1>2, <1>3 DEF Next

LEMMA InitDelivers == Init => OneStream /\ Delivery
<1> SUFFICES ASSUME Init PROVE OneStream /\ Delivery
  OBVIOUS
<1>1. /\ Line = <<>> /\ DOMAIN pending = {} /\ pumps = {} /\ DOMAIN visitors = {} /\ DOMAIN wsStreams = {}
      /\ DOMAIN httpStreams = {} /\ lingering = {} /\ session = 0
      /\ \A t \in Tunnel : /\ sockets[t] = "unused" /\ down[t] = <<>> /\ up[t] = <<>>
  BY DEF Init, Line, NoMap
<1>2. \A v \in Visitor : /\ sent[v] = 0 /\ told[v] = 0 /\ served[v] = <<>> /\ received[v] = <<>>
  BY DEF Init
<1>3. \A i, o : ~Names(i, o)
  BY <1>1 DEF Names, Carried
<1>4. OneStream
  BY <1>2, <1>3 DEF OneStream
<1>5. Latest
  BY <1>1 DEF Latest, Usable, Streams
<1>6. IdsDrawn
  BY <1>1 DEF IdsDrawn, Belongs, Linked, Connected
<1>7. OpensSockets /\ Companions /\ DownGoesOn /\ UpGoesOn
  BY <1>1 DEF OpensSockets, Companions, Opened, DownGoesOn, UpGoesOn
<1>8. OwnMessages
  BY <1>2 DEF OwnMessages, InOrder
<1> QED  BY <1>4, <1>5, <1>6, <1>7, <1>8 DEF Delivery

\* Each direction of a visitor's socket delivers that visitor's own messages, in
\* order and without a gap, for any number of visitors, streams and tunnels, also
\* when the relay's object is evicted and draws ids again.
THEOREM RelayOwnMessages == Spec => []OwnMessages
<1> DEFINE Inv == Types /\ OneStream /\ Delivery
<1>1. Init => Inv
  BY InitTypes, InitDelivers
<1>2. Inv /\ [Next]_vars => Inv'
  BY StepTypes, StepOneStream, StepDelivers
<1>3. Inv => OwnMessages
  BY DEF Delivery
<1> QED  BY <1>1, <1>2, <1>3, PTL DEF Spec

-----------------------------------------------------------------------------
\* The relay implements the service that guests see.

\* A pending request is where its guest has been told it is, and is its guest's
\* only one.
Answering ==
    /\ \A i \in DOMAIN pending :
          /\ reply[pending[i].guest] # "none"
          /\ pending[i].phase = "head" => reply[pending[i].guest] = "waiting"
          /\ pending[i].phase = "body" => reply[pending[i].guest] = "head"
    /\ \A i, j \in DOMAIN pending : pending[i].guest = pending[j].guest => i = j

\* The relay holds the socket of a visitor until it hears of its end.
Admitted == \A i \in DOMAIN visitors : visit[visitors[i].visitor] = "open"

Serving == Answering /\ Admitted

ServiceStep == [Service!ServiceNext]_(Service!serviceVars)

LEMMA ServiceRests ==
    ASSUME UNCHANGED guestVars
    PROVE  ServiceStep
BY DEF guestVars, ServiceStep, Service!serviceVars, Service!answerVars, Service!socketVars

LEMMA PendingTyped ==
    ASSUME Types, NEW i \in DOMAIN pending
    PROVE  i \in StreamId /\ pending[i] \in PendingHttp /\ pending[i].guest \in Guest
BY DEF Types, RelayTypes, Map, PendingHttp

LEMMA AcceptedTyped ==
    ASSUME Types, NEW i \in DOMAIN visitors
    PROVE  i \in StreamId /\ visitors[i].visitor \in Visitor /\ Names(i, visitors[i].visitor)
BY DEF Types, RelayTypes, Map, Accepted, Names

\* A request is done with, or forgotten.
LEMMA RequestForgotten ==
    ASSUME Types, Answering, NEW i \in DOMAIN pending, pending' = Without(pending, i),
           NEW state, reply' = [reply EXCEPT ![pending[i].guest] = state] \/ reply' = reply
    PROVE  Answering'
<1>1. /\ DOMAIN pending' = DOMAIN pending \ {i}
      /\ \A j \in DOMAIN pending' : pending'[j] = pending[j]
  BY DEF Without, Restrict
<1>2. \A j \in DOMAIN pending' : reply'[pending[j].guest] = reply[pending[j].guest]
  BY <1>1, PendingTyped DEF Answering, Types, GuestTypes
<1> QED  BY <1>1, <1>2 DEF Answering

LEMMA NoneAnswering ==
    ASSUME pending' = NoMap
    PROVE  Answering'
BY DEF NoMap, Answering

LEMMA AnsweringKept ==
    ASSUME Answering, UNCHANGED <<pending, reply>>
    PROVE  Answering'
BY DEF Answering

LEMMA AdmittedKept ==
    ASSUME Admitted, UNCHANGED visit, DOMAIN visitors' \subseteq DOMAIN visitors,
           \A i \in DOMAIN visitors' : visitors'[i].visitor = visitors[i].visitor
    PROVE  Admitted'
BY DEF Admitted

\* What all sockets' loss does to those served over them.
LEMMA AbandonServes ==
    ASSUME Types, Serving, AbandonStreams, UNCHANGED <<gotFrom, visit, sent, served, told, received>>
    PROVE  ServiceStep /\ Serving'
<1> DEFINE guests == {g \in Guest : \E i \in DOMAIN pending :
                         pending[i].guest = g /\ pending[i].phase \in {"head", "body"}}
<1>1. Service!Fail(guests)
  <2>1. \A g \in guests : reply[g] \in {"waiting", "head"}
    BY DEF Serving, Answering
  <2>2. reply' = [g \in Guest |-> IF g \in guests THEN "failed" ELSE reply[g]]
    BY DEF AbandonStreams, AbandonedReplies
  <2> HIDE DEF guests
  <2> QED  BY <2>1, <2>2 DEF Service!Fail, Service!socketVars
<1>2. guests \in SUBSET Guest
  OBVIOUS
<1>3. ServiceStep
  <2> HIDE DEF guests
  <2> QED  BY <1>1, <1>2, Zenon DEF ServiceStep, Service!ServiceNext
<1>4. Answering'
  BY NoneAnswering DEF AbandonStreams
<1>5. Admitted'
  <2>1. /\ DOMAIN visitors' = DOMAIN visitors
        /\ \A i \in DOMAIN visitors : visitors'[i].visitor = visitors[i].visitor
    BY DEF AbandonStreams, Types, RelayTypes, Map, Accepted
  <2> QED  BY <2>1, AdmittedKept DEF Serving
<1> QED  BY <1>3, <1>4, <1>5 DEF Serving

LEMMA TunnelChangeServes ==
    ASSUME Types, Serving, NEW t \in Tunnel, AcceptTunnel(t) \/ TunnelCloseSeen(t)
    PROVE  ServiceStep /\ Serving'
<1>1. CASE AbandonStreams
  BY <1>1, AbandonServes DEF AcceptTunnel, TunnelCloseSeen
<1>2. CASE ~AbandonStreams
  <2>1. UNCHANGED <<pending, reply, visitors>> /\ UNCHANGED guestVars
    BY <1>2 DEF AcceptTunnel, TunnelCloseSeen, guestVars
  <2> QED  BY <2>1, ServiceRests, AnsweringKept, AdmittedKept DEF Serving, guestVars
<1> QED  BY <1>1, <1>2

LEMMA ProxyHttpServes ==
    ASSUME Types, Serving, NEW g \in Guest, NEW hasBody \in BOOLEAN, ProxyHttp(g, hasBody)
    PROVE  ServiceStep /\ Serving'
<1>1. reply[g] = "none" /\ UNCHANGED <<gotFrom, visit, sent, served, told, received, visitors>>
  BY DEF ProxyHttp
<1>2. \E r \in {"waiting", "failed"} : reply' = [reply EXCEPT ![g] = r]
  BY DEF ProxyHttp
<1>3. Service!Asks(g)
  BY <1>1, <1>2 DEF Service!Asks, Service!socketVars
<1>4. Answering'
  <2>1. \A i \in DOMAIN pending : pending[i].guest # g
    BY <1>1 DEF Serving, Answering
  <2>2. CASE ActiveTunnel = 0
    <3>1. pending' = pending
      BY <2>2 DEF ProxyHttp
    <3>2. \A i \in DOMAIN pending : reply'[pending[i].guest] = reply[pending[i].guest]
      BY <1>2, <2>1, PendingTyped DEF Types, GuestTypes
    <3> QED  BY <3>1, <3>2 DEF Serving, Answering
  <2>3. CASE ActiveTunnel # 0
    <3> DEFINE entry == [guest |-> g, phase |-> "head", tunnel |-> ActiveTunnel]
    <3>1. pending' = Put(pending, nextStreamId, entry) /\ reply' = [reply EXCEPT ![g] = "waiting"]
      BY <2>3 DEF ProxyHttp
    <3>2. reply'[g] = "waiting"
          /\ \A i \in DOMAIN pending : reply'[pending[i].guest] = reply[pending[i].guest]
      BY <2>1, <3>1, PendingTyped DEF Types, GuestTypes
    <3>3. \A i \in DOMAIN pending' :
             \/ pending'[i].guest = g /\ pending'[i].phase = "head" /\ i = nextStreamId
             \/ i \in DOMAIN pending /\ pending'[i] = pending[i]
      BY <3>1 DEF Put
    <3> QED  BY <2>1, <3>2, <3>3 DEF Serving, Answering
  <2> QED  BY <2>2, <2>3
<1>5. Admitted'
  BY <1>1, AdmittedKept DEF Serving
<1> QED  BY <1>3, <1>4, <1>5, Zenon DEF Serving, ServiceStep, Service!ServiceNext

\* A request that is not answered in full fails.
LEMMA RequestFails ==
    ASSUME Types, Serving, NEW i \in DOMAIN pending, pending[i].phase \in {"head", "body"},
           reply' = [reply EXCEPT ![pending[i].guest] = "failed"],
           UNCHANGED <<gotFrom, visit, sent, served, told, received>>
    PROVE  ServiceStep
<1> DEFINE g == pending[i].guest
<1>1. g \in Guest /\ reply \in [Guest -> ReplyState] /\ reply[g] \in {"waiting", "head"}
  BY PendingTyped DEF Types, GuestTypes, Serving, Answering
<1>2. reply' = [h \in Guest |-> IF h \in {g} THEN "failed" ELSE reply[h]]
  BY <1>1
<1> HIDE DEF g
<1>3. Service!Fail({g})
  BY <1>1, <1>2 DEF Service!Fail, Service!socketVars
<1>4. {g} \in SUBSET Guest
  BY <1>1
<1> QED  BY <1>3, <1>4, Zenon DEF ServiceStep, Service!ServiceNext

LEMMA HeadTimeoutServes ==
    ASSUME Types, Serving, NEW i \in StreamId, HeadTimeout(i)
    PROVE  ServiceStep /\ Serving'
<1>1. /\ i \in DOMAIN pending /\ pending[i].phase = "head" /\ pending' = Without(pending, i)
      /\ reply' = [reply EXCEPT ![pending[i].guest] = "failed"]
      /\ UNCHANGED <<visitors, gotFrom, visit, sent, served, told, received>>
  BY DEF HeadTimeout
<1> QED  BY <1>1, RequestFails, RequestForgotten, AdmittedKept DEF Serving

LEMMA VisitorCancelsServes ==
    ASSUME Types, Serving, NEW i \in StreamId, VisitorCancels(i)
    PROVE  ServiceStep /\ Serving'
<1> DEFINE g == pending[i].guest
<1>1. /\ i \in DOMAIN pending /\ pending[i].phase = "body" /\ pending' = Without(pending, i)
      /\ reply' = [reply EXCEPT ![g] = "left"]
      /\ UNCHANGED <<visitors, gotFrom, visit, sent, served, told, received>>
  BY DEF VisitorCancels
<1>2. g \in Guest /\ reply[g] = "head"
  BY <1>1, PendingTyped DEF Serving, Answering
<1>3. Answering' /\ Admitted'
  BY <1>1, RequestForgotten, AdmittedKept DEF Serving
<1> HIDE DEF g
<1>4. Service!Leaves(g)
  BY <1>1, <1>2 DEF Service!Leaves, Service!socketVars
<1> QED  BY <1>2, <1>3, <1>4, Zenon DEF Serving, ServiceStep, Service!ServiceNext

LEMMA OpenVisitorServes ==
    ASSUME Types, Serving, NEW v \in Visitor, OpenVisitor(v)
    PROVE  ServiceStep /\ Serving'
<1>1. visit[v] = "none" /\ UNCHANGED <<pending, reply, gotFrom, sent, served, told, received>>
  BY DEF OpenVisitor
<1>2. \E end \in {"open", "closed"} : visit' = [visit EXCEPT ![v] = end]
  BY DEF OpenVisitor
<1>3. Service!Visits(v)
  BY <1>1, <1>2 DEF Service!Visits, Service!answerVars
<1>4. Answering'
  BY <1>1, AnsweringKept DEF Serving
<1>5. Admitted'
  <2>1. \A i \in DOMAIN visitors : visitors[i].visitor # v
    BY <1>1 DEF Serving, Admitted
  <2>2. \A i \in DOMAIN visitors : visit'[visitors[i].visitor] = "open"
    BY <1>2, <2>1, AcceptedTyped DEF Serving, Admitted, Types, GuestTypes
  <2>3. CASE ActiveTunnel = 0
    <3>1. visitors' = visitors
      BY <2>3 DEF OpenVisitor
    <3> QED  BY <2>2, <3>1 DEF Admitted
  <2>4. CASE ActiveTunnel # 0
    <3> DEFINE entry == [visitor |-> v, closing |-> FALSE]
    <3>1. visitors' = Put(visitors, nextStreamId, entry) /\ visit'[v] = "open"
      BY <2>4 DEF OpenVisitor, Types, GuestTypes
    <3>2. \A i \in DOMAIN visitors' :
             visitors'[i].visitor = v \/ (i \in DOMAIN visitors /\ visitors'[i] = visitors[i])
      BY <3>1 DEF Put
    <3>3. ASSUME NEW i \in DOMAIN visitors' PROVE visit'[visitors'[i].visitor] = "open"
      <4>1. CASE visitors'[i].visitor = v
        BY <3>1, <4>1, Zenon
      <4>2. CASE i \in DOMAIN visitors /\ visitors'[i] = visitors[i]
        BY <2>2, <4>2, Zenon
      <4> QED  BY <3>2, <4>1, <4>2, Zenon
    <3> QED  BY <3>3, Zenon DEF Admitted
  <2> QED  BY <2>3, <2>4
<1> QED  BY <1>3, <1>4, <1>5, Zenon DEF Serving, ServiceStep, Service!ServiceNext

LEMMA VisitorSendsServes ==
    ASSUME Types, Serving, NEW i \in StreamId, VisitorSends(i)
    PROVE  ServiceStep /\ Serving'
<1> DEFINE v == visitors[i].visitor
<1>1. /\ i \in DOMAIN visitors /\ sent[v] < MaxMessages /\ sent' = [sent EXCEPT ![v] = @ + 1]
      /\ UNCHANGED <<pending, reply, gotFrom, visit, served, told, received>>
  BY DEF VisitorSends
<1>2. v \in Visitor /\ visit[v] = "open"
  BY <1>1, AcceptedTyped DEF Serving, Admitted
<1>3. /\ DOMAIN visitors' = DOMAIN visitors
      /\ \A j \in DOMAIN visitors : visitors'[j].visitor = visitors[j].visitor
  BY DEF VisitorSends, Types, RelayTypes, Map, Accepted
<1>4. Answering' /\ Admitted'
  BY <1>1, <1>3, AnsweringKept, AdmittedKept DEF Serving
<1> HIDE DEF v
<1>5. Service!Sends(v)
  BY <1>1, <1>2 DEF Service!Sends, Service!answerVars
<1> QED  BY <1>2, <1>4, <1>5, Zenon DEF Serving, ServiceStep, Service!ServiceNext

LEMMA VisitorCloseSeenServes ==
    ASSUME Types, OneStream, Serving, NEW i \in StreamId, VisitorCloseSeen(i)
    PROVE  ServiceStep /\ Serving'
<1> DEFINE v == visitors[i].visitor
<1>1. /\ i \in DOMAIN visitors /\ visit' = [visit EXCEPT ![v] = "closed"]
      /\ visitors' = Without(visitors, i)
      /\ UNCHANGED <<pending, reply, gotFrom, sent, served, told, received>>
  BY DEF VisitorCloseSeen
<1>2. v \in Visitor /\ visit[v] = "open"
  BY <1>1, AcceptedTyped DEF Serving, Admitted
<1>3. \A j \in DOMAIN visitors : j # i => visitors[j].visitor # v
  BY <1>1, AcceptedTyped DEF OneStream
<1>4. /\ DOMAIN visitors' = DOMAIN visitors \ {i}
      /\ \A j \in DOMAIN visitors' : visitors'[j] = visitors[j]
  BY <1>1 DEF Without, Restrict
<1>5. Answering'
  BY <1>1, AnsweringKept DEF Serving
<1> HIDE DEF v
<1>6. Admitted'
  BY <1>1, <1>3, <1>4, AcceptedTyped DEF Serving, Admitted, Types, GuestTypes
<1>7. Service!VisitEnds(v)
  BY <1>1, <1>2 DEF Service!VisitEnds, Service!answerVars
<1> QED  BY <1>2, <1>5, <1>6, <1>7, Zenon DEF Serving, ServiceStep, Service!ServiceNext

-----------------------------------------------------------------------------
\* What the client's frames mean for guests.

\* The frame that the relay is to handle next.
LEMMA UpHead ==
    ASSUME Types, NEW t \in Tunnel, up[t] # <<>>
    PROVE  /\ Head(up[t]) \in Frames /\ up[t] \in Seq(Frames) /\ 1 \in DOMAIN up[t]
           /\ up[t][1] = Head(up[t]) /\ Names(Head(up[t]).id, Head(up[t]).of)
<1>1. up \in [Tunnel -> Seq(Frames)] /\ up[t] \in Seq(Frames)
  BY DEF Types, TunnelTypes
<1>2. Carried(up, Head(up[t]).id, Head(up[t]).of) /\ Head(up[t]) \in Frames
  BY <1>1, CarriedHead
<1> QED  BY <1>1, <1>2 DEF Names

\* A response that comes over the stream of a pending request is that request's,
\* but for a relay that hibernates.
LEMMA ResponseIsOwn ==
    ASSUME Types, ~Hibernates => OneOwner, NEW t \in Tunnel, up[t] # <<>>,
           Head(up[t]).type \in {"resp-head", "body-end"}, Head(up[t]).id \in DOMAIN pending
    PROVE  Head(up[t]).of \in IF Hibernates THEN Guest ELSE {pending[Head(up[t]).id].guest}
<1> DEFINE f == Head(up[t])
           g == pending[f.id].guest
<1>1. f \in Frames /\ Names(f.id, f.of) /\ g \in Guest /\ f.id \in StreamId /\ Names(f.id, g)
  BY UpHead, PendingTyped DEF Names
<1> HIDE DEF f
<1>2. f.of \in Guest
  BY <1>1, FrameFields DEF f
<1>3. CASE Hibernates
  BY <1>2, <1>3 DEF f
<1>4. CASE ~Hibernates
  <2>1. f.of = g
    BY <1>1, <1>2, <1>4 DEF OneOwner
  <2> QED  BY <1>4, <2>1 DEF f
<1> QED  BY <1>3, <1>4

LEMMA OnRespHeadServes ==
    ASSUME Types, ~Hibernates => OneOwner, Serving, NEW t \in Tunnel, OnRespHead(t)
    PROVE  ServiceStep /\ Serving'
<1> PICK f : f = Head(up[t])
  OBVIOUS
<1> DEFINE g == pending[f.id].guest
<1>1. /\ up[t] # <<>> /\ f.type = "resp-head"
      /\ UNCHANGED <<visitors, visit, sent, served, told, received>>
  BY DEF OnRespHead, TakeUp
<1>2. Admitted'
  BY <1>1, AdmittedKept DEF Serving
<1>3. CASE f.id \notin DOMAIN pending
  <2>1. UNCHANGED <<pending, reply, gotFrom>>
    BY <1>3 DEF OnRespHead
  <2> QED  BY <1>1, <1>2, <2>1, ServiceRests, AnsweringKept DEF Serving, guestVars
<1>4. CASE f.id \in DOMAIN pending /\ pending[f.id].phase # "head"
  <2>1. /\ UNCHANGED <<reply, gotFrom>>
        /\ \/ pending' = pending
           \/ pending' = [pending EXCEPT ![f.id].phase = "orphan"]
    BY <1>4 DEF OnRespHead
  <2>2. /\ DOMAIN pending' = DOMAIN pending
        /\ \A i \in DOMAIN pending :
              /\ pending'[i].guest = pending[i].guest
              /\ pending'[i].phase \in {pending[i].phase, "orphan"}
    BY <1>4, <2>1, PendingTyped DEF PendingHttp, Types, RelayTypes, Map
  <2>3. Answering'
    BY <2>1, <2>2 DEF Serving, Answering
  <2> QED  BY <1>1, <1>2, <2>1, <2>3, ServiceRests DEF Serving, guestVars
<1>5. CASE f.id \in DOMAIN pending /\ pending[f.id].phase = "head"
  <2>1. g \in Guest /\ reply[g] = "waiting" /\ reply \in [Guest -> ReplyState]
    BY <1>5, PendingTyped DEF Serving, Answering, Types, GuestTypes
  <2>2. f.of \in IF Hibernates THEN Guest ELSE {g}
    BY <1>1, <1>5, ResponseIsOwn
  <2>3. /\ gotFrom' = [gotFrom EXCEPT ![g] = @ \cup {f.of}]
        /\ \/ pending' = [pending EXCEPT ![f.id].phase = "bodiless"]
              /\ reply' = [reply EXCEPT ![g] = "done"]
           \/ pending' = [pending EXCEPT ![f.id].phase = "body"]
              /\ reply' = [reply EXCEPT ![g] = "head"]
           \/ pending' = Without(pending, f.id) /\ reply' = [reply EXCEPT ![g] = "failed"]
    BY <1>5, Zenon DEF OnRespHead
  <2>4. Service!AnswerBegins(g)
    <3> HIDE DEF g
    <3>1. \E r \in {"head", "done", "failed"} : reply' = [reply EXCEPT ![g] = r]
      BY <2>3
    <3>2. \E from \in IF Hibernates THEN Guest ELSE {g} : gotFrom' = [gotFrom EXCEPT ![g] = @ \cup {from}]
      BY <2>2, <2>3
    <3> QED  BY <1>1, <2>1, <3>1, <3>2 DEF Service!AnswerBegins, Service!Answers, Service!socketVars
  <2>5. Answering'
    <3>1. ASSUME NEW phase \in {"bodiless", "body"}, NEW state \in {"done", "head"},
                 phase = "body" => state = "head",
                 pending' = [pending EXCEPT ![f.id].phase = phase], reply' = [reply EXCEPT ![g] = state]
          PROVE  Answering'
      <4>1. /\ DOMAIN pending' = DOMAIN pending
            /\ pending'[f.id].guest = g /\ pending'[f.id].phase = phase
            /\ \A i \in DOMAIN pending : i # f.id => pending'[i] = pending[i]
        BY <1>5, <3>1, PendingTyped DEF PendingHttp, Types, RelayTypes, Map
      <4>2. reply'[g] = state /\ \A i \in DOMAIN pending : i # f.id => reply'[pending[i].guest] = reply[pending[i].guest]
        BY <1>5, <2>1, <3>1, PendingTyped DEF Serving, Answering
      <4> HIDE DEF g
      <4>3. \A i \in DOMAIN pending : pending'[i].guest = pending[i].guest
        BY <4>1 DEF g
      <4>4. ASSUME NEW i \in DOMAIN pending'
            PROVE  /\ reply'[pending'[i].guest] # "none"
                   /\ pending'[i].phase = "head" => reply'[pending'[i].guest] = "waiting"
                   /\ pending'[i].phase = "body" => reply'[pending'[i].guest] = "head"
        <5>1. CASE i = f.id
          BY <3>1, <4>1, <4>2, <5>1
        <5>2. CASE i # f.id
          BY <4>1, <4>2, <5>2 DEF Serving, Answering
        <5> QED  BY <5>1, <5>2
      <4>5. \A i, j \in DOMAIN pending' : pending'[i].guest = pending'[j].guest => i = j
        BY <4>1, <4>3 DEF Serving, Answering
      <4> QED  BY <4>4, <4>5 DEF Answering
    <3>2. CASE pending' = Without(pending, f.id) /\ reply' = [reply EXCEPT ![g] = "failed"]
      BY <1>5, <3>2, RequestForgotten DEF Serving
    <3> HIDE DEF g
    <3> QED  BY <2>3, <3>1, <3>2
  <2> HIDE DEF g
  <2> QED  BY <1>2, <2>1, <2>4, <2>5, Zenon DEF Serving, ServiceStep, Service!ServiceNext
<1> QED  BY <1>3, <1>4, <1>5

LEMMA OnBodyEndServes ==
    ASSUME Types, ~Hibernates => OneOwner, Serving, NEW t \in Tunnel, OnBodyEnd(t)
    PROVE  ServiceStep /\ Serving'
<1> PICK f : f = Head(up[t])
  OBVIOUS
<1> DEFINE g == pending[f.id].guest
<1>1. /\ up[t] # <<>> /\ f.type = "body-end"
      /\ UNCHANGED <<visitors, visit, sent, served, told, received>>
  BY DEF OnBodyEnd, TakeUp
<1>2. Admitted'
  BY <1>1, AdmittedKept DEF Serving
<1>3. CASE ~(f.id \in DOMAIN pending /\ pending[f.id].phase = "body")
  <2>1. UNCHANGED <<reply, gotFrom>>
    BY <1>3 DEF OnBodyEnd
  <2>2. pending' = pending \/ (f.id \in DOMAIN pending /\ pending' = Without(pending, f.id))
    BY DEF OnBodyEnd
  <2>3. Answering'
    BY <2>1, <2>2, RequestForgotten, AnsweringKept DEF Serving
  <2> QED  BY <1>1, <1>2, <2>1, <2>3, ServiceRests DEF Serving, guestVars
<1>4. CASE f.id \in DOMAIN pending /\ pending[f.id].phase = "body"
  <2>1. g \in Guest /\ reply[g] = "head"
    BY <1>4, PendingTyped DEF Serving, Answering
  <2>2. f.of \in IF Hibernates THEN Guest ELSE {g}
    BY <1>1, <1>4, ResponseIsOwn
  <2>3. /\ pending' = Without(pending, f.id) /\ reply' = [reply EXCEPT ![g] = "done"]
        /\ gotFrom' = [gotFrom EXCEPT ![g] = @ \cup {f.of}]
    BY <1>4 DEF OnBodyEnd
  <2>4. Answering'
    BY <1>4, <2>3, RequestForgotten DEF Serving
  <2> HIDE DEF g
  <2>5. Service!AnswerEnds(g)
    <3>1. \E from \in IF Hibernates THEN Guest ELSE {g} : gotFrom' = [gotFrom EXCEPT ![g] = @ \cup {from}]
      BY <2>2, <2>3
    <3> QED  BY <1>1, <2>1, <2>3, <3>1 DEF Service!AnswerEnds, Service!Answers, Service!socketVars
  <2> QED  BY <1>2, <2>1, <2>4, <2>5, Zenon DEF Serving, ServiceStep, Service!ServiceNext
<1> QED  BY <1>3, <1>4

LEMMA OnCloseStreamServes ==
    ASSUME Types, Serving, NEW t \in Tunnel, OnCloseStream(t)
    PROVE  ServiceStep /\ Serving'
<1> PICK f : f = Head(up[t])
  OBVIOUS
<1>1. UNCHANGED <<gotFrom, visit, sent, served, told, received>>
  BY DEF OnCloseStream, TakeUp
<1>2. Admitted'
  <2>1. /\ DOMAIN visitors' = DOMAIN visitors
        /\ \A j \in DOMAIN visitors : visitors'[j].visitor = visitors[j].visitor
    BY DEF OnCloseStream, Types, RelayTypes, Map, Accepted
  <2> QED  BY <1>1, <2>1, AdmittedKept DEF Serving
<1>3. CASE f.id \in DOMAIN pending
  <2>1. pending' = Without(pending, f.id)
    BY <1>3 DEF OnCloseStream
  <2>2. CASE pending[f.id].phase \in {"head", "body"}
    <3>1. reply' = [reply EXCEPT ![pending[f.id].guest] = "failed"]
      BY <1>3, <2>2 DEF OnCloseStream
    <3> QED  BY <1>1, <1>2, <1>3, <2>1, <2>2, <3>1, RequestFails, RequestForgotten DEF Serving
  <2>3. CASE pending[f.id].phase \notin {"head", "body"}
    <3>1. reply' = reply
      BY <1>3, <2>3 DEF OnCloseStream
    <3> QED  BY <1>1, <1>2, <1>3, <2>1, <3>1, ServiceRests, RequestForgotten DEF Serving, guestVars
  <2> QED  BY <2>2, <2>3
<1>4. CASE f.id \notin DOMAIN pending
  <2>1. UNCHANGED <<pending, reply>>
    BY <1>4 DEF OnCloseStream
  <2> QED  BY <1>1, <1>2, <2>1, ServiceRests, AnsweringKept DEF Serving, guestVars
<1> QED  BY <1>3, <1>4

\* What is delivered in order, without a gap, is the first messages.
LEMMA InOrderMessages ==
    ASSUME NEW s \in Seq(Message), NEW v, InOrder(s, v)
    PROVE  s = Service!Messages(v, Len(s)) /\ Len(s) \in Nat
<1>1. /\ DOMAIN s = 1..Len(s) /\ Len(s) \in Nat
      /\ s = [k \in DOMAIN s |-> s[k]]
  OBVIOUS
<1>2. \A k \in DOMAIN s : s[k] = <<v, k>>
  BY DEF InOrder
<1> QED  BY <1>1, <1>2 DEF Service!Messages

\* Where only one visitor's messages change, they are all there is to say.
LEMMA OnlyOne ==
    ASSUME NEW S, NEW f, NEW f2, f \in [Visitor -> S], f2 \in [Visitor -> S], NEW v \in Visitor,
           \A w \in Visitor : w # v => f2[w] = f[w]
    PROVE  f2 = [f EXCEPT ![v] = f2[v]]
OBVIOUS

\* The origin is given what it was not yet given of what the visitor sent.
LEMMA OriginGiven ==
    ASSUME Types, Types', Delivery', NEW v \in Visitor,
           \A w \in Visitor : w # v => served'[w] = served[w],
           Len(served[v]) <= Len(served'[v]), Len(served'[v]) <= sent[v],
           UNCHANGED <<reply, gotFrom, visit, sent, told, received>>
    PROVE  ServiceStep
<1>1. /\ served \in [Visitor -> Seq(Message)] /\ served' \in [Visitor -> Seq(Message)]
      /\ sent[v] \in Nat
  BY TunnelAssumption DEF Types, GuestTypes
<1>2. /\ InOrder(served'[v], v) /\ served'[v] \in Seq(Message) /\ Len(served'[v]) \in Nat
      /\ Len(served[v]) \in Nat
  BY <1>1 DEF Delivery, OwnMessages, InOrder
<1>3. served'[v] = Service!Messages(v, Len(served'[v]))
  BY <1>2, InOrderMessages
<1>4. served' = [served EXCEPT ![v] = served'[v]]
  BY <1>1, OnlyOne
<1>5. Len(served'[v]) \in Len(served[v])..sent[v]
  BY <1>1, <1>2
<1>6. \E n \in Len(served[v])..sent[v] : served' = [served EXCEPT ![v] = Service!Messages(v, n)]
  BY <1>3, <1>4, <1>5, Zenon
<1>7. Service!OriginIsGiven(v)
  BY <1>6 DEF Service!OriginIsGiven, Service!answerVars
<1> QED  BY <1>7, Zenon DEF ServiceStep, Service!ServiceNext

LEMMA OnWsDataServes ==
    ASSUME Types, Types', Delivery, Delivery', Serving, NEW t \in Tunnel, OnWsData(t)
    PROVE  ServiceStep /\ Serving'
<1> PICK f : f = Head(up[t])
  OBVIOUS
<1>1. /\ up[t] # <<>> /\ f.type = "ws-data"
      /\ UNCHANGED <<pending, visitors, reply, gotFrom, visit, sent, served, told>>
  BY DEF OnWsData, TakeUp
<1>2. Serving'
  BY <1>1, AnsweringKept, AdmittedKept DEF Serving
<1>3. CASE ~(f.id \in DOMAIN visitors /\ ~visitors[f.id].closing)
  <2>1. received' = received
    BY <1>3 DEF OnWsData
  <2> QED  BY <1>1, <1>2, <2>1, ServiceRests DEF guestVars
<1>4. CASE f.id \in DOMAIN visitors /\ ~visitors[f.id].closing
  <2> DEFINE v == visitors[f.id].visitor
             m == <<f.of, f.info>>
  <2>1. v \in Visitor /\ received \in [Visitor -> Seq(Message)] /\ received' \in [Visitor -> Seq(Message)]
        /\ told[v] \in Nat
    <3>1. v \in Visitor
      BY <1>4, AcceptedTyped
    <3> HIDE DEF v
    <3> QED  BY <3>1, TunnelAssumption DEF Types, GuestTypes
  <2>2. received' = [received EXCEPT ![v] = Append(@, m)]
    BY <1>4 DEF OnWsData
  <2>3. 1 \in DOMAIN up[t] /\ up[t][1] = f /\ MessageOf(f, f.id) /\ f.info \in Nat
    <3>1. f \in Frames /\ 1 \in DOMAIN up[t] /\ up[t][1] = f
      BY <1>1, UpHead
    <3>2. f.info \in 1..MaxMessages
      BY <1>1, <3>1, FrameFields
    <3> QED  BY <1>1, <3>1, <3>2, TunnelAssumption DEF MessageOf
  <2>4. Len(received[v]) < told[v]
    <3>1. Len(received[v]) \in Nat
      <4> HIDE DEF v
      <4>1. received[v] \in Seq(Message)
        BY <2>1
      <4> QED  BY <4>1
    <3>2. Len(received[v]) < f.info /\ f.info <= told[v]
      <4>1. Usable(t)
        BY <1>4, <2>3 DEF Delivery, UpGoesOn
      <4>2. GoesOn(up[t], f.id, Len(received[v]), told[v])
        BY <1>4, <4>1 DEF Delivery, UpGoesOn
      <4> HIDE DEF v
      <4> QED  BY <2>3, <4>2 DEF GoesOn
    <3>3. told[v] \in Nat
      BY <2>1
    <3> HIDE DEF v
    <3> QED  BY <2>3, <3>1, <3>2, <3>3
  <2>5. /\ received'[v] = Append(received[v], m) /\ received[v] \in Seq(Message)
        /\ received'[v] \in Seq(Message)
    <3> HIDE DEF v, m
    <3> QED  BY <2>1, <2>2
  <2>6. InOrder(received'[v], v)
    BY <2>1 DEF Delivery, OwnMessages, InOrder
  <2> HIDE DEF v, m
  <2>7. Len(received'[v]) = Len(received[v]) + 1
    BY <2>5
  <2>8. received'[v] = Service!Messages(v, Len(received[v]) + 1)
    BY <2>5, <2>6, <2>7, InOrderMessages
  <2>9. received' = [received EXCEPT ![v] = Service!Messages(v, Len(received[v]) + 1)]
    <3>1. \A w \in Visitor : w # v => received'[w] = received[w]
      BY <2>1, <2>2
    <3>2. received' = [received EXCEPT ![v] = received'[v]]
      BY <2>1, <3>1, OnlyOne
    <3> QED  BY <2>8, <3>2, Zenon
  <2>10. Service!VisitorIsGiven(v)
    BY <1>1, <2>4, <2>9 DEF Service!VisitorIsGiven, Service!answerVars
  <2> QED  BY <1>2, <2>1, <2>10, Zenon DEF ServiceStep, Service!ServiceNext
<1> QED  BY <1>3, <1>4

\* What the client is to pass on came from one visitor, whose socket it is.
LEMMA VisitorDataOwn ==
    ASSUME Types, Delivery, NEW f \in Frames, TakeDown({"ws-data"}), f = Head(down[session]),
           f.of \in Visitor, f.id \in StreamId, f.type = "ws-data", f.id \in DOMAIN wsStreams
    PROVE  wsStreams[f.id].of = f.of
<1>1. Line # <<>> /\ Head(Line) = f
  BY DEF TakeDown, Line
<1>2. Belongs(f.id, f.of)
  <2>1. 1 \in DOMAIN Line /\ Line[1] = f
    BY <1>1, LineTyped
  <2> QED  BY <2>1 DEF Belongs, IsVisitors
<1>3. Belongs(f.id, wsStreams[f.id].of) /\ wsStreams[f.id].of \in Visitor
  BY <1>1, ServedStream DEF Belongs, Linked
<1> QED  BY <1>2, <1>3 DEF Delivery, IdsDrawn

LEMMA OnVisitorDataServes ==
    ASSUME Types, Types', Delivery, Delivery', Serving, OnVisitorData
    PROVE  ServiceStep /\ Serving'
<1> PICK f : f = Head(down[session])
  OBVIOUS
<1>1. /\ TakeDown({"ws-data"}) /\ f \in Frames /\ VisitorData(f) /\ f.type = "ws-data"
      /\ f.id \in StreamId /\ f.of \in Visitor /\ <<f.of, f.info>> \in Message
  BY VisitorDataCases
<1>2. UNCHANGED <<pending, visitors, reply, gotFrom, visit, sent, told, received>>
  BY <1>1 DEF TakeDown
<1>3. Serving'
  BY <1>2, AnsweringKept, AdmittedKept DEF Serving
<1>4. /\ \A w \in Visitor : w # f.of => served'[w] = served[w]
      /\ f.id \in DOMAIN wsStreams' =>
            /\ f.id \in DOMAIN wsStreams /\ wsStreams'[f.id].of = wsStreams[f.id].of
            /\ Kept(f.id)' = Append(Kept(f.id), <<f.of, f.info>>)
      /\ \/ served'[f.of] = served[f.of]
         \/ f.id \in DOMAIN wsStreams' /\ served'[f.of] = Kept(f.id)'
  BY <1>1, VisitorDataOwn, VisitorDataKept
<1>5. CASE served'[f.of] = served[f.of]
  <2>1. served' = served
    <3>1. \A w \in Visitor : served'[w] = served[w]
      BY <1>4, <1>5
    <3> QED  BY <3>1 DEF Types, GuestTypes
  <2> QED  BY <1>2, <1>3, <2>1, ServiceRests DEF guestVars
<1>6. CASE f.id \in DOMAIN wsStreams' /\ served'[f.of] = Kept(f.id)'
  <2>1. wsStreams[f.id].of = f.of /\ wsStreams'[f.id].of = f.of /\ f.id \in DOMAIN wsStreams
    BY <1>1, <1>4, <1>6, VisitorDataOwn
  <2>2. Len(Kept(f.id)') <= sent'[f.of]
    BY <1>6, <2>1 DEF Delivery, DownGoesOn, GoesOn
  <2>3. Len(served[f.of]) <= Len(served'[f.of])
    <3>1. served[f.of] \in Seq(Message) /\ wsStreams[f.id].buffered \in Seq(Message)
      BY <2>1, ServedStream
    <3>2. Kept(f.id) = served[f.of] \o wsStreams[f.id].buffered
      BY <2>1 DEF Kept
    <3>3. served'[f.of] = Append(Kept(f.id), <<f.of, f.info>>)
      BY <1>4, <1>6, Zenon
    <3>4. Kept(f.id) \in Seq(Message) /\ Len(served[f.of]) <= Len(Kept(f.id)) /\ Len(served[f.of]) \in Nat
      <4>1. ASSUME NEW q \in Seq(Message), NEW r \in Seq(Message)
            PROVE  q \o r \in Seq(Message) /\ Len(q) <= Len(q \o r) /\ Len(q) \in Nat
        OBVIOUS
      <4> QED  BY <3>1, <3>2, <4>1, Zenon
    <3> HIDE DEF Kept
    <3>5. Len(Append(Kept(f.id), <<f.of, f.info>>)) = Len(Kept(f.id)) + 1 /\ Len(Kept(f.id)) \in Nat
      BY <1>1, <3>4
    <3>6. Len(served'[f.of]) = Len(Kept(f.id)) + 1
      BY <3>3, <3>5, Zenon
    <3>7. ASSUME NEW a \in Nat, NEW b \in Nat, a <= b PROVE a <= b + 1
      BY <3>7
    <3>8. Len(served[f.of]) <= Len(Kept(f.id)) + 1
      BY <3>4, <3>5, <3>7, Zenon
    <3> QED  BY <3>6, <3>8, Zenon
  <2>4. f.of \in Visitor
    BY <1>1
  <2>5. \A w \in Visitor : w # f.of => served'[w] = served[w]
    BY <1>4
  <2>6. Len(served'[f.of]) <= sent[f.of]
    BY <1>2, <1>6, <2>2
  <2> HIDE DEF Kept
  <2>7. ServiceStep
    BY <1>2, <2>3, <2>4, <2>5, <2>6, OriginGiven
  <2> QED  BY <1>3, <2>7
<1> QED  BY <1>4, <1>5, <1>6

LEMMA OriginWsOpensServes ==
    ASSUME Types, Types', Delivery, Delivery', Serving, NEW i \in StreamId, OriginWsOpens(i)
    PROVE  ServiceStep /\ Serving'
<1> DEFINE v == wsStreams[i].of
<1>1. /\ i \in DOMAIN wsStreams /\ served' = [served EXCEPT ![v] = @ \o wsStreams[i].buffered]
      /\ UNCHANGED <<pending, visitors, reply, gotFrom, visit, sent, told, received>>
  BY DEF OriginWsOpens, doVars
<1>2. /\ v \in Visitor /\ served[v] \in Seq(Message) /\ wsStreams[i].buffered \in Seq(Message)
      /\ served \in [Visitor -> Seq(Message)]
  BY <1>1, ServedStream DEF Types, GuestTypes
<1>3. served'[v] = Kept(i) /\ \A w \in Visitor : w # v => served'[w] = served[w]
  BY <1>1, <1>2 DEF Kept
<1>4. Len(Kept(i)) <= sent[v] /\ Len(served[v]) <= Len(Kept(i))
  <2>1. Len(Kept(i)) <= sent[v]
    BY <1>1 DEF Delivery, DownGoesOn, GoesOn
  <2>2. Kept(i) = served[v] \o wsStreams[i].buffered
    BY DEF Kept
  <2> HIDE DEF v
  <2> QED  BY <1>2, <2>1, <2>2
<1>5. Serving'
  BY <1>1, AnsweringKept, AdmittedKept DEF Serving
<1> HIDE DEF v
<1> QED  BY <1>1, <1>2, <1>3, <1>4, <1>5, OriginGiven

LEMMA OriginWsMessageServes ==
    ASSUME Types, OneStream, Serving, NEW i \in StreamId, NEW v \in Visitor, OriginWsMessage(i, v)
    PROVE  ServiceStep /\ Serving'
<1>1. /\ told[v] < MaxMessages /\ told' = [told EXCEPT ![v] = @ + 1]
      /\ UNCHANGED <<pending, visitors, reply, gotFrom, visit, sent, served, received>>
  BY DEF OriginWsMessage, doVars
<1>2. visit[v] # "none"
  <2>1. Names(i, v)
    BY DEF OriginWsMessage, Names
  <2> QED  BY <2>1 DEF OneStream
<1>3. Service!OriginSends(v)
  BY <1>1, <1>2 DEF Service!OriginSends, Service!answerVars
<1>4. Serving'
  BY <1>1, AnsweringKept, AdmittedKept DEF Serving
<1> QED  BY <1>3, <1>4, Zenon DEF ServiceStep, Service!ServiceNext

\* The steps that no guest notices.
LEMMA UnnoticedServes ==
    ASSUME Types, Serving, UNCHANGED <<guestVars, visitors>>, pending' = pending \/ pending' = NoMap
    PROVE  ServiceStep /\ Serving'
<1>1. UNCHANGED <<reply, visit>>
  BY DEF guestVars
<1>2. Answering'
  BY <1>1, AnsweringKept, NoneAnswering DEF Serving
<1>3. Admitted'
  BY <1>1, AdmittedKept DEF Serving
<1> QED  BY <1>2, <1>3, ServiceRests DEF Serving

LEMMA UnnoticedSteps ==
    ASSUME \/ \E p \in pumps : PumpEnds(p)
           \/ Hibernate \/ ClientLosesTunnel \/ OnOpen \/ OnRequestBody \/ OnGuestLeft
           \/ \E i \in StreamId : OriginResponds(i) \/ OriginEnds(i) \/ BodyRejected(i)
           \/ \E i \in StreamId, v \in Visitor : OriginWsCloses(i, v)
           \/ UNCHANGED vars
    PROVE  UNCHANGED <<guestVars, visitors>> /\ (pending' = pending \/ pending' = NoMap)
BY DEF PumpEnds, Hibernate, ClientLosesTunnel, OnOpen, OnRequestBody, OnGuestLeft, TakeDown, Rejects,
       OriginResponds, OriginEnds, BodyRejected, OriginWsCloses, vars, doVars, guestVars

LEMMA StepServes ==
    ASSUME Types, Types', OneStream, Delivery, Delivery', ~Hibernates => OneOwner, Serving, [Next]_vars
    PROVE  ServiceStep /\ Serving'
<1>1. CASE Relay
  BY <1>1, ProxyHttpServes, HeadTimeoutServes, VisitorCancelsServes, VisitorSendsServes,
     VisitorCloseSeenServes, OpenVisitorServes, TunnelChangeServes, OnRespHeadServes, OnBodyEndServes,
     OnCloseStreamServes, OnWsDataServes, UnnoticedSteps, UnnoticedServes, Zenon
     DEF Relay, RelayReceives
<1>2. CASE Client
  BY <1>2, OnVisitorDataServes, OriginWsOpensServes, OriginWsMessageServes, UnnoticedSteps,
     UnnoticedServes, Zenon DEF Client, ClientReceives
<1>3. CASE UNCHANGED vars
  BY <1>3, UnnoticedSteps, UnnoticedServes, Zenon
<1> QED  BY <1>1, <1>2, <1>3 DEF Next

\* To its guests the relay is the service that GuestService describes, for any
\* number of requests, visitors, tunnel sockets and messages: what a guest was
\* answered stands, only requests not answered in full fail when tunnels are lost,
\* and a socket's messages arrive once, in order and after they were sent.
THEOREM ServiceRefinement == Spec => ImplementsService
<1> DEFINE Inv == Types /\ OneStream /\ Delivery /\ (~Hibernates => OneOwner) /\ Serving
<1>1. Init => Inv
  <2>1. Init => Serving
    BY DEF Init, NoMap, Serving, Answering, Admitted
  <2> QED  BY <2>1, InitTypes, InitDelivers, InitOneOwner
<1>2. Inv /\ [Next]_vars => Inv' /\ ServiceStep
  <2> SUFFICES ASSUME Inv, [Next]_vars PROVE Inv' /\ ServiceStep
    OBVIOUS
  <2>1. Types' /\ OneStream'
    BY StepTypes, StepOneStream
  <2>2. Delivery'
    BY <2>1, StepDelivers
  <2>3. (~Hibernates => OneOwner)'
    BY StepOneOwner
  <2> QED  BY <2>1, <2>2, <2>3, StepServes
<1>3. Init => Service!ServiceInit
  BY DEF Init, Service!ServiceInit
<1> HIDE DEF Inv
<1> QED  BY <1>1, <1>2, <1>3, PTL DEF Spec, ServiceStep, ImplementsService, Service!ServiceSpec

-----------------------------------------------------------------------------
(***************************************************************************)
(* The messages of the tunnel.  What encodeFrame sends is what decodeFrame *)
(* returns, for every frame and every size of a byte and of a chunk; and a *)
(* body that chunkBody splits arrives whole.                               *)
(***************************************************************************)

\* Numbers.

LEMMA DivMod ==
    ASSUME NEW n \in Nat, NEW b \in Nat \ {0}
    PROVE  /\ n \div b \in Nat /\ n % b \in 0 .. b - 1
           /\ n = (n \div b) * b + (n % b)
  BY SMT

LEMMA DivBelow ==
    ASSUME NEW n \in Nat, NEW b \in Nat \ {0}, NEW c \in Nat, n < c * b
    PROVE  n \div b < c
  BY DivMod, SMT

LEMMA ModSmall ==
    ASSUME NEW b \in Nat \ {0}, NEW n \in 0 .. b - 1
    PROVE  n % b = n
  BY SMT

\* Four bytes hold every id up to MaxStreamId: what setUint32 writes after the
\* type byte, getUint32 reads.
LEMMA Uint32RoundTrip ==
    ASSUME NEW n \in 0 .. MaxStreamId, NEW m \in Seq(Byte), Len(m) >= 5,
           m[2] = Uint32(n)[1], m[3] = Uint32(n)[2],
           m[4] = Uint32(n)[3], m[5] = Uint32(n)[4]
    PROVE  FromUint32(m) = n
<1> DEFINE q == n \div Base  r == q \div Base  s == r \div Base
<1>0. /\ Base \in Nat \ {0} /\ n \in Nat
      /\ Base * Base \in Nat /\ Base * Base * Base \in Nat
  <2>1. \A a, b \in Nat : a * b \in Nat
    OBVIOUS
  <2>2. Base \in Nat /\ Base # 0
    BY WireAssumption
  <2>3. Base * Base \in Nat
    BY <2>1, <2>2, Zenon
  <2>4. Base * Base * Base \in Nat
    BY <2>1, <2>2, <2>3, Zenon
  <2>5. n \in Nat
    OBVIOUS
  <2> QED  BY <2>2, <2>3, <2>4, <2>5, Zenon
<1>1. q \in Nat /\ n % Base \in Byte /\ n = q * Base + (n % Base)
  BY <1>0, DivMod DEF Byte
<1>2. r \in Nat /\ q % Base \in Byte /\ q = r * Base + (q % Base)
  BY <1>0, <1>1, DivMod DEF Byte
<1>3. s \in Nat /\ r % Base \in Byte /\ r = s * Base + (r % Base)
  BY <1>0, <1>2, DivMod DEF Byte
<1> HIDE DEF q, r, s
<1>4. s < Base
  <2>1. n < (Base * Base * Base) * Base
    BY <1>0 DEF MaxStreamId
  <2>2. q < (Base * Base) * Base
    BY <1>0, <2>1, DivBelow, Zenon DEF q
  <2>3. r < Base * Base
    BY <1>0, <1>1, <2>2, DivBelow, Zenon DEF r
  <2> QED
    BY <1>0, <1>2, <2>3, DivBelow, Zenon DEF s
<1>5. s % Base = s
  <2>1. s \in 0 .. Base - 1
    BY <1>0, <1>3, <1>4
  <2> QED
    BY <1>0, <2>1, ModSmall, Zenon
<1> QED
  BY <1>1, <1>2, <1>3, <1>5 DEF Uint32, FromUint32, Byte, q, r, s

-----------------------------------------------------------------------------
\* Frames.

\* Where the elements of a concatenation are.
LEMMA ConcatRead ==
    ASSUME NEW S, NEW s \in Seq(S), NEW t \in Seq(S)
    PROVE  /\ s \o t \in Seq(S) /\ Len(s \o t) = Len(s) + Len(t)
           /\ \A k \in 1 .. Len(s) : (s \o t)[k] = s[k]
           /\ \A k \in Len(s) + 1 .. Len(s) + Len(t) : (s \o t)[k] = t[k - Len(s)]
<1>1. s \o t \in Seq(S) /\ Len(s \o t) = Len(s) + Len(t)
  OBVIOUS
<1>2. \A k \in 1 .. Len(s) : (s \o t)[k] = s[k]
  OBVIOUS
<1>3. \A k \in Len(s) + 1 .. Len(s) + Len(t) : (s \o t)[k] = t[k - Len(s)]
  OBVIOUS
<1> QED
  BY <1>1, <1>2, <1>3, Zenon

\* A decoder finds in a message what withHeader put there.
LEMMA HeaderRead ==
    ASSUME NEW f, f.type \in DOMAIN TypeByte, f.streamId \in 0 .. MaxStreamId,
           NEW payload \in Seq(Byte),
           NEW m, m = WithHeader(f, payload)
    PROVE  /\ m \in Seq(Byte) /\ Len(m) = 5 + Len(payload)
           /\ m[1] = TypeByte[f.type]
           /\ FromUint32(m) = f.streamId
           /\ SubSeq(m, 6, Len(m)) = payload
<1> DEFINE first == <<TypeByte[f.type]>>  next == Uint32(f.streamId)
<1>0. Base \in Nat \ {0} /\ f.streamId \in Nat
  BY WireAssumption DEF MaxStreamId
<1>1. first \in Seq(Byte) /\ Len(first) = 1 /\ first[1] = TypeByte[f.type]
  <2>1. TypeByte[f.type] \in 1 .. 8
    BY DEF TypeByte
  <2> QED
    BY <2>1, WireAssumption DEF Byte
<1>2. next \in Seq(Byte) /\ Len(next) = 4
  <2> DEFINE q == f.streamId \div Base  r == q \div Base  s == r \div Base
  <2>1. q \in Nat /\ f.streamId % Base \in Byte
    BY <1>0, DivMod DEF Byte
  <2>2. r \in Nat /\ q % Base \in Byte
    BY <1>0, <2>1, DivMod DEF Byte
  <2>3. s \in Nat /\ r % Base \in Byte
    BY <1>0, <2>2, DivMod DEF Byte
  <2>4. s % Base \in Byte
    BY <1>0, <2>3, DivMod DEF Byte
  <2> QED
    BY <2>1, <2>2, <2>3, <2>4 DEF Uint32
<1>3. m = (first \o next) \o payload
  BY <1>0 DEF WithHeader, MaxStreamId
<1> HIDE DEF first, next
<1>4. PICK h : h = first \o next
  OBVIOUS
<1>5. /\ h \in Seq(Byte) /\ Len(h) = 5 /\ h[1] = first[1]
      /\ h[2] = next[1] /\ h[3] = next[2] /\ h[4] = next[3] /\ h[5] = next[4]
  <2>1. /\ h \in Seq(Byte) /\ Len(h) = Len(first) + Len(next)
        /\ \A k \in 1 .. Len(first) : h[k] = first[k]
        /\ \A k \in Len(first) + 1 .. Len(first) + Len(next) : h[k] = next[k - Len(first)]
    BY ONLY <1>1, <1>2, <1>4, ConcatRead, Zenon
  <2> QED
    BY ONLY <1>1, <1>2, <2>1
<1>6. /\ m \in Seq(Byte) /\ Len(m) = Len(h) + Len(payload)
      /\ \A k \in 1 .. Len(h) : m[k] = h[k]
      /\ \A k \in Len(h) + 1 .. Len(h) + Len(payload) : m[k] = payload[k - Len(h)]
  <2>1. m = h \o payload /\ h \in Seq(Byte) /\ payload \in Seq(Byte)
    BY <1>3, <1>4, <1>5, Zenon
  <2> QED
    BY ONLY <2>1, ConcatRead, Zenon
<1>7. /\ Len(m) = 5 + Len(payload) /\ m[1] = first[1]
      /\ m[2] = next[1] /\ m[3] = next[2] /\ m[4] = next[3] /\ m[5] = next[4]
  BY ONLY <1>5, <1>6
<1>8. SubSeq(m, 6, Len(m)) = payload
  BY ONLY <1>5, <1>6, payload \in Seq(Byte)
<1>9. FromUint32(m) = f.streamId
  <2>1. m \in Seq(Byte) /\ Len(m) >= 5
    BY ONLY <1>6, <1>7, payload \in Seq(Byte)
  <2> QED
    BY <1>7, <2>1, Uint32RoundTrip DEF next
<1> QED
  BY <1>1, <1>6, <1>7, <1>8, <1>9

LEMMA TypeBytes ==
    /\ DOMAIN TypeByte = MetaTypes \cup {"body-chunk", "body-end", "ws-data"}
    /\ \A a, b \in DOMAIN TypeByte : TypeByte[a] = TypeByte[b] => a = b
    /\ TypeByte["body-chunk"] = 2 /\ TypeByte["body-end"] = 3 /\ TypeByte["ws-data"] = 7
  BY DEF TypeByte, MetaTypes

LEMMA TypeRead ==
    ASSUME NEW type \in DOMAIN TypeByte
    PROVE  TypeOf(TypeByte[type]) = type
  BY TypeBytes DEF TypeOf

\* No metadata has a field by the name of one in the header.
LEMMA FieldsApart ==
    ASSUME NEW f \in MetaFrame
    PROVE  "type" \notin DOMAIN f.meta /\ "streamId" \notin DOMAIN f.meta
<1>1. f.type \in MetaTypes /\ DOMAIN f.meta \subseteq Fields(f.type) \cup {"target"}
  BY DEF MetaFrame, Carries
<1>2. \A type \in MetaTypes : "type" \notin Fields(type) /\ "streamId" \notin Fields(type)
  BY DEF MetaTypes, Fields
<1> QED  BY <1>1, <1>2

\* What is stringified of a frame is read back: the fields that are picked are
\* those it has, and none is taken for the header's.
LEMMA MetaRead ==
    ASSUME NEW f \in MetaFrame
    PROVE  ParsedMeta(f.type, f.streamId, JsonParse(Json[f.meta])) = f
<1>1. PICK a : a = f.meta
  OBVIOUS
<1>2. /\ f = [type |-> f.type, streamId |-> f.streamId, meta |-> a]
      /\ a \in Meta /\ f.type \in MetaTypes
      /\ DOMAIN a = Fields(f.type) \cup (IF Targeted(f.type, a) THEN {"target"} ELSE {})
  BY <1>1 DEF MetaFrame, Carries
<1>3. JsonParse(Json[a]) = a /\ a # Null /\ a # Thrown /\ a = [name \in DOMAIN a |-> a[name]]
  BY <1>2, JsonAssumption
<1>4. CASE f.type \in {"resp-head", "close-stream"}
  <2>1. "type" \notin DOMAIN a /\ "streamId" \notin DOMAIN a
    BY <1>1, FieldsApart
  <2>2. Spread(a, [type |-> f.type, streamId |-> f.streamId])
          = [type |-> f.type, streamId |-> f.streamId, meta |-> [name \in DOMAIN a |-> a[name]]]
    BY <1>3, <2>1 DEF Spread
  <2> QED  BY <1>1, <1>2, <1>3, <1>4, <2>2 DEF ParsedMeta
<1>5. CASE f.type \notin {"resp-head", "close-stream"}
  <2>1. Picked(f.type, a) = [name \in DOMAIN a |-> a[name]]
    BY <1>2 DEF Picked
  <2> QED  BY <1>1, <1>2, <1>3, <1>5, <2>1 DEF ParsedMeta
<1> QED  BY <1>4, <1>5

LEMMA FrameKinds ==
    ASSUME NEW f \in WireFrame
    PROVE  /\ f.type \in DOMAIN TypeByte /\ f.streamId \in Nat
           /\ \/ f \in MetaFrame /\ f.type \in MetaTypes
              \/ f \in ChunkFrame /\ f.type = "body-chunk"
              \/ f \in EndFrame /\ f.type = "body-end"
              \/ f \in DataFrame /\ f.type = "ws-data"
  BY TypeBytes DEF WireFrame, MetaFrame, ChunkFrame, EndFrame, DataFrame

\* A message's binary flag and its data.
LEMMA FlagRead ==
    ASSUME NEW f \in DataFrame
    PROVE  /\ Payload(f) \in Seq(Byte) /\ Len(Payload(f)) = 1 + Len(f.data)
           /\ (Payload(f)[1] = 1) = f.isBinary
           /\ SubSeq(Payload(f), 2, Len(Payload(f))) = f.data
<1>1. PICK flag : flag = <<Flag(f.isBinary)>>
  OBVIOUS
<1>2. PICK p : p = Payload(f)
  OBVIOUS
<1>3. /\ flag \in Seq(Byte) /\ Len(flag) = 1 /\ (flag[1] = 1) = f.isBinary
      /\ f.data \in Seq(Byte)
  BY <1>1, WireAssumption DEF DataFrame, Flag, Byte
<1>4. p = flag \o f.data
  <2>1. f.type = "ws-data"
    BY DEF DataFrame
  <2> QED
    BY <1>1, <1>2, <2>1 DEF Payload, MetaTypes
<1>5. PICK data : data = f.data
  OBVIOUS
<1>6. /\ p \in Seq(Byte) /\ Len(p) = Len(flag) + Len(data)
      /\ \A k \in 1 .. Len(flag) : p[k] = flag[k]
      /\ \A k \in Len(flag) + 1 .. Len(flag) + Len(data) : p[k] = data[k - Len(flag)]
  BY ONLY <1>3, <1>4, <1>5, ConcatRead, Zenon
<1>7. /\ Len(p) = 1 + Len(data) /\ (p[1] = 1) = f.isBinary
      /\ SubSeq(p, 2, Len(p)) = data
  BY ONLY <1>3, <1>5, <1>6
<1> QED
  BY ONLY <1>2, <1>5, <1>6, <1>7, Zenon

LEMMA PayloadBytes ==
    ASSUME NEW f \in WireFrame
    PROVE  Payload(f) \in Seq(Byte)
<1>1. CASE f \in MetaFrame /\ f.type \in MetaTypes
  BY <1>1, JsonAssumption DEF Payload, MetaFrame, MetaTypes
<1>2. CASE f \in ChunkFrame /\ f.type = "body-chunk"
  BY <1>2 DEF Payload, ChunkFrame, MetaTypes
<1>3. CASE f \in EndFrame /\ f.type = "body-end"
  BY <1>3 DEF Payload, MetaTypes
<1>4. CASE f \in DataFrame /\ f.type = "ws-data"
  BY <1>4, FlagRead
<1> QED
  BY <1>1, <1>2, <1>3, <1>4, FrameKinds

LEMMA FrameRead ==
    ASSUME NEW f \in WireFrame
    PROVE  Parsed(f.type, f.streamId, Payload(f)) = f
<1>1. CASE f \in MetaFrame /\ f.type \in MetaTypes
  <2>1. Payload(f) = Json[f.meta]
    BY <1>1 DEF Payload, MetaTypes
  <2>2. Parsed(f.type, f.streamId, Payload(f)) = ParsedMeta(f.type, f.streamId, JsonParse(Payload(f)))
    BY <1>1 DEF Parsed, MetaTypes
  <2> QED
    BY <1>1, <2>1, <2>2, MetaRead
<1>2. CASE f \in ChunkFrame /\ f.type = "body-chunk"
  BY <1>2 DEF Parsed, Payload, ChunkFrame, MetaTypes
<1>3. CASE f \in EndFrame /\ f.type = "body-end"
  BY <1>3 DEF Parsed, Payload, EndFrame, MetaTypes
<1>4. CASE f \in DataFrame /\ f.type = "ws-data"
  <2>1. /\ Len(Payload(f)) >= 1 /\ (Payload(f)[1] = 1) = f.isBinary
        /\ SubSeq(Payload(f), 2, Len(Payload(f))) = f.data
    <3>1. Len(f.data) \in Nat
      BY <1>4 DEF DataFrame
    <3> QED
      BY <1>4, <3>1, FlagRead
  <2> QED
    BY <1>4, <2>1 DEF Parsed, DataFrame, MetaTypes
<1> QED
  BY <1>1, <1>2, <1>3, <1>4, FrameKinds

-----------------------------------------------------------------------------
\* encodeFrame and decodeFrame agree on every frame that can be sent: the other
\* end acts on what was meant, for the stream it was meant for, and what does not
\* throw is never taken for a malformed message.
THEOREM RoundTrip ==
    ASSUME NEW f \in WireFrame, Encodable(f)
    PROVE  /\ EncodeFrame(f) \in Seq(Byte)
           /\ Len(EncodeFrame(f)) = 5 + Len(Payload(f))
           /\ DecodeFrame(EncodeFrame(f)) = f
<1>1. PICK m : m = EncodeFrame(f)
  OBVIOUS
<1>2. /\ f.type \in DOMAIN TypeByte /\ f.streamId \in 0 .. MaxStreamId
      /\ m = WithHeader(f, Payload(f))
  <2>1. f.type \in DOMAIN TypeByte /\ f.streamId \in 0 .. MaxStreamId
    BY FrameKinds, WireAssumption DEF Encodable, MaxStreamId
  <2>2. CASE f.type = "body-chunk"
    <3>1. f.data \in Seq(Byte)
      BY <2>2, FrameKinds DEF ChunkFrame, MetaTypes
    <3>2. ~ (Len(f.data) > MaxChunk)
      BY <2>2, <3>1, WireAssumption DEF Encodable
    <3> QED
      BY <1>1, <2>1, <3>2 DEF EncodeFrame
  <2>3. CASE f.type # "body-chunk"
    BY <1>1, <2>1, <2>3 DEF EncodeFrame
  <2> QED
    BY <2>2, <2>3
<1>3. /\ m \in Seq(Byte) /\ Len(m) = 5 + Len(Payload(f))
      /\ m[1] = TypeByte[f.type] /\ FromUint32(m) = f.streamId
      /\ SubSeq(m, 6, Len(m)) = Payload(f)
  BY <1>2, PayloadBytes, HeaderRead, Zenon
<1>4. ~ (Len(m) < 5)
  BY <1>3, PayloadBytes
<1>5. DecodeFrame(m) = Parsed(f.type, f.streamId, Payload(f))
  BY <1>2, <1>3, <1>4, TypeRead DEF DecodeFrame
<1> QED
  BY <1>1, <1>3, <1>5, FrameRead, Zenon

\* Whatever the message, decodeFrame throws or returns what a receiver may rely
\* on; it checks nothing of the JSON, so no more than that.
THEOREM DecodedKeepsHeader ==
    ASSUME NEW m \in Seq(Byte), DecodeFrame(m) # Thrown
    PROVE  KeepsHeader(DecodeFrame(m), m)
<1> DEFINE type == TypeOf(m[1])  id == FromUint32(m)  payload == SubSeq(m, 6, Len(m))
<1>1. /\ Len(m) >= 5 /\ type \in DOMAIN TypeByte
      /\ DecodeFrame(m) = Parsed(type, id, payload)
  BY DEF DecodeFrame, TypeOf
<1>2. id \in Nat
  <2>1. m[2] \in Nat /\ m[3] \in Nat /\ m[4] \in Nat /\ m[5] \in Nat
    <3>1. 2 \in DOMAIN m /\ 3 \in DOMAIN m /\ 4 \in DOMAIN m /\ 5 \in DOMAIN m
      <4>1. Len(m) \in Nat /\ DOMAIN m = 1..Len(m) /\ Len(m) >= 5
        BY <1>1
      <4> QED  BY <4>1
    <3>2. \A k \in DOMAIN m : m[k] \in Byte
      OBVIOUS
    <3>3. \A b \in Byte : b \in Nat
      BY DEF Byte
    <3> QED  BY <3>1, <3>2, <3>3, Zenon
  <2>2. ASSUME NEW n \in Nat, NEW d \in Nat PROVE n * Base + d \in Nat
    BY WireAssumption
  <2>3. (m[2] * Base + m[3]) * Base + m[4] \in Nat
    BY <2>1, <2>2, Zenon
  <2>4. ((m[2] * Base + m[3]) * Base + m[4]) * Base + m[5] \in Nat
    BY <2>1, <2>2, <2>3, Zenon
  <2> QED
    BY <2>4 DEF FromUint32
<1>3. payload \in Seq(Byte)
  BY <1>1
<1>4. PICK f : f = DecodeFrame(m)
  OBVIOUS
<1>5. PICK value : value = JsonParse(payload)
  OBVIOUS
<1> HIDE DEF type, id, payload
<1>6. CASE type \in {"open-http", "open-ws", "ws-open-ack"}
  <2>1. f = [type |-> type, streamId |-> id, meta |-> Picked(type, value)]
    <3>1. f = ParsedMeta(type, id, value) /\ f # Thrown
      BY <1>1, <1>4, <1>5, <1>6 DEF Parsed, MetaTypes
    <3> QED  BY <1>6, <3>1 DEF ParsedMeta
  <2>2. Carries(type, Picked(type, value))
    <3> DEFINE fields == Fields(type) \cup (IF Targeted(type, value) THEN {"target"} ELSE {})
    <3>1. DOMAIN Picked(type, value) = fields
      BY DEF Picked
    <3>2. "target" \notin Fields(type)
      BY <1>6 DEF Fields
    <3>3. Targeted(type, Picked(type, value)) <=> Targeted(type, value)
      BY <3>1, <3>2 DEF Targeted, Picked
    <3> QED  BY <3>1, <3>3 DEF Carries
  <2> QED  BY <1>4, <1>5, <1>6, <2>1, <2>2 DEF KeepsHeader, MetaTypes, type, id
<1>7. CASE type \in {"resp-head", "close-stream"}
  <2>1. f = Spread(value, [type |-> type, streamId |-> id])
    BY <1>1, <1>4, <1>5, <1>7 DEF Parsed, ParsedMeta, MetaTypes
  <2>2. ASSUME value = Null \/ {"type", "streamId"} \cap DOMAIN value = {}
        PROVE  f.type = type /\ f.streamId = id
    BY <2>1, <2>2 DEF Spread
  <2> QED  BY <1>4, <1>5, <1>7, <2>2 DEF KeepsHeader, MetaTypes, type, id, payload
<1>8. CASE type \notin MetaTypes
  <2>1. f \in WireFrame /\ f.type = type /\ f.streamId = id
    <3>1. CASE type = "body-chunk"
      BY <1>1, <1>2, <1>3, <1>4, <3>1 DEF Parsed, MetaTypes, WireFrame, ChunkFrame
    <3>2. CASE type = "body-end"
      BY <1>1, <1>2, <1>4, <3>2 DEF Parsed, MetaTypes, WireFrame, EndFrame
    <3>3. CASE type = "ws-data"
      <4>1. Len(payload) >= 1 /\ SubSeq(payload, 2, Len(payload)) \in Seq(Byte)
        BY <1>1, <1>3, <3>3 DEF Parsed, MetaTypes
      <4> QED
        BY <1>1, <1>2, <1>4, <3>3, <4>1 DEF Parsed, MetaTypes, WireFrame, DataFrame
    <3> QED  BY <1>1, <1>8, <3>1, <3>2, <3>3, TypeBytes
  <2>2. type \notin {"open-http", "open-ws", "ws-open-ack", "resp-head", "close-stream"}
    BY <1>8 DEF MetaTypes
  <2> QED  BY <1>4, <2>1, <2>2 DEF KeepsHeader, type, id
<1> QED
  BY <1>6, <1>7, <1>8 DEF MetaTypes

\* A socket's message is let through exactly when it is no longer than a chunk:
\* the limit of the client has room for the header and the binary flag.
THEOREM MessagesFit ==
    ASSUME NEW f \in DataFrame, f.streamId <= MaxStreamId
    PROVE  ClientAccepts(EncodeFrame(f)) <=> Len(f.data) <= MaxChunk
<1>1. f \in WireFrame /\ Encodable(f) /\ Len(f.data) \in Nat
  BY DEF WireFrame, DataFrame, Encodable
<1>2. Len(EncodeFrame(f)) = 5 + (1 + Len(f.data))
  BY <1>1, RoundTrip, FlagRead, Zenon
<1> QED
  BY <1>1, <1>2, WireAssumption DEF ClientAccepts

-----------------------------------------------------------------------------
\* Bodies.

\* Where a chunk ends.
End(data, i) == IF i * MaxChunk < Len(data) THEN i * MaxChunk ELSE Len(data)

LEMMA ChunkBounds ==
    ASSUME NEW id \in Nat, NEW data \in Seq(Byte), NEW i \in DOMAIN ChunkBody(id, data)
    PROVE  /\ i \in 1 .. Len(data) /\ (i - 1) * MaxChunk \in Nat
           /\ (i - 1) * MaxChunk < End(data, i) /\ End(data, i) <= Len(data)
           /\ End(data, i) - (i - 1) * MaxChunk \in 1 .. MaxChunk
<1>1. /\ i \in 1 .. Len(data) /\ (i - 1) * MaxChunk < Len(data)
      /\ Len(data) \in Nat /\ MaxChunk \in Nat \ {0}
  BY WireAssumption DEF ChunkBody
<1>2. (i - 1) * MaxChunk \in Nat /\ i * MaxChunk = (i - 1) * MaxChunk + MaxChunk
  BY <1>1
<1>3. PICK start : start = (i - 1) * MaxChunk
  OBVIOUS
<1>4. PICK end : end = End(data, i)
  OBVIOUS
<1>5. end = IF start + MaxChunk < Len(data) THEN start + MaxChunk ELSE Len(data)
  BY <1>2, <1>3, <1>4 DEF End
<1>6. start < end /\ end <= Len(data) /\ end - start \in 1 .. MaxChunk
  <2>1. start \in Nat /\ start < Len(data)
    BY <1>1, <1>2, <1>3
  <2> QED
    BY ONLY <1>1, <1>5, <2>1
<1> QED
  BY ONLY <1>1, <1>2, <1>3, <1>4, <1>6, Zenon

LEMMA ChunkRead ==
    ASSUME NEW id \in Nat, NEW data \in Seq(Byte), NEW i \in DOMAIN ChunkBody(id, data)
    PROVE  LET chunk == ChunkBody(id, data)[i]
           IN  /\ chunk \in ChunkFrame /\ chunk.type = "body-chunk" /\ chunk.streamId = id
               /\ Len(chunk.data) = End(data, i) - (i - 1) * MaxChunk
               /\ \A j \in 1 .. Len(chunk.data) : chunk.data[j] = data[(i - 1) * MaxChunk + j]
<1> DEFINE chunk == ChunkBody(id, data)[i]
<1>1. PICK start : start = (i - 1) * MaxChunk
  OBVIOUS
<1>2. PICK end : end = End(data, i)
  OBVIOUS
<1>3. PICK part : part = SubSeq(data, start + 1, end)
  OBVIOUS
<1>4. chunk = [type |-> "body-chunk", streamId |-> id, data |-> part]
  BY <1>1, <1>2, <1>3 DEF ChunkBody, End
<1>5. start \in Nat /\ end \in Nat /\ start < end /\ end <= Len(data)
  <2>1. /\ start \in Nat /\ start < end /\ end <= Len(data)
        /\ end - start \in 1 .. MaxChunk
    BY <1>1, <1>2, ChunkBounds, Zenon
  <2>2. end \in Nat
    <3>1. i * MaxChunk \in Nat
      BY WireAssumption DEF ChunkBody
    <3> QED
      BY <1>2, <3>1 DEF End
  <2> QED
    BY <2>1, <2>2
<1>6. /\ part \in Seq(Byte) /\ Len(part) = end - start
      /\ \A j \in 1 .. Len(part) : part[j] = data[start + j]
  BY <1>3, <1>5
<1> HIDE DEF chunk
<1>7. /\ chunk \in ChunkFrame /\ chunk.type = "body-chunk" /\ chunk.streamId = id
      /\ chunk.data = part
  BY <1>4, <1>6 DEF ChunkFrame
<1> QED
  BY <1>1, <1>2, <1>6, <1>7 DEF chunk

\* Every chunk of a body, of whatever size and up to the last one, can be sent,
\* is let through by the client and arrives as it was cut.
THEOREM ChunksArrive ==
    ASSUME NEW id \in 0 .. MaxStreamId, NEW data \in Seq(Byte),
           NEW i \in DOMAIN ChunkBody(id, data)
    PROVE  LET chunk == ChunkBody(id, data)[i]
           IN  /\ ClientAccepts(EncodeFrame(chunk))
               /\ DecodeFrame(EncodeFrame(chunk)) = chunk
<1>0. id \in Nat /\ id <= MaxStreamId
  BY WireAssumption DEF MaxStreamId
<1>1. PICK chunk : chunk = ChunkBody(id, data)[i]
  OBVIOUS
<1>2. /\ chunk \in ChunkFrame /\ chunk.type = "body-chunk" /\ chunk.streamId = id
      /\ Len(chunk.data) \in 1 .. MaxChunk
  <2>1. /\ chunk \in ChunkFrame /\ chunk.type = "body-chunk" /\ chunk.streamId = id
        /\ Len(chunk.data) = End(data, i) - (i - 1) * MaxChunk
    BY <1>0, <1>1, ChunkRead, Zenon
  <2>2. End(data, i) - (i - 1) * MaxChunk \in 1 .. MaxChunk
    BY <1>0, ChunkBounds, Zenon
  <2> QED  BY <2>1, <2>2, Zenon
<1>3. chunk \in WireFrame /\ Encodable(chunk)
  BY <1>0, <1>2, WireAssumption DEF WireFrame, Encodable
<1>4. Len(EncodeFrame(chunk)) = 5 + Len(chunk.data)
  BY <1>2, <1>3, RoundTrip DEF Payload, MetaTypes
<1> QED
  BY <1>1, <1>2, <1>3, <1>4, RoundTrip, WireAssumption DEF ClientAccepts

\* The chunks of a body in their order are the body: the j-th byte of the i-th
\* chunk is the body's at (i - 1) * MaxChunk + j, and no byte is left out.
THEOREM ChunksCover ==
    ASSUME NEW id \in Nat, NEW data \in Seq(Byte)
    PROVE  /\ \A i \in DOMAIN ChunkBody(id, data) :
                 \A j \in 1 .. Len(ChunkBody(id, data)[i].data) :
                    /\ j <= MaxChunk
                    /\ ChunkBody(id, data)[i].data[j] = data[(i - 1) * MaxChunk + j]
           /\ \A k \in 1 .. Len(data) :
                 \E i \in DOMAIN ChunkBody(id, data) :
                    \E j \in 1 .. Len(ChunkBody(id, data)[i].data) : k = (i - 1) * MaxChunk + j
<1>1. ASSUME NEW i \in DOMAIN ChunkBody(id, data),
             NEW j \in 1 .. Len(ChunkBody(id, data)[i].data)
      PROVE  j <= MaxChunk /\ ChunkBody(id, data)[i].data[j] = data[(i - 1) * MaxChunk + j]
  <2>1. Len(ChunkBody(id, data)[i].data) \in 1 .. MaxChunk
    BY ChunkRead, ChunkBounds
  <2>2. ChunkBody(id, data)[i].data[j] = data[(i - 1) * MaxChunk + j]
    BY ChunkRead
  <2> QED
    BY <2>1, <2>2, WireAssumption
<1>2. ASSUME NEW k \in 1 .. Len(data)
      PROVE  \E i \in DOMAIN ChunkBody(id, data) :
                \E j \in 1 .. Len(ChunkBody(id, data)[i].data) : k = (i - 1) * MaxChunk + j
  <2>1. PICK q, r : q = (k - 1) \div MaxChunk /\ r = (k - 1) % MaxChunk
    OBVIOUS
  <2>2. q \in Nat /\ r \in 0 .. MaxChunk - 1 /\ k - 1 = q * MaxChunk + r
    <3>1. k - 1 \in Nat /\ MaxChunk \in Nat \ {0}
      BY WireAssumption
    <3> QED
      BY <2>1, <3>1, DivMod
  <2>3. PICK start : start = q * MaxChunk
    OBVIOUS
  <2>4. start \in Nat /\ q <= start /\ start < k /\ k <= Len(data) /\ Len(data) \in Nat
    BY <2>2, <2>3, WireAssumption
  <2>5. q + 1 \in DOMAIN ChunkBody(id, data)
    BY <2>2, <2>3, <2>4 DEF ChunkBody
  <2>6. Len(ChunkBody(id, data)[q + 1].data) = End(data, q + 1) - start
    <3>1. (q + 1) - 1 = q
      BY <2>2
    <3> QED
      BY <2>3, <2>5, <3>1, ChunkRead
  <2>7. r + 1 \in 1 .. Len(ChunkBody(id, data)[q + 1].data)
    <3>1. (q + 1) * MaxChunk = start + MaxChunk
      BY <2>2, <2>3, WireAssumption
    <3> QED
      BY <2>2, <2>3, <2>4, <2>6, <3>1, WireAssumption DEF End
  <2>8. k = ((q + 1) - 1) * MaxChunk + (r + 1)
    <3>1. (q + 1) - 1 = q /\ k = start + r + 1
      BY <2>2, <2>3, <2>4
    <3> QED
      BY ONLY <2>2, <2>3, <2>4, <3>1
  <2> QED
    BY ONLY <2>5, <2>7, <2>8, Zenon
<1> QED
  BY <1>1, <1>2
=============================================================================
