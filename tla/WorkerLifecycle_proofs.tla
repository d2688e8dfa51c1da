----------------------- MODULE WorkerLifecycle_proofs -----------------------
(***************************************************************************)
(* What holds of the owner's connections for any number of connections,    *)
(* hostnames, relays, deployment attempts and probes.                      *)
(***************************************************************************)
EXTENDS WorkerLifecycle, Filters_proofs

-----------------------------------------------------------------------------
\* The inductive invariant.

Snapshots == [connections : Seq(Record), default : Id \cup {None}]

Mutation == [kind : {"none", "register", "remove", "default"},
             stage : {"idle", "deploying", "identity", "pairing", "saving", "saved"},
             record : SUBSET Record, next : Snapshots, deployment : SUBSET Deployment]

Types ==
    /\ saved \in Snapshots
    /\ initialization \in {"none", "loading", "done", "failed"}
    /\ connections \in Seq(Record) /\ defaultId \in Id \cup {None}
    /\ candidates \in SUBSET Id
    /\ runtime \in [Id -> Runtime]
    /\ mutation \in Mutation
    /\ aborted \in BOOLEAN

\* The stages at which register has let its candidate dial.
Dialling == {"pairing", "saving", "saved"}

\* Which stages a kind of mutation has, and who is a candidate during them.
Stages ==
    /\ mutation.kind = "none" <=> mutation.stage = "idle"
    /\ mutation.kind \in {"remove", "default"} => mutation.stage \in {"saving", "saved"}
    /\ mutation.stage # "idle" => initialization = "done"
    /\ candidates = IF mutation.kind = "register" /\ mutation.stage \in Dialling
                    THEN {r.id : r \in mutation.record} ELSE {}

\* Nothing is served before the record is loaded.
NothingBefore == initialization # "done" => connections = <<>> /\ defaultId = None

\* What is being registered stays new, and there stays room for it.
StaysNew(new) ==
    /\ mutation.record = {new}
    /\ new.id \notin IdsOf(connections)
    /\ \A r \in ToSet(connections) : r.host # new.host
    /\ mutation.stage \in Dialling => \A r \in ToSet(connections) : r.relay # new.relay
    /\ mutation.stage \in {"saving", "saved"} =>
          IdsOf(mutation.next.connections) = IdsOf(connections) \cup {new.id}

Registration ==
    mutation.kind = "register" =>
        /\ Len(connections) < MaxConnections
        /\ mutation.stage # "deploying" => \E new \in Record : StaysNew(new)

AllValid ==
    /\ Valid(Snapshot(connections, defaultId))
    /\ mutation.stage \in {"saving", "saved"} => Valid(mutation.next)

SavedIsNext == mutation.stage = "saved" => saved = mutation.next

\* A runtime that is Ready, or whose probe may still make it so, is connected.
Sound(r) == r.state = "ready" \/ r.probe = "current" => r.tunnel.state = "connected"

AllSound == \A c \in Id : Sound(runtime[c])

\* What an attempt has left at Cloudflare when it makes each of its requests.
Reached(d) ==
    /\ d.step \in {"challenge", "previews"} => d.account = "none"
    /\ d.step = "upload" => d.account = "empty"
    /\ d.step \in {"subdomain", "enable"} => d.account = "script"
    /\ d.step = "propagation" => d.account \in {"route", "serving"}
    /\ d.step = "returned" => d.account = "serving"

AllReached == \A d \in mutation.deployment : Reached(d)

LifecycleInv ==
    /\ Types /\ Stages /\ NothingBefore /\ Registration /\ AllValid
    /\ SavedIsNext /\ ConnectionsAreSaved
    /\ AllSound /\ QuietUnlessHeld /\ AllReached

-----------------------------------------------------------------------------
\* Runtimes.

LEMMA TunnelTypes ==
    /\ NewTunnel \in SharedTunnel /\ Started(NewTunnel) \in SharedTunnel
    /\ NewRuntime \in Runtime
    /\ Quiet(NoTunnel)
    /\ \A t : Stopped(t) \in SharedTunnel /\ Quiet(Stopped(t))
BY DEF NewTunnel, Started, Dialled, SharedTunnel, TunnelState, NewRuntime, Runtime, NoTunnel,
       Stopped, Quiet

LEMMA WithTunnelType ==
    ASSUME NEW r \in Runtime, NEW t \in SharedTunnel
    PROVE  WithTunnel(r, t) \in Runtime /\ WithTunnel(r, t).tunnel = t
<1>1. CASE t.state = r.tunnel.state
  BY <1>1 DEF WithTunnel, Runtime
<1>2. CASE t.state # r.tunnel.state
  <2> DEFINE w == [state |-> Observed(t.state), tunnel |-> t,
                   probe |-> IF r.probe # "none" THEN "stale"
                             ELSE IF t.state = "connected" /\ ~aborted THEN "current" ELSE "none"]
  <2>1. WithTunnel(r, t) = w
    BY <1>2 DEF WithTunnel
  <2>2. Observed(t.state) \in {"connecting", "ready", "offline", "incompatible"}
    BY DEF Observed
  <2> QED  BY <2>1, <2>2 DEF Runtime
<1> QED  BY <1>1, <1>2

\* A change of the tunnel's state leaves neither Ready nor a probe that counts,
\* unless it is the one that connects.
LEMMA WithTunnelSound ==
    ASSUME NEW r \in Runtime, NEW t \in SharedTunnel, Sound(r)
    PROVE  Sound(WithTunnel(r, t))
<1>1. CASE t.state = r.tunnel.state
  BY <1>1 DEF WithTunnel, Runtime, Sound
<1>2. CASE t.state # r.tunnel.state
  BY <1>2 DEF WithTunnel, Runtime, Sound, Observed
<1> QED  BY <1>1, <1>2

LEMMA HaltedRuntime ==
    ASSUME NEW r \in Runtime
    PROVE  Halted(r) \in Runtime /\ Quiet(Halted(r).tunnel) /\ (Sound(r) => Sound(Halted(r)))
<1>1. CASE r.tunnel = NoTunnel
  BY <1>1, TunnelTypes DEF Halted
<1>2. CASE r.tunnel # NoTunnel
  <2> DEFINE t == Stopped(r.tunnel)
  <2>1. t \in SharedTunnel /\ Quiet(t) /\ Halted(r) = WithTunnel(r, t)
    BY <1>2, TunnelTypes DEF Halted
  <2> HIDE DEF t
  <2> QED  BY <2>1, WithTunnelType, WithTunnelSound
<1> QED  BY <1>1, <1>2

LEMMA ConnectedRuntime ==
    /\ Connected(NewRuntime) \in Runtime
    /\ Sound(Connected(NewRuntime))
    /\ aborted => Quiet(Connected(NewRuntime).tunnel)
<1>1. CASE aborted
  <2>1. Connected(NewRuntime) = NewRuntime
    BY <1>1 DEF Connected
  <2>2. Sound(NewRuntime) /\ NewRuntime.tunnel = NoTunnel
    BY DEF Sound, NewRuntime
  <2> QED  BY <2>1, <2>2, TunnelTypes
<1>2. CASE ~aborted
  <2> DEFINE r == [NewRuntime EXCEPT !.tunnel = NewTunnel]
             t == Started(NewTunnel)
  <2>1. Connected(NewRuntime) = WithTunnel(r, t)
    BY <1>2 DEF Connected
  <2>2. r \in Runtime /\ Sound(r)
    BY TunnelTypes DEF NewRuntime, Runtime, Sound
  <2>3. t \in SharedTunnel
    BY TunnelTypes
  <2> HIDE DEF r, t
  <2> QED  BY <1>2, <2>1, <2>2, <2>3, WithTunnelType, WithTunnelSound
<1> QED  BY <1>1, <1>2

\* What is quiet stays quiet by itself.
LEMMA QuietStays ==
    ASSUME NEW t, Quiet(t), NEW t2,
           Connects(t, t2) \/ Rejected(t, t2) \/ Disconnects(t, t2) \/ Retries(t, t2)
    PROVE  FALSE
BY DEF Quiet, Connects, Rejected, Disconnects, Retries

-----------------------------------------------------------------------------
\* Deployments.

LEMMA AttemptReached ==
    ASSUME NEW n \in 1..MaxAttempts PROVE Attempt(n) \in Deployment /\ Reached(Attempt(n))
BY DeploymentAssumption DEF Attempt, Deployment, DeployStep, Reached

\* Each step of a deployment keeps what its requests may count on.
LEMMA DeploysReached ==
    ASSUME NEW d \in Deployment, NEW d2 \in Deployment, Reached(d),
           Deploys(d, d2) \/ RoutePropagates(d, d2)
    PROVE  Reached(d2)
<1>0. Reached(Failed(d)) /\ Reached(Failed(CarriedOut(d)))
  BY DEF Failed, CarriedOut, Deployment, Reached
<1>1. CASE RequestAnswered(d, d2)
  BY <1>1 DEF RequestAnswered, Requests, After, CarriedOut, Deployment, DeployStep, Reached
<1>2. CASE RequestLost(d, d2)
  <2> SUFFICES ASSUME NEW e \in {d, CarriedOut(d)}, d2 = TriedAgain(e) PROVE Reached(d2)
    BY <1>2 DEF RequestLost
  <2>1. e.attempt = d.attempt /\ d.attempt \in 1..MaxAttempts /\ MaxAttempts \in Nat
    BY DeploymentAssumption DEF CarriedOut, Deployment
  <2>2. CASE e.attempt = MaxAttempts
    BY <1>0, <2>2 DEF TriedAgain
  <2>3. CASE e.attempt # MaxAttempts
    <3>1. e.attempt + 1 \in 1..MaxAttempts
      BY <2>1, <2>3
    <3> QED  BY <2>3, <3>1, AttemptReached DEF TriedAgain
  <2> QED  BY <2>2, <2>3
<1>3. CASE RequestRefused(d, d2)
  BY <1>0, <1>3 DEF RequestRefused
<1>4. CASE ProbeIdentifies(d, d2)
  BY <1>4 DEF ProbeIdentifies, Identified, Deployment, Reached
<1>5. CASE ProbeMisses(d, d2)
  BY <1>5 DEF ProbeMisses, Failed, Deployment, Reached
<1>6. CASE RoutePropagates(d, d2)
  BY <1>6 DEF RoutePropagates, Deployment, Reached
<1> QED  BY <1>1, <1>2, <1>3, <1>4, <1>5, <1>6 DEF Deploys

-----------------------------------------------------------------------------
\* Types.

LEMMA NoMutationType == NoMutation \in Mutation
<1>1. <<>> \in Seq(Record)
  OBVIOUS
<1> QED  BY <1>1 DEF NoMutation, Mutation, Snapshots, Snapshot

LEMMA InitTypes == LifecycleInit => Types
<1>1. <<>> \in Seq(Record)
  OBVIOUS
<1>2. NewRuntime \in Runtime
  BY TunnelTypes
<1>3. Snapshot(<<>>, None) \in Snapshots
  BY <1>1 DEF Snapshots, Snapshot
<1>4. LifecycleInit => runtime \in [Id -> Runtime]
  BY <1>2 DEF LifecycleInit
<1> QED  BY <1>1, <1>3, <1>4, NoMutationType DEF LifecycleInit, Types

\* The elements of a sequence of records are records, and their ids are ids.
LEMMA RecordsOf ==
    ASSUME NEW rs \in Seq(Record)
    PROVE  ToSet(rs) \in SUBSET Record /\ IdsOf(rs) \in SUBSET Id
<1>1. ToSet(rs) \in SUBSET Record
  BY DEF ToSet
<1> QED  BY <1>1 DEF IdsOf, Record

LEMMA RegistersType ==
    ASSUME Types, NEW h \in Host, NEW i \in RelayId, Registers(h, i)
    PROVE  Types'
<1>1. PICK c \in Id :
        mutation' = [NoMutation EXCEPT !.kind = "register", !.stage = "identity",
                        !.record = {[id |-> c, host |-> h, relay |-> i]}]
  BY DEF Registers
<1>2. {[id |-> c, host |-> h, relay |-> i]} \in SUBSET Record
  BY DEF Record
<1>3. mutation' \in Mutation
  BY <1>1, <1>2, NoMutationType DEF Mutation
<1> QED  BY <1>3 DEF Registers, Types, served

LEMMA AbandonType ==
    ASSUME Types, Abandon
    PROVE  /\ runtime' \in [Id -> Runtime]
           /\ candidates' = {} /\ mutation' = NoMutation /\ mutation' \in Mutation
<1>1. \A c \in Id : Halted(runtime[c]) \in Runtime
  BY HaltedRuntime DEF Types
<1> QED  BY <1>1, NoMutationType DEF Abandon, NoLongerCandidates, Types

\* What the owner begins.
LEMMA BeginsTypes ==
    ASSUME Types,
           \/ \E h \in Host : RegisterBegins(h)
           \/ DeployBegins
           \/ \E c \in Id : RemoveBegins(c) \/ SetDefaultBegins(c)
    PROVE  Types'
<1>1. CASE \E h \in Host : RegisterBegins(h)
  BY <1>1, RegistersType DEF RegisterBegins
<1>2. CASE DeployBegins
  <2>1. Attempt(1) \in Deployment
    <3>1. 1 \in 1..MaxAttempts
      BY DeploymentAssumption
    <3> QED  BY <3>1, AttemptReached
  <2>2. mutation' \in Mutation
    BY <1>2, <2>1, NoMutationType DEF DeployBegins, Mutation
  <2> QED  BY <1>2, <2>2 DEF DeployBegins, Types, served
<1>3. ASSUME NEW c \in Id, RemoveBegins(c) PROVE Types'
  <2> DEFINE rest == Among(connections, {r \in Record : r.id # c})
             default == IF defaultId # c THEN defaultId
                        ELSE IF rest = <<>> THEN None ELSE Head(rest).id
             record == {r \in ToSet(connections) : r.id = c}
  <2>1. rest \in Seq(Record)
    BY AmongFound DEF Types
  <2>2. default \in Id \cup {None}
    <3>1. rest # <<>> => Head(rest) \in Record
      BY <2>1
    <3> HIDE DEF rest
    <3> QED  BY <3>1 DEF Types, Record
  <2>3. record \in SUBSET Record
    BY RecordsOf DEF Types
  <2>4. mutation' = [NoMutation EXCEPT !.kind = "remove", !.stage = "saving",
                        !.record = record, !.next = Snapshot(rest, default)]
    BY <1>3 DEF RemoveBegins
  <2> HIDE DEF rest, default, record
  <2>5. mutation' \in Mutation
    BY <2>1, <2>2, <2>3, <2>4, NoMutationType DEF Mutation, Snapshots, Snapshot
  <2> QED  BY <1>3, <2>5 DEF RemoveBegins, Types, served
<1>4. ASSUME NEW c \in Id, SetDefaultBegins(c) PROVE Types'
  <2>1. mutation' \in Mutation
    BY <1>4, NoMutationType DEF SetDefaultBegins, Mutation, Snapshots, Snapshot, Types
  <2> QED  BY <1>4, <2>1 DEF SetDefaultBegins, Types, served
<1> QED  BY <1>1, <1>2, <1>3, <1>4

LEMMA MutationTypes ==
    ASSUME Types, MutationEnds \/ RelayAppears
    PROVE  Types'
<1>1. CASE DeploymentStep \/ RelayAppears
  <2>1. PICK d2 \in Deployment : DeploymentBecomes(d2)
    BY <1>1 DEF DeploymentStep, RelayAppears
  <2>2. mutation' \in Mutation
    BY <2>1 DEF DeploymentBecomes, Mutation, Types
  <2> QED  BY <2>1, <2>2 DEF DeploymentBecomes, Types, served
<1>2. CASE DeployReturns
  BY <1>2, RegistersType DEF DeployReturns
<1>3. CASE DeployFails \/ IdentityRefused
  BY <1>3, NoMutationType DEF DeployFails, IdentityRefused, Types, served
<1>4. CASE IdentityAccepted
  <2>1. PICK new \in mutation.record :
          /\ candidates' = candidates \cup {new.id}
          /\ runtime' = [runtime EXCEPT ![new.id] = Connected(NewRuntime)]
    BY <1>4 DEF IdentityAccepted
  <2>2. new \in Record /\ new.id \in Id
    BY DEF Types, Mutation, Record
  <2>3. runtime' \in [Id -> Runtime] /\ candidates' \in SUBSET Id
    BY <2>1, <2>2, ConnectedRuntime DEF Types
  <2>4. mutation' \in Mutation
    BY <1>4 DEF IdentityAccepted, Mutation, Types
  <2> QED  BY <1>4, <2>3, <2>4 DEF IdentityAccepted, Types, served
<1>5. CASE PairingDone
  <2>1. PICK new \in mutation.record :
          mutation' = [mutation EXCEPT !.stage = "saving", !.next =
             Snapshot(Append(connections, new), IF defaultId = None THEN new.id ELSE defaultId)]
    BY <1>5 DEF PairingDone
  <2>2. new \in Record /\ new.id \in Id
    BY DEF Types, Mutation, Record
  <2>3. Append(connections, new) \in Seq(Record)
    BY <2>2 DEF Types
  <2>4. mutation' \in Mutation
    BY <2>1, <2>2, <2>3 DEF Mutation, Snapshots, Snapshot, Types
  <2> QED  BY <1>5, <2>4 DEF PairingDone, Types, served
<1>6. CASE PairingFails \/ SaveFails \/ RegistrationStopped
  <2>1. Abandon
    BY <1>6 DEF PairingFails, SaveFails, RegistrationStopped
  <2> QED  BY <1>6, <2>1, AbandonType DEF PairingFails, SaveFails, RegistrationStopped, Types,
                                          served
<1>7. CASE SaveWritten
  <2>1. mutation' \in Mutation /\ saved' \in Snapshots
    BY <1>7 DEF SaveWritten, Mutation, Types
  <2> QED  BY <1>7, <2>1 DEF SaveWritten, Types, served
<1>8. CASE SaveDone
  <2>1. connections' \in Seq(Record) /\ defaultId' \in Id \cup {None}
    BY <1>8 DEF SaveDone, SavedDefault, Types, Mutation, Snapshots
  <2>2. \A c \in Id : Halted(runtime[c]) \in Runtime
    BY HaltedRuntime DEF Types
  <2>3. runtime' \in [Id -> Runtime]
    BY <1>8, <2>2 DEF SaveDone, Types
  <2> QED  BY <1>8, <2>1, <2>3, NoMutationType DEF SaveDone, Types
<1> QED  BY <1>1, <1>2, <1>3, <1>4, <1>5, <1>6, <1>7, <1>8 DEF MutationEnds

LEMMA OtherTypes ==
    ASSUME Types,
           \/ LoadBegins \/ LoadDone \/ LoadFails
           \/ \E c \in Id : TunnelStep(c) \/ Probe(c) \/ ProbeAnswers(c)
           \/ Stop \/ Restart
    PROVE  Types'
<1>1. CASE LoadBegins \/ LoadFails
  BY <1>1 DEF LoadBegins, LoadFails, Types, served
<1>2. CASE LoadDone
  <2>1. connections' \in Seq(Record) /\ defaultId' \in Id \cup {None}
    BY <1>2 DEF LoadDone, Types, Snapshots
  <2>2. runtime' \in [Id -> Runtime]
    BY <1>2, ConnectedRuntime DEF LoadDone, Types
  <2> QED  BY <1>2, <2>1, <2>2 DEF LoadDone, Types
<1>3. ASSUME NEW c \in Id, TunnelStep(c) PROVE Types'
  <2>1. PICK t2 \in SharedTunnel : runtime' = [runtime EXCEPT ![c] = WithTunnel(@, t2)]
    BY <1>3 DEF TunnelStep
  <2>2. WithTunnel(runtime[c], t2) \in Runtime
    BY WithTunnelType DEF Types
  <2>3. runtime' \in [Id -> Runtime]
    BY <2>1, <2>2 DEF Types
  <2> QED  BY <1>3, <2>3 DEF TunnelStep, Types, served
<1>4. ASSUME NEW c \in Id, Probe(c) PROVE Types'
  <2>1. runtime' \in [Id -> Runtime]
    BY <1>4 DEF Probe, Types, Runtime
  <2> QED  BY <1>4, <2>1 DEF Probe, Types, served
<1>5. ASSUME NEW c \in Id, ProbeAnswers(c) PROVE Types'
  <2>1. PICK state \in {"ready", "offline"} :
          runtime' = [runtime EXCEPT ![c].probe = Cleared(c),
                                     ![c].state = IF Outdated(c) THEN @ ELSE state]
    BY <1>5 DEF ProbeAnswers
  <2>2. runtime' \in [Id -> Runtime]
    <3>1. runtime[c] \in Runtime
      BY DEF Types
    <3> DEFINE kept == [runtime[c] EXCEPT !.probe = Cleared(c),
                                          !.state = IF Outdated(c) THEN runtime[c].state ELSE state]
    <3>2. kept \in Runtime
      BY <3>1 DEF Runtime, Cleared
    <3>3. runtime' = [runtime EXCEPT ![c] = kept]
      BY <2>1
    <3> HIDE DEF kept
    <3> QED  BY <3>2, <3>3 DEF Types
  <2> QED  BY <1>5, <2>2 DEF ProbeAnswers, Types, served
<1>6. CASE Stop
  <2>1. \A c \in Id : Halted(runtime[c]) \in Runtime
    BY HaltedRuntime DEF Types
  <2>2. runtime' \in [Id -> Runtime]
    BY <1>6, <2>1 DEF Stop, Types
  <2> QED  BY <1>6, <2>2 DEF Stop, Types, served
<1>7. CASE Restart
  <2>1. <<>> \in Seq(Record)
    OBVIOUS
  <2>2. runtime' \in [Id -> Runtime]
    BY <1>7, TunnelTypes DEF Restart
  <2> QED  BY <1>7, <2>1, <2>2, NoMutationType DEF Restart, Types
<1> QED  BY <1>1, <1>2, <1>3, <1>4, <1>5, <1>6, <1>7

LEMMA TypesKept == Types /\ [LifecycleNext]_vars => Types'
<1> SUFFICES ASSUME Types, [LifecycleNext]_vars PROVE Types'
  OBVIOUS
<1>1. CASE UNCHANGED vars
  BY <1>1 DEF vars, served, Types
<1> QED  BY <1>1, BeginsTypes, MutationTypes, OtherTypes DEF LifecycleNext

-----------------------------------------------------------------------------
\* Stages, and what is registered.

\* The ids of records, one more record or one fewer.
LEMMA IdsAppended ==
    ASSUME NEW rs \in Seq(Record), NEW new \in Record
    PROVE  IdsOf(Append(rs, new)) = IdsOf(rs) \cup {new.id}
<1> DEFINE t == Append(rs, new)
<1>1. /\ Len(rs) \in Nat /\ DOMAIN t = 1..(Len(rs) + 1) /\ t[Len(rs) + 1] = new
      /\ DOMAIN rs = 1..Len(rs) /\ \A i \in 1..Len(rs) : t[i] = rs[i]
  OBVIOUS
<1> HIDE DEF t
<1>2. \A i \in DOMAIN t : i \in 1..Len(rs) \/ i = Len(rs) + 1
  BY <1>1
<1>3. Len(rs) + 1 \in DOMAIN t /\ DOMAIN rs \subseteq DOMAIN t
  BY <1>1
<1>4. ToSet(t) = ToSet(rs) \cup {new}
  BY <1>1, <1>2, <1>3 DEF ToSet
<1> QED  BY <1>4 DEF IdsOf, t

LEMMA InitStages == LifecycleInit => Stages /\ NothingBefore /\ Registration
BY DEF LifecycleInit, NoMutation, Stages, NothingBefore, Registration, Dialling

\* What was taken from the connections stays new to them while they do not change.
LEMMA StaysNewKept ==
    ASSUME Registration, connections' = connections, mutation'.kind = mutation.kind,
           mutation'.record = mutation.record, mutation.stage # "deploying",
           mutation'.stage \in {"saving", "saved"} => mutation'.next = mutation.next,
           \/ mutation'.stage = mutation.stage
           \/ mutation.stage = "saving" /\ mutation'.stage = "saved"
    PROVE  Registration'
<1> SUFFICES ASSUME mutation.kind = "register"
             PROVE  Len(connections) < MaxConnections /\ \E new \in Record : StaysNew(new)'
  BY DEF Registration
<1>1. PICK new \in Record : StaysNew(new)
  BY DEF Registration
<1>2. StaysNew(new)'
  BY <1>1 DEF StaysNew, Dialling, IdsOf
<1> QED  BY <1>2 DEF Registration

\* No mutation: nothing to say of its stages.
LEMMA StagesIdle ==
    ASSUME mutation' = NoMutation, candidates' = {},
           initialization' # "done" => connections' = <<>> /\ defaultId' = None
    PROVE  Stages' /\ NothingBefore' /\ Registration'
BY DEF NoMutation, Stages, NothingBefore, Registration

\* Only register is ever at these stages.
LEMMA OnlyRegister ==
    ASSUME Types, Stages, mutation.stage \in {"deploying", "identity", "pairing"}
    PROVE  mutation.kind = "register"
BY DEF Types, Mutation, Stages

LEMMA RegistersStages ==
    ASSUME Types, Stages, NothingBefore, initialization = "done", candidates = {},
           Len(connections) < MaxConnections,
           NEW h \in Host, NEW i \in RelayId, Registers(h, i)
    PROVE  Stages' /\ NothingBefore' /\ Registration'
<1>1. PICK c \in Id \ (IdsOf(connections) \cup IdsOf(saved.connections)) :
        mutation' = [NoMutation EXCEPT !.kind = "register", !.stage = "identity",
                        !.record = {[id |-> c, host |-> h, relay |-> i]}]
  BY DEF Registers
<1> DEFINE new == [id |-> c, host |-> h, relay |-> i]
<1>2. /\ mutation'.kind = "register" /\ mutation'.stage = "identity" /\ mutation'.record = {new}
      /\ candidates' = candidates /\ initialization' = initialization
      /\ connections' = connections /\ defaultId' = defaultId
  BY <1>1 DEF Registers, NoMutation, served
<1>3. new \in Record /\ StaysNew(new)'
  BY <1>1, <1>2 DEF StaysNew, Dialling, IdsOf, Registers, Record
<1>4. Registration'
  BY <1>2, <1>3 DEF Registration
<1>5. Stages' /\ NothingBefore'
  BY <1>2 DEF Stages, NothingBefore, Dialling
<1> QED  BY <1>4, <1>5

LEMMA BeginsStages ==
    ASSUME Types, Stages, NothingBefore, Registration,
           \/ \E h \in Host : RegisterBegins(h)
           \/ DeployBegins
           \/ \E c \in Id : RemoveBegins(c) \/ SetDefaultBegins(c)
    PROVE  Stages' /\ NothingBefore' /\ Registration'
<1>1. mutation.stage = "idle" /\ initialization = "done" /\ candidates = {}
  BY DEF RegisterBegins, DeployBegins, RemoveBegins, SetDefaultBegins, MutationBegins, Stages
<1>2. CASE \E h \in Host : RegisterBegins(h)
  BY <1>1, <1>2, RegistersStages DEF RegisterBegins
<1>3. CASE DeployBegins
  BY <1>1, <1>3 DEF DeployBegins, NoMutation, Stages, NothingBefore, Registration, served, Dialling
<1>4. CASE \E c \in Id : RemoveBegins(c) \/ SetDefaultBegins(c)
  BY <1>1, <1>4 DEF RemoveBegins, SetDefaultBegins, NoMutation, Stages, NothingBefore,
                    Registration, served, Dialling
<1> QED  BY <1>2, <1>3, <1>4

LEMMA MutationStages ==
    ASSUME Types, Stages, NothingBefore, Registration, MutationEnds \/ RelayAppears
    PROVE  Stages' /\ NothingBefore' /\ Registration'
<1>1. CASE DeploymentStep \/ RelayAppears
  <2>1. PICK d2 \in Deployment : DeploymentBecomes(d2)
    BY <1>1 DEF DeploymentStep, RelayAppears
  <2>2. /\ mutation'.kind = mutation.kind /\ mutation'.stage = mutation.stage
        /\ mutation'.record = mutation.record /\ mutation'.next = mutation.next
        /\ candidates' = candidates /\ initialization' = initialization
        /\ connections' = connections /\ defaultId' = defaultId
    BY <2>1 DEF DeploymentBecomes, Types, Mutation, served
  <2>3. Stages' /\ NothingBefore'
    BY <2>2 DEF Stages, NothingBefore
  <2>4. Registration'
    <3>1. CASE mutation.stage = "deploying"
      BY <2>2, <3>1 DEF Registration
    <3>2. CASE mutation.stage # "deploying"
      BY <2>2, <3>2, StaysNewKept
    <3> QED  BY <3>1, <3>2
  <2> QED  BY <2>3, <2>4
<1>2. CASE DeployReturns
  <2>1. mutation.kind = "register" /\ mutation.stage = "deploying"
    BY <1>2, OnlyRegister DEF DeployReturns
  <2>2. candidates = {} /\ initialization = "done" /\ Len(connections) < MaxConnections
    BY <2>1 DEF Stages, Registration, Dialling
  <2> QED  BY <1>2, <2>2, RegistersStages DEF DeployReturns
<1>3. CASE DeployFails \/ IdentityRefused
  <2>1. mutation.stage \in {"deploying", "identity"}
    BY <1>3 DEF DeployFails, IdentityRefused
  <2>2. candidates = {}
    BY <2>1 DEF Stages, Dialling
  <2> QED  BY <1>3, <2>2, StagesIdle DEF DeployFails, IdentityRefused, NothingBefore, served
<1>4. CASE IdentityAccepted
  <2>1. mutation.stage = "identity" /\ mutation.kind = "register"
    BY <1>4, OnlyRegister DEF IdentityAccepted
  <2>2. PICK new \in Record : StaysNew(new)
    BY <2>1 DEF Registration
  <2>3. /\ mutation'.kind = "register" /\ mutation'.stage = "pairing"
        /\ mutation'.record = {new} /\ mutation.record = {new}
        /\ initialization' = initialization
        /\ connections' = connections /\ defaultId' = defaultId
    BY <1>4, <2>1, <2>2 DEF IdentityAccepted, Types, Mutation, served, StaysNew
  <2>4. candidates' = {new.id} /\ \A r \in ToSet(connections) : r.relay # new.relay
    BY <1>4, <2>1, <2>3 DEF IdentityAccepted, Stages, Dialling, SameRelay
  <2>5. Registration'
    <3>1. StaysNew(new)'
      BY <2>2, <2>3, <2>4 DEF StaysNew, Dialling, IdsOf
    <3> QED  BY <2>1, <2>3, <3>1 DEF Registration
  <2>6. Stages' /\ NothingBefore'
    BY <2>1, <2>3, <2>4 DEF Stages, NothingBefore, Dialling
  <2> QED  BY <2>5, <2>6
<1>5. CASE PairingDone
  <2>1. mutation.stage = "pairing" /\ mutation.kind = "register"
    BY <1>5, OnlyRegister DEF PairingDone
  <2>2. PICK new \in Record : StaysNew(new)
    BY <2>1 DEF Registration
  <2>3. /\ mutation'.kind = "register" /\ mutation'.stage = "saving"
        /\ mutation'.record = {new} /\ mutation.record = {new}
        /\ mutation'.next.connections = Append(connections, new)
        /\ candidates' = candidates /\ initialization' = initialization
        /\ connections' = connections /\ defaultId' = defaultId
    BY <1>5, <2>1, <2>2 DEF PairingDone, Types, Mutation, served, StaysNew, Snapshot
  <2>4. IdsOf(Append(connections, new)) = IdsOf(connections) \cup {new.id}
    BY IdsAppended DEF Types
  <2>5. Registration'
    <3>1. StaysNew(new)'
      BY <2>1, <2>2, <2>3, <2>4 DEF StaysNew, Dialling, IdsOf
    <3> QED  BY <2>1, <2>3, <3>1 DEF Registration
  <2>6. Stages' /\ NothingBefore'
    BY <2>1, <2>3 DEF Stages, NothingBefore, Dialling
  <2> QED  BY <2>5, <2>6
<1>6. CASE PairingFails \/ SaveFails \/ RegistrationStopped
  <2>1. Abandon /\ UNCHANGED <<initialization, served>>
    BY <1>6 DEF PairingFails, SaveFails, RegistrationStopped
  <2> QED  BY <2>1, AbandonType, StagesIdle DEF NothingBefore, served
<1>7. CASE SaveWritten
  <2>1. /\ mutation.stage = "saving" /\ mutation'.stage = "saved"
        /\ mutation'.kind = mutation.kind /\ mutation'.record = mutation.record
        /\ mutation'.next = mutation.next
        /\ candidates' = candidates /\ initialization' = initialization
        /\ connections' = connections /\ defaultId' = defaultId
    BY <1>7 DEF SaveWritten, Types, Mutation, served
  <2>2. Registration'
    BY <2>1, StaysNewKept
  <2> QED  BY <2>1, <2>2 DEF Stages, NothingBefore, Dialling
<1>8. CASE SaveDone
  <2>1. initialization' = "done"
    BY <1>8 DEF SaveDone, Stages
  <2> QED  BY <1>8, <2>1, StagesIdle DEF SaveDone
<1> QED  BY <1>1, <1>2, <1>3, <1>4, <1>5, <1>6, <1>7, <1>8 DEF MutationEnds

LEMMA StagesKept ==
    Types /\ Stages /\ NothingBefore /\ Registration /\ [LifecycleNext]_vars
        => Stages' /\ NothingBefore' /\ Registration'
<1> SUFFICES ASSUME Types, Stages, NothingBefore, Registration, [LifecycleNext]_vars
             PROVE  Stages' /\ NothingBefore' /\ Registration'
  OBVIOUS
<1>1. CASE \/ UNCHANGED vars \/ Stop
           \/ \E c \in Id : TunnelStep(c) \/ Probe(c) \/ ProbeAnswers(c)
  <2>1. UNCHANGED <<initialization, served, candidates, mutation>>
    BY <1>1 DEF vars, Stop, TunnelStep, Probe, ProbeAnswers
  <2> QED  BY <2>1 DEF Stages, NothingBefore, Registration, StaysNew, served, IdsOf
<1>2. CASE LoadBegins \/ LoadFails
  <2>1. initialization # "done" /\ UNCHANGED <<served, candidates, mutation>>
    BY <1>2 DEF LoadBegins, LoadFails
  <2>2. mutation.stage = "idle" /\ mutation.kind = "none"
    BY <2>1 DEF Stages
  <2> QED  BY <2>1, <2>2 DEF Stages, NothingBefore, Registration, served
<1>3. CASE LoadDone
  <2>1. initialization # "done" /\ UNCHANGED <<candidates, mutation>>
    BY <1>3 DEF LoadDone
  <2>2. mutation.stage = "idle" /\ mutation.kind = "none"
    BY <2>1 DEF Stages
  <2> QED  BY <1>3, <2>1, <2>2 DEF LoadDone, Stages, NothingBefore, Registration
<1>4. CASE Restart
  BY <1>4, StagesIdle DEF Restart
<1> QED  BY <1>1, <1>2, <1>3, <1>4, BeginsStages, MutationStages DEF LifecycleNext

-----------------------------------------------------------------------------
\* What is saved and served is valid.

\* A snapshot stays valid when a new connection is appended, ...
LEMMA AppendValid ==
    ASSUME NEW rs \in Seq(Record), NEW default \in Id \cup {None}, NEW new \in Record,
           Valid(Snapshot(rs, default)), Len(rs) < MaxConnections,
           new.id \notin IdsOf(rs),
           \A r \in ToSet(rs) : r.host # new.host /\ r.relay # new.relay
    PROVE  Valid(Snapshot(Append(rs, new), IF default = None THEN new.id ELSE default))
<1> DEFINE t == Append(rs, new)
           d == IF default = None THEN new.id ELSE default
<1>1. /\ Len(rs) \in Nat /\ Len(t) = Len(rs) + 1 /\ t[Len(rs) + 1] = new
      /\ DOMAIN t = 1..(Len(rs) + 1) /\ DOMAIN rs = 1..Len(rs)
      /\ \A i \in 1..Len(rs) : t[i] = rs[i]
  OBVIOUS
<1>2. IdsOf(t) = IdsOf(rs) \cup {new.id}
  BY IdsAppended
<1> HIDE DEF t
<1>3. Len(t) <= MaxConnections
  BY <1>1, ConnectionsAssumption
<1>4. \A i \in DOMAIN t : (i \in DOMAIN rs /\ t[i] = rs[i]) \/ (i = Len(rs) + 1 /\ t[i] = new)
  BY <1>1
<1>5. \A i \in DOMAIN rs : rs[i].id # new.id /\ rs[i].host # new.host /\ rs[i].relay # new.relay
  BY DEF IdsOf, ToSet
<1>6. \A i, j \in DOMAIN rs : i # j =>
        rs[i].id # rs[j].id /\ rs[i].relay # rs[j].relay /\ rs[i].host # rs[j].host
  BY DEF Valid, Snapshot
<1>7. ASSUME NEW i \in DOMAIN t, NEW j \in DOMAIN t, i # j
      PROVE  t[i].id # t[j].id /\ t[i].relay # t[j].relay /\ t[i].host # t[j].host
  BY <1>4, <1>5, <1>6, <1>7
<1>8. d # None /\ d \in IdsOf(t)
  <2>1. CASE default = None
    BY <1>2, <2>1, ConnectionsAssumption DEF Record
  <2>2. CASE default # None
    BY <1>2, <2>2 DEF Valid, Snapshot
  <2> QED  BY <2>1, <2>2
<1> HIDE DEF d
<1>9. Valid(Snapshot(t, d))
  BY <1>3, <1>7, <1>8 DEF Valid, Snapshot
<1> QED  BY <1>9 DEF t, d

\* ... when one is removed, ...
LEMMA RemoveValid ==
    ASSUME NEW rs \in Seq(Record), NEW default \in Id \cup {None}, NEW c \in IdsOf(rs),
           Valid(Snapshot(rs, default)),
           NEW rest, rest = Among(rs, {r \in Record : r.id # c})
    PROVE  Valid(Snapshot(rest, IF default # c THEN default
                                ELSE IF rest = <<>> THEN None ELSE Head(rest).id))
<1> DEFINE S == {r \in Record : r.id # c}
           d == IF default # c THEN default ELSE IF rest = <<>> THEN None ELSE Head(rest).id
<1>1. rest \in Seq(Record) /\ Len(rest) <= Len(rs)
  BY AmongFound
<1>2. ToSet(rest) = ToSet(rs) \cap S
  BY AmongHolds
<1>3. ASSUME NEW i \in DOMAIN rest, NEW j \in DOMAIN rest, i # j
      PROVE  rest[i].id # rest[j].id /\ rest[i].relay # rest[j].relay
             /\ rest[i].host # rest[j].host
  <2>1. PICK k, l \in DOMAIN rs : k # l /\ rest[i] = rs[k] /\ rest[j] = rs[l]
    <3>1. rest = Among(rs, S)
      OBVIOUS
    <3> HIDE DEF S
    <3>2. i \in DOMAIN Among(rs, S) /\ j \in DOMAIN Among(rs, S)
      BY <3>1
    <3>3. \E k, l \in DOMAIN rs :
             k # l /\ Among(rs, S)[i] = rs[k] /\ Among(rs, S)[j] = rs[l]
      BY <1>3, <3>2, AmongApart
    <3> QED  BY <3>1, <3>3
  <2> QED  BY <2>1 DEF Valid, Snapshot
<1>4. Len(rest) <= MaxConnections
  BY <1>1, ConnectionsAssumption DEF Valid, Snapshot
<1>5. default \in IdsOf(rs)
  <2>1. ToSet(rs) # {}
    BY DEF IdsOf
  <2>2. rs # <<>>
    BY <2>1 DEF ToSet
  <2> QED  BY <2>2 DEF Valid, Snapshot
<1>6. IF d = None THEN rest = <<>> ELSE d \in IdsOf(rest)
  <2>1. CASE default # c
    <3>1. PICK r \in ToSet(rs) : r.id = default
      BY <1>5 DEF IdsOf
    <3>2. r \in Record
      BY <3>1, RecordsOf
    <3>3. r \in ToSet(rest)
      BY <1>2, <2>1, <3>1, <3>2
    <3>4. d = r.id /\ d # None
      BY <2>1, <3>1, <3>2, ConnectionsAssumption DEF Record
    <3> QED  BY <3>3, <3>4 DEF IdsOf
  <2>2. CASE default = c /\ rest # <<>>
    <3>1. Head(rest) \in Record /\ Head(rest) = rest[1] /\ 1 \in DOMAIN rest
      BY <1>1, <2>2
    <3>2. d = Head(rest).id /\ d # None
      BY <2>2, <3>1, ConnectionsAssumption DEF Record
    <3> QED  BY <3>1, <3>2 DEF IdsOf, ToSet
  <2>3. CASE default = c /\ rest = <<>>
    BY <2>3
  <2> QED  BY <2>1, <2>2, <2>3
<1> HIDE DEF d
<1>7. Valid(Snapshot(rest, d))
  BY <1>3, <1>4, <1>6 DEF Valid, Snapshot
<1> QED  BY <1>7 DEF d

\* ... and when another of them becomes the default.
LEMMA DefaultValid ==
    ASSUME NEW rs \in Seq(Record), NEW default, Valid(Snapshot(rs, default)), NEW c \in IdsOf(rs)
    PROVE  Valid(Snapshot(rs, c))
<1>1. c # None
  BY RecordsOf, ConnectionsAssumption
<1> QED  BY <1>1 DEF Valid, Snapshot

LEMMA InitValid == LifecycleInit => AllValid /\ SavedIsNext /\ ConnectionsAreSaved
<1> SUFFICES ASSUME LifecycleInit PROVE AllValid /\ SavedIsNext /\ ConnectionsAreSaved
  OBVIOUS
<1>1. Valid(Snapshot(<<>>, None))
  BY ConnectionsAssumption DEF Valid, Snapshot
<1> QED  BY <1>1 DEF LifecycleInit, NoMutation, AllValid, SavedIsNext, ConnectionsAreSaved

LEMMA BeginsValid ==
    ASSUME Types, AllValid, SavedIsNext, ConnectionsAreSaved,
           \/ \E h \in Host : RegisterBegins(h)
           \/ DeployBegins
           \/ \E c \in Id : RemoveBegins(c) \/ SetDefaultBegins(c)
    PROVE  AllValid' /\ SavedIsNext' /\ ConnectionsAreSaved'
<1>1. /\ mutation.stage = "idle"
      /\ UNCHANGED <<saved, initialization, connections, defaultId, aborted>>
  BY DEF RegisterBegins, Registers, DeployBegins, RemoveBegins, SetDefaultBegins, MutationBegins,
         served
<1>2. Valid(Snapshot(connections, defaultId))'
  BY <1>1 DEF AllValid, Valid, Snapshot, IdsOf
<1>3. mutation'.stage # "saved" => SavedIsNext' /\ ConnectionsAreSaved'
  BY <1>1 DEF SavedIsNext, ConnectionsAreSaved, Snapshot
<1>4. CASE (\E h \in Host : RegisterBegins(h)) \/ DeployBegins
  <2>1. mutation'.stage \in {"identity", "deploying"}
    BY <1>4 DEF RegisterBegins, Registers, DeployBegins, NoMutation
  <2> QED  BY <1>2, <1>3, <2>1 DEF AllValid
<1>5. ASSUME NEW c \in Id, RemoveBegins(c) PROVE AllValid' /\ mutation'.stage = "saving"
  <2> DEFINE rest == Among(connections, {r \in Record : r.id # c})
             default == IF defaultId # c THEN defaultId
                        ELSE IF rest = <<>> THEN None ELSE Head(rest).id
  <2>1. mutation'.stage = "saving" /\ mutation'.next = Snapshot(rest, default)
    BY <1>5 DEF RemoveBegins, NoMutation
  <2>2. Valid(Snapshot(rest, default))
    <3>1. c \in IdsOf(connections)
      BY <1>5 DEF RemoveBegins
    <3> QED  BY <3>1, RemoveValid DEF AllValid, Types
  <2> HIDE DEF rest, default
  <2>3. Valid(mutation.next)'
    BY <2>1, <2>2 DEF Valid, IdsOf
  <2> QED  BY <1>2, <2>1, <2>3 DEF AllValid
<1>6. ASSUME NEW c \in Id, SetDefaultBegins(c) PROVE AllValid' /\ mutation'.stage = "saving"
  <2>1. mutation'.stage = "saving" /\ mutation'.next = Snapshot(connections, c)
    BY <1>6 DEF SetDefaultBegins, NoMutation
  <2>2. Valid(Snapshot(connections, c))
    <3>1. c \in IdsOf(connections)
      BY <1>6 DEF SetDefaultBegins
    <3> QED  BY <3>1, DefaultValid DEF AllValid, Types
  <2>3. Valid(mutation.next)'
    BY <2>1, <2>2 DEF Valid, IdsOf
  <2> QED  BY <1>2, <2>1, <2>3 DEF AllValid
<1> QED  BY <1>3, <1>4, <1>5, <1>6

LEMMA MutationValid ==
    ASSUME Types, Stages, Registration, AllValid, SavedIsNext, ConnectionsAreSaved,
           MutationEnds \/ RelayAppears
    PROVE  AllValid' /\ SavedIsNext' /\ ConnectionsAreSaved'
<1>1. CASE \/ DeploymentStep \/ RelayAppears \/ DeployReturns \/ DeployFails
           \/ IdentityRefused \/ IdentityAccepted
  <2>1. UNCHANGED <<saved, initialization, connections, defaultId, aborted>>
    BY <1>1 DEF DeploymentStep, RelayAppears, DeploymentBecomes, DeployReturns, Registers,
                DeployFails, IdentityRefused, IdentityAccepted, served
  <2>2. \/ mutation'.stage = mutation.stage /\ mutation'.next = mutation.next
        \/ mutation'.stage \in {"idle", "identity", "pairing"} /\ mutation.stage # "saved"
    <3>1. CASE DeploymentStep \/ RelayAppears
      BY <3>1 DEF DeploymentStep, RelayAppears, DeploymentBecomes, Types, Mutation
    <3>2. CASE DeployReturns
      BY <3>2 DEF DeployReturns, Registers, NoMutation
    <3>3. CASE DeployFails \/ IdentityRefused
      BY <3>3 DEF DeployFails, IdentityRefused, NoMutation
    <3>4. CASE IdentityAccepted
      BY <3>4 DEF IdentityAccepted, Types, Mutation
    <3> QED  BY <1>1, <3>1, <3>2, <3>3, <3>4
  <2> QED  BY <2>1, <2>2 DEF AllValid, Valid, Snapshot, IdsOf, SavedIsNext, ConnectionsAreSaved
<1>2. CASE PairingDone
  <2>1. mutation.stage = "pairing" /\ mutation.kind = "register"
    BY <1>2, OnlyRegister DEF PairingDone
  <2>2. PICK new \in Record : StaysNew(new)
    BY <2>1 DEF Registration
  <2> DEFINE default == IF defaultId = None THEN new.id ELSE defaultId
  <2>3. /\ mutation'.stage = "saving"
        /\ mutation'.next = Snapshot(Append(connections, new), default)
        /\ UNCHANGED <<saved, initialization, connections, defaultId, aborted>>
    BY <1>2, <2>1, <2>2 DEF PairingDone, Types, Mutation, served, StaysNew
  <2>4. Valid(Snapshot(Append(connections, new), default))
    <3>1. /\ Len(connections) < MaxConnections /\ new.id \notin IdsOf(connections)
          /\ \A r \in ToSet(connections) : r.host # new.host /\ r.relay # new.relay
      BY <2>1, <2>2 DEF Registration, StaysNew, Dialling
    <3> QED  BY <3>1, AppendValid DEF Types, AllValid
  <2> HIDE DEF default
  <2>5. Valid(mutation.next)'
    BY <2>3, <2>4 DEF Valid, IdsOf
  <2> QED  BY <2>1, <2>3, <2>5 DEF AllValid, Valid, Snapshot, IdsOf, SavedIsNext,
                                   ConnectionsAreSaved
<1>3. CASE PairingFails \/ SaveFails \/ RegistrationStopped
  <2>1. /\ mutation' = NoMutation
        /\ UNCHANGED <<saved, initialization, connections, defaultId, aborted>>
        /\ mutation.stage = "saved" => aborted
    BY <1>3 DEF PairingFails, SaveFails, RegistrationStopped, Abandon, served
  <2> QED  BY <2>1 DEF AllValid, Valid, Snapshot, IdsOf, SavedIsNext, ConnectionsAreSaved,
                       NoMutation
<1>4. CASE SaveWritten
  <2>1. /\ mutation.stage = "saving" /\ mutation'.stage = "saved"
        /\ mutation'.next = mutation.next /\ saved' = mutation.next
        /\ UNCHANGED <<initialization, connections, defaultId, aborted>>
    BY <1>4 DEF SaveWritten, Types, Mutation, served
  <2> QED  BY <2>1 DEF AllValid, Valid, Snapshot, IdsOf, SavedIsNext, ConnectionsAreSaved
<1>5. CASE SaveDone
  <2>1. /\ mutation.stage = "saved" /\ mutation' = NoMutation /\ saved' = saved
        /\ connections' = saved.connections /\ defaultId' = saved.default
    BY <1>5 DEF SaveDone, SavedDefault, SavedIsNext
  <2>2. saved = Snapshot(saved.connections, saved.default)
    BY DEF Types, Snapshots, Snapshot
  <2>3. Valid(saved)
    BY <2>1 DEF AllValid, SavedIsNext
  <2> QED  BY <2>1, <2>2, <2>3 DEF AllValid, Valid, Snapshot, IdsOf, SavedIsNext,
                                   ConnectionsAreSaved, NoMutation
<1> QED  BY <1>1, <1>2, <1>3, <1>4, <1>5 DEF MutationEnds

LEMMA ValidKept ==
    /\ Types /\ Stages /\ Registration /\ AllValid /\ SavedIsNext /\ ConnectionsAreSaved
    /\ [LifecycleNext]_vars
    => AllValid' /\ SavedIsNext' /\ ConnectionsAreSaved'
<1> SUFFICES ASSUME Types, Stages, Registration, AllValid, SavedIsNext, ConnectionsAreSaved,
                    [LifecycleNext]_vars
             PROVE  AllValid' /\ SavedIsNext' /\ ConnectionsAreSaved'
  OBVIOUS
<1>1. CASE \/ UNCHANGED vars \/ Stop \/ LoadBegins \/ LoadFails
           \/ \E c \in Id : TunnelStep(c) \/ Probe(c) \/ ProbeAnswers(c)
  <2>1. /\ UNCHANGED <<saved, connections, defaultId, mutation>>
        /\ initialization' = "done" => initialization = "done"
        /\ aborted => aborted'
    BY <1>1 DEF vars, served, Stop, LoadBegins, LoadFails, TunnelStep, Probe, ProbeAnswers, Types
  <2> QED  BY <2>1 DEF AllValid, Valid, Snapshot, IdsOf, SavedIsNext, ConnectionsAreSaved
<1>2. CASE LoadDone
  <2>1. mutation.stage = "idle"
    BY <1>2 DEF LoadDone, Stages
  <2>2. /\ saved' = saved /\ mutation' = mutation /\ Valid(saved)
        /\ connections' = saved.connections /\ defaultId' = saved.default
        /\ saved = Snapshot(saved.connections, saved.default)
    BY <1>2 DEF LoadDone, Types, Snapshots, Snapshot
  <2> QED  BY <2>1, <2>2 DEF AllValid, Valid, Snapshot, IdsOf, SavedIsNext, ConnectionsAreSaved
<1>3. CASE Restart
  <2>1. Valid(Snapshot(<<>>, None))
    BY ConnectionsAssumption DEF Valid, Snapshot
  <2> QED  BY <1>3, <2>1 DEF Restart, NoMutation, AllValid, Valid, Snapshot, IdsOf, SavedIsNext,
                             ConnectionsAreSaved
<1> QED  BY <1>1, <1>2, <1>3, BeginsValid, MutationValid DEF LifecycleNext

-----------------------------------------------------------------------------
\* Tunnels and probes.

LEMMA InitSound == LifecycleInit => AllSound /\ QuietUnlessHeld
<1>1. Sound(NewRuntime) /\ Quiet(NewRuntime.tunnel)
  BY TunnelTypes DEF NewRuntime, Sound
<1> QED  BY <1>1 DEF LifecycleInit, AllSound, QuietUnlessHeld

LEMMA SoundKept == Types /\ AllSound /\ [LifecycleNext]_vars => AllSound'
<1> SUFFICES ASSUME Types, AllSound, [LifecycleNext]_vars, NEW c \in Id
             PROVE  Sound(runtime[c])'
  BY DEF AllSound
<1>1. CASE UNCHANGED runtime
  BY <1>1 DEF AllSound, Sound
<1>2. runtime[c] \in Runtime /\ Sound(runtime[c])
  BY DEF Types, AllSound
<1>3. Sound(NewRuntime) /\ Sound(Connected(NewRuntime)) /\ Sound(Halted(runtime[c]))
  BY <1>2, ConnectedRuntime, HaltedRuntime DEF Sound, NewRuntime
<1>4. ASSUME NEW d \in Id, TunnelStep(d) PROVE Sound(runtime[c])'
  <2>1. PICK t2 \in SharedTunnel : runtime' = [runtime EXCEPT ![d] = WithTunnel(@, t2)]
    BY <1>4 DEF TunnelStep
  <2>2. Sound(WithTunnel(runtime[c], t2))
    BY <1>2, WithTunnelSound
  <2>3. runtime'[c] = IF c = d THEN WithTunnel(runtime[c], t2) ELSE runtime[c]
    BY <2>1 DEF Types
  <2> QED  BY <1>2, <2>2, <2>3 DEF Sound
<1>5. ASSUME NEW d \in Id, Probe(d) PROVE Sound(runtime[c])'
  BY <1>2, <1>5 DEF Probe, Types, Sound, Runtime
<1>6. ASSUME NEW d \in Id, ProbeAnswers(d) PROVE Sound(runtime[c])'
  <2>1. PICK state \in {"ready", "offline"} :
          runtime' = [runtime EXCEPT ![d].probe = Cleared(d),
                                     ![d].state = IF Outdated(d) THEN @ ELSE state]
    BY <1>6 DEF ProbeAnswers
  <2>2. c # d => runtime'[c] = runtime[c]
    BY <2>1 DEF Types
  <2>3. c = d => /\ runtime'[c].probe = "none"
                 /\ runtime'[c].state = IF Outdated(c) THEN runtime[c].state ELSE state
                 /\ runtime'[c].tunnel = runtime[c].tunnel
    BY <1>2, <2>1 DEF Types, Runtime, Cleared
  <2>4. runtime[d].probe # "none"
    BY <1>6 DEF ProbeAnswers
  <2>5. c = d /\ ~Outdated(c) => runtime[c].tunnel.state = "connected"
    BY <1>2, <2>4 DEF Outdated, Sound, Runtime
  <2> QED  BY <1>2, <2>2, <2>3, <2>5 DEF Sound
<1>7. CASE \E new \in mutation.record :
             runtime' = [runtime EXCEPT ![new.id] = Connected(NewRuntime)]
  <2>1. PICK new \in mutation.record :
          runtime' = [runtime EXCEPT ![new.id] = Connected(NewRuntime)]
    BY <1>7
  <2>2. runtime'[c] \in {runtime[c], Connected(NewRuntime)}
    BY <2>1 DEF Types
  <2> QED  BY <1>2, <1>3, <2>2 DEF Sound
<1>8. CASE runtime'[c] \in {runtime[c], Halted(runtime[c]), NewRuntime, Connected(NewRuntime)}
  BY <1>2, <1>3, <1>8 DEF Sound
<1>9. LoadDone \/ SaveDone \/ Abandon \/ Stop \/ Restart =>
        runtime'[c] \in {runtime[c], Halted(runtime[c]), NewRuntime, Connected(NewRuntime)}
  BY DEF LoadDone, SaveDone, Abandon, Stop, Restart
<1>10. \/ UNCHANGED runtime
       \/ \E d \in Id : TunnelStep(d) \/ Probe(d) \/ ProbeAnswers(d)
       \/ IdentityAccepted
       \/ LoadDone \/ SaveDone \/ Abandon \/ Stop \/ Restart
  BY DEF LifecycleNext, MutationEnds, vars, LoadBegins, LoadFails, RegisterBegins, Registers,
         DeployBegins, RelayAppears, RemoveBegins, SetDefaultBegins, DeploymentStep,
         DeploymentBecomes, DeployReturns, DeployFails, IdentityRefused, PairingDone,
         PairingFails, SaveWritten, SaveFails, RegistrationStopped
<1> QED  BY <1>1, <1>4, <1>5, <1>6, <1>7, <1>8, <1>9, <1>10 DEF IdentityAccepted

\* No step of a tunnel itself dials for a connection that is not held.
LEMMA QuietKept ==
    /\ Types /\ Stages /\ NothingBefore /\ Registration /\ QuietUnlessHeld
    /\ [LifecycleNext]_vars
    => QuietUnlessHeld'
<1> SUFFICES ASSUME Types, Stages, NothingBefore, Registration, QuietUnlessHeld,
                    [LifecycleNext]_vars, NEW c \in Id, aborted' \/ c \notin Held'
             PROVE  Quiet(runtime'[c].tunnel)
  BY DEF QuietUnlessHeld
<1>1. runtime[c] \in Runtime
  BY DEF Types
<1>2. Quiet(Halted(runtime[c]).tunnel) /\ Quiet(NewRuntime.tunnel)
  BY <1>1, HaltedRuntime, TunnelTypes DEF NewRuntime
<1>3. ASSUME aborted \/ c \notin Held PROVE Quiet(runtime[c].tunnel)
  BY <1>3 DEF QuietUnlessHeld
<1>4. CASE /\ UNCHANGED <<connections, candidates, aborted>>
           /\ runtime'[c].tunnel = runtime[c].tunnel
  BY <1>3, <1>4 DEF Held, IdsOf
<1>5. ASSUME NEW d \in Id, TunnelStep(d) PROVE Quiet(runtime'[c].tunnel)
  <2>1. UNCHANGED <<connections, candidates, aborted>>
    BY <1>5 DEF TunnelStep, served
  <2>2. Quiet(runtime[c].tunnel)
    BY <1>3, <2>1 DEF Held, IdsOf
  <2>3. c # d
    BY <1>5, <2>2, QuietStays DEF TunnelStep
  <2>4. runtime'[c] = runtime[c]
    BY <1>5, <2>3 DEF TunnelStep, Types
  <2> QED  BY <2>2, <2>4
<1>6. ASSUME NEW d \in Id, Probe(d) \/ ProbeAnswers(d) PROVE Quiet(runtime'[c].tunnel)
  <2>1. UNCHANGED <<connections, candidates, aborted>>
    BY <1>6 DEF Probe, ProbeAnswers, served
  <2>2. runtime'[c].tunnel = runtime[c].tunnel
    BY <1>1, <1>6 DEF Probe, ProbeAnswers, Types, Runtime
  <2> QED  BY <1>4, <2>1, <2>2
<1>7. CASE LoadDone
  <2>1. connections = <<>> /\ candidates = {} /\ candidates' = {} /\ aborted' = aborted
    BY <1>7 DEF LoadDone, NothingBefore, Stages
  <2>2. c \notin Held
    BY <2>1 DEF Held, IdsOf, ToSet
  <2>3. c \in IdsOf(saved.connections) => aborted
    BY <1>7 DEF LoadDone, Held, IdsOf
  <2>4. runtime'[c] \in {runtime[c], Connected(NewRuntime)}
        /\ (~aborted => runtime'[c] = runtime[c])
    BY <1>7, <2>3 DEF LoadDone
  <2> QED  BY <1>3, <2>2, <2>4, ConnectedRuntime
<1>8. CASE IdentityAccepted
  <2>1. PICK new \in mutation.record :
          /\ candidates' = candidates \cup {new.id}
          /\ runtime' = [runtime EXCEPT ![new.id] = Connected(NewRuntime)]
    BY <1>8 DEF IdentityAccepted
  <2>2. connections' = connections /\ aborted' = aborted
    BY <1>8 DEF IdentityAccepted, served
  <2>3. CASE aborted
    <3>1. runtime'[c] \in {runtime[c], Connected(NewRuntime)}
      BY <2>1 DEF Types
    <3> QED  BY <1>3, <2>3, <3>1, ConnectedRuntime
  <2>4. CASE ~aborted
    <3>1. c # new.id /\ c \notin Held
      BY <2>1, <2>2, <2>4 DEF Held, IdsOf
    <3>2. runtime'[c] = runtime[c]
      BY <2>1, <3>1 DEF Types
    <3> QED  BY <1>3, <3>1, <3>2
  <2> QED  BY <2>3, <2>4
<1>9. CASE Abandon /\ UNCHANGED <<served, aborted>>
  <2>1. connections' = connections /\ aborted' = aborted /\ candidates' = {}
    BY <1>9 DEF Abandon, NoLongerCandidates, served
  <2>2. CASE c \in candidates
    BY <1>2, <1>9, <2>2 DEF Abandon
  <2>3. CASE c \notin candidates
    BY <1>3, <1>9, <2>1, <2>3 DEF Abandon, Held, IdsOf
  <2> QED  BY <2>2, <2>3
<1>10. CASE SaveDone
  <2>1. aborted' = aborted /\ candidates' = {} /\ connections' = mutation.next.connections
    BY <1>10 DEF SaveDone
  <2>2. CASE c \in IdsOf(connections) \ IdsOf(connections')
    BY <1>2, <1>10, <2>2 DEF SaveDone
  <2>3. CASE ~(c \in IdsOf(connections) \ IdsOf(connections'))
    <3>1. runtime'[c] = runtime[c]
      BY <1>10, <2>3 DEF SaveDone
    <3>2. aborted \/ c \notin Held
      <4>1. mutation.kind = "register" => candidates \subseteq IdsOf(mutation.next.connections)
        <5> SUFFICES ASSUME mutation.kind = "register"
                     PROVE  candidates \subseteq IdsOf(mutation.next.connections)
          OBVIOUS
        <5>1. mutation.stage = "saved"
          BY <1>10 DEF SaveDone
        <5>2. PICK new \in Record : StaysNew(new)
          BY <5>1 DEF Registration
        <5> QED  BY <5>1, <5>2 DEF StaysNew, Stages
      <4>2. mutation.kind # "register" => candidates = {}
        BY DEF Stages
      <4> QED  BY <2>1, <2>3, <4>1, <4>2 DEF Held, IdsOf
    <3> QED  BY <1>3, <3>1, <3>2
  <2> QED  BY <2>2, <2>3
<1>11. CASE Stop
  <2>1. CASE c \in Stoppable
    BY <1>2, <1>11, <2>1 DEF Stop
  <2>2. CASE c \notin Stoppable
    BY <1>3, <1>11, <2>2 DEF Stop, Stoppable, Held
  <2> QED  BY <2>1, <2>2
<1>12. CASE Restart
  BY <1>2, <1>12 DEF Restart
<1>13. \/ UNCHANGED <<connections, candidates, aborted, runtime>>
       \/ \E d \in Id : TunnelStep(d) \/ Probe(d) \/ ProbeAnswers(d)
       \/ LoadDone \/ IdentityAccepted \/ SaveDone \/ Stop \/ Restart
       \/ Abandon /\ UNCHANGED <<served, aborted>>
  BY DEF LifecycleNext, MutationEnds, vars, served, LoadBegins, LoadFails, RegisterBegins,
         Registers, DeployBegins, RelayAppears, RemoveBegins, SetDefaultBegins, DeploymentStep,
         DeploymentBecomes, DeployReturns, DeployFails, IdentityRefused, PairingDone,
         PairingFails, SaveWritten, SaveFails, RegistrationStopped
<1> QED  BY <1>4, <1>5, <1>6, <1>7, <1>8, <1>9, <1>10, <1>11, <1>12, <1>13

-----------------------------------------------------------------------------
\* Deployments.

LEMMA ReachedKept == Types /\ AllReached /\ [LifecycleNext]_vars => AllReached'
<1> SUFFICES ASSUME Types, AllReached, [LifecycleNext]_vars PROVE AllReached'
  OBVIOUS
<1>1. CASE mutation'.deployment \in {mutation.deployment, {}}
  BY <1>1 DEF AllReached
<1>2. CASE DeployBegins
  <2>1. 1 \in 1..MaxAttempts
    BY DeploymentAssumption
  <2>2. Reached(Attempt(1))
    BY <2>1, AttemptReached
  <2>3. mutation'.deployment = {Attempt(1)}
    BY <1>2 DEF DeployBegins, NoMutation
  <2> QED  BY <2>2, <2>3 DEF AllReached
<1>3. CASE DeploymentStep \/ RelayAppears
  <2>1. PICK d \in mutation.deployment, d2 \in Deployment :
          (Deploys(d, d2) \/ RoutePropagates(d, d2)) /\ DeploymentBecomes(d2)
    BY <1>3 DEF DeploymentStep, RelayAppears
  <2>2. d \in Deployment /\ Reached(d)
    BY DEF AllReached, Types, Mutation
  <2>3. Reached(d2)
    BY <2>1, <2>2, DeploysReached
  <2>4. mutation'.deployment = {d2}
    BY <2>1 DEF DeploymentBecomes, Types, Mutation
  <2> QED  BY <2>3, <2>4 DEF AllReached
<1>4. NoMutation.deployment = {}
  BY DEF NoMutation
<1>5. \A h \in Host, i \in RelayId : Registers(h, i) => mutation'.deployment = {}
  BY DEF Registers, NoMutation
<1>6. \A c \in Id : RemoveBegins(c) \/ SetDefaultBegins(c) => mutation'.deployment = {}
  BY DEF RemoveBegins, SetDefaultBegins, NoMutation
<1>7. (\E h \in Host : RegisterBegins(h)) \/ DeployReturns => mutation'.deployment = {}
  BY <1>5 DEF RegisterBegins, DeployReturns
<1>8. DeployFails \/ IdentityRefused \/ Abandon \/ SaveDone \/ Restart =>
        mutation'.deployment = {}
  BY <1>4 DEF DeployFails, IdentityRefused, Abandon, SaveDone, Restart
<1>9. IdentityAccepted \/ PairingDone \/ SaveWritten =>
        mutation'.deployment = mutation.deployment
  BY DEF IdentityAccepted, PairingDone, SaveWritten, Types, Mutation
<1>10. \/ UNCHANGED vars \/ LoadBegins \/ LoadDone \/ LoadFails \/ Stop
       \/ \E c \in Id : TunnelStep(c) \/ Probe(c) \/ ProbeAnswers(c)
       => mutation'.deployment = mutation.deployment
  BY DEF vars, LoadBegins, LoadDone, LoadFails, Stop, TunnelStep, Probe, ProbeAnswers
<1> QED  BY <1>1, <1>2, <1>3, <1>6, <1>7, <1>8, <1>9, <1>10
         DEF LifecycleNext, MutationEnds, PairingFails, SaveFails, RegistrationStopped

-----------------------------------------------------------------------------
\* The theorems.

\* The invariant is inductive.
THEOREM LifecycleInductive == LifecycleSpec => []LifecycleInv
<1>1. LifecycleInit => LifecycleInv
  <2> SUFFICES ASSUME LifecycleInit PROVE LifecycleInv
    OBVIOUS
  <2>1. AllReached
    BY DEF LifecycleInit, NoMutation, AllReached
  <2> QED  BY <2>1, InitTypes, InitStages, InitValid, InitSound DEF LifecycleInv
<1>2. LifecycleInv /\ [LifecycleNext]_vars => LifecycleInv'
  BY TypesKept, StagesKept, ValidKept, SoundKept, QuietKept, ReachedKept DEF LifecycleInv
<1> QED  BY <1>1, <1>2, PTL DEF LifecycleSpec

\* The state has its types, and only a registration under way has a candidate,
\* which is not a connection yet, for any number of connections
\* (worker-lifecycle.ts, register's finally).
THEOREM ConnectionsTyped == LifecycleSpec => []LifecycleTypeOK
<1>1. LifecycleInv => LifecycleTypeOK
  <2> SUFFICES ASSUME LifecycleInv PROVE LifecycleTypeOK
    OBVIOUS
  <2>1. Types /\ Stages /\ Registration
    BY DEF LifecycleInv
  <2>2. candidates \cap IdsOf(connections) = {}
    <3>1. CASE candidates = {}
      BY <3>1
    <3>2. CASE candidates # {}
      <4>1. mutation.kind = "register" /\ mutation.stage \in Dialling
        BY <2>1, <3>2 DEF Stages
      <4>2. PICK new \in Record : StaysNew(new)
        BY <2>1, <4>1 DEF Registration, Dialling
      <4> QED  BY <2>1, <4>1, <4>2 DEF Stages, StaysNew
    <3> QED  BY <3>1, <3>2
  <2>3. candidates # {} =>
          mutation.kind = "register" /\ candidates = {r.id : r \in mutation.record}
    BY <2>1 DEF Stages
  <2> QED  BY <2>1, <2>2, <2>3 DEF LifecycleTypeOK, Types, Mutation, Snapshots
<1> QED  BY <1>1, LifecycleInductive, PTL

\* However many attempts and probes a deployment is given, requests whose answers
\* are lost leave no half-made relay that it goes on from, and a hostname is only
\* registered as deployed when its relay is served there (cf-deploy.ts).
THEOREM DeploymentsAlwaysServe == LifecycleSpec => []DeploymentsServe
<1>1. LifecycleInv => DeploymentsServe
  BY DEF LifecycleInv, AllReached, Reached, DeploymentsServe, FreshAndServed
<1> QED  BY <1>1, LifecycleInductive, PTL

\* Whatever is passed to save is what load will accept, for any limit on the
\* number of connections (worker-record.ts, snapshotSchema).
THEOREM SnapshotsValid == LifecycleSpec => []SnapshotValid
<1>1. LifecycleInv => SnapshotValid
  BY DEF LifecycleInv, AllValid, SnapshotValid
<1> QED  BY <1>1, LifecycleInductive, PTL

\* While the plugin runs, the connections it serves and the default its URLs use
\* are those a restart would load, except in the turn in which a save is
\* delivered (worker-lifecycle.ts, the mutations).
THEOREM ServedAreSaved == LifecycleSpec => []ConnectionsAreSaved
<1>1. LifecycleInv => ConnectionsAreSaved
  BY DEF LifecycleInv
<1> QED  BY <1>1, LifecycleInductive, PTL

\* A connection is only shown Ready while its tunnel is connected, however late
\* the answer of an earlier probe (worker-lifecycle.ts, generation).
THEOREM ReadyIsLive == LifecycleSpec => []ReadyIsConnected
<1>1. LifecycleInv => ReadyIsConnected
  <2> SUFFICES ASSUME LifecycleInv PROVE ReadyIsConnected
    OBVIOUS
  <2>1. Held \subseteq Id
    BY RecordsOf DEF LifecycleInv, Types, Held
  <2> QED  BY <2>1 DEF LifecycleInv, AllSound, Sound, ReadyIsConnected
<1> QED  BY <1>1, LifecycleInductive, PTL

\* Once sharing is stopped nothing dials or waits to dial, and no tunnel outlives
\* its connection (worker-lifecycle.ts, stop, connect and register's catch).
THEOREM StoppedIsQuiet == LifecycleSpec => []QuietUnlessHeld
<1>1. LifecycleInv => QuietUnlessHeld
  BY DEF LifecycleInv
<1> QED  BY <1>1, LifecycleInductive, PTL
=============================================================================
