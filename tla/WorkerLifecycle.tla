-------------------------- MODULE WorkerLifecycle --------------------------
(***************************************************************************)
(* The owner's connections to relays                                       *)
(* (plugin/worker-lifecycle/worker-lifecycle.ts) and their encrypted       *)
(* record (worker-record.ts).  A connection is registered, sometimes after *)
(* its relay is deployed, in several waits: the relay's identity, the      *)
(* tunnel, a readiness probe through the relay and back, the save.         *)
(* Meanwhile tunnels come and go, probes that began earlier answer, and    *)
(* the plugin may be stopped or die.                                       *)
(***************************************************************************)
EXTENDS SharedTunnel, Deployment, Filters, Naturals, Sequences, FiniteSets, SequencesExt

CONSTANTS
    Id,              \* connection ids: random UUIDs
    Host,            \* hostnames the owner enters
    RelayId,         \* identities relays answer with
    None,            \* no default connection
    MaxConnections   \* 16 in the code

ASSUME ConnectionsAssumption == MaxConnections \in Nat /\ None \notin Id

VARIABLES
    saved,           \* the snapshot in the encrypted "connections-v1" record
    initialization,  \* the memoised promise of initialize
    connections,     \* records of WorkerLifecycle.connections, in insertion order
    defaultId,       \* WorkerLifecycle.defaultId
    candidates,      \* ids of WorkerLifecycle.candidates
    runtime,         \* by id: state, tunnel and probe of a Runtime
    mutation,        \* the mutation that holds WorkerLifecycle.mutations
    aborted          \* WorkerLifecycle.abort

served == <<connections, defaultId>>
vars   == <<saved, initialization, served, candidates, runtime, mutation, aborted>>

Record == [id : Id, host : Host, relay : RelayId]

IdsOf(records) == {r.id : r \in ToSet(records)}

\* A runtime whose connect came too late has no tunnel.
NoTunnel == [NewTunnel EXCEPT !.state = "none"]

\* `probe`: none in flight, one that began under the present `generation`, or one
\* that began earlier.  generation is only ever incremented and compared.
Runtime == [state : {"connecting", "ready", "offline", "incompatible"},
            tunnel : SharedTunnel \cup {NoTunnel},
            probe : {"none", "current", "stale"}]

NewRuntime == [state |-> "connecting", tunnel |-> NoTunnel, probe |-> "none"]

Snapshot(records, default) == [connections |-> records, default |-> default]

\* snapshotSchema, which load and save both apply.
Valid(snapshot) ==
    LET rs == snapshot.connections IN
    /\ Len(rs) <= MaxConnections
    /\ \A i, j \in DOMAIN rs : i # j =>
          rs[i].id # rs[j].id /\ rs[i].relay # rs[j].relay /\ rs[i].host # rs[j].host
    /\ IF snapshot.default = None THEN rs = <<>> ELSE snapshot.default \in IdsOf(rs)

\* `deployment` is that of a registration which began with one.
NoMutation == [kind |-> "none", stage |-> "idle", record |-> {}, next |-> Snapshot(<<>>, None),
               deployment |-> {}]

LifecycleInit ==
    /\ saved = Snapshot(<<>>, None)
    /\ initialization = "none"
    /\ connections = <<>> /\ defaultId = None
    /\ candidates = {}
    /\ runtime = [c \in Id |-> NewRuntime]
    /\ mutation = NoMutation
    /\ aborted = FALSE

-----------------------------------------------------------------------------
\* Runtimes.

\* onStatusChange's view of a tunnel.
Observed(state) ==
    IF state = "incompatible" THEN "incompatible"
    ELSE IF state \in {"connecting", "connected"} THEN "connecting" ELSE "offline"

\* The tunnel of r becomes t2.  A change of its state outdates the probe in
\* flight; a connected one is probed at once, if no probe is in flight.
WithTunnel(r, t2) ==
    IF t2.state = r.tunnel.state THEN [r EXCEPT !.tunnel = t2]
    ELSE [state |-> Observed(t2.state), tunnel |-> t2,
          probe |-> IF r.probe # "none" THEN "stale"
                    ELSE IF t2.state = "connected" /\ ~aborted THEN "current" ELSE "none"]

Halted(r) == IF r.tunnel = NoTunnel THEN r ELSE WithTunnel(r, Stopped(r.tunnel))

\* connect
Connected(r) ==
    IF aborted THEN r ELSE WithTunnel([r EXCEPT !.tunnel = NewTunnel], Started(NewTunnel))

TunnelStep(c) ==
    /\ \E t2 \in SharedTunnel :
          /\ \/ Connects(runtime[c].tunnel, t2) \/ Rejected(runtime[c].tunnel, t2)
             \/ Disconnects(runtime[c].tunnel, t2) \/ Retries(runtime[c].tunnel, t2)
          /\ runtime' = [runtime EXCEPT ![c] = WithTunnel(@, t2)]
    /\ UNCHANGED <<saved, initialization, served, candidates, mutation, aborted>>

\* The 15 s round of start, and the pairing loop of register.
Probe(c) ==
    /\ initialization = "done" /\ ~aborted
    /\ c \in IdsOf(connections) \cup candidates
    /\ runtime[c].probe = "none"
    /\ runtime[c].tunnel.state = "connected"
    /\ runtime' = [runtime EXCEPT ![c].probe = "current"]
    /\ UNCHANGED <<saved, initialization, served, candidates, mutation, aborted>>

\* Mutant: an outdated answer counts.
OutdatedByStop(c) == aborted

Outdated(c) == runtime[c].probe = "stale" \/ aborted

\* Mutant: a dropped answer leaves its probe registered.
ClearedWhenUsed(c) == IF Outdated(c) THEN runtime[c].probe ELSE "none"

Cleared(c) == "none"

\* The fetch settles within 8 s; an outdated answer is dropped.
ProbeAnswers(c) ==
    /\ runtime[c].probe # "none"
    /\ \E state \in {"ready", "offline"} :
         runtime' = [runtime EXCEPT ![c].probe = Cleared(c),
                                    ![c].state = IF Outdated(c) THEN @ ELSE state]
    /\ UNCHANGED <<saved, initialization, served, candidates, mutation, aborted>>

-----------------------------------------------------------------------------
\* initialize: started by the service and by the first RPC.

LoadBegins ==
    /\ initialization = "none"
    /\ initialization' = "loading"
    /\ UNCHANGED <<saved, served, candidates, runtime, mutation, aborted>>

LoadDone ==
    /\ initialization = "loading"
    /\ Valid(saved)
    /\ initialization' = "done"
    /\ connections' = saved.connections
    /\ defaultId' = saved.default
    /\ runtime' = [c \in Id |-> IF c \in IdsOf(saved.connections) THEN Connected(NewRuntime)
                                ELSE runtime[c]]
    /\ UNCHANGED <<saved, candidates, mutation, aborted>>

\* The record cannot be decrypted: the failure is memoised.
LoadFails ==
    /\ initialization = "loading"
    /\ initialization' = "failed"
    /\ UNCHANGED <<saved, served, candidates, runtime, mutation, aborted>>

-----------------------------------------------------------------------------
\* Mutations.  Waiting calls hold no state, so any of them may be the next; one
\* that is refused before its first wait changes nothing and is not a step.

MutationBegins ==
    /\ mutation.stage = "idle"
    /\ initialization = "done"
    /\ ~aborted

\* register, of a hostname no connection has.  The identity it will answer with
\* is chosen here: two hostnames may be one relay's.
Registers(h, i) ==
    /\ \A r \in ToSet(connections) : r.host # h
    /\ \E c \in Id \ (IdsOf(connections) \cup IdsOf(saved.connections)) :
         /\ runtime[c].probe = "none"
         /\ mutation' = [NoMutation EXCEPT !.kind = "register", !.stage = "identity",
                            !.record = {[id |-> c, host |-> h, relay |-> i]}]
    /\ UNCHANGED <<saved, initialization, served, candidates, runtime, aborted>>

RegisterBegins(h) ==
    /\ MutationBegins
    /\ Len(connections) < MaxConnections
    /\ \E i \in RelayId : Registers(h, i)

\* deploy, for deployConnection and ensureDeployed.
DeployBegins ==
    /\ MutationBegins
    /\ Len(connections) < MaxConnections
    /\ mutation' = [NoMutation EXCEPT !.kind = "register", !.stage = "deploying",
                                      !.deployment = {Attempt(1)}]
    /\ UNCHANGED <<saved, initialization, served, candidates, runtime, aborted>>

DeploymentBecomes(d2) ==
    /\ mutation' = [mutation EXCEPT !.deployment = {d2}]
    /\ UNCHANGED <<saved, initialization, served, candidates, runtime, aborted>>

\* A deployment takes no notice of stop.
DeploymentStep == \E d \in mutation.deployment, d2 \in Deployment :
    Deploys(d, d2) /\ DeploymentBecomes(d2)

RelayAppears == \E d \in mutation.deployment, d2 \in Deployment :
    RoutePropagates(d, d2) /\ DeploymentBecomes(d2)

\* The new relay is registered, under a hostname and an identity of its own.
DeployReturns ==
    /\ mutation.stage = "deploying"
    /\ ~aborted
    /\ \A d \in mutation.deployment : d.step = "returned"
    /\ \E h \in Host, i \in RelayId \ {r.relay : r \in ToSet(connections)} :
         Registers(h, i)

\* deployWorker throws, or the identity request does at once after a stop.
DeployFails ==
    /\ mutation.stage = "deploying"
    /\ \A d \in mutation.deployment : d.step = "failed" \/ (d.step = "returned" /\ aborted)
    /\ mutation' = NoMutation
    /\ UNCHANGED <<saved, initialization, served, candidates, runtime, aborted>>

\* Mutant: only an equal hostname makes a duplicate.
SameHost(new) == \E r \in ToSet(connections) : r.host = new.host

SameRelay(new) == \E r \in ToSet(connections) : r.relay = new.relay

\* The hostname answers with its relay's identity, which no connection has yet.
IdentityAccepted ==
    /\ mutation.stage = "identity"
    /\ \E new \in mutation.record :
         /\ ~SameRelay(new)
         /\ candidates' = candidates \cup {new.id}
         /\ runtime' = [runtime EXCEPT ![new.id] = Connected(NewRuntime)]
    /\ mutation' = [mutation EXCEPT !.stage = "pairing"]
    /\ UNCHANGED <<saved, initialization, served, aborted>>

\* No identity, an incompatible one, or one already connected.
IdentityRefused ==
    /\ mutation.stage = "identity"
    /\ mutation' = NoMutation
    /\ UNCHANGED <<saved, initialization, served, candidates, runtime, aborted>>

\* Mutant: the candidate is not let go.
StillCandidates == candidates

NoLongerCandidates == {}

\* A mutation throws: a registration's tunnel is stopped and its candidate let go.
Abandon ==
    /\ runtime' = [c \in Id |-> IF c \in candidates THEN Halted(runtime[c]) ELSE runtime[c]]
    /\ candidates' = NoLongerCandidates
    /\ mutation' = NoMutation

\* register's loop sees the runtime ready, and saves it.
PairingDone ==
    /\ mutation.stage = "pairing"
    /\ ~aborted
    /\ \A c \in candidates : runtime[c].state = "ready"
    /\ \E new \in mutation.record :
         mutation' = [mutation EXCEPT !.stage = "saving", !.next =
             Snapshot(Append(connections, new), IF defaultId = None THEN new.id ELSE defaultId)]
    /\ UNCHANGED <<saved, initialization, served, candidates, runtime, aborted>>

\* Mutant: there is no deadline.
Refused(c) == runtime[c].tunnel.state \in {"stopped", "incompatible"}

\* The tunnel is refused for good, or the 30 s pass.
GivesUp(c) == runtime[c].state # "ready"

PairingFails ==
    /\ mutation.stage = "pairing"
    /\ aborted \/ \A c \in candidates : GivesUp(c)
    /\ Abandon
    /\ UNCHANGED <<saved, initialization, served, aborted>>

RemoveBegins(c) ==
    /\ MutationBegins
    /\ c \in IdsOf(connections)
    /\ LET rest == Among(connections, {r \in Record : r.id # c}) IN
         mutation' = [NoMutation EXCEPT
             !.kind = "remove", !.stage = "saving",
             !.record = {r \in ToSet(connections) : r.id = c},
             !.next = Snapshot(rest, IF defaultId # c THEN defaultId
                                     ELSE IF rest = <<>> THEN None ELSE Head(rest).id)]
    /\ UNCHANGED <<saved, initialization, served, candidates, runtime, aborted>>

SetDefaultBegins(c) ==
    /\ MutationBegins
    /\ c \in IdsOf(connections)
    /\ mutation' = [NoMutation EXCEPT !.kind = "default", !.stage = "saving",
                                      !.next = Snapshot(connections, c)]
    /\ UNCHANGED <<saved, initialization, served, candidates, runtime, aborted>>

\* ConnectionRecordStore.save
SaveWritten ==
    /\ mutation.stage = "saving"
    /\ Valid(mutation.next)
    /\ saved' = mutation.next
    /\ mutation' = [mutation EXCEPT !.stage = "saved"]
    /\ UNCHANGED <<initialization, served, candidates, runtime, aborted>>

SaveFails ==
    /\ mutation.stage = "saving"
    /\ Abandon
    /\ UNCHANGED <<saved, initialization, served, aborted>>

\* Mutant: a removed connection stays the default.
StaleDefault == IF mutation.kind = "remove" THEN defaultId ELSE mutation.next.default

SavedDefault == mutation.next.default

\* What was saved becomes what is served; a removed connection's tunnel stops.
SaveDone ==
    /\ mutation.stage = "saved"
    /\ mutation.kind = "register" => ~aborted
    /\ connections' = mutation.next.connections
    /\ defaultId' = SavedDefault
    /\ candidates' = {}
    /\ runtime' = [c \in Id |-> IF c \in IdsOf(connections) \ IdsOf(connections')
                                  THEN Halted(runtime[c]) ELSE runtime[c]]
    /\ mutation' = NoMutation
    /\ UNCHANGED <<saved, initialization, aborted>>

\* A registration that was stopped during its save fails although it was saved.
RegistrationStopped ==
    /\ mutation.stage = "saved" /\ mutation.kind = "register"
    /\ aborted
    /\ Abandon
    /\ UNCHANGED <<saved, initialization, served, aborted>>

-----------------------------------------------------------------------------
\* Mutant: a registration under way is forgotten.
Registered == IdsOf(connections)

Stoppable == IdsOf(connections) \cup candidates

\* stop: the service's signal, the failure of its initialize, or dispose.
Stop ==
    /\ ~aborted
    /\ aborted' = TRUE
    /\ runtime' = [c \in Id |-> IF c \in Stoppable THEN Halted(runtime[c]) ELSE runtime[c]]
    /\ UNCHANGED <<saved, initialization, served, candidates, mutation>>

\* The plugin goes away and is loaded again.
Restart ==
    /\ initialization' = "none"
    /\ connections' = <<>> /\ defaultId' = None
    /\ candidates' = {}
    /\ runtime' = [c \in Id |-> NewRuntime]
    /\ mutation' = NoMutation
    /\ aborted' = FALSE
    /\ UNCHANGED saved

MutationEnds ==
    \/ DeploymentStep \/ DeployReturns \/ DeployFails
    \/ IdentityAccepted \/ IdentityRefused
    \/ PairingDone \/ PairingFails
    \/ SaveWritten \/ SaveFails \/ SaveDone \/ RegistrationStopped

LifecycleNext ==
    \/ LoadBegins \/ LoadDone \/ LoadFails
    \/ \E h \in Host : RegisterBegins(h)
    \/ DeployBegins \/ RelayAppears
    \/ \E c \in Id : RemoveBegins(c) \/ SetDefaultBegins(c)
    \/ MutationEnds
    \/ \E c \in Id : TunnelStep(c) \/ Probe(c) \/ ProbeAnswers(c)
    \/ Stop
    \/ Restart

\* Fetches and kv.set settle, deployments' too, the pairing loop has its deadline, and the service
\* probes every 15 s.  Tunnels owe nothing.
LifecycleFairness ==
    /\ WF_vars(MutationEnds)
    /\ \A c \in Id : WF_vars(Probe(c)) /\ WF_vars(ProbeAnswers(c))

LifecycleSpec == LifecycleInit /\ [][LifecycleNext]_vars /\ LifecycleFairness

-----------------------------------------------------------------------------
Held == IdsOf(connections) \cup candidates

\* The state has its types, and only a registration under way has a candidate,
\* which is not a connection yet (worker-lifecycle.ts, register's finally).
LifecycleTypeOK ==
    /\ saved.connections \in Seq(Record) /\ saved.default \in Id \cup {None}
    /\ initialization \in {"none", "loading", "done", "failed"}
    /\ connections \in Seq(Record) /\ defaultId \in Id \cup {None}
    /\ candidates \subseteq Id
    /\ candidates # {} => mutation.kind = "register" /\ candidates = {r.id : r \in mutation.record}
    /\ candidates \cap IdsOf(connections) = {}
    /\ runtime \in [Id -> Runtime]
    /\ mutation.kind \in {"none", "register", "remove", "default"}
    /\ mutation.stage \in {"idle", "deploying", "identity", "pairing", "saving", "saved"}
    /\ mutation.record \subseteq Record
    /\ mutation.deployment \subseteq Deployment
    /\ mutation.next.connections \in Seq(Record)
    /\ mutation.next.default \in Id \cup {None}
    /\ aborted \in BOOLEAN

\* Requests whose answers are lost leave no half-made relay that a deployment
\* goes on from, and a hostname is only registered as deployed when its relay is
\* served there (Deployment, FreshAndServed).
DeploymentsServe == \A d \in mutation.deployment : FreshAndServed(d)

\* What a mutation passes to save is what load will accept: no relay twice under
\* two hostnames, and a default that is one of the connections.  Otherwise no
\* change could be saved, or the next start would fail (worker-record.ts,
\* snapshotSchema).
SnapshotValid == mutation.stage = "saving" => Valid(mutation.next)

\* While the plugin runs, the connections it serves and the default its URLs use
\* are those a restart would load, through failed saves and probes, except in
\* the turn in which a save is delivered (worker-lifecycle.ts, "removes locally
\* only after saving" in its tests).
ConnectionsAreSaved ==
    (initialization = "done" /\ ~aborted /\ mutation.stage # "saved") =>
        saved = Snapshot(connections, defaultId)

\* A connection is only shown Ready while its tunnel is connected, however late
\* the answer of an earlier probe (docs/1.0-implementation.md: "Reconnecting
\* never remains Ready"; worker-lifecycle.ts, generation).
ReadyIsConnected ==
    \A c \in Held : runtime[c].state = "ready" => runtime[c].tunnel.state = "connected"

\* Once sharing is stopped nothing dials or waits to dial, and no tunnel outlives
\* its connection: not that of a failed or stopped registration, nor a removed
\* one's, nor one whose record was still being loaded (worker-lifecycle.ts, stop,
\* connect and register's catch).
QuietUnlessHeld ==
    \A c \in Id : aborted \/ c \notin Held => Quiet(runtime[c].tunnel)

\* Every mutation ends, so that the next one gets its turn, although tunnels may
\* reconnect for ever and hostnames never answer (register's deadline).
MutationsEnd == mutation.stage # "idle" ~> mutation.stage = "idle"

Unprobed(c) ==
    /\ initialization = "done" /\ ~aborted
    /\ c \in Held
    /\ runtime[c].tunnel.state = "connected" /\ runtime[c].state = "connecting"

\* A connected tunnel does not stay unverified: a probe dropped because the
\* tunnel reconnected under it is followed by another (probe and start's round).
ConnectedAreProbed == \A c \in Id : Unprobed(c) ~> ~Unprobed(c)
=============================================================================
