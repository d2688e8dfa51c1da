# A verification of bb-shared

bb-shared is a plugin of the BB desktop server that lets an owner share threads
with guests who have no account: the owner mints an invitation (a bearer URL),
a relay on Cloudflare forwards guests over a tunnel to the owner's machine, and
a guest gateway there decides, request by request, what a guest may see.

This directory holds a TLA+ model of the parts of the code that keep state,
TLC configurations that check it, and TLAPS proofs. Source locations below are
paths under the repository's root; `PROJECT.json` maps every definition to the
lines it stands for.

## Inventory

| Component | State | Operations | Module |
|---|---|---|---|
| Owner RPCs and mutation queue, `plugin/server.ts` | `rawTokenById`, `shareMutationQueue` | mintToken, renameToken, deleteToken, addShare, removeShare, updateShare, `mutateShares` | ShareState |
| Token store, `plugin/lib/token-store.ts` | invitations and their shares, in memory | the five mutations, lookup by bearer, restore | Invitations |
| Durable share record, `plugin/lib/share-state-record.ts` | one encrypted KV record, `recoveryRequired` | load, save | ShareState, ShareLedger |
| Guest sessions, `plugin/guest-gateway/sessions.ts` | rows (cookie, invitations, expiry) in memory and in an encrypted record, a queue | redeem, resolve, load, expiry, eviction | GuestSessions |
| Guest gateway, `plugin/guest-gateway/index.ts` | open exchanges and sockets | handle, upgrade, grantsChanged, start, stop | GuestGateway |
| Authorization, `plugin/authz/authz.ts` | none | classify a route, decide it on a scope | GuestPolicy |
| Frame and response filters, `plugin/guest-gateway/frames.ts`, `responses.ts`, `scope.ts` | subscriptions of a socket | filter both directions, project responses | GuestPolicy, GuestView |
| Relay Durable Object, `worker/src/tunnel/tunnel-do.ts` | tunnel sockets, pending requests, visitor sockets, stream ids | accept, proxy, open, frames, timers, hibernation | TunnelDO |
| Tunnel client session, `plugin/packages/bb-shared-tunnel-client/src/session.ts` | streams of one tunnel socket | frames, origin answers, dispose | TunnelSession |
| Tunnel dialling, `plugin/lib/shared-tunnel.ts`, `reconnect.ts` | socket, retry timer, back-off | start, stop, open, reconnect | SharedTunnel (not how long the back-off is) |
| Wire contract, `bb-shared-tunnel-contract` | none | encode, decode, split a body | Wire; the kinds of frames, in Tunnel |
| Connection lifecycle, `plugin/worker-lifecycle/worker-lifecycle.ts`, `worker-record.ts` | connections, candidates, default, encrypted record | load, register, remove, set default, probe, start, stop | WorkerLifecycle |
| Relay deployment, `plugin/worker-lifecycle/cf-deploy.ts` | none kept | a chain of Cloudflare API calls with retries, probes of the route | Deployment, in WorkerLifecycle |
| Device key, `plugin/lib/device-key/` | a key in the keychain or a file, cached; three sealed records | choose a provider, get or create, load and save of the record stores | DeviceKey |
| Worker entry, header rewriting, HTML shim | none | stateless | not modelled |
| Owner panels, `plugin/nav-panel`, `plugin/share-popover` | the list last fetched, its request counter, disabled controls | fetch, refetch on broadcasts, every mutating control | OwnerPanel |

### How the parts interact

The owner's RPCs change the in-memory store first and write the record
afterwards. The guest gateway reads the same store synchronously at every
request, so it sees a change *before* it is durable. Sessions have a record and
a queue of their own, and neither queue knows of the other. After a mutation was
saved the RPC calls `grantsChanged`, which closes every guest socket and aborts
every exchange. The tunnel client connects the gateway's port to the relay over
one WebSocket; all guests are multiplexed on it by stream id. Everything on the
owner's machine runs in one Node event loop, and a Durable Object has one too:
interleaving happens at awaits, at socket events and at timers.

### What is hard, and what is correct

* A KV write that fails after memory changed; an RPC queued behind it; a crash
  on either side of the write. *Memory and record agree whenever no mutation
  runs; the record changes by whole operations only; nothing replaces a record
  that could not be read.*
* Two records that refer to each other and are written independently. *A session
  loses an invitation only when that invitation is deleted; what was answered
  survives restarts; what is written can be loaded.*
* Connections that outlive the decision that admitted them. *Once a removal was
  acknowledged to the owner, nothing admitted on it goes on.*
* A tunnel that dies without notice, is replaced while frames of the old one are
  still delivered, and a relay that loses its memory while it idles. *Nobody is
  served another guest's response; socket messages arrive in order without gaps;
  every request is answered; what belongs to guests that left is released.*
* Frames and responses that are on their way while grants change and threads
  move. *What reaches a guest names only what is in its scope; nothing it was
  granted all along is lost; what a page lists is served, except the constant stub
  of the personal project.*
* One tunnel for all guests, which the client drops over a single frame it refuses.
  *The relay gives it no frame out of turn; only what a guest writes into its own
  request can cost the others theirs.*
* A registration that waits for the relay, the tunnel, a probe and a save, while
  tunnels reconnect, earlier probes answer and the plugin is stopped. *What is
  shown Ready is connected; what is served is what a restart would load; nothing
  dials once it was stopped, removed or abandoned.*

* A key that is stored in one of two places and may be lost or damaged, and three
  records that are useless without it. *The key of a sealed record stays stored;
  no save starts afresh over a record that could not be opened.*
* A chain of requests to Cloudflare of which any may be carried out and not
  answered. *What is retried starts on an account of its own; a hostname is only
  registered when the relay is served there.*
* A screen that fetches a list while the list changes, here or in another window,
  and whose requests overlap. *What is shown never goes back and comes to be what
  is; a control has one call at a time.*

`PROJECT.json` lists each hazard at the line where it bites, with the properties
that would catch it.

## The modules

**Invitations** holds the operators shared by the rest: a store maps the ids of
live invitations to each thread's access (`"none"`, `"read"`, `"write"`), and
each of the owner's operations is a relation on stores. A label changes nothing
a property tells apart, so renaming is a step that leaves the store unchanged
(but still saves, and may fail).

**ShareState** models `mutateShares` and the RPCs. `store` and `bearers` are the
two maps of memory, `disk` the record, `queue` the promise chain and `job` the
mutation that holds it. Each action is what the event loop runs between two
waits: an operation runs and takes its snapshot (`Turn` with `Perform` or
`Refuse`), `kv.set` succeeds (`SaveWritten`), the promise is delivered
(`SaveDone`), or anything in between fails (`SaveFailed`, the rollback).
`Restart` may happen in every state, with a record that can or cannot be read.

**ShareLedger** is the abstract specification of durability: one ledger that
changes by one complete operation. **LiveShares** is the abstract specification
of what other components see of the store. ShareState implements both
(`ImplementsLedger`, `ImplementsLiveShares`).

**GuestSessions** is `Sessions` composed with LiveShares rather than with
ShareState, so that what the guest side relies on is written down. `sessions`
and `saved` are sequences of rows, because eviction is by insertion order.
`RedeemRuns` is `redeem` up to `kv.set`: drop ids of deleted invitations, keep
an established cookie, move the row to the end, evict from the front until the
record fits.

**GuestGateway** adds what is open: exchanges ("read" or "send") and sockets,
each with the entries of the store it was admitted on (`basis`, a history
variable). A send is authorised, then waits for its body, then goes to BB.
`withdrawing` and `rescinded` are history: the entries a change in progress
removes, and those a failed change took back.

**GuestPolicy** has no variables: it is `computeAuthz`, the projections of responses
and the filters of frames, as operators on a session's grants (the token `resolve`
makes: one share for each thread, with the project it was shared from). A request is
its class, as `classifyPath` finds it, with its method; a response is the threads,
projects and sections it names; a frame is what it says and what it names.
**GuestView** follows one connection, a request or a socket: the request keeps the
grants it came with (`token`) while BB answers; the socket has frames on their way
in both directions and BB's subscriptions. Grants change, are announced by
`grantsChanged` or not (a rollback, an expiry), threads move between BB's projects,
and `home` says where they are. Where GuestGateway says when connections end,
GuestView says what crosses them. The sidebar always lists the personal project;
where it is out of scope, as a stub that consists of the constant id `proj_personal`
and no threads (`responses.ts:150-162`, and `responses.test.ts:233-240` asserts it),
although such a guest is refused `/projects/proj_personal`. `DisclosedWithinScope`
and `ListedIsServed` except that stub (`PersonalStub`), which is the same for every
owner. GuestView's history variables: `wanted` (what the page subscribed to),
`steady` (what has been in scope since the socket opened), `unannounced` (what left
a request's scope without an announcement yet) and `delivered` (what the last step
told the guest).

**Tunnel**, **TunnelDO**, **TunnelSession** and **RelayTunnel** are the relay.
Tunnel has the variables of both sides and the sockets between them; TunnelDO
has one action per handler, timer and background loop of the Durable Object;
TunnelSession has one per frame and origin event of the client; RelayTunnel
composes them and states the properties. A tunnel socket is `open`, `dead` (the
client's end is gone and the relay has not noticed: what it sends is lost
silently), `closing` (the relay replaced it, and frames on their way still
arrive) or `gone`. Streams are named by the number the code gives them; frames
carry, besides, the guest or visitor they were made for (`of`), which no action
reads: it only feeds the history variables the properties speak about.
A frame on which the client's `onFrame` throws ends its session and the tunnel, with
every guest on it. It throws for an opening of a stream it serves or a body that ends
twice (`OutOfTurn`), and for an opening whose metadata `validateOpenFrame` refuses: a
path that begins with two slashes or is too long, too many headers, a bad method. The
relay forwards what the guest wrote without looking, so any opening may be one of
these (`MetadataRefused`, as `tunnel-session.test.ts:29-34` has it). A message of a
visitor is taken to be no longer than a chunk (1 MiB), which the relay leaves to its
runtime: a longer one would end the tunnel too (`MessagesFit`, below).

**GuestService** is the abstract specification of the relay, what a guest may rely on:
it has the guests' variables only, no ids, frames, tunnels or sessions. A request is
taken or refused, answered in one or two parts, and then its answer stands; only one
that is not answered in full may fail; a visitor's socket opens once and closes once,
and in each direction its messages arrive once, in order and after they were sent.
`Mixes` is the flaw of the finding below, another guest's response in the place of
one's own: RelayTunnel implements GuestService (`ImplementsService`) with `Mixes`
false for a relay that never hibernates, and with `Mixes` true for one that may.

**SharedTunnel** is the other view of a tunnel: what its owner's machine does
to keep one. It has no variables, only operators from one state of a tunnel to
the next (dial, connect, be refused for good or for now, lose the socket, retry,
stop). **WorkerLifecycle** has one such tunnel for each connection, in
`runtime`, with the state the owner sees and the probe in flight. `mutation` is
the one that holds the promise chain `mutations`; its `stage` says which wait it
is in: the relay's `identity`, `pairing` (the loop that wants the runtime
ready), `saving`, `saved` (written, promise not yet delivered). Tunnels, probes,
`Stop` and `Restart` interleave with all of them. The relay inside
RelayTunnel and the tunnel here are not composed: RelayTunnel needs of the
dialler only that a lost tunnel is dialled again. **Deployment** is one call of
`deployWorker`, again as operators without variables: which request is next,
which attempt this is, and what the attempt has left at Cloudflare. A registration
that deploys carries one (`mutation.deployment`) through its stage `deploying`.

**Wire** has no variables either: the bytes of a message of the tunnel, as
`encodeFrame` makes and `decodeFrame` reads them, and the chunks of a body.
`JSON.stringify` is a function `Json` from metadata to bytes; `JSON.parse` (`JsonParse`)
undoes it and makes of any other bytes a value, null or an exception. `decodeFrame`
casts what it parsed and checks nothing: the fields of openings and acknowledgements
are read by name and may be undefined (`Picked`), and the properties of a response head
or a close are spread into the frame, where they may even name another type or stream
(`Spread`). A byte has `Base` values, so that TLC can check a small base and the proofs
cover 256.

**Filters** is `Array.prototype.filter` on a sequence, with the test as a set. The
library's `SelectSeq` takes an operator, which no prover instantiates, so it could
be checked and not proved about; for the same reason the size of a session record
is the cardinality of a set instead of a fold.

**DeviceKey** models the choice of a provider at a start, `getKey` with its cache
and its read-back, and what each of the three record stores does at `load` and
`save`. The key file may be written and the `chmod` after it fail, so that the call
is rejected and the key stays. Keys are numbered in the order they are generated. A
record is the key it is sealed with, or `Plain` (from before encryption) or
`Foreign` (of another device), and the number of changes it holds; a store is
`ready`, in `recovery`, or `failed`.

**OwnerPanel** is one screen of the owner, the Share popover, the management page
or its connections, composed with LiveShares and beside another window. `view` is
the list last fetched, with the moment (`version`, a history variable) it was read
at; `loads` are list requests in flight, of which only the latest counts; `calls`
are mutating RPCs on their way, being saved, or answered; `busy` are the controls
disabled meanwhile; `news` are broadcasts not yet delivered.

## Modelling decisions

* The in-memory store's methods are `async` but never wait for I/O: all that
  `resolve` or `redeem` awaits before `kv.set` drains in one turn of the event
  loop and is one action. Only `kv`, the key provider, sockets and timers let
  something else in. `grantsChanged` follows a `kv.set`, so it cannot fall
  between resolving a session and registering its AbortController.
* A rejected `kv.set` is taken not to have written.
* Ids, bearers and cookies are random and drawn once. An invitation is listed to
  the owner as soon as it is in memory, so a guest may redeem one whose minting
  is still being saved: `OpenInvitation` allows every id ever drawn.
* The size of a session record is its rows plus their invitations; the code
  compares the bytes of the same JSON with 160 KiB.
* Not in ShareState: the one-time migration of a plaintext record, and a record
  that is unreadable *and* holds no invitation.
* A frame is filtered by `relay`, a promise chain common to both directions whose
  only wait is `resolve`: it drains in one turn, so relaying is one action, and a
  frame "on its way" is one the socket has not delivered yet.
* What BB sends is unconstrained where a property does not need more: any frame
  at any time, naming a thread with the project it is in; a list names every
  thread where it is, and every section. Error pages, assets and transcripts
  without their `include` (which `handle` removes) name no other thread. The
  personal project of the sidebar carries no sections.
* Paths are represented by their class, so the regular expressions of
  `classifyPath` are outside the model.
* A body's chunks travel with the frame that ends it, since nothing interleaves
  with them differently; `ws-open-ack` is ignored by the relay and left out;
  `target` is never set by this relay, so the client's code for shared ports has
  no input.
* The client's origin sockets are told to close and may still deliver: that is
  `lingering`.
* A Durable Object is evicted only when nothing is in flight, no frame waits
  and no body is being pumped. That is stricter than the runtime promises: it
  cannot excuse a finding.
* `acceptTunnel` is modelled after its bearer check has passed.
* `Runtime.generation` is only incremented and compared for equality, so a probe
  is `"current"` or `"stale"`: one that began under the present generation, or
  one that did not.
* Two hostnames may lead to one relay, so a registration's relay identity is
  drawn when it begins. Connection ids are random: an id serves again only when
  nothing remembers it. The pairing claim and the texts of faults are left out.
* Calls that wait in `mutations` hold no state, so any of them may be the next.
* The proof of work of a deployment is part of the answer to its challenge: one
  that cannot be solved, or an answer that cannot be parsed, is a request that
  failed. What an earlier attempt left at Cloudflare expires there and is never
  read again, so only the present attempt's account is kept.
* The Keychain item and the key file are written by this plugin only. `getKey` has
  no wait inside and is one step. A read of a stored key that fails once is the
  fault `"read"`; see the deviations below.
* The panel's rename, delete and mint fields, copying and confirmations change
  nothing shared and are left out; what they call is not.
* A restart ends what was in flight: a save of the old instance that would reach
  the record after the new one loaded it is not modelled.

## Runs

| Run | Bounds | Shows |
|---|---|---|
| `shares` | 3 ids, 1 thread, 1 waiting RPC | memory against record (`LiveIsDurable`, `BearersKnown`), both refinements, `QueueDrains` |
| `sessions` | 2 invitations, 2 cookies, 1 waiting redemption, 1 tick | `SessionsDurable`, `AdditionsKept` |
| `sessions_limits` | as above, 1 row and 1 invitation per session | `RecordLoads`, `RedemptionsDrain` at the limits |
| `gateway` | 1 invitation, 1 session, 2 connections | `GatewayTypeOK`, `OpenWithinGrants`, `SendsAuthorized`, `LostSocketsClose` |
| `view` | 2 threads in one section, a project and the personal one, 2 frames on their way | `DisclosedWithinScope`, `ListedIsServed`, `GrantedThreadsListed`, `SubscriptionsCarried`, `ChangesReachGuest`, `SubscriptionsSettle` |
| `tunnel_requests` | 3 requests, 2 tunnel sockets, client serves 2 | `OwnResponse`, `OnlyMetadataRejected` |
| `tunnel_sockets` | 2 visitors, 2 messages each way, 2 tunnel sockets, hibernation | `OwnMessages` |
| `tunnel_mixed` | 1 request, 1 visitor, hibernation | `ImplementsService`, `EveryRequestAnswered`, `NoBodyHangs`, `GuestsReleased` |
| `tunnel_hibernates` | 2 requests, hibernation | **violates** `OwnResponse` |
| `lifecycle` | 2 connection ids, 2 hostnames, 2 relays, limit of 2, 2 attempts and 2 probes of a deployment | `LifecycleTypeOK`, `DeploymentsServe`, `SnapshotValid`, `ConnectionsAreSaved`, `ReadyIsConnected`, `QuietUnlessHeld`, `MutationsEnd`, `ConnectedAreProbed` |
| `keys` | 3 keys, 3 changes of each of three records, both providers | `NoKeyLost`, `NothingLost` |
| `panel` | 1 invitation, 1 thread, 2 list requests, 2 calls | `PanelInvariant`, `ViewMovesForward`, `ViewSettles` |

The configurations of the relay also give `Wire` a small instance (bytes of nine
values, chunks of two bytes), and `MCRelayTunnel` evaluates on it what
`RelayTunnel_proofs` proves of messages: ids on both sides of each byte's limit and
past the last one, and data from nothing to two chunks and a byte.

Why the bounds are enough. *shares*: an id can be deleted and another minted
while a third is live, and the RPC that waits can be invalidated by the one that
runs; the theorems remove the bound. *sessions*: two tabs with one cookie, or
two browsers, with two invitations; the record has room for two sessions of one
invitation each, so the second invitation evicts. One tick with a lifetime of
one expires every row. *gateway*: two connections suffice for one to be told
apart from another by grantsChanged; they do not otherwise interact. *view*: one thread is
shared from a project (read or write) and one from the personal project, so
that each may be granted without the other, moved into the other's project,
and shown in a section of which the other is not granted; two frames are enough
for a subscription and its withdrawal to be reordered or for one to wait while
grants change; the theorem removes the bounds `Offered`, `Sent` and `MaxFrames`.
*tunnel*: two sockets give one replacement with a live predecessor; three requests on a
client that serves two reach its limit; two messages show order and gaps. The
refinement `ImplementsService` is in the smallest of the three configurations that must
pass, which has a request and a visitor; TLC finds no error with it in the two others
either, and the theorem removes the bounds. The
last tunnel socket is never lost, nor is an opening refused over it, so that a redial
always remains: otherwise the bound, not the code, would end every liveness property.
`tunnel_mixed` has a single request, because with two at a relay that hibernates the
finding below breaks `EveryRequestAnswered` as well. *lifecycle*: two
connections can be one relay under two hostnames, one can be removed while it is
the default and the other takes over, and one can be registered while the other
reconnects; the number of reconnections, probes, restarts and mutations is not
bounded. Hostnames are distinct, so the limit of 16 connections is never what
stops a registration here: that guard is in the model, and no property rests on
it. A third id only adds a third copy of a runtime that no other reads. Two
attempts give a deployment that is retried and one that runs out, and so do two
probes. *keys*: three keys let a key be replaced twice, as when the security
command is missing at one start and back at the next; the proofs remove the
bounds. *panel*: two list requests are the fewest that can overtake each other,
and two calls the fewest of which one is answered, or taken back, while the other
is in flight; one of them may be another window's. A second invitation or thread
would add rows that no other row reads.

`CHECK_DEADLOCK FALSE` appears where guests make one request each and tunnel
sockets are numbered: the model runs out of work, not the program.

### Fairness

* ShareState: `kv.set` and the title lookups settle, and the event loop runs
  what is queued. Nothing obliges the owner to call anything or a save to
  succeed.
* GuestSessions: the same for a redemption. Guests and the clock are free.
* GuestGateway: an exchange ends by its 120 s timer at the latest, and a socket
  that no longer resolves is found by its 30 s timer. The owner is free.
* GuestView: `ws` ends a handshake with BB after 5 s (`handshakeTimeout`), and the
  event loop relays what arrived. The guest, the owner and, but for that, BB owe
  nothing.
* RelayTunnel: event loops take what arrives, the 30 s head timer fires, the
  client dials when it has no tunnel, a visitor answers the relay's close, and a
  client whose socket is gone misses its heartbeat. Neither guests nor the
  origin owe anything, and the relay's runtime need never report that a socket
  died. A body has no timeout: `NoBodyHangs` therefore speaks of bodies nobody
  produces any more, and `GuestsReleased` of guests who cancelled or closed. A
  request that timed out at the relay keeps its stream at the client until the
  gateway's own timer ends it.
* DeviceKey states no fairness: both of its properties are about safety.
* OwnerPanel: RPCs are answered and saves settle, one event loop and one socket
  away, and broadcasts arrive. The owner need not click, and no call need succeed.
* WorkerLifecycle: the requests of a deployment settle, because Node's fetch gives
  up after 300 s without headers or body, and its probes after 5 s each; `stop` does
  not end a deployment. A mutation's other fetches and `kv.set` settle and its
  pairing loop has a deadline of 30 s, so one of `MutationEnds` is taken; the
  service probes every 15 s; a probe's fetch ends within 8 s. Tunnels owe nothing:
  they may never connect, or reconnect for ever.

## Findings

**Stream ids are reused after hibernation** (`tunnel_hibernates`). A request that
timed out at the relay is still executing at the client, which is not told. An
idle Durable Object may then be evicted; its constructor resumes ids above those of
visitor sockets only (`tunnel-do.ts:151`), so the next request can get the id, and
be served the late response of another guest; or the client sees a duplicate stream
and drops the tunnel with everyone on it. `tunnel-do.ts:141-142` means ids "never
reused while a socket still holds one", and 28-30 argue that in-flight requests
keep the object alive, which a timed-out one does not. The same reuse can leave a guest
without any answer: with a second request TLC finds in `tunnel_mixed` that a late
`body-end` of the old request deletes the entry of the new one (`tunnel-do.ts:530-538`)
before its head has arrived. Its timer then finds nothing to fail.

### Deviations the properties except

These are behaviours of the code that a property would contradict if it did not
name them. Each is in the model; the property's comment says where it steps aside.

* *A failed deletion can cost a guest the invitation.* While `deleteToken` is being
  saved, a redemption of the same guest drops the invitation from the session
  (`sessions.ts:50`); if the save then fails the invitation comes back, the session
  does not have it. `AdditionsKept` excepts these (`reprieved`).
* *A change that is taken back closes nothing and is not broadcast.* Only a
  successful mutation announces (`server.ts:197`). A stream admitted on the grant
  lasts up to its 120 s, and a list fetched meanwhile stays until the next fetch.
  `OpenWithinGrants` excepts what was rescinded, `ViewSettles` a screen that fetched
  before the rollback (`undone`).
* *A stored key that cannot be read once is taken for missing.* `run` of the
  Keychain answers any failure with "not found" (`key-provider.ts:157`), and
  `getKey` then replaces the key, where the comment at 40-43 has it reject when
  the secure store is unreachable. The run and the proofs assume stored keys can be read
  (`"read" \notin Faults`); with the fault, `NoKeyLost` fails.
* *A record that cannot be opened is not treated as absent.* The comment of
  `decryptRecord` (`record-crypto.ts`, "the store treats that as a wiped, absent
  record") is older than the stores, which all refuse to replace such a record;
  `NothingLost` states what the stores do.
* *The popover has one busy row.* `busyTokenId` is overwritten by a second row's
  click and cleared by whichever call ends first (`share-popover.tsx:138`), so a
  row may be enabled while its call is in flight, against the comment at 68-69.
  `OneCallPerControl` is about the page and the connections, and about the controls on
  the screen: when the list no longer has a row and then has it again, its controls are
  new ones, enabled while a call of the old ones may still be in flight.
* *A guest can end the others' sessions*, by a request whose path or headers the client
  refuses. The relay does not look at them, and `VENDORED.md` says that invalid metadata
  closes the relay connection. `OnlyMetadataRejected` says that nothing else of the
  relay's doing does.
* *The personal project is listed and refused* to a guest without it, as the stub above.
* *Attempts of one deployment share one secret*, made before the first: the header
  of `tunnel-secret.ts` says that every recreated worker receives a new one. An
  earlier attempt's relay expires with its account.
* *Back-off is reset at every open*, however brief the connection
  (`shared-tunnel.ts`); the comments of `reconnect.ts` describe a threshold. The
  model has no delays, so no property depends on it.

## Proofs

`ShareState_proofs` proves about ShareState, for every set of ids and threads
and every length of the queue (the only assumption is `MaxQueue \in Nat`, named
`MaxQueueAssumption`):

* `TypeCorrect`, `LiveIsDurableHolds`, `BearersKnownHolds`: the type invariant and the
  safety properties of the run `shares`;
* `LedgerRefinement` and `LiveSharesRefinement`: it implements both abstract
  specifications, so what is checked of the gateway over LiveShares holds over
  the real store, queue and record.

None of these is inductive as it stands. `LiveIsDurable` says something only
while no mutation runs, and the rollback re-establishes it from `job.prior`: one
has to know that `job.prior` *is* the durable view. The inductive invariant
`IInv` says so: `IdleInv` (memory is the durable view between mutations),
`SavingInv` (a running mutation is one operation away from the durable view,
remembers its bearers, and its snapshot is what memory holds), `SavedInv` (a
written one can no longer fail and memory is the record), `DrawnInv` (every id
was drawn), with `TypeOK` and `BearersKnown`. `RunCases` turns the six RPCs into
one case: a turn either throws or performs one complete operation. The
refinements then need no case analysis of RPCs: the record changes only in
`SaveWritten`, from `job.prior` to `job.snapshot`, which `SavingInv` relates by
one operation.

`GuestView_proofs` proves about GuestView, for any threads, projects, sections,
grants, frames and queues (`PolicyAssumption`: the personal project is a project,
sections are given to threads; `ViewAssumption`: the bounds have their types):

* `ViewTypeCorrect`: among other things, a subscription BB has is to a thread or
  a project, never to something a page made up;
* `DisclosedWithinScopeHolds`: no response and no frame names a thread or project
  out of scope, but for the stub;
* `ListedIsServedHolds`, `GrantedThreadsListedHolds`: what a response lists may be
  read, but for the personal project's stub, and the sidebar lists what was granted;
* `SubscriptionsCarriedHolds`, `ChangesReachGuestHolds`: subscriptions and changes of
  what was granted all along are lost in neither direction.

`DisclosedWithinScope` speaks of what was just delivered, and a frame needs no
more: it is filtered by the grants of the moment (`FrameWithinScope`). A
response is shaped by older grants, so one has to know how those relate to the
present ones: `AdmittedInv` says that a request not aborted was authorised by
its token, and that everything in its token's scope is in scope now or left it
without an announcement. `ToldWithinScope` then bounds what the request can be
told by the scope of its token, whatever BB lists: for lists because the
projections intersect with the scope and add at most the stub (`ShownInScope`,
`ProjectedWithinScope`), for a transcript
because only a granted thread is authorised.

The same bound is most of `ListedIsServed`: with `AuthorizedInv` (a request under
way was authorised by its token, aborted or not) all that is told is in the token's
scope, where reading is authorised (`InScopeIsServed`); `SectionsShown` adds that a
section only comes with a thread. `SubscriptionsCarried` speaks of a queue that has
become empty, so the invariant `CarriedInv` has to say what a queue that is not
empty will make of the subscriptions. It does so without recursion: a topic will be
subscribed to (`Resulting`) if BB has it or a frame asks for it, and no later frame
ends that. `ResultingAppend` and `ResultingTail` are what sending and relaying a
frame do to it; relaying needs `SteadyInv`, that a topic granted all along is in the
scope of the moment, for its frames are then forwarded and never dropped.
`ChangesReachGuest` follows from `SteadyInv` too.

`DeviceKey_proofs` proves about DeviceKey, for both platforms and any number of
keys and changes, from `DeviceKeyAssumption` and the assumption that stored keys can
be read (`"read" \notin Faults`): `KeysTypeCorrect`, `NoKeyLostHolds` and
`NothingLostHolds`. `NoKeyLost` is not inductive: a save seals with the *cached* key,
so the invariant `KeysInv` says that a cached key is stored where this process's
provider keeps it, and that what a store holds in memory is what its record holds
while it is `ready`. `GetKeyKeeps` is the lemma about `getKey`: it never changes a
place that holds a key.

`Filters_proofs` proves what the other proofs need of a filtered sequence: what it
holds (`AmongHolds`), that two of its elements come from two places of the original
(`AmongApart`), and how filtering meets `Append` and another filter (`AmongAppend`,
`AmongAmong`). `Passing` is a recursive function, so its equation first has to be
derived (`PassingDefined`), which well-foundedness of the natural numbers gives
without an induction theorem (`Climb`).

`GuestGateway_proofs` proves about GuestSessions and GuestGateway, for any
invitations, threads, cookies and connections, any limits of the record and any
lifetime (`LimitsAssumption`: one session at its limit fits the record; `PermAssumption`):

* `ServedAreDurable`, `AnsweredAreKept`, `SavedRecordLoads`: the invariants of the
  runs `sessions` and `sessions_limits`;
* `GatewayTyped`, `OpenRestsOnGrants` and `SendsRestOnGrants`: the safety properties
  of the run `gateway`, the last one an action property.

`SessionsInv` is what makes the first three inductive. `SessionsDurable` speaks of
the moments at which nothing is redeemed; `Durable` says what holds in between: once
written, the record is what will be served. Both sides are filtered by a clock that
moves, which takes `AmongAmong` (`UnexpiredLater`). `AdditionsKept` speaks of what is
served, and a restart serves what is saved: `AllHold` says the same of the rows
served, saved and being saved (`Rows`), and `RowsFrom` is the case analysis of all
three. Redemptions keep it because `RedeemRuns` reads the rows that are served,
which the queue has to itself; the owner keeps it because an invitation that was
drawn and is back in the store is one that was reprieved (`StoreDrawn`).
`EvictFits` proves that eviction ends with rows that fit.

`GatewayInv` adds how the connections relate to a change in progress. What a
connection may rest on is `Live`: entries of the store, those being withdrawn, those
taken back. `LiveLasts` is the heart of it: a step that takes anything out of `Live`
ends or aborts every connection. For a change that is taken back one has to know that
everything withdrawn is still on the disk (`Withdrawn`), and for a mint, which is
acknowledged without an announcement, that it withdraws nothing; both rest on
`StoreSettled`, that memory is the disk whenever no change is in progress. A send is
authorised when its headers arrive; `SendsRest` carries that to the arrival of its
body, and `OpenWithinGrants` says the entry is still in `Live`.

`WorkerLifecycle_proofs` proves all six safety properties of the run `lifecycle`,
for any ids, hostnames, relays and limits and any number of attempts and probes
(`ConnectionsAssumption`, `DeploymentAssumption`). They are proved together, from
one invariant `LifecycleInv`, because each needs the others: a snapshot is valid
(`SnapshotValid`) if what is served is (`AllValid`), which is what was saved
(`SavedIsNext`, `ConnectionsAreSaved`), and so on. `Stages` says what each stage of
a mutation implies of memory and of its candidate, `NothingBefore` and
`Registration` that nothing runs before the record is loaded and that the candidate
is no connection yet; `AllSound` and `AllReached` are about every runtime and every
deployment.

`RelayTunnel_proofs` proves about RelayTunnel, for any number of requests, visitors,
messages and tunnel sockets and any capacity of the client (`TunnelAssumption`: guests and
visitors are finite sets with nothing in common):

* `RelayTypeOK`: type correctness, with or without hibernation. It is not inductive
  because an id has to stay within `StreamId`: `IdsCounted` bounds the next one by the
  number of guests and visitors that have started (`Started`), also when a relay
  resumes its count after hibernating;
* `RelayOwnResponse` and `RelayOnlyMetadataRejected`, **assuming the relay never
  hibernates** (`~Hibernates`): with hibernation they are false, as the finding
  shows, and the runs check them without it too;
* `RelayOwnMessages`: each direction of a visitor's socket delivers that visitor's own
  messages, in order and without a gap, **with hibernation too**. An evicted relay draws
  the ids of HTTP requests again, which is how the other two fail, but never a
  visitor's while anything of it is left, because visitors' sockets outlive the eviction.

For `OwnResponse` the invariant is `OneOwner`: everything that names a stream id, at
the relay, at the client or in a frame of any socket (`Names`), names it for the
same guest or visitor, and nothing names the next id. `StepNames` shows that a step
names nothing new but for the one who draws an id. `OnlyMetadataRejected` is about
the order of the frames on the socket the client serves (`Line`): `OpensFirst`,
`EndsOnce`, `PumpsAwaited` and `SessionsApart`. `LineFollows` reduces the steps that
neither open a stream nor end a body to one case.

`OwnMessages` speaks of what arrived; its invariant, `OneStream` with `Delivery`, locates
every message a visitor or its origin has sent on its way. `OneStream`: a visitor has one
stream. `Latest`: only the socket accepted last reads OPEN at the relay or has frames
that the client reads. `IdsDrawn`: an id that is still a visitor's (`Belongs`) is below
the counter, so it is not drawn again. `OpensSockets`: on the line, a visitor's opening
comes before its messages. `Companions`: the client serves a visitor only while the relay
does, up to a close on its way, so a relay that resumes its count from the visitors it
finds does not fall behind the client. `DownGoesOn`: what the origin was given, then what
the client buffers for it, then the messages on the line follow one another (`GoesOn`), up
to the last one sent while the socket works (`Reaches`); `UpGoesOn` says the same of the
other direction over the socket that reads OPEN. Most steps move a queue by a frame that
is no visitor's (`Moves`), and `QuietDelivers` is the one argument for all of them.

`ServiceRefinement` shows that RelayTunnel implements GuestService. Two more facts are
needed for it. `Answering`: a pending request whose head is awaited has a guest that
waits, one whose body streams has a guest that reads it, and no guest has two. So what
`abandonStreams` fails is exactly what was not answered in full. `Admitted`: a visitor
whose socket the relay holds has not closed it. That a delivery is the next message and
was sent before is read off `Delivery`: what arrives is in order (`OwnMessages`, after the
step), and `GoesOn` puts what is still on its way between what was given and what was
sent. `ResponseIsOwn` is where hibernation makes the difference: without it `OneOwner`
says that the response is the guest's own, and this is the case `Mixes` stands for.

The last part of `RelayTunnel_proofs` is about the messages, for any base above 8 and any
size of a chunk (`WireAssumption`), any metadata and any parser that undoes
`JSON.stringify` (`JsonAssumption`):

* `RoundTrip`: a frame that can be sent arrives as it was;
* `DecodedKeepsHeader`: of whatever else arrives and is not refused, what a receiver may
  rely on. Bytes are taken as they are, an opening or an acknowledgement is of the type
  and stream its header says and has its fields, though perhaps undefined, and so is a
  response head or a close whose JSON names no type and stream of its own;
* `MessagesFit`: the client's limit lets a message of a socket through exactly when
  it is no longer than a chunk. `encodeFrame` itself does not bound such a message,
  nor metadata: the relay relies on the runtime's and the gateway's own limits;
* `ChunksArrive` and `ChunksCover`: `chunkBody`, for a body of any length.

They rest on these lemmas: `Uint32RoundTrip` (four bytes hold an id; the quotients
of successive divisions are bounded by `DivBelow`), `HeaderRead` (where the parts of
a message are), and `MetaRead` with `FieldsApart` (metadata of a frame's own fields
is read as it was written, whether picked or spread). That the chunks are the body
needs no induction, because the position of every byte of every chunk in the body is
given.

`OwnerPanel_proofs` proves about OwnerPanel, for any invitations and threads and any
number of calls, list requests and broadcasts (`PanelAssumption`: the popover's thread is
one of the threads, `None` is not one of the things that may be chosen, and the bounds
`MaxLoads` and `MaxCalls` are positive):

* `OneCallAtATime`: type correctness, and that a control of the management page or of the
  connections is disabled exactly while one call of its own is in flight;
* `ViewNeverGoesBack`: what is shown never goes back, whichever order requests are
  performed and answered in, an action property.

`OneCallPerControl` counts calls, and a count is no invariant to work with. `PanelInv`
says instead which call belongs to which control: `ControlsMatch` (a disabled control has
a call in flight, no other call is its own, and an enabled one has none) and `Closed` (a
screen that is not there has no controls, and its calls answer to nobody). `CountOne`
turns that into the count. A refetch is triggered by broadcasts, and each broadcast on its
way belongs to a call that is over: `NewsCounted`. `ListTypes` has what
`ViewMovesForward` needs, the ages of lists: nothing shown or fetched is newer than the
present, and a request that may still be shown is not older than what is. `PanelStepCases`
reduces the steps to the few that touch each of these.

The gateway and the panels are specified over LiveShares: the owner's steps in them are
LiveShares' own, by definition. `LiveSharesRefinement` is what makes that more than an
assumption, because ShareState, with its queue and its record, implements LiveShares. The
assume-guarantee step that would combine them is not formalised: no module composes all
three.

Each of these invariants was checked by TLC on the runs' configurations before it was
proved.

Model-checked only: the liveness properties, because the prover has no fairness and
no ENABLED. They are `QueueDrains`, `RedemptionsDrain`, `LostSocketsClose`,
`EveryRequestAnswered`, `NoBodyHangs`, `GuestsReleased`, `MutationsEnd`,
`ConnectedAreProbed`, `SubscriptionsSettle` and `ViewSettles`. Every safety property
of a passing run is a theorem, `OwnResponse` and `OnlyMetadataRejected` for a relay
that does not hibernate. The type invariants of ShareState, GuestView, DeviceKey and
RelayTunnel are proved and therefore in no run.

## Not modelled, and why

* The regular expressions that put a path into its class, and the gateway's
  header and body checks: text.
* The length of the back-off: the model has no clock, and no property of the tunnel
  depends on how long a retry waits.
* The gateway's `stop` during a start, its readiness proof, and the migration of a
  plaintext share record: see the plan, which ends before them.
* The panels' text fields, confirmations and the progress of a deployment: no state
  that another part reads.
* Cryptography, encodings, HTML and text: their correctness is not a matter of
  interleavings or state. Stateless request handling in the worker's entry.
* Vendored components, bundles and build scripts.

## Plan

1. Done: invitations (ShareState with its abstract specifications and proofs),
   sessions, gateway connections, the relay, the lifecycle of connections with
   the states of their tunnels.
2. Done: authorization and filters (GuestPolicy), and what crosses a connection
   while grants change and threads move (GuestView with its proofs).
3. Done: the device key and the record stores (DeviceKey with its proofs), the
   deployment (Deployment, in WorkerLifecycle), the owner's panels (OwnerPanel) and
   the wire contract (Wire with its proofs).
4. Not done: the gateway's start against its dispose, in GuestGateway; the migration of
   a plaintext record, in ShareState; OwnerPanel over two rows of the popover, whose one
   busy row is a deviation above.
5. Done: the proofs of every safety property of the runs, and of three refinements: the
   ledger and the live store by ShareState, and the guests' service by RelayTunnel.

Runs are few on purpose: what step 4 would add shares a configuration with the component
it serves, and `tunnel_sockets` and `tunnel_mixed` can become one run where room is
needed.
