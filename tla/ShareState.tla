---------------------------- MODULE ShareState -----------------------------
(***************************************************************************)
(* The owner's invitations inside the plugin: the live in-memory store     *)
(* (plugin/lib/token-store.ts), the queue that serialises the owner's RPCs *)
(* (mutateShares in plugin/server.ts), and the encrypted durable record    *)
(* (plugin/lib/share-state-record.ts).                                     *)
(*                                                                         *)
(* An operation changes the live store first and the record afterwards, so *)
(* for the whole of an asynchronous KV write the guest gateway already     *)
(* sees a change that may still be rolled back or lost in a crash.  Each   *)
(* action below is what the event loop runs between two such waits.        *)
(***************************************************************************)
EXTENDS Invitations, Sequences, FiniteSets

CONSTANT MaxQueue  \* bound: RPCs that may wait for the mutation queue

ASSUME MaxQueueAssumption == MaxQueue \in Nat

VARIABLES
    store,     \* InMemoryStore.tokens
    bearers,   \* the keys of rawTokenById
    disk,      \* the invitations in the encrypted "share-state" record
    recovery,  \* ShareStateRecordStore.recoveryRequired
    queue,     \* RPCs behind shareMutationQueue
    job,       \* the mutation that holds the queue
    titling,   \* minted invitations whose RPC is looking up thread titles
    drawn      \* every id ever minted: 9 random bytes are not drawn twice

vars == <<store, bearers, disk, recovery, queue, job, titling, drawn>>

\* The mutating RPCs.
Request ==
    [kind : {"mint"}, shares : FirstShares]
        \cup [kind : {"rename", "delete"}, token : Token]
        \cup [kind : {"add", "update"}, token : Token, thread : Thread, perm : Perm]
        \cup [kind : {"remove"}, token : Token, thread : Thread]

\* "saving": the operation ran and kv.set is outstanding; "saved": the record
\* holds the snapshot and its promise has not been delivered yet.
Job == [stage : {"idle", "saving", "saved"}, minted : SUBSET Token,
        prior : Store, priorBearers : SUBSET Token, snapshot : Store]

NoJob == [stage |-> "idle", minted |-> {}, prior |-> EmptyStore,
          priorBearers |-> {}, snapshot |-> EmptyStore]

Init ==
    /\ store = EmptyStore
    /\ bearers = {}
    /\ disk = EmptyStore
    /\ recovery = FALSE
    /\ queue = <<>>
    /\ job = NoJob
    /\ titling = {}
    /\ drawn = {}

-----------------------------------------------------------------------------
\* Bound: Token has an id left for every mint that waits, and one more.
IdsLeft == Cardinality(drawn) + Len(SelectSeq(queue, LAMBDA r : r.kind = "mint"))
               < Cardinality(Token)

\* The owner calls an RPC.  Whether it is valid is decided when it runs, so a
\* call may name an invitation that an earlier queued call deletes.
Submit(r) ==
    /\ Len(queue) < MaxQueue
    /\ IF r.kind = "mint" THEN IdsLeft ELSE r.token \in drawn
    /\ queue' = Append(queue, r)
    /\ UNCHANGED <<store, bearers, disk, recovery, job, titling, drawn>>

\* Mutant: an RPC does not wait for the one before it.
TurnAtOnce(kind) ==
    /\ queue # <<>>
    /\ Head(queue).kind = kind
    /\ queue' = Tail(queue)
    /\ UNCHANGED <<disk, recovery, titling>>

\* The head of the queue gets its turn once the mutation before it settled.
Turn(kind) ==
    /\ job.stage = "idle"
    /\ queue # <<>>
    /\ Head(queue).kind = kind
    /\ queue' = Tail(queue)
    /\ UNCHANGED <<disk, recovery, titling>>

\* The operation changes memory, and persistShares takes its snapshot.
Perform(newStore, newBearers, minted) ==
    /\ store' = newStore
    /\ drawn' = drawn \cup minted
    /\ bearers' = newBearers
    /\ job' = [stage |-> "saving", minted |-> minted, prior |-> store,
               priorBearers |-> bearers, snapshot |-> newStore]

\* The operation throws (unknown invitation, unknown or duplicate share):
\* nothing is saved and the queue moves on.
Refuse == UNCHANGED <<store, bearers, job, drawn>>

MintToken ==
    /\ Turn("mint")
    /\ \E t \in Token \ drawn :
         Perform(WithToken(store, t, Head(queue).shares), bearers \cup {t}, {t})

RenameToken ==
    /\ Turn("rename")
    /\ IF Head(queue).token \in DOMAIN store
         THEN Perform(store, bearers, {})
         ELSE Refuse

DeleteToken ==
    /\ Turn("delete")
    /\ LET t == Head(queue).token IN
         IF t \in DOMAIN store
           THEN Perform(WithoutToken(store, t), bearers \ {t}, {})
           ELSE Refuse

\* Whether invitation t has an entry for thread h.
Shares(t, h) == t \in DOMAIN store /\ store[t][h] # "none"

AddShare ==
    /\ Turn("add")
    /\ LET r == Head(queue) IN
         IF r.token \in DOMAIN store /\ ~Shares(r.token, r.thread)
           THEN Perform(WithAccess(store, r.token, r.thread, r.perm), bearers, {})
           ELSE Refuse

RemoveShare ==
    /\ Turn("remove")
    /\ LET r == Head(queue) IN
         IF Shares(r.token, r.thread)
           THEN Perform(WithAccess(store, r.token, r.thread, "none"), bearers, {})
           ELSE Refuse

UpdateShare ==
    /\ Turn("update")
    /\ LET r == Head(queue) IN
         IF Shares(r.token, r.thread)
           THEN Perform(WithAccess(store, r.token, r.thread, r.perm), bearers, {})
           ELSE Refuse

RunNext == MintToken \/ RenameToken \/ DeleteToken
              \/ AddShare \/ RemoveShare \/ UpdateShare

-----------------------------------------------------------------------------
\* Mutant: a record that could not be read does not stop a save.
SaveOverRecovery == ~(DOMAIN job.snapshot \subseteq bearers)

\* persistShares finds no bearer for some invitation, or the record awaits
\* manual recovery: save throws before kv.set.
SaveRefused == recovery \/ ~(DOMAIN job.snapshot \subseteq bearers)

\* The encrypted record now holds the snapshot.
SaveWritten ==
    /\ job.stage = "saving"
    /\ ~SaveRefused
    /\ disk' = job.snapshot
    /\ job' = [job EXCEPT !.stage = "saved"]
    /\ UNCHANGED <<store, bearers, recovery, queue, titling, drawn>>

\* The mutation resolves.  Every RPC but mintToken announces the change in the
\* same turn; mintToken looks up titles first.
SaveDone ==
    /\ job.stage = "saved"
    /\ titling' = titling \cup job.minted
    /\ job' = NoJob
    /\ UNCHANGED <<store, bearers, disk, recovery, queue, drawn>>

\* Mutants of SaveFailed: memory is not rolled back; only the invitations are;
\* the rejection is left in the queue.
SaveFailedUnrestored ==
    /\ job.stage = "saving"
    /\ job' = NoJob
    /\ UNCHANGED <<store, bearers, disk, recovery, queue, titling, drawn>>

SaveFailedBearersKept ==
    /\ job.stage = "saving"
    /\ store' = job.prior
    /\ job' = NoJob
    /\ UNCHANGED <<bearers, disk, recovery, queue, titling, drawn>>

SaveFailedWedged ==
    /\ job.stage = "saving"
    /\ store' = job.prior
    /\ bearers' = job.priorBearers
    /\ job' = [job EXCEPT !.stage = "rejected"]
    /\ UNCHANGED <<disk, recovery, queue, titling, drawn>>

\* save throws, the key cannot be had or kv.set rejects: the live store goes
\* back to the snapshot taken before the operation, and the RPC fails.
SaveFailed ==
    /\ job.stage = "saving"
    /\ store' = job.prior
    /\ bearers' = job.priorBearers
    /\ job' = NoJob
    /\ UNCHANGED <<disk, recovery, queue, titling, drawn>>

SaveNext == SaveWritten \/ SaveDone \/ SaveFailed

\* A minted invitation's titles are known (or given up on): announce it.
AnnounceMint ==
    /\ titling # {}
    /\ \E t \in titling : titling' = titling \ {t}
    /\ UNCHANGED <<store, bearers, disk, recovery, queue, job, drawn>>

\* The plugin goes away at any point (a crash, an upgrade) and is loaded again.
\* A record that cannot be read is kept, the store starts empty.
Restart(readable) ==
    /\ readable \/ disk # EmptyStore
    /\ store' = IF readable THEN disk ELSE EmptyStore
    /\ bearers' = DOMAIN store'
    /\ recovery' = ~readable
    /\ queue' = <<>>
    /\ job' = NoJob
    /\ titling' = {}
    /\ UNCHANGED <<disk, drawn>>

Next ==
    \/ \E r \in Request : Submit(r)
    \/ RunNext
    \/ SaveNext
    \/ AnnounceMint
    \/ \E readable \in BOOLEAN : Restart(readable)

\* kv.set and the title lookups settle, and the event loop runs what is queued.
Fairness ==
    /\ WF_vars(RunNext)
    /\ WF_vars(SaveNext)
    /\ WF_vars(AnnounceMint)

Spec == Init /\ [][Next]_vars /\ Fairness

-----------------------------------------------------------------------------
Ledger == INSTANCE ShareLedger WITH ledger <- disk

Live == INSTANCE LiveShares WITH
    change  <- IF job.stage = "idle" THEN "none" ELSE job.stage,
    minting <- job.minted # {}

\* The live store, its durable copy and every queued or running operation have
\* their types (token-store.ts, share-state-record.ts, server.ts).
TypeOK ==
    /\ store \in Store
    /\ bearers \subseteq Token
    /\ disk \in Store
    /\ recovery \in BOOLEAN
    /\ queue \in Seq(Request)
    /\ Len(queue) <= MaxQueue
    /\ job \in Job
    /\ titling \subseteq Token
    /\ drawn \subseteq Token

\* Whenever no mutation holds the queue, what guests are authorised against is
\* what a crash would restore: a failed write leaves no trace in memory and an
\* acknowledged one is on disk (server.ts, mutateShares).
LiveIsDurable == job.stage = "idle" /\ ~recovery => store = disk

\* Every live invitation has the bearer its URL needs, through every rollback:
\* a missing one would make all later saves fail (server.ts, persistShares).
BearersKnown == bearers = DOMAIN store

\* The record changes by one complete owner operation at a time, whatever
\* fails, races or restarts in between.
ImplementsLedger == Ledger!LedgerSpec

\* Guests see the store change one operation at a time, and a change taken back
\* leaves exactly the durable invitations (server.ts, mutateShares).
ImplementsLiveShares == Live!LiveSpec

\* One failed mutation never wedges the ones behind it (server.ts, the
\* rejection handler of shareMutationQueue).
QueueDrains == []<>(Len(queue) < MaxQueue)

=============================================================================
