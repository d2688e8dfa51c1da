------------------------- MODULE ShareState_proofs --------------------------
(***************************************************************************)
(* Proofs about ShareState, for any set of ids, any set of threads and any *)
(* length of the queue.                                                    *)
(***************************************************************************)
EXTENDS ShareState, TLAPS

\* What memory is to agree with: the record, or nothing while it is unreadable.
Durable == IF recovery THEN EmptyStore ELSE disk

\* Between two mutations memory is the durable view.
IdleInv == job.stage = "idle" => store = Durable /\ job = NoJob

\* A running mutation is one operation away from the view it would return to.
SavingInv ==
    job.stage = "saving" =>
        /\ job.prior = Durable
        /\ job.priorBearers = DOMAIN job.prior
        /\ job.snapshot = store
        /\ OneOperation(job.prior, job.snapshot)

\* A written one can no longer fail, and the record is what it meant to save.
SavedInv == job.stage = "saved" => ~recovery /\ store = disk

\* Ids are drawn once: every invitation, live or durable, has been drawn.
DrawnInv == DOMAIN store \subseteq drawn /\ DOMAIN disk \subseteq drawn

IInv == TypeOK /\ BearersKnown /\ IdleInv /\ SavingInv /\ SavedInv /\ DrawnInv

-----------------------------------------------------------------------------
\* Lemmas about stores.

\* A function from some ids to what they share is a store.
LEMMA StoreIntro ==
    ASSUME NEW s, DOMAIN s \subseteq Token, s \in [DOMAIN s -> Sharing]
    PROVE  s \in Store
BY DEF Store

\* A store is such a function.
LEMMA StoreElim ==
    ASSUME NEW s \in Store
    PROVE  DOMAIN s \subseteq Token /\ s \in [DOMAIN s -> Sharing]
BY DEF Store

\* The empty store is a store without ids.
LEMMA EmptyStoreType == EmptyStore \in Store /\ DOMAIN EmptyStore = {}
BY DEF Store, EmptyStore

\* The invitation mintToken stores first shares at most one thread.
LEMMA FirstSharesType == FirstShares \subseteq Sharing
BY DEF FirstShares, NoShares, Sharing, Access

\* mintToken's change of the store yields a store with one id more.
LEMMA WithTokenType ==
    ASSUME NEW s \in Store, NEW t \in Token, NEW shares \in Sharing
    PROVE  /\ WithToken(s, t, shares) \in Store
           /\ DOMAIN WithToken(s, t, shares) = DOMAIN s \cup {t}
<1>1. DOMAIN s \subseteq Token /\ s \in [DOMAIN s -> Sharing]
  BY StoreElim
<1>2. DOMAIN WithToken(s, t, shares) = DOMAIN s \cup {t}
  BY DEF WithToken
<1>3. WithToken(s, t, shares) \in [DOMAIN s \cup {t} -> Sharing]
  BY <1>1 DEF WithToken
<1> QED BY <1>1, <1>2, <1>3, StoreIntro

\* deleteToken's change of the store yields a store without that id.
LEMMA WithoutTokenType ==
    ASSUME NEW s \in Store, NEW t
    PROVE  /\ WithoutToken(s, t) \in Store
           /\ DOMAIN WithoutToken(s, t) = DOMAIN s \ {t}
<1>1. DOMAIN s \subseteq Token /\ s \in [DOMAIN s -> Sharing]
  BY StoreElim
<1>2. DOMAIN WithoutToken(s, t) = DOMAIN s \ {t}
  BY DEF WithoutToken, Restrict
<1>3. WithoutToken(s, t) \in [DOMAIN s \ {t} -> Sharing]
  BY <1>1 DEF WithoutToken, Restrict
<1> QED BY <1>1, <1>2, <1>3, StoreIntro

\* addShare, removeShare and updateShare yield a store with the same ids.
LEMMA WithAccessType ==
    ASSUME NEW s \in Store, NEW t \in Token, NEW h \in Thread, NEW a \in Access
    PROVE  /\ WithAccess(s, t, h, a) \in Store
           /\ DOMAIN WithAccess(s, t, h, a) = DOMAIN s
<1>1. DOMAIN s \subseteq Token /\ s \in [DOMAIN s -> Sharing]
  BY StoreElim
<1>2. DOMAIN WithAccess(s, t, h, a) = DOMAIN s
  BY DEF WithAccess
<1>3. WithAccess(s, t, h, a) \in [DOMAIN s -> Sharing]
  BY <1>1 DEF WithAccess, Sharing
<1> QED BY <1>1, <1>2, <1>3, StoreIntro

-----------------------------------------------------------------------------
\* A turn of the queue.

\* A mutation begins with a well-typed request taken from the queue, while no
\* other one runs (mutateShares' promise chain).
LEMMA TurnType ==
    ASSUME IInv, NEW kind, Turn(kind)
    PROVE  /\ Head(queue) \in Request
           /\ Head(queue).kind = kind
           /\ queue' \in Seq(Request)
           /\ Len(queue') <= MaxQueue
           /\ job.stage = "idle"
BY MaxQueueAssumption DEF IInv, TypeOK, Turn

\* The operations that neither create an invitation nor draw an id.
Alters(s, s2) ==
    \/ Renames(s, s2)      \/ Deletes(s, s2)
    \/ AddsShare(s, s2) \/ RemovesShare(s, s2) \/ UpdatesShare(s, s2)

\* The operation at the head of the queue runs: it is one complete operation,
\* keeps ids and bearers in step, and draws a fresh id exactly when it mints.
Performs == \E newStore \in Store, minted \in SUBSET Token :
    /\ Perform(newStore, DOMAIN newStore, minted)
    /\ \/ /\ minted = {}
          /\ DOMAIN newStore \subseteq DOMAIN store
          /\ Alters(store, newStore)
       \/ \E t \in Token \ drawn :
             /\ minted = {t}
             /\ DOMAIN newStore = DOMAIN store \cup {t}
             /\ Mints(store, newStore)

\* A turn of the queue either performs one operation or throws.
LEMMA RunCases ==
    ASSUME IInv, RunNext
    PROVE  \E kind : Turn(kind) /\ (Refuse \/ Performs)
<1>t. /\ store \in Store /\ bearers = DOMAIN store /\ DOMAIN store \subseteq drawn
      /\ store \in [DOMAIN store -> Sharing] /\ DOMAIN store \subseteq Token
  BY StoreElim DEF IInv, TypeOK, BearersKnown, DrawnInv
<1>1. CASE MintToken
  <2>1. Turn("mint")
    BY <1>1 DEF MintToken
  <2>2. PICK t \in Token \ drawn :
          Perform(WithToken(store, t, Head(queue).shares), bearers \cup {t}, {t})
    BY <1>1 DEF MintToken
  <2>3. Head(queue).shares \in FirstShares
    BY <2>1, TurnType DEF Request
  <2>4. Mints(store, WithToken(store, t, Head(queue).shares))
    BY <1>t, <2>3 DEF Mints
  <2>5. /\ WithToken(store, t, Head(queue).shares) \in Store
        /\ DOMAIN WithToken(store, t, Head(queue).shares) = DOMAIN store \cup {t}
    BY <1>t, <2>3, FirstSharesType, WithTokenType
  <2> QED
    BY <1>t, <2>1, <2>2, <2>4, <2>5 DEF Performs
<1>2. CASE RenameToken
  <2>1. Turn("rename")
    BY <1>2 DEF RenameToken
  <2>2. CASE Head(queue).token \in DOMAIN store
    <3>1. Perform(store, bearers, {})
      BY <1>2, <2>2 DEF RenameToken
    <3>2. Renames(store, store)
      BY <2>2 DEF Renames
    <3> QED BY <1>t, <2>1, <3>1, <3>2 DEF Performs, Alters
  <2>3. CASE Head(queue).token \notin DOMAIN store
    BY <1>2, <2>1, <2>3 DEF RenameToken
  <2> QED BY <2>2, <2>3
<1>3. CASE DeleteToken
  <2> DEFINE t == Head(queue).token
  <2>1. Turn("delete")
    BY <1>3 DEF DeleteToken
  <2>2. CASE t \in DOMAIN store
    <3>1. Perform(WithoutToken(store, t), bearers \ {t}, {})
      BY <1>3, <2>2 DEF DeleteToken
    <3>2. Deletes(store, WithoutToken(store, t))
      BY <2>2 DEF Deletes
    <3>3. WithoutToken(store, t) \in Store /\ DOMAIN WithoutToken(store, t) = DOMAIN store \ {t}
      BY <1>t, WithoutTokenType
    <3> HIDE DEF t
    <3> QED BY <1>t, <2>1, <3>1, <3>2, <3>3 DEF Performs, Alters
  <2>3. CASE t \notin DOMAIN store
    BY <1>3, <2>1, <2>3 DEF DeleteToken
  <2> QED BY <2>2, <2>3
<1>4. CASE AddShare
  <2> DEFINE r == Head(queue)
             next == WithAccess(store, r.token, r.thread, r.perm)
  <2>1. Turn("add")
    BY <1>4 DEF AddShare
  <2>2. r.thread \in Thread /\ r.perm \in Perm
    BY <2>1, TurnType DEF Request
  <2>3. CASE r.token \in DOMAIN store /\ ~Shares(r.token, r.thread)
    <3>1. Perform(next, bearers, {})
      BY <1>4, <2>3 DEF AddShare
    <3>2. AddsShare(store, next)
      BY <2>2, <2>3 DEF AddsShare, Shares
    <3>3. next \in Store /\ DOMAIN next = DOMAIN store
      BY <1>t, <2>2, <2>3, WithAccessType DEF Access
    <3> HIDE DEF next
    <3> QED BY <1>t, <2>1, <3>1, <3>2, <3>3 DEF Performs, Alters
  <2>4. CASE ~(r.token \in DOMAIN store /\ ~Shares(r.token, r.thread))
    BY <1>4, <2>1, <2>4 DEF AddShare
  <2> QED BY <2>3, <2>4
<1>5. CASE RemoveShare
  <2> DEFINE r == Head(queue)
             next == WithAccess(store, r.token, r.thread, "none")
  <2>1. Turn("remove")
    BY <1>5 DEF RemoveShare
  <2>2. r.thread \in Thread
    BY <2>1, TurnType DEF Request
  <2>3. CASE Shares(r.token, r.thread)
    <3>1. Perform(next, bearers, {})
      BY <1>5, <2>3 DEF RemoveShare
    <3>2. RemovesShare(store, next)
      BY <2>2, <2>3 DEF RemovesShare, Shares
    <3>3. next \in Store /\ DOMAIN next = DOMAIN store
      BY <1>t, <2>2, <2>3, WithAccessType DEF Access, Shares
    <3> HIDE DEF next
    <3> QED BY <1>t, <2>1, <3>1, <3>2, <3>3 DEF Performs, Alters
  <2>4. CASE ~Shares(r.token, r.thread)
    BY <1>5, <2>1, <2>4 DEF RemoveShare
  <2> QED BY <2>3, <2>4
<1>6. CASE UpdateShare
  <2> DEFINE r == Head(queue)
             next == WithAccess(store, r.token, r.thread, r.perm)
  <2>1. Turn("update")
    BY <1>6 DEF UpdateShare
  <2>2. r.thread \in Thread /\ r.perm \in Perm
    BY <2>1, TurnType DEF Request
  <2>3. CASE Shares(r.token, r.thread)
    <3>1. Perform(next, bearers, {})
      BY <1>6, <2>3 DEF UpdateShare
    <3>2. UpdatesShare(store, next)
      BY <2>2, <2>3 DEF UpdatesShare, Shares
    <3>3. next \in Store /\ DOMAIN next = DOMAIN store
      BY <1>t, <2>2, <2>3, WithAccessType DEF Access, Shares
    <3> HIDE DEF next
    <3> QED BY <1>t, <2>1, <3>1, <3>2, <3>3 DEF Performs, Alters
  <2>4. CASE ~Shares(r.token, r.thread)
    BY <1>6, <2>1, <2>4 DEF UpdateShare
  <2> QED BY <2>3, <2>4
<1> QED BY <1>1, <1>2, <1>3, <1>4, <1>5, <1>6 DEF RunNext

\* An operation that runs starts a mutation that can be taken back.
LEMMA PerformInv ==
    ASSUME IInv, NEW kind, Turn(kind), Performs
    PROVE  IInv'
<1> USE DEF IInv
<1>0. PICK newStore \in Store, minted \in SUBSET Token :
        /\ Perform(newStore, DOMAIN newStore, minted)
        /\ DOMAIN newStore \subseteq drawn \cup minted
        /\ OneOperation(store, newStore)
  BY DEF Performs, Alters, OneOperation, DrawnInv
<1>1. /\ queue' \in Seq(Request) /\ Len(queue') <= MaxQueue
      /\ job.stage = "idle"
      /\ UNCHANGED <<disk, recovery, titling>>
  BY TurnType DEF Turn
<1>2. /\ store' = newStore /\ bearers' = DOMAIN newStore /\ drawn' = drawn \cup minted
      /\ job' = [stage |-> "saving", minted |-> minted, prior |-> store,
                 priorBearers |-> bearers, snapshot |-> newStore]
  BY <1>0 DEF Perform
<1>3. DOMAIN newStore \subseteq Token
  BY StoreElim
<1>4. job' \in Job
  BY <1>2 DEF Job, TypeOK
<1>5. TypeOK'
  BY <1>1, <1>2, <1>3, <1>4 DEF TypeOK
<1>6. BearersKnown' /\ IdleInv' /\ SavedInv'
  BY <1>2 DEF BearersKnown, IdleInv, SavedInv
<1>7. SavingInv'
  BY <1>0, <1>1, <1>2 DEF SavingInv, IdleInv, BearersKnown, Durable
<1>8. DrawnInv'
  BY <1>0, <1>1, <1>2 DEF DrawnInv
<1> QED BY <1>5, <1>6, <1>7, <1>8

\* One that throws leaves everything but the queue as it was.
LEMMA RefuseInv ==
    ASSUME IInv, NEW kind, Turn(kind), Refuse
    PROVE  IInv'
<1>1. /\ queue' \in Seq(Request) /\ Len(queue') <= MaxQueue
      /\ UNCHANGED <<store, bearers, disk, recovery, job, titling, drawn>>
  BY TurnType DEF Turn, Refuse
<1> QED
  BY <1>1 DEF IInv, TypeOK, BearersKnown, IdleInv, SavingInv, SavedInv, DrawnInv, Durable

\* Beginning a mutation, or refusing it, keeps the inductive invariant.
LEMMA RunInv == IInv /\ RunNext => IInv'
BY RunCases, PerformInv, RefuseInv

-----------------------------------------------------------------------------
\* The other steps, and the inductive invariant.

\* The absence of a running mutation is a well-typed job.
LEMMA NoJobType == NoJob \in Job /\ NoJob.stage = "idle"
BY EmptyStoreType DEF NoJob, Job

\* The plugin starts in the inductive invariant, whatever its record holds.
LEMMA InitInv == Init => IInv
<1> SUFFICES ASSUME Init PROVE IInv
  OBVIOUS
<1>1. queue \in Seq(Request) /\ Len(queue) <= MaxQueue
  BY MaxQueueAssumption DEF Init
<1>2. TypeOK
  BY <1>1, EmptyStoreType, NoJobType DEF Init, TypeOK
<1> QED
  BY <1>2, EmptyStoreType, NoJobType
  DEF Init, IInv, BearersKnown, IdleInv, SavingInv, SavedInv, DrawnInv, Durable

\* An RPC that joins the queue keeps the inductive invariant.
LEMMA SubmitInv ==
    ASSUME IInv, NEW r \in Request, Submit(r)
    PROVE  IInv'
<1>1. queue' \in Seq(Request) /\ Len(queue') <= MaxQueue
  BY MaxQueueAssumption DEF Submit, IInv, TypeOK
<1>2. UNCHANGED <<store, bearers, disk, recovery, job, titling, drawn>>
  BY DEF Submit
<1> QED
  BY <1>1, <1>2 DEF IInv, TypeOK, BearersKnown, IdleInv, SavingInv, SavedInv,
                    DrawnInv, Durable

\* Whatever becomes of a save, memory and record agree again afterwards.
LEMMA SaveInv == IInv /\ SaveNext => IInv'
<1> SUFFICES ASSUME IInv, SaveNext PROVE IInv'
  OBVIOUS
<1> USE DEF IInv
<1>1. CASE SaveWritten
  <2>1. job' \in Job /\ job'.stage = "saved"
    BY <1>1 DEF SaveWritten, TypeOK, Job
  <2>2. /\ disk' = store /\ ~recovery /\ disk' \in Store
        /\ UNCHANGED <<store, bearers, recovery, queue, titling, drawn>>
    BY <1>1 DEF SaveWritten, SaveRefused, SavingInv, TypeOK
  <2> QED
    BY <2>1, <2>2 DEF TypeOK, BearersKnown, IdleInv, SavingInv, SavedInv, DrawnInv
<1>2. CASE SaveDone
  <2>1. /\ job.stage = "saved" /\ job' = NoJob
        /\ titling' \subseteq Token
        /\ UNCHANGED <<store, bearers, disk, recovery, queue, drawn>>
    BY <1>2 DEF SaveDone, TypeOK, Job
  <2>2. store = Durable
    BY <2>1 DEF SavedInv, Durable
  <2> QED
    BY <2>1, <2>2, NoJobType
    DEF TypeOK, BearersKnown, IdleInv, SavingInv, SavedInv, DrawnInv, Durable
<1>3. CASE SaveFailed
  <2>1. /\ job' = NoJob /\ store' = Durable /\ bearers' = DOMAIN store'
        /\ UNCHANGED <<disk, recovery, queue, titling, drawn>>
    BY <1>3 DEF SaveFailed, SavingInv
  <2>2. store' \in Store /\ DOMAIN store' \subseteq Token /\ DOMAIN store' \subseteq drawn
    BY <2>1, EmptyStoreType, StoreElim DEF Durable, TypeOK, DrawnInv
  <2> QED
    BY <2>1, <2>2, NoJobType
    DEF TypeOK, BearersKnown, IdleInv, SavingInv, SavedInv, DrawnInv, Durable
<1> QED BY <1>1, <1>2, <1>3 DEF SaveNext

\* A restart, with a readable record or not, keeps the inductive invariant.
LEMMA RestartInv ==
    ASSUME IInv, NEW readable \in BOOLEAN, Restart(readable)
    PROVE  IInv'
<1> USE DEF IInv
<1>1. /\ recovery' = ~readable /\ store' = Durable' /\ bearers' = DOMAIN store'
      /\ queue' = <<>> /\ job' = NoJob /\ titling' = {}
      /\ UNCHANGED <<disk, drawn>>
  BY DEF Restart, Durable
<1>2. store' \in Store /\ DOMAIN store' \subseteq Token /\ DOMAIN store' \subseteq drawn
  BY <1>1, EmptyStoreType, StoreElim DEF Durable, TypeOK, DrawnInv
<1>3. queue' \in Seq(Request) /\ Len(queue') <= MaxQueue
  BY <1>1, MaxQueueAssumption
<1> QED
  BY <1>1, <1>2, <1>3, NoJobType
  DEF TypeOK, BearersKnown, IdleInv, SavingInv, SavedInv, DrawnInv, Durable

\* Every step of the plugin keeps the inductive invariant.
LEMMA Inductive == IInv /\ [Next]_vars => IInv'
<1> SUFFICES ASSUME IInv, [Next]_vars PROVE IInv'
  OBVIOUS
<1>1. CASE \E r \in Request : Submit(r)
  BY <1>1, SubmitInv
<1>2. CASE RunNext
  BY <1>2, RunInv
<1>3. CASE SaveNext
  BY <1>3, SaveInv
<1>4. CASE AnnounceMint
  <2>1. titling' \subseteq Token /\ UNCHANGED <<store, bearers, disk, recovery, queue, job, drawn>>
    BY <1>4 DEF AnnounceMint, IInv, TypeOK
  <2> QED
    BY <2>1 DEF IInv, TypeOK, BearersKnown, IdleInv, SavingInv, SavedInv, DrawnInv, Durable
<1>5. CASE \E readable \in BOOLEAN : Restart(readable)
  BY <1>5, RestartInv
<1>6. CASE UNCHANGED vars
  BY <1>6 DEF vars, IInv, TypeOK, BearersKnown, IdleInv, SavingInv, SavedInv, DrawnInv, Durable
<1> QED BY <1>1, <1>2, <1>3, <1>4, <1>5, <1>6 DEF Next

\* The inductive invariant holds in every reachable state (server.ts, 171-205).
THEOREM Invariance == Spec => []IInv
BY InitInv, Inductive, PTL DEF Spec

\* Every variable keeps its type (server.ts, 162-205; token-store.ts, 218-342).
THEOREM TypeCorrect == Spec => []TypeOK
<1>1. IInv => TypeOK
  BY DEF IInv
<1> QED BY <1>1, Invariance, PTL

\* Between two mutations the live store is the durable one (mutateShares).
THEOREM LiveIsDurableHolds == Spec => []LiveIsDurable
<1>1. IInv => LiveIsDurable
  BY DEF IInv, IdleInv, Durable, LiveIsDurable
<1> QED BY <1>1, Invariance, PTL

\* Every live invitation keeps its bearer (persistShares, the rollback).
THEOREM BearersKnownHolds == Spec => []BearersKnown
<1>1. IInv => BearersKnown
  BY DEF IInv
<1> QED BY <1>1, Invariance, PTL

-----------------------------------------------------------------------------
\* The record implements the ledger.

\* The record changes only when a save is written, and then by the running
\* mutation's one operation.
LEMMA DiskStep ==
    IInv /\ [Next]_vars => \/ UNCHANGED disk
                           \/ job.stage = "saving" /\ OneOperation(disk, disk')
<1> SUFFICES ASSUME IInv, Next, disk' # disk
             PROVE  job.stage = "saving" /\ OneOperation(disk, disk')
  BY DEF vars
<1>1. SaveWritten
  BY DEF Next, Submit, RunNext, MintToken, RenameToken, DeleteToken, AddShare, RemoveShare,
         UpdateShare, Turn, SaveNext, SaveDone, SaveFailed, AnnounceMint, Restart
<1>2. job.prior = disk
  BY <1>1 DEF SaveWritten, SaveRefused, IInv, SavingInv, Durable
<1> QED BY <1>1, <1>2 DEF SaveWritten, IInv, SavingInv

\* The operations of the ledger are those of this module, under another name.
LEMMA LedgerOperations ==
    ASSUME NEW s, NEW s2
    PROVE  OneOperation(s, s2) <=> Ledger!OneOperation(s, s2)
<1>1. /\ FirstShares = Ledger!FirstShares
      /\ \A t, x : WithToken(s, t, x) = Ledger!WithToken(s, t, x)
  BY DEF FirstShares, Ledger!FirstShares, NoShares, Ledger!NoShares,
         WithToken, Ledger!WithToken
<1>2. /\ \A t : WithoutToken(s, t) = Ledger!WithoutToken(s, t)
      /\ \A t, h, a : WithAccess(s, t, h, a) = Ledger!WithAccess(s, t, h, a)
  BY DEF WithoutToken, Ledger!WithoutToken, Restrict, Ledger!Restrict,
         WithAccess, Ledger!WithAccess
<1>3. Mints(s, s2) <=> Ledger!Mints(s, s2)
  BY <1>1 DEF Mints, Ledger!Mints
<1>4. Deletes(s, s2) <=> Ledger!Deletes(s, s2)
  BY <1>2 DEF Deletes, Ledger!Deletes
<1>5. /\ AddsShare(s, s2) <=> Ledger!AddsShare(s, s2)
      /\ RemovesShare(s, s2) <=> Ledger!RemovesShare(s, s2)
      /\ UpdatesShare(s, s2) <=> Ledger!UpdatesShare(s, s2)
  BY <1>2 DEF AddsShare, Ledger!AddsShare, RemovesShare, Ledger!RemovesShare,
              UpdatesShare, Ledger!UpdatesShare
<1> QED
  BY <1>3, <1>4, <1>5 DEF OneOperation, Ledger!OneOperation, Renames, Ledger!Renames

\* Every change of the record is one complete owner operation (server.ts,
\* mutateShares; share-state-record.ts, save).
THEOREM LedgerRefinement == Spec => ImplementsLedger
<1>1. Init => Ledger!LedgerInit
  BY DEF Init, Ledger!LedgerInit, EmptyStore, Ledger!EmptyStore, NoShares, Ledger!NoShares
<1>2. IInv /\ [Next]_vars => [Ledger!LedgerNext]_disk
  BY DiskStep, LedgerOperations DEF Ledger!LedgerNext
<1> QED BY <1>1, <1>2, Invariance, PTL DEF Spec, ImplementsLedger, Ledger!LedgerSpec

-----------------------------------------------------------------------------
\* The live store implements LiveShares.

\* LiveShares has its own copies of the operations; they mean the same.
LEMMA LiveOperations ==
    ASSUME NEW s, NEW s2
    PROVE  /\ Mints(s, s2) <=> Live!Mints(s, s2)
           /\ Alters(s, s2) <=> \/ Live!Renames(s, s2)   \/ Live!Deletes(s, s2)
                                \/ Live!AddsShare(s, s2) \/ Live!RemovesShare(s, s2)
                                \/ Live!UpdatesShare(s, s2)
<1>1. /\ FirstShares = Live!FirstShares
      /\ \A t, x : WithToken(s, t, x) = Live!WithToken(s, t, x)
  BY DEF FirstShares, Live!FirstShares, NoShares, Live!NoShares, WithToken, Live!WithToken
<1>2. /\ \A t : WithoutToken(s, t) = Live!WithoutToken(s, t)
      /\ \A t, h, a : WithAccess(s, t, h, a) = Live!WithAccess(s, t, h, a)
  BY DEF WithoutToken, Live!WithoutToken, Restrict, Live!Restrict,
         WithAccess, Live!WithAccess
<1>3. Mints(s, s2) <=> Live!Mints(s, s2)
  BY <1>1 DEF Mints, Live!Mints
<1>4. Deletes(s, s2) <=> Live!Deletes(s, s2)
  BY <1>2 DEF Deletes, Live!Deletes
<1>5. /\ AddsShare(s, s2) <=> Live!AddsShare(s, s2)
      /\ RemovesShare(s, s2) <=> Live!RemovesShare(s, s2)
      /\ UpdatesShare(s, s2) <=> Live!UpdatesShare(s, s2)
  BY <1>2 DEF AddsShare, Live!AddsShare, RemovesShare, Live!RemovesShare,
              UpdatesShare, Live!UpdatesShare
<1> QED BY <1>3, <1>4, <1>5 DEF Alters, Renames, Live!Renames

\* A mutation that begins is a Change of LiveShares, and says whether it mints.
LEMMA LiveRun ==
    ASSUME IInv, NEW kind, Turn(kind), Performs
    PROVE  \E isMint \in BOOLEAN : Live!Change(isMint)
<1>0. PICK newStore \in Store, minted \in SUBSET Token :
        /\ Perform(newStore, DOMAIN newStore, minted)
        /\ \/ /\ minted = {}
              /\ DOMAIN newStore \subseteq DOMAIN store
              /\ Alters(store, newStore)
           \/ \E t \in Token \ drawn :
                 /\ minted = {t}
                 /\ DOMAIN newStore = DOMAIN store \cup {t}
                 /\ Mints(store, newStore)
  BY DEF Performs
<1>1. /\ job.stage = "idle" /\ UNCHANGED <<disk, recovery>>
      /\ store' = newStore /\ drawn' = drawn \cup minted
      /\ job'.stage = "saving" /\ job'.minted = minted
  BY <1>0 DEF Turn, Perform
<1>2. DOMAIN store \subseteq drawn
  BY DEF IInv, DrawnInv
<1>3. CASE minted = {}
  <2>1. DOMAIN store' \subseteq drawn /\ Alters(store, store')
    BY <1>0, <1>1, <1>2, <1>3
  <2>2. Live!Change(FALSE)
    BY <1>1, <1>3, <2>1, LiveOperations DEF Live!Change
  <2> QED BY <2>2
<1>4. CASE minted # {}
  <2>1. PICK t \in Token \ drawn :
          minted = {t} /\ DOMAIN store' = DOMAIN store \cup {t} /\ Mints(store, store')
    BY <1>0, <1>1, <1>4
  <2>2. DOMAIN store' \cap drawn = DOMAIN store /\ drawn' = drawn \cup DOMAIN store'
    BY <1>1, <1>2, <2>1
  <2>3. Live!Change(TRUE)
    BY <1>1, <1>4, <2>1, <2>2, LiveOperations DEF Live!Change
  <2> QED BY <2>3
<1> QED BY <1>3, <1>4

\* What becomes of a save is what LiveShares says may become of a change.
LEMMA LiveSave ==
    ASSUME IInv, SaveNext
    PROVE  Live!Written \/ Live!Acknowledged \/ Live!TakenBack
<1> USE DEF IInv
<1>0. Live!EmptyStore = EmptyStore
  BY DEF Live!EmptyStore, EmptyStore, Live!NoShares, NoShares
<1>1. CASE SaveWritten
  <2>1. job'.stage = "saved" /\ job'.minted = job.minted
    BY <1>1 DEF SaveWritten, TypeOK, Job
  <2> QED BY <1>1, <2>1 DEF SaveWritten, SaveRefused, SavingInv, Live!Written
<1>2. CASE SaveDone
  BY <1>2, NoJobType DEF SaveDone, NoJob, Live!Acknowledged
<1>3. CASE SaveFailed
  BY <1>0, <1>3, NoJobType DEF SaveFailed, SavingInv, Durable, NoJob, Live!TakenBack
<1> QED BY <1>1, <1>2, <1>3 DEF SaveNext

\* Every step of the plugin is a step of LiveShares or leaves its state alone.
LEMMA LiveStep == IInv /\ [Next]_vars => [Live!LiveNext]_(Live!liveVars)
<1> SUFFICES ASSUME IInv, [Next]_vars PROVE [Live!LiveNext]_(Live!liveVars)
  OBVIOUS
<1>0. Live!EmptyStore = EmptyStore
  BY DEF Live!EmptyStore, EmptyStore, Live!NoShares, NoShares
<1>1. CASE \E r \in Request : Submit(r)
  BY <1>1 DEF Submit, Live!liveVars
<1>2. CASE RunNext
  <2>1. PICK kind : Turn(kind) /\ (Refuse \/ Performs)
    BY <1>2, RunCases
  <2>2. CASE Refuse
    BY <2>1, <2>2 DEF Turn, Refuse, Live!liveVars
  <2>3. CASE Performs
    BY <2>1, <2>3, LiveRun DEF Live!LiveNext
  <2> QED BY <2>1, <2>2, <2>3
<1>3. CASE SaveNext
  BY <1>3, LiveSave DEF Live!LiveNext
<1>4. CASE AnnounceMint
  BY <1>4 DEF AnnounceMint, Live!liveVars
<1>5. CASE \E readable \in BOOLEAN : Restart(readable)
  <2>1. PICK readable \in BOOLEAN : Restart(readable)
    BY <1>5
  <2>2. Live!Reload(readable)
    BY <1>0, <2>1 DEF Restart, NoJob, Live!Reload
  <2> QED BY <2>2 DEF Live!LiveNext
<1>6. CASE UNCHANGED vars
  BY <1>6 DEF vars, Live!liveVars
<1> QED BY <1>1, <1>2, <1>3, <1>4, <1>5, <1>6 DEF Next

\* The gateway's view of the store is that of LiveShares (server.ts,
\* mutateShares): what is proved or checked against LiveShares holds here.
THEOREM LiveSharesRefinement == Spec => ImplementsLiveShares
<1>1. Init => Live!LiveInit
  BY DEF Init, NoJob, Live!LiveInit, EmptyStore, Live!EmptyStore, NoShares, Live!NoShares
<1> QED
  BY <1>1, LiveStep, Invariance, PTL DEF Spec, ImplementsLiveShares, Live!LiveSpec
=============================================================================
