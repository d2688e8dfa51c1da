------------------------- MODULE OwnerPanel_proofs --------------------------
(***************************************************************************)
(* Proofs about OwnerPanel, for any invitations, threads and hostnames and *)
(* any number of calls and list requests.                                  *)
(***************************************************************************)
EXTENDS OwnerPanel, FiniteSetTheorems, TLAPS

\* The plugin's state, and a list as the plugin answers with it.
ServerTypes ==
    /\ store \in Store /\ disk \in Store
    /\ host \in Host \cup {None}
    /\ version \in Nat

List    == [store : Store, host : Host \cup {None}, at : Nat]
Request == [current : BOOLEAN, read : BOOLEAN, list : List]

\* A call that nobody waits for, or that was answered, has no control.
CallTypes ==
    /\ calls \in Seq(Call) /\ Len(calls) <= MaxCalls
    /\ \A n \in DOMAIN calls :
          ~calls[n].here \/ calls[n].stage = "settled" => calls[n].control = None

\* Only the last list request is current.  What was fetched is not from the
\* future, and what the current request has read is no older than what is shown.
ListTypes ==
    /\ loads \in Seq(Request) /\ Len(loads) <= MaxLoads
    /\ view \in SUBSET List
    /\ \A list, other \in view : list = other
    /\ \A list \in view : list.at <= version
    /\ \A i \in DOMAIN loads :
          /\ loads[i].current => i = Len(loads)
          /\ loads[i].list.at <= version
          /\ loads[i].current /\ loads[i].read => \A list \in view : list.at <= loads[i].list.at

ScreenTypes ==
    /\ screen \in Screen \cup {"none"}
    /\ failed \in BOOLEAN
    /\ busy \subseteq Control
    /\ screen = "page" => \A c \in busy, list \in view : c[2] \in DOMAIN list.store

\* A screen that is closed shows, waits for and disables nothing.
Closed ==
    screen = "none" =>
        /\ view = {} /\ loads = <<>> /\ busy = {} /\ ~failed
        /\ \A n \in DOMAIN calls : calls[n].control = None /\ ~calls[n].here

\* A control is disabled while some call of its own is in flight, and only one is.
Disabled(c) == IF c \in busy THEN \E n \in DOMAIN calls : CallsOf(c) = {n} ELSE CallsOf(c) = {}

ControlsMatch == screen \in {"page", "connections"} => \A c \in Control : Disabled(c)

\* Every broadcast on its way was made by a call of its own.
OverAmong(cs) == {n \in DOMAIN cs : cs[n].stage \in {"ok", "error", "settled"}}
Over          == OverAmong(calls)
NewsCounted   == news \in [Channel -> Nat] /\ \A c \in Channel : news[c] <= Cardinality(Over)

PanelInv ==
    /\ ServerTypes /\ CallTypes /\ ListTypes /\ ScreenTypes
    /\ Closed /\ ControlsMatch /\ NewsCounted

-----------------------------------------------------------------------------
\* Stores, calls and requests.

LEMMA EmptyStoreType == EmptyStore \in Store
BY DEF Store, EmptyStore

\* A function from some ids to what they share is a store.
LEMMA StoreIntro ==
    ASSUME NEW s, NEW S, S \subseteq Token, s \in [S -> Sharing]
    PROVE  s \in Store
BY DEF Store

\* Whatever the owner's operation is, it leaves a store.
LEMMA ChangeStore ==
    ASSUME store \in Store, NEW isMint \in BOOLEAN, Change(isMint)
    PROVE  store' \in Store /\ disk' = disk
<1>0. DOMAIN store \subseteq Token /\ store \in [DOMAIN store -> Sharing]
  BY DEF Store
<1>1. CASE isMint
  <2>1. PICK t \in Token \ DOMAIN store, shares \in FirstShares : store' = WithToken(store, t, shares)
    BY <1>1 DEF Change, Mints
  <2>2. shares \in Sharing
    BY DEF FirstShares, NoShares, Sharing, Access
  <2>3. store' \in [DOMAIN store \cup {t} -> Sharing]
    BY <1>0, <2>1, <2>2 DEF WithToken
  <2> QED  BY <1>0, <2>3, StoreIntro DEF Change
<1>2. CASE ~isMint
  <2>1. CASE Renames(store, store')
    BY <2>1 DEF Renames, Change
  <2>2. CASE Deletes(store, store')
    <3>1. PICK t \in DOMAIN store : store' = WithoutToken(store, t)
      BY <2>2 DEF Deletes
    <3>2. store' \in [DOMAIN store \ {t} -> Sharing]
      BY <1>0, <3>1 DEF WithoutToken, Restrict
    <3>3. DOMAIN store \ {t} \subseteq Token
      BY <1>0
    <3> QED  BY <3>2, <3>3, StoreIntro DEF Change
  <2>3. CASE AddsShare(store, store') \/ RemovesShare(store, store') \/ UpdatesShare(store, store')
    <3>1. PICK t \in DOMAIN store, h \in Thread, a \in Access : store' = WithAccess(store, t, h, a)
      BY <2>3 DEF AddsShare, RemovesShare, UpdatesShare, Access
    <3>2. store' \in [DOMAIN store -> Sharing]
      BY <1>0, <3>1 DEF WithAccess, Sharing
    <3> QED  BY <1>0, <3>2, StoreIntro DEF Change
  <2> QED  BY <1>2, <2>1, <2>2, <2>3 DEF Change
<1> QED  BY <1>1, <1>2

Stage == {"sent", "performed", "titling", "ok", "error", "settled"}

LEMMA SettledType ==
    /\ Settled \in Call
    /\ Settled.stage = "settled" /\ Settled.control = None /\ ~Settled.here
BY DEF Settled, Call, Op

\* A call in its next stage is the same control's and the same screen's.
LEMMA AtType ==
    ASSUME NEW call \in Call, NEW stage \in Stage
    PROVE  /\ At(call, stage) \in Call
           /\ At(call, stage).stage = stage
           /\ At(call, stage).control = call.control
           /\ At(call, stage).here = call.here
BY DEF At, Settled, Call, Op, Stage

\* An answer is on its way to a control that waits for it, if there is one.
LEMMA AnsweredType ==
    ASSUME NEW call \in Call, ~call.here => call.control = None, NEW stage \in {"ok", "error"}
    PROVE  /\ Answered(call, stage) \in Call
           /\ Answered(call, stage).stage \in {"ok", "error", "settled"}
           /\ Answered(call, stage).control = call.control
           /\ Answered(call, stage).here => call.here
           /\ ~Answered(call, stage).here \/ Answered(call, stage).stage = "settled"
                 => Answered(call, stage).control = None
BY SettledType, AtType DEF Answered, Stage

\* What is left when element i is taken out.
LEMMA Removed ==
    ASSUME NEW S, NEW s \in Seq(S), NEW i \in DOMAIN s
    PROVE  /\ RemoveAt(s, i) \in Seq(S)
           /\ Len(RemoveAt(s, i)) = Len(s) - 1
           /\ \A j \in DOMAIN RemoveAt(s, i) :
                RemoveAt(s, i)[j] = IF j < i THEN s[j] ELSE s[j + 1]
<1> DEFINE a == SubSeq(s, 1, i - 1)
           b == SubSeq(s, i + 1, Len(s))
<1>1. /\ a \in Seq(S) /\ Len(a) = i - 1
      /\ \A j \in 1..Len(a) : a[j] = s[j]
  OBVIOUS
<1>2. /\ b \in Seq(S) /\ Len(b) = Len(s) - i
      /\ \A j \in 1..Len(b) : b[j] = s[j + i]
  OBVIOUS
<1>3. RemoveAt(s, i) = a \o b
  BY DEF RemoveAt
<1> HIDE DEF a, b
<1>4. a \o b \in Seq(S) /\ Len(a \o b) = Len(s) - 1
  BY <1>1, <1>2
<1>5. ASSUME NEW j \in DOMAIN (a \o b) PROVE (a \o b)[j] = IF j < i THEN s[j] ELSE s[j + 1]
  <2>1. j \in 1..(Len(a) + Len(b)) /\ (a \o b)[j] = IF j <= Len(a) THEN a[j] ELSE b[j - Len(a)]
    BY <1>1, <1>2
  <2>2. CASE j < i
    BY <1>1, <2>1, <2>2
  <2>3. CASE ~(j < i)
    <3>1. j - Len(a) \in 1..Len(b)
      <4>1. Len(a) \in Nat /\ Len(b) \in Nat /\ i \in Nat /\ Len(a) = i - 1
        BY <1>1, <1>2
      <4>2. j \in Nat /\ j <= Len(a) + Len(b) /\ i <= j
        BY <2>1, <2>3, <4>1
      <4> QED  BY <4>1, <4>2
    <3>2. j - Len(a) + i = j + 1
      BY <1>1, <2>1
    <3>3. b[j - Len(a)] = s[j - Len(a) + i]
      BY <1>2, <3>1
    <3>4. ~(j <= Len(a))
      BY <1>1, <2>1, <2>3
    <3> QED  BY <2>1, <2>3, <3>2, <3>3, <3>4
  <2> QED  BY <2>2, <2>3
<1> QED  BY <1>3, <1>4, <1>5

LEMMA UnloadedType == Unloaded \in List /\ Unloaded.at = 0
BY EmptyStoreType DEF Unloaded, List

\* The new request is the current one and has read nothing.
LEMMA AskedType ==
    ASSUME loads \in Seq(Request)
    PROVE  /\ Asked(loads) \in Seq(Request)
           /\ Len(Asked(loads)) = Len(loads) + 1
           /\ \A i \in DOMAIN Asked(loads) :
                IF i = Len(loads) + 1
                  THEN Asked(loads)[i].current /\ ~Asked(loads)[i].read
                       /\ Asked(loads)[i].list = Unloaded
                  ELSE ~Asked(loads)[i].current /\ Asked(loads)[i].list = loads[i].list
<1> DEFINE older == [i \in DOMAIN loads |-> [loads[i] EXCEPT !.current = FALSE]]
           new == [current |-> TRUE, read |-> FALSE, list |-> Unloaded]
<1>1. new \in Request /\ new.current /\ ~new.read /\ new.list = Unloaded
  BY UnloadedType DEF Request
<1>2. \A i \in DOMAIN loads : /\ older[i] \in Request
                              /\ ~older[i].current /\ older[i].list = loads[i].list
  <2> TAKE i \in DOMAIN loads
  <2>1. loads[i] \in Request
    OBVIOUS
  <2>2. [loads[i] EXCEPT !.current = FALSE] \in Request
    BY <2>1 DEF Request
  <2>3. /\ ~[loads[i] EXCEPT !.current = FALSE].current
        /\ [loads[i] EXCEPT !.current = FALSE].list = loads[i].list
    BY <2>1 DEF Request
  <2> QED  BY <2>2, <2>3
<1>3. older \in Seq(Request) /\ Len(older) = Len(loads)
  BY <1>2
<1>4. Asked(loads) = Append(older, new)
  BY DEF Asked
<1> HIDE DEF older, new
<1> QED  BY <1>1, <1>2, <1>3, <1>4

-----------------------------------------------------------------------------
\* The plugin.

LEMMA ServerKept == ServerTypes /\ CallTypes /\ [PanelNext]_vars => ServerTypes' /\ version <= version'
<1> SUFFICES ASSUME ServerTypes, CallTypes, [PanelNext]_vars
             PROVE  ServerTypes' /\ version <= version'
  OBVIOUS
<1>1. CASE UNCHANGED <<store, disk, host, version>>
  BY <1>1 DEF ServerTypes
<1>2. ASSUME NEW c, Performed(c) PROVE ServerTypes' /\ version <= version'
  <2>1. \E isMint \in BOOLEAN : Change(isMint)
    <3>1. (c.op = "mint") \in BOOLEAN /\ Change(c.op = "mint")
      BY <1>2 DEF Performed
    <3> QED  BY <3>1, Zenon
  <2>2. store' \in Store /\ disk' = disk
    BY <2>1, ChangeStore DEF ServerTypes
  <2> QED  BY <1>2, <2>2 DEF Performed, ServerTypes
<1>3. CASE SaveWritten
  BY <1>3 DEF SaveWritten, Written, ServerTypes
<1>4. ASSUME NEW n, CallSaved(n) PROVE ServerTypes' /\ version <= version'
  BY <1>4 DEF CallSaved, Acknowledged, ServerTypes
<1>5. ASSUME NEW n, CallUndone(n) PROVE ServerTypes' /\ version <= version'
  BY <1>5, EmptyStoreType DEF CallUndone, TakenBack, ServerTypes
<1>6. CASE ConnectionsChange
  BY <1>6 DEF ConnectionsChange, liveVars, ServerTypes
<1>7. CASE OwnerNext
  <2>1. ASSUME NEW op, NEW t, NEW h, NEW p, Elsewhere(op, t, h, p)
        PROVE  ServerTypes' /\ version <= version'
    BY <1>2, <2>1 DEF Elsewhere
  <2>2. CASE ElsewhereNext
    BY <2>1, <2>2 DEF ElsewhereNext
  <2>3. CASE ConnectionsChangedElsewhere
    BY <1>6, <2>3 DEF ConnectionsChangedElsewhere
  <2>4. CASE Close
    BY <1>1, <2>4 DEF Close, liveVars
  <2>5. CASE \/ \E t \in Token, h \in Thread, new \in Access : ChoosePerm(t, h, new)
             \/ \E p \in Perm : Mint(p)
             \/ \E t \in Token : Rename(t) \/ Delete(t)
             \/ ClickConnections
    <3>1. ASSUME NEW op, NEW t, NEW h, NEW p, NEW c, Makes(op, t, h, p, c)
          PROVE  UNCHANGED <<store, disk, host, version>>
      BY <3>1 DEF Makes, liveVars
    <3>2. UNCHANGED <<store, disk, host, version>>
      BY <2>5, <3>1 DEF ChoosePerm, Mint, Rename, Delete, ClickConnections
    <3> QED  BY <1>1, <3>2
  <2>6. CASE (\E s \in Screen : Open(s)) \/ Retry
    BY <1>1, <2>6 DEF Open, Retry, serverVars, liveVars
  <2> QED  BY <1>7, <2>2, <2>3, <2>4, <2>5, <2>6 DEF OwnerNext
<1>8. CASE LoadNext
  BY <1>1, <1>8 DEF LoadNext, LoadRead, LoadAnswered, LoadFails, serverVars, liveVars
<1>9. CASE CallNext
  BY <1>1, <1>2, <1>4, <1>5, <1>6, <1>9
     DEF CallNext, CallPerformed, CallRefused, MintAnnounced, ConnectionsChanged, ConnectionsFailed,
         CallAnswered, liveVars
<1>10. CASE NewsNext
  BY <1>1, <1>10 DEF NewsNext, NewsArrives, liveVars
<1>11. CASE UNCHANGED vars
  BY <1>1, <1>11 DEF vars, serverVars, liveVars
<1> QED  BY <1>3, <1>7, <1>8, <1>9, <1>10, <1>11 DEF PanelNext

-----------------------------------------------------------------------------
\* Calls.

\* A call in flight that says what its control is has one.
Honest(call) == call \in Call /\ (~call.here \/ call.stage = "settled" => call.control = None)

LEMMA Appended ==
    ASSUME CallTypes, NEW call, Honest(call), Len(calls) < MaxCalls, calls' = Append(calls, call)
    PROVE  /\ CallTypes'
           /\ Len(calls') = Len(calls) + 1 /\ DOMAIN calls' = DOMAIN calls \cup {Len(calls) + 1}
           /\ calls'[Len(calls) + 1] = call /\ \A n \in DOMAIN calls : calls'[n] = calls[n]
<1>1. Len(calls) \in Nat /\ MaxCalls \in Nat /\ DOMAIN calls = 1..Len(calls)
  BY PanelAssumption DEF CallTypes
<1>2. /\ calls' \in Seq(Call) /\ Len(calls') = Len(calls) + 1
      /\ calls'[Len(calls) + 1] = call /\ \A n \in DOMAIN calls : calls'[n] = calls[n]
  BY DEF CallTypes, Honest
<1>3. DOMAIN calls' = DOMAIN calls \cup {Len(calls) + 1}
  BY <1>1, <1>2
<1> QED  BY <1>1, <1>2, <1>3 DEF CallTypes, Honest

LEMMA Replaced ==
    ASSUME CallTypes, NEW n \in DOMAIN calls, NEW call, Honest(call),
           calls' = [calls EXCEPT ![n] = call]
    PROVE  /\ CallTypes' /\ Len(calls') = Len(calls) /\ DOMAIN calls' = DOMAIN calls
           /\ calls'[n] = call /\ \A m \in DOMAIN calls : m # n => calls'[m] = calls[m]
BY DEF CallTypes, Honest

LEMMA SequenceOf ==
    ASSUME NEW S, NEW k \in Nat, NEW r, r = [n \in 1..k |-> r[n]], \A n \in 1..k : r[n] \in S
    PROVE  r \in Seq(S) /\ Len(r) = k
OBVIOUS

\* Calls that only lose their controls.
Detaches ==
    /\ calls' \in Seq(Call) /\ Len(calls') = Len(calls)
    /\ \A n \in DOMAIN calls :
          /\ \/ calls'[n].stage = calls[n].stage
             \/ calls'[n].stage = "settled" /\ calls[n].stage \in {"ok", "error"}
          /\ calls'[n].control = None \/ calls'[n] = calls[n]

LEMMA CloseDetaches ==
    ASSUME CallTypes, Close
    PROVE  Detaches /\ \A n \in DOMAIN calls : calls'[n].control = None /\ ~calls'[n].here
<1> DEFINE f(n) == IF calls[n].stage \in {"ok", "error"} THEN Settled
                   ELSE [Detached(calls)[n] EXCEPT !.here = FALSE]
<1>1. calls' = [n \in DOMAIN calls |-> f(n)]
  BY DEF Close
<1>2. ASSUME NEW n \in DOMAIN calls
      PROVE  /\ f(n) \in Call /\ f(n).control = None /\ ~f(n).here
             /\ \/ f(n).stage = calls[n].stage
                \/ f(n).stage = "settled" /\ calls[n].stage \in {"ok", "error"}
  <2>1. calls[n] \in Call
    BY DEF CallTypes
  <2>2. Detached(calls)[n] = [calls[n] EXCEPT !.control = None]
    BY DEF Detached
  <2> DEFINE d == [[calls[n] EXCEPT !.control = None] EXCEPT !.here = FALSE]
  <2>3. d \in Call /\ d.control = None /\ d.stage = calls[n].stage /\ ~d.here
    BY <2>1 DEF Call
  <2>4. [Detached(calls)[n] EXCEPT !.here = FALSE] = d
    BY <2>2
  <2> HIDE DEF d
  <2> QED  BY <2>3, <2>4, SettledType
<1> HIDE DEF f
<1>3. calls' \in Seq(Call) /\ Len(calls') = Len(calls) /\ \A n \in DOMAIN calls : calls'[n] = f(n)
  BY <1>1, <1>2 DEF CallTypes
<1> QED  BY <1>2, <1>3 DEF Detaches

LEMMA LosesControl ==
    ASSUME NEW call \in Call
    PROVE  /\ [call EXCEPT !.control = None] \in Call
           /\ [call EXCEPT !.control = None].control = None
           /\ [call EXCEPT !.control = None].stage = call.stage
BY DEF Call

LEMMA DetachedDetaches ==
    ASSUME CallTypes, calls' = Detached(calls)
    PROVE  Detaches /\ \A n \in DOMAIN calls : calls'[n].control = None
<1>1. \A n \in DOMAIN calls : calls'[n] = [calls[n] EXCEPT !.control = None] /\ calls[n] \in Call
  BY DEF Detached, CallTypes
<1>2. DOMAIN calls' = DOMAIN calls
  BY DEF Detached
<1>3. \A n \in DOMAIN calls : /\ calls'[n] \in Call /\ calls'[n].control = None
                              /\ calls'[n].stage = calls[n].stage
  <2> TAKE n \in DOMAIN calls
  <2>1. calls[n] \in Call /\ calls'[n] = [calls[n] EXCEPT !.control = None]
    BY <1>1
  <2> QED  BY <2>1, LosesControl
<1>4. calls' \in Seq(Call) /\ Len(calls') = Len(calls)
  <2>1. calls' = [n \in 1..Len(calls) |-> calls'[n]] /\ Len(calls) \in Nat
    BY <1>2 DEF CallTypes, Detached
  <2> QED  BY <1>3, <2>1, SequenceOf DEF CallTypes
<1> QED  BY <1>3, <1>4 DEF Detaches

\* An answered list takes the controls that it does not show.
LEMMA ListDetaches ==
    ASSUME CallTypes, NEW list,
           calls' = [n \in DOMAIN calls |-> IF Shown(calls[n].control, list) THEN calls[n]
                                            ELSE [calls[n] EXCEPT !.control = None]]
    PROVE  /\ Detaches
           /\ \A n \in DOMAIN calls :
                IF Shown(calls[n].control, list) THEN calls'[n] = calls[n] ELSE calls'[n].control = None
<1> DEFINE f(n) == IF Shown(calls[n].control, list) THEN calls[n]
                   ELSE [calls[n] EXCEPT !.control = None]
<1>1. \A n \in DOMAIN calls :
         /\ f(n) \in Call /\ f(n).stage = calls[n].stage
         /\ IF Shown(calls[n].control, list) THEN f(n) = calls[n] ELSE f(n).control = None
  <2> TAKE n \in DOMAIN calls
  <2>1. calls[n] \in Call
    BY DEF CallTypes
  <2> QED  BY <2>1, LosesControl
<1>2. calls' = [n \in DOMAIN calls |-> f(n)] /\ Len(calls) \in Nat /\ DOMAIN calls = 1..Len(calls)
  BY DEF CallTypes
<1> HIDE DEF f
<1>3. \A n \in DOMAIN calls : calls'[n] = f(n)
  BY <1>2, Zenon
<1>4. calls' \in Seq(Call) /\ Len(calls') = Len(calls)
  <2>1. calls' = [n \in 1..Len(calls) |-> calls'[n]]
    BY <1>2, Zenon
  <2>2. \A n \in 1..Len(calls) : calls'[n] \in Call
    BY <1>1, <1>2, <1>3, Zenon
  <2> QED  BY <1>2, <2>1, <2>2, SequenceOf, Zenon
<1>5. \A n \in DOMAIN calls :
         /\ calls'[n].stage = calls[n].stage
         /\ IF Shown(calls[n].control, list) THEN calls'[n] = calls[n] ELSE calls'[n].control = None
  BY <1>1, <1>3, Zenon
<1> HIDE DEF Shown
<1> QED  BY <1>4, <1>5, Zenon DEF Detaches

LEMMA DetachesTypes ==
    ASSUME CallTypes, Detaches
    PROVE  CallTypes' /\ DOMAIN calls' = DOMAIN calls
BY DEF CallTypes, Detaches

-----------------------------------------------------------------------------
\* What a step does to the calls.

UnderWay(call) == call.stage \in {"sent", "performed", "titling"}

\* A click adds a call of its control; no other part of the plugin or of the
\* screen but that control changes.
Clicks(control) ==
    /\ control \in Control /\ control \notin busy
    /\ \E call : /\ Honest(call) /\ UnderWay(call) /\ call.control = control
                 /\ Len(calls) < MaxCalls /\ calls' = Append(calls, call)
    /\ UNCHANGED <<news, version, screen, view, failed, loads>>
    /\ screen # "none"
    /\ screen # "popover" => busy' = busy \cup {control}
    /\ busy' \subseteq busy \cup {control}
    /\ screen = "page" => \A list \in view : control[2] \in DOMAIN list.store

LEMMA MadeCall ==
    ASSUME NEW op \in Op, NEW t \in Token \cup {None}, NEW h \in Thread \cup {None},
           NEW p \in Perm \cup {None}, NEW control \in Control, Makes(op, t, h, p, control)
    PROVE  /\ \E call : /\ Honest(call) /\ UnderWay(call) /\ call.control = control
                        /\ Len(calls) < MaxCalls /\ calls' = Append(calls, call)
           /\ UNCHANGED <<news, version, screen, view, failed, loads>>
<1> DEFINE call == [op |-> op, token |-> t, thread |-> h, perm |-> p, stage |-> "sent",
                    control |-> control, here |-> TRUE]
<1>1. call \in Call /\ call.stage = "sent" /\ call.control = control /\ call.here
  BY DEF Call
<1>2. Len(calls) < MaxCalls /\ calls' = Append(calls, call)
  BY DEF Makes
<1> HIDE DEF call
<1> QED  BY <1>1, <1>2 DEF Honest, UnderWay, Makes

LEMMA DisablesOne ==
    ASSUME busy \subseteq Control, NEW control \in Control, Disables(control)
    PROVE  /\ busy' \subseteq busy \cup {control}
           /\ screen # "popover" => busy' = busy \cup {control}
BY DEF Disables

LEMMA ClickSteps ==
    ASSUME ListTypes, ScreenTypes,
           \/ \E t \in Token, h \in Thread, new \in Access : ChoosePerm(t, h, new)
           \/ \E p \in Perm : Mint(p)
           \/ \E t \in Token : Rename(t) \/ Delete(t)
           \/ ClickConnections
    PROVE  \E control : Clicks(control)
<1>0. busy \subseteq Control
  BY DEF ScreenTypes
<1>1. ASSUME NEW t \in Token, NEW h \in Thread, NEW new \in Access, ChoosePerm(t, h, new)
      PROVE  Clicks(Row(t, h))
  <2>1. Row(t, h) \in Control /\ Row(t, h)[2] = t
    BY DEF Row, Control
  <2>2. PICK list \in view : /\ t \in DOMAIN list.store
                             /\ Makes(Action(list.store[t][h], new), t, h, IF new = "none" THEN None ELSE new, Row(t, h))
    BY <1>1 DEF ChoosePerm
  <2>3. Action(list.store[t][h], new) \in Op
    BY DEF Action, Op
  <2>4. (IF new = "none" THEN None ELSE new) \in Perm \cup {None}
    BY DEF Access
  <2>5. \A other \in view : t \in DOMAIN other.store
    BY <2>2 DEF ListTypes
  <2>6. Disables(Row(t, h)) /\ Enabled(Row(t, h)) /\ screen # "none"
    BY <1>1 DEF ChoosePerm
  <2> HIDE DEF Row, Action
  <2>7. /\ \E call : /\ Honest(call) /\ UnderWay(call) /\ call.control = Row(t, h)
                     /\ Len(calls) < MaxCalls /\ calls' = Append(calls, call)
        /\ UNCHANGED <<news, version, screen, view, failed, loads>>
    BY <2>1, <2>2, <2>3, <2>4, MadeCall
  <2> QED  BY <1>0, <2>1, <2>5, <2>6, <2>7, DisablesOne DEF Clicks, Enabled
<1>2. ASSUME NEW p \in Perm, Mint(p) PROVE Clicks(<<"mint", None, None>>)
  <2>1. <<"mint", None, None>> \in Control /\ "mint" \in Op /\ Here \in Thread
    BY PanelAssumption DEF Control, Op
  <2>2. /\ Makes("mint", None, Here, p, <<"mint", None, None>>)
        /\ Disables(<<"mint", None, None>>) /\ Enabled(<<"mint", None, None>>) /\ screen = "popover"
    BY <1>2 DEF Mint
  <2> QED  BY <1>0, <2>1, <2>2, MadeCall, DisablesOne DEF Clicks, Enabled
<1>3. ASSUME NEW op \in {"rename", "delete"}, NEW t \in Token,
             (op = "rename" /\ Rename(t)) \/ (op = "delete" /\ Delete(t))
      PROVE  Clicks(<<op, t, None>>)
  <2>1. <<op, t, None>> \in Control /\ <<op, t, None>>[2] = t /\ op \in Op
    BY DEF Control, Op
  <2>2. /\ Makes(op, t, None, None, <<op, t, None>>)
        /\ Disables(<<op, t, None>>) /\ Enabled(<<op, t, None>>) /\ screen = "page"
        /\ \E list \in view : t \in DOMAIN list.store
    BY <1>3 DEF Rename, Delete, HasCard
  <2>3. \A other \in view : t \in DOMAIN other.store
    BY <2>2 DEF ListTypes
  <2> QED  BY <1>0, <2>1, <2>2, <2>3, MadeCall, DisablesOne DEF Clicks, Enabled
<1>4. ASSUME ClickConnections PROVE Clicks(<<"connections", None, None>>)
  <2>1. <<"connections", None, None>> \in Control /\ "connections" \in Op
    BY DEF Control, Op
  <2>2. /\ Makes("connections", None, None, None, <<"connections", None, None>>)
        /\ Disables(<<"connections", None, None>>) /\ Enabled(<<"connections", None, None>>)
        /\ screen = "connections"
    BY <1>4 DEF ClickConnections
  <2> QED  BY <1>0, <2>1, <2>2, MadeCall, DisablesOne DEF Clicks, Enabled
<1>5. CASE \E t \in Token : Rename(t) \/ Delete(t)
  <2>1. PICK t \in Token, op \in {"rename", "delete"} :
            (op = "rename" /\ Rename(t)) \/ (op = "delete" /\ Delete(t))
    BY <1>5
  <2> QED  BY <1>3, <2>1
<1> QED  BY <1>1, <1>2, <1>4, <1>5

\* A call moves on; its control waits on, and one broadcast at most is made.
Advances(n) ==
    /\ n \in DOMAIN calls /\ UnderWay(calls[n])
    /\ \E call : /\ Honest(call) /\ call.control = calls[n].control /\ (call.here => calls[n].here)
                 /\ calls' = [calls EXCEPT ![n] = call]
                 /\ \/ news' = news
                    \/ /\ news' \in {Announced("tokens"), [c \in Channel |-> news[c] + 1]}
                       /\ ~UnderWay(call)
    /\ UNCHANGED <<screen, view, failed, loads, busy>>

LEMMA CallAdvances ==
    ASSUME CallTypes, NEW n,
           \/ CallPerformed(n) \/ CallRefused(n) \/ CallSaved(n) \/ MintAnnounced(n)
           \/ CallUndone(n) \/ ConnectionsChanged(n) \/ ConnectionsFailed(n)
    PROVE  Advances(n)
<1>1. n \in DOMAIN calls /\ UnderWay(calls[n])
  BY DEF CallPerformed, CallRefused, CallSaved, MintAnnounced, CallUndone, ConnectionsChanged,
         ConnectionsFailed, Sent, UnderWay
<1>2. /\ calls[n] \in Call /\ (~calls[n].here => calls[n].control = None)
  BY <1>1 DEF CallTypes
<1>3. UNCHANGED <<screen, view, failed, loads, busy>>
  BY DEF CallPerformed, CallRefused, CallSaved, MintAnnounced, CallUndone, ConnectionsChanged,
         ConnectionsFailed, Performed, ConnectionsChange, screenVars
<1>4. ASSUME NEW stage \in {"performed", "titling"}
      PROVE  /\ Honest(At(calls[n], stage)) /\ At(calls[n], stage).control = calls[n].control
             /\ At(calls[n], stage).here => calls[n].here
  BY <1>2, AtType DEF Honest, Stage
<1>5. ASSUME NEW stage \in {"ok", "error"}
      PROVE  /\ Honest(Answered(calls[n], stage)) /\ Answered(calls[n], stage).control = calls[n].control
             /\ ~UnderWay(Answered(calls[n], stage)) /\ (Answered(calls[n], stage).here => calls[n].here)
  BY <1>2, AnsweredType DEF Honest, UnderWay
<1>6. CASE CallPerformed(n)
  BY <1>1, <1>3, <1>4, <1>6 DEF CallPerformed, Performed, Advances
<1>7. CASE CallRefused(n) \/ ConnectionsFailed(n)
  BY <1>1, <1>3, <1>5, <1>7 DEF CallRefused, ConnectionsFailed, Advances
<1>8. CASE CallSaved(n)
  <2>1. CASE minting
    BY <1>1, <1>3, <1>4, <1>8, <2>1 DEF CallSaved, Advances
  <2>2. CASE ~minting
    BY <1>1, <1>3, <1>5, <1>8, <2>2 DEF CallSaved, Advances
  <2> QED  BY <2>1, <2>2
<1>9. CASE MintAnnounced(n)
  BY <1>1, <1>3, <1>5, <1>9 DEF MintAnnounced, Advances
<1>10. CASE CallUndone(n)
  BY <1>1, <1>3, <1>5, <1>10 DEF CallUndone, Advances
<1>11. CASE ConnectionsChanged(n)
  BY <1>1, <1>3, <1>5, <1>11 DEF ConnectionsChanged, ConnectionsChange, Advances
<1> QED  BY <1>6, <1>7, <1>8, <1>9, <1>10, <1>11

\* Another window's call has no control here.
Elsewheres ==
    /\ \E call : /\ Honest(call) /\ call.control = None /\ ~call.here
                 /\ Len(calls) < MaxCalls /\ calls' = Append(calls, call)
                 /\ \/ news' = news
                    \/ news' = [c \in Channel |-> news[c] + 1] /\ ~UnderWay(call)
    /\ UNCHANGED <<screen, view, failed, loads, busy>>

LEMMA ElsewhereSteps ==
    ASSUME ElsewhereNext \/ ConnectionsChangedElsewhere
    PROVE  Elsewheres
<1>1. /\ Honest(Settled) /\ ~UnderWay(Settled) /\ Settled.control = None
      /\ Honest(At(Settled, "performed")) /\ At(Settled, "performed").control = None
      /\ ~Settled.here /\ ~At(Settled, "performed").here
  BY SettledType, AtType DEF Honest, UnderWay, Stage
<1>2. ASSUME NEW op, NEW t, NEW h, NEW p, Elsewhere(op, t, h, p) PROVE Elsewheres
  BY <1>1, <1>2 DEF Elsewhere, Performed, screenVars, Elsewheres
<1>3. CASE ElsewhereNext
  BY <1>2, <1>3 DEF ElsewhereNext
<1>4. CASE ConnectionsChangedElsewhere
  BY <1>1, <1>4 DEF ConnectionsChangedElsewhere, ConnectionsChange, screenVars, Elsewheres
<1> QED  BY <1>3, <1>4

LEMMA CallsKept == CallTypes /\ ListTypes /\ ScreenTypes /\ [PanelNext]_vars => CallTypes'
<1> SUFFICES ASSUME CallTypes, ListTypes, ScreenTypes, [PanelNext]_vars PROVE CallTypes'
  OBVIOUS
<1>1. CASE UNCHANGED calls
  BY <1>1 DEF CallTypes
<1>2. CASE OwnerNext
  <2>1. CASE \E control : Clicks(control)
    BY <2>1, Appended DEF Clicks
  <2>2. CASE ElsewhereNext \/ ConnectionsChangedElsewhere
    BY <2>2, ElsewhereSteps, Appended DEF Elsewheres
  <2>3. CASE Close
    BY <2>3, CloseDetaches, DetachesTypes
  <2>4. CASE (\E s \in Screen : Open(s)) \/ Retry
    BY <1>1, <2>4 DEF Open, Retry, serverVars
  <2> QED  BY <1>2, <2>1, <2>2, <2>3, <2>4, ClickSteps DEF OwnerNext
<1>3. CASE LoadNext
  <2>1. PICK i : LoadRead(i) \/ LoadAnswered(i) \/ LoadFails(i)
    BY <1>3 DEF LoadNext
  <2>2. CASE LoadRead(i)
    BY <1>1, <2>2 DEF LoadRead, serverVars
  <2>3. CASE LoadAnswered(i)
    <3>1. CASE UNCHANGED calls
      BY <1>1, <3>1
    <3>2. CASE ~UNCHANGED calls
      BY <2>3, <3>2, ListDetaches, DetachesTypes DEF LoadAnswered
    <3> QED  BY <3>1, <3>2
  <2>4. CASE LoadFails(i)
    BY <1>1, <2>4, DetachedDetaches, DetachesTypes DEF LoadFails
  <2> QED  BY <2>1, <2>2, <2>3, <2>4
<1>4. CASE CallNext
  <2>1. PICK n : \/ CallPerformed(n) \/ CallRefused(n) \/ CallSaved(n) \/ MintAnnounced(n)
                 \/ CallUndone(n) \/ ConnectionsChanged(n) \/ ConnectionsFailed(n) \/ CallAnswered(n)
    BY <1>4 DEF CallNext
  <2>2. CASE CallAnswered(n)
    BY <2>2, SettledType, Replaced DEF CallAnswered, Honest
  <2>3. CASE ~CallAnswered(n)
    BY <2>1, <2>3, CallAdvances, Replaced DEF Advances
  <2> QED  BY <2>2, <2>3
<1>5. CASE SaveWritten \/ NewsNext \/ UNCHANGED vars
  BY <1>1, <1>5 DEF SaveWritten, NewsNext, NewsArrives, vars, serverVars
<1> QED  BY <1>2, <1>3, <1>4, <1>5 DEF PanelNext

-----------------------------------------------------------------------------
\* Lists and screens.

LEMMA ListsFetched ==
    ASSUME ListTypes, ServerTypes, Loads, view' = view, version <= version', version' \in Nat
    PROVE  ListTypes'
<1>1. /\ loads' = Asked(loads) /\ loads \in Seq(Request) /\ Len(loads) < MaxLoads
      /\ MaxLoads \in Nat
  BY PanelAssumption DEF Loads, ListTypes
<1>2. loads' \in Seq(Request) /\ Len(loads') = Len(loads) + 1 /\ Len(loads') <= MaxLoads
  BY <1>1, AskedType
<1>3. \A list \in view : list \in List /\ list.at <= version'
  BY DEF ListTypes, ServerTypes, List
<1>4. ASSUME NEW i \in DOMAIN loads'
      PROVE  /\ loads'[i].current => i = Len(loads')
             /\ loads'[i].list.at <= version'
             /\ ~(loads'[i].current /\ loads'[i].read)
  <2>1. CASE i = Len(loads) + 1
    BY <1>1, <1>2, <2>1, AskedType, UnloadedType
  <2>2. CASE i # Len(loads) + 1
    <3>1. i \in DOMAIN loads
      BY <1>1, <1>2, <2>2
    <3>2. ~loads'[i].current /\ loads'[i].list = loads[i].list
      BY <1>1, <2>2, AskedType
    <3>3. loads[i] \in Request
      BY <1>1, <3>1
    <3>4. loads[i].list.at \in Nat /\ loads[i].list.at <= version
      BY <3>1, <3>3 DEF ListTypes, Request, List
    <3> QED  BY <3>2, <3>4 DEF ServerTypes
  <2> QED  BY <2>1, <2>2
<1> QED  BY <1>2, <1>3, <1>4 DEF ListTypes

LEMMA ListsRead ==
    ASSUME ListTypes, ServerTypes, NEW i, LoadRead(i)
    PROVE  ListTypes'
<1>1. /\ i \in DOMAIN loads /\ loads' = [loads EXCEPT ![i].read = TRUE, ![i].list = Listed]
      /\ view' = view /\ version' = version /\ loads \in Seq(Request)
  BY DEF LoadRead, serverVars, ListTypes
<1> DEFINE new == [loads[i] EXCEPT !.read = TRUE, !.list = Listed]
<1>2. Listed \in List /\ Listed.at = version
  BY DEF Listed, List, ServerTypes
<1>3. loads[i] \in Request
  BY <1>1
<1>4. new \in Request /\ new.current = loads[i].current /\ new.list = Listed
  BY <1>2, <1>3 DEF Request
<1>5. loads' = [loads EXCEPT ![i] = new]
  BY <1>1
<1> HIDE DEF new
<1>6. /\ loads' \in Seq(Request) /\ Len(loads') = Len(loads)
      /\ loads'[i] = new /\ \A j \in DOMAIN loads : j # i => loads'[j] = loads[j]
  <2>1. loads \in Seq(Request) /\ i \in DOMAIN loads /\ new \in Request
    BY <1>1, <1>4
  <2> QED  BY ONLY <1>5, <2>1
<1>7. \A j \in DOMAIN loads' :
          /\ loads'[j].current => j = Len(loads')
          /\ loads'[j].list.at <= version'
          /\ loads'[j].current /\ loads'[j].read => \A list \in view' : list.at <= loads'[j].list.at
  <2> TAKE j \in DOMAIN loads'
  <2>1. j \in DOMAIN loads
    BY <1>1, <1>6
  <2>2. CASE j = i
    BY <1>1, <1>2, <1>4, <1>6, <2>1, <2>2 DEF ListTypes, ServerTypes
  <2>3. CASE j # i
    BY <1>1, <1>6, <2>1, <2>3 DEF ListTypes
  <2> QED  BY <2>2, <2>3
<1> QED  BY <1>1, <1>6, <1>7 DEF ListTypes

\* An answer that is shown is the last request's, and no older than what it replaces.
LEMMA AnswerLater ==
    ASSUME ListTypes, NEW i, LoadAnswered(i)
    PROVE  \/ view' = view
           \/ /\ view' = {loads[i].list} /\ i = Len(loads)
              /\ \A list \in view : list.at <= loads[i].list.at
BY DEF ListTypes, LoadAnswered, IsLatest

LEMMA ListsShorter ==
    ASSUME ListTypes, ServerTypes, NEW i \in DOMAIN loads, loads' = RemoveAt(loads, i), version' = version,
           view' = view \/ (view' = {loads[i].list} /\ i = Len(loads))
    PROVE  ListTypes'
<1>1. loads \in Seq(Request) /\ loads[i] \in Request /\ loads[i].list \in List
  <2>1. loads \in Seq(Request)
    BY DEF ListTypes
  <2>2. loads[i] \in Request
    BY <2>1
  <2> QED  BY <2>1, <2>2 DEF Request
<1>2. /\ loads' \in Seq(Request) /\ Len(loads') = Len(loads) - 1
      /\ \A j \in DOMAIN loads' : loads'[j] = IF j < i THEN loads[j] ELSE loads[j + 1]
  BY <1>1, Removed
<1>3. Len(loads') <= MaxLoads
  BY <1>1, <1>2, PanelAssumption DEF ListTypes
<1>4. /\ view' \in SUBSET List /\ (\A list, other \in view' : list = other)
      /\ \A list \in view' : list.at <= version'
  BY <1>1 DEF ListTypes
<1>5. ASSUME NEW j \in DOMAIN loads'
      PROVE  /\ loads'[j].current => j = Len(loads')
             /\ loads'[j].list.at <= version'
             /\ loads'[j].current /\ loads'[j].read => \A list \in view' : list.at <= loads'[j].list.at
  <2>1. CASE j < i
    <3>1. j \in DOMAIN loads /\ j # Len(loads) /\ loads'[j] = loads[j]
      BY <1>1, <1>2, <2>1
    <3> QED  BY <3>1 DEF ListTypes
  <2>2. CASE ~(j < i)
    <3>1. j + 1 \in DOMAIN loads /\ loads'[j] = loads[j + 1] /\ i # Len(loads) /\ Len(loads') = Len(loads) - 1
          /\ j \in Nat /\ Len(loads) \in Nat
      BY <1>1, <1>2, <2>2
    <3>2. view' = view
      BY <3>1
    <3>3. /\ loads[j + 1].current => j + 1 = Len(loads)
          /\ loads[j + 1].list.at <= version
          /\ loads[j + 1].current /\ loads[j + 1].read =>
               \A list \in view : list.at <= loads[j + 1].list.at
      BY <3>1 DEF ListTypes
    <3> QED  BY <3>1, <3>2, <3>3
  <2> QED  BY <2>1, <2>2
<1> QED  BY <1>2, <1>3, <1>4, <1>5 DEF ListTypes

\* What any step does, as far as calls, lists and screens are concerned.
LEMMA PanelStepCases ==
    ASSUME CallTypes, ListTypes, ScreenTypes, [PanelNext]_vars
    PROVE  \/ \E control : Clicks(control)
           \/ Elsewheres
           \/ \E n : Advances(n)
           \/ \E s \in Screen : Open(s)
           \/ Close
           \/ Retry
           \/ \E i : LoadRead(i) \/ LoadAnswered(i) \/ LoadFails(i)
           \/ \E n : CallAnswered(n)
           \/ \E c \in Channel : NewsArrives(c)
           \/ UNCHANGED <<calls, news, screenVars>>
<1>1. CASE OwnerNext
  BY <1>1, ClickSteps, ElsewhereSteps, Zenon DEF OwnerNext
<1>2. CASE LoadNext
  BY <1>2, Zenon DEF LoadNext
<1>3. CASE CallNext
  BY <1>3, CallAdvances, Zenon DEF CallNext
<1>4. CASE SaveWritten
  BY <1>4 DEF SaveWritten
<1>5. CASE NewsNext
  BY <1>5 DEF NewsNext
<1>6. CASE UNCHANGED vars
  BY <1>6 DEF vars, serverVars
<1> QED  BY <1>1, <1>2, <1>3, <1>4, <1>5, <1>6 DEF PanelNext

LEMMA ListsKept ==
    ASSUME ServerTypes, CallTypes, ListTypes, ScreenTypes, Closed, [PanelNext]_vars
    PROVE  ListTypes'
<1>1. version <= version' /\ version \in Nat /\ version' \in Nat
  BY ServerKept DEF ServerTypes
<1>2. CASE view' = view /\ loads' = loads
  <2>1. \A list \in view : list.at \in Nat
    BY DEF ListTypes, List
  <2>2. \A i \in DOMAIN loads : loads[i].list.at \in Nat
    <3> TAKE i \in DOMAIN loads
    <3>1. loads[i] \in Request
      BY DEF ListTypes
    <3> QED  BY <3>1 DEF Request, List
  <2> QED  BY <1>1, <1>2, <2>1, <2>2 DEF ListTypes
<1>3. CASE view' = view /\ Loads
  BY <1>1, <1>3, ListsFetched
<1>4. CASE Close
  <2>1. view' = {} /\ loads' = <<>>
    BY <1>4 DEF Close
  <2>2. loads' \in Seq(Request) /\ Len(loads') = 0 /\ DOMAIN loads' = {} /\ 0 <= MaxLoads
    BY <2>1, PanelAssumption
  <2> QED  BY <2>1, <2>2 DEF ListTypes
<1>5. ASSUME NEW i, LoadRead(i) PROVE ListTypes'
  BY <1>5, ListsRead
<1>6. ASSUME NEW i, LoadAnswered(i) PROVE ListTypes'
  BY <1>6, AnswerLater, ListsShorter DEF LoadAnswered
<1>7. ASSUME NEW i, LoadFails(i) PROVE ListTypes'
  BY <1>7, ListsShorter DEF LoadFails
<1>8. CASE \/ \E control : Clicks(control) \/ Elsewheres \/ \E n : Advances(n)
           \/ UNCHANGED <<calls, news, screenVars>>
  BY <1>2, <1>8 DEF Clicks, Elsewheres, Advances, screenVars
<1>9. CASE (\E s \in Screen : Open(s)) \/ Retry
  BY <1>3, <1>9 DEF Open, Retry
<1>10. CASE (\E n : CallAnswered(n)) \/ (\E c \in Channel : NewsArrives(c))
  BY <1>2, <1>3, <1>10 DEF CallAnswered, NewsArrives
<1> QED  BY PanelStepCases, <1>4, <1>5, <1>6, <1>7, <1>8, <1>9, <1>10

LEMMA ScreenKept ==
    ASSUME CallTypes, ListTypes, ScreenTypes, Closed, [PanelNext]_vars
    PROVE  ScreenTypes'
<1>1. CASE UNCHANGED <<screen, view, failed>> /\ busy' \subseteq busy
  BY <1>1 DEF ScreenTypes
<1>2. CASE Close
  BY <1>2 DEF Close, ScreenTypes
<1>3. CASE \E s \in Screen : Open(s)
  BY <1>3 DEF Open, ScreenTypes, Closed
<1>4. ASSUME NEW i, LoadAnswered(i) PROVE ScreenTypes'
  <2>1. CASE IsLatest(loads[i])
    <3>1. /\ view' = {loads[i].list} /\ failed' = FALSE /\ screen' = screen
          /\ busy' = {c \in busy : StillShown(c, loads[i].list)}
      BY <1>4, <2>1 DEF LoadAnswered
    <3> QED  BY <3>1 DEF ScreenTypes, StillShown
  <2>2. CASE ~IsLatest(loads[i])
    BY <1>1, <1>4, <2>2 DEF LoadAnswered
  <2> QED  BY <2>1, <2>2
<1>5. ASSUME NEW i, LoadFails(i) PROVE ScreenTypes'
  <2>1. failed' \in BOOLEAN
    BY <1>5 DEF LoadFails
  <2>2. screen' = screen /\ view' = view /\ busy' \subseteq busy
    BY <1>5 DEF LoadFails
  <2> QED  BY <2>1, <2>2 DEF ScreenTypes
<1>6. ASSUME NEW control, Clicks(control) PROVE ScreenTypes'
  BY <1>6 DEF Clicks, ScreenTypes
<1>7. CASE \/ Elsewheres \/ \E n : Advances(n) \/ UNCHANGED <<calls, news, screenVars>>
           \/ Retry \/ (\E i : LoadRead(i)) \/ \E c \in Channel : NewsArrives(c)
  BY <1>1, <1>7 DEF Elsewheres, Advances, screenVars, Retry, LoadRead, NewsArrives
<1>8. ASSUME NEW n, CallAnswered(n) PROVE ScreenTypes'
  BY <1>1, <1>8 DEF CallAnswered
<1> QED  BY PanelStepCases, <1>2, <1>3, <1>4, <1>5, <1>6, <1>7, <1>8

LEMMA ClosedKept ==
    ASSUME CallTypes, ListTypes, ScreenTypes, Closed, [PanelNext]_vars
    PROVE  Closed'
<1>1. CASE Close
  <2>1. \A n \in DOMAIN calls' : calls'[n].control = None /\ ~calls'[n].here
    BY <1>1, CloseDetaches, DetachesTypes
  <2> QED  BY <1>1, <2>1 DEF Close, Closed
<1>2. CASE screen' # "none"
  BY <1>2 DEF Closed
<1>3. CASE screen' = "none" /\ ~Close
  <2>0. screen = "none" => DOMAIN loads = {}
    BY DEF Closed
  <2>1. ASSUME NEW i, LoadRead(i) \/ LoadAnswered(i) \/ LoadFails(i) PROVE FALSE
    <3>1. screen' = screen /\ i \in DOMAIN loads
      BY <2>1 DEF LoadRead, LoadAnswered, LoadFails
    <3> QED  BY <1>3, <2>0, <3>1
  <2>2. CASE \E n : Advances(n)
    <3>1. PICK n : Advances(n)
      BY <2>2
    <3>2. /\ UNCHANGED <<screen, view, failed, loads, busy>>
          /\ DOMAIN calls' = DOMAIN calls
          /\ calls'[n].control = calls[n].control /\ (calls'[n].here => calls[n].here)
          /\ \A m \in DOMAIN calls : m # n => calls'[m] = calls[m]
      BY <3>1, Replaced DEF Advances
    <3> QED  BY <1>3, <3>1, <3>2 DEF Closed, Advances
  <2>3. CASE Elsewheres
    <3>1. /\ UNCHANGED <<screen, view, failed, loads, busy>>
          /\ DOMAIN calls' = DOMAIN calls \cup {Len(calls) + 1}
          /\ calls'[Len(calls) + 1].control = None /\ ~calls'[Len(calls) + 1].here
          /\ \A n \in DOMAIN calls : calls'[n] = calls[n]
      BY <2>3, Appended DEF Elsewheres
    <3> QED  BY <1>3, <3>1 DEF Closed
  <2>4. ASSUME NEW n, CallAnswered(n) PROVE Closed'
    <3>1. screen = "none"
      BY <1>3, <2>4 DEF CallAnswered
    <3>2. n \in DOMAIN calls /\ ~calls[n].here
      BY <2>4, <3>1 DEF CallAnswered, Closed
    <3>3. UNCHANGED <<loads, view, failed>> /\ busy' \subseteq busy /\ calls' = [calls EXCEPT ![n] = Settled]
      BY <2>4, <3>2 DEF CallAnswered
    <3>4. DOMAIN calls' = DOMAIN calls /\ calls'[n] = Settled
          /\ \A m \in DOMAIN calls : m # n => calls'[m] = calls[m]
      BY <3>2, <3>3, SettledType, Replaced DEF Honest
    <3> QED  BY <3>1, <3>3, <3>4, SettledType DEF Closed
  <2>5. CASE UNCHANGED <<calls, news, screenVars>>
    BY <1>3, <2>5 DEF screenVars, Closed
  <2>6. CASE \E c \in Channel : NewsArrives(c)
    BY <1>3, <2>6 DEF NewsArrives, Closed
  <2>7. CASE \/ \E control : Clicks(control) \/ Retry \/ \E s \in Screen : Open(s)
    BY <1>3, <2>7 DEF Clicks, Retry, Open, Screen
  <2> QED  BY PanelStepCases, <1>3, <2>1, <2>2, <2>3, <2>4, <2>5, <2>6, <2>7
<1> QED  BY <1>1, <1>2, <1>3

-----------------------------------------------------------------------------
\* Controls.

LEMMA SameControls ==
    ASSUME ControlsMatch, screen' = screen, busy' = busy, DOMAIN calls' = DOMAIN calls,
           \A n \in DOMAIN calls : calls'[n].control = calls[n].control
    PROVE  ControlsMatch'
<1>1. \A c : CallsOf(c)' = CallsOf(c)
  BY DEF CallsOf
<1> QED  BY <1>1 DEF ControlsMatch, Disabled

\* A new call is its control's only one, and no control's if it is another window's.
LEMMA NewControl ==
    ASSUME CallTypes, ControlsMatch, NEW call, Honest(call), Len(calls) < MaxCalls,
           calls' = Append(calls, call), screen' = screen,
           \/ call.control = None /\ busy' = busy
           \/ call.control \in Control \ busy /\ (screen # "popover" => busy' = busy \cup {call.control})
    PROVE  ControlsMatch'
<1>1. /\ DOMAIN calls' = DOMAIN calls \cup {Len(calls) + 1} /\ calls'[Len(calls) + 1] = call
      /\ \A n \in DOMAIN calls : calls'[n] = calls[n]
      /\ Len(calls) + 1 \notin DOMAIN calls
  BY Appended DEF CallTypes
<1>2. \A c : CallsOf(c)' = CallsOf(c) \cup (IF c = call.control THEN {Len(calls) + 1} ELSE {})
  BY <1>1 DEF CallsOf
<1>3. None \notin Control
  BY PanelAssumption
<1> QED  BY <1>2, <1>3 DEF ControlsMatch, Disabled

LEMMA AnsweredControls ==
    ASSUME CallTypes, ControlsMatch, NEW n, CallAnswered(n)
    PROVE  ControlsMatch'
<1>1. n \in DOMAIN calls /\ screen' = screen /\ calls' = [calls EXCEPT ![n] = Settled]
  BY DEF CallAnswered
<1>2. DOMAIN calls' = DOMAIN calls /\ calls'[n] = Settled
      /\ \A m \in DOMAIN calls : m # n => calls'[m] = calls[m]
  BY <1>1, SettledType, Replaced DEF Honest
<1>3. None \notin Control /\ Settled.control = None
  BY PanelAssumption, SettledType
<1>4. \A c \in Control : CallsOf(c)' = CallsOf(c) \ {n}
  BY <1>1, <1>2, <1>3 DEF CallsOf
<1>5. screen \in {"page", "connections"} => busy' = busy \ {calls[n].control}
  BY DEF CallAnswered, EnabledAgain
<1>6. ASSUME NEW c \in Control, screen \in {"page", "connections"} PROVE Disabled(c)'
  <2>1. Disabled(c)
    BY <1>6 DEF ControlsMatch
  <2>2. CASE c = calls[n].control
    <3>1. n \in CallsOf(c) /\ c \notin busy'
      BY <1>1, <1>5, <1>6, <2>2 DEF CallsOf
    <3> QED  BY <1>4, <2>1, <3>1 DEF Disabled
  <2>3. CASE c # calls[n].control
    <3>1. n \notin CallsOf(c) /\ (c \in busy' <=> c \in busy)
      BY <1>5, <1>6, <2>3 DEF CallsOf
    <3>2. CallsOf(c)' = CallsOf(c) /\ DOMAIN calls' = DOMAIN calls
      BY <1>2, <1>4, <3>1
    <3> QED  BY <2>1, <3>1, <3>2 DEF Disabled
  <2> QED  BY <2>2, <2>3
<1> QED  BY <1>1, <1>6 DEF ControlsMatch

\* A list that is shown takes the controls of what it does not show, and their
\* calls lose them.
LEMMA ListControls ==
    ASSUME CallTypes, ControlsMatch, NEW i, LoadAnswered(i)
    PROVE  ControlsMatch'
<1>1. CASE ~IsLatest(loads[i])
  <2>1. UNCHANGED <<screen, busy, calls>>
    BY <1>1 DEF LoadAnswered
  <2> QED  BY <2>1, SameControls
<1>2. CASE IsLatest(loads[i])
  <2> DEFINE list == loads[i].list
  <2>1. /\ busy' = {c \in busy : StillShown(c, list)} /\ screen' = screen
        /\ calls' = [n \in DOMAIN calls |-> IF Shown(calls[n].control, list) THEN calls[n]
                                            ELSE [calls[n] EXCEPT !.control = None]]
    BY <1>2 DEF LoadAnswered
  <2> HIDE DEF list
  <2>2. /\ DOMAIN calls' = DOMAIN calls
        /\ \A n \in DOMAIN calls :
             IF Shown(calls[n].control, list) THEN calls'[n] = calls[n] ELSE calls'[n].control = None
    BY <2>1, ListDetaches, DetachesTypes
  <2>3. None \notin Control
    BY PanelAssumption
  <2>4. ASSUME NEW c \in Control
        PROVE  CallsOf(c)' = IF StillShown(c, list) THEN CallsOf(c) ELSE {}
    <3>1. Shown(c, list) <=> StillShown(c, list)
      BY <2>3 DEF Shown
    <3>2. \A n \in DOMAIN calls : calls'[n].control = c <=> calls[n].control = c /\ Shown(c, list)
      BY <2>2, <2>3
    <3> QED  BY <2>2, <3>1, <3>2 DEF CallsOf
  <2> HIDE DEF StillShown
  <2> QED  BY <2>1, <2>2, <2>4 DEF ControlsMatch, Disabled
<1> QED  BY <1>1, <1>2

LEMMA FailedControls ==
    ASSUME CallTypes, ControlsMatch, NEW i, LoadFails(i)
    PROVE  ControlsMatch'
<1>1. CASE UNCHANGED <<busy, calls>>
  BY <1>1, SameControls DEF LoadFails
<1>2. CASE ~UNCHANGED <<busy, calls>>
  <2>1. busy' = {} /\ calls' = Detached(calls)
    BY <1>2 DEF LoadFails
  <2>2. \A n \in DOMAIN calls' : calls'[n].control = None
    BY <2>1, DetachedDetaches, DetachesTypes
  <2> QED  BY <2>1, <2>2, PanelAssumption DEF ControlsMatch, Disabled, CallsOf
<1> QED  BY <1>1, <1>2

LEMMA ControlsKept ==
    ASSUME CallTypes, ListTypes, ScreenTypes, Closed, ControlsMatch, [PanelNext]_vars
    PROVE  ControlsMatch'
<1>1. ASSUME NEW control, Clicks(control) PROVE ControlsMatch'
  BY <1>1, NewControl DEF Clicks
<1>2. CASE Elsewheres
  BY <1>2, NewControl DEF Elsewheres
<1>3. ASSUME NEW n, Advances(n) PROVE ControlsMatch'
  <2>1. /\ DOMAIN calls' = DOMAIN calls /\ calls'[n].control = calls[n].control
        /\ \A m \in DOMAIN calls : m # n => calls'[m] = calls[m]
    BY <1>3, Replaced DEF Advances
  <2> QED  BY <1>3, <2>1, SameControls DEF Advances
<1>4. CASE \E s \in Screen : Open(s)
  <2>1. screen = "none" /\ UNCHANGED <<calls, busy>>
    BY <1>4 DEF Open, serverVars
  <2> QED  BY <2>1, PanelAssumption DEF Closed, ControlsMatch, Disabled, CallsOf
<1>5. CASE Close
  BY <1>5 DEF Close, ControlsMatch
<1>6. CASE Retry \/ (\E i : LoadRead(i)) \/ (\E c \in Channel : NewsArrives(c))
           \/ UNCHANGED <<calls, news, screenVars>>
  <2>1. UNCHANGED <<screen, busy, calls>>
    BY <1>6 DEF Retry, LoadRead, NewsArrives, serverVars, screenVars
  <2> QED  BY <2>1, SameControls
<1> QED  BY PanelStepCases, <1>1, <1>2, <1>3, <1>4, <1>5, <1>6, ListControls, FailedControls,
            AnsweredControls

-----------------------------------------------------------------------------
\* Broadcasts.

LEMMA OverFinite ==
    ASSUME NEW cs \in Seq(Call)
    PROVE  /\ IsFiniteSet(OverAmong(cs))
           /\ Cardinality(OverAmong(cs)) \in Nat /\ Cardinality(OverAmong(cs)) <= Len(cs)
<1>1. Len(cs) \in Nat /\ OverAmong(cs) \in SUBSET (1..Len(cs))
  BY DEF OverAmong
<1>2. IsFiniteSet(1..Len(cs)) /\ Cardinality(1..Len(cs)) = Len(cs)
  <2>1. 1 \in Int /\ Len(cs) \in Int
    BY <1>1
  <2>2. IsFiniteSet(1..Len(cs)) /\ Cardinality(1..Len(cs)) = IF 1 > Len(cs) THEN 0 ELSE Len(cs) - 1 + 1
    BY <2>1, FS_Interval
  <2> QED  BY <1>1, <2>2
<1>3. IsFiniteSet(OverAmong(cs)) /\ Cardinality(OverAmong(cs)) <= Len(cs)
  BY <1>1, <1>2, FS_Subset
<1> QED  BY <1>3, FS_CardinalityType

LEMMA OverCounted ==
    ASSUME CallTypes, CallTypes'
    PROVE  /\ IsFiniteSet(Over) /\ Cardinality(Over) \in Nat /\ Cardinality(Over) <= Len(calls)
           /\ IsFiniteSet(Over') /\ Cardinality(Over') \in Nat
BY OverFinite DEF CallTypes, Over

\* Calls that are over stay over.
LEMMA NoMoreNews ==
    ASSUME CallTypes, CallTypes', NewsCounted, Over \subseteq Over',
           \/ news' = news
           \/ \E c \in Channel : news[c] > 0 /\ news' = [news EXCEPT ![c] = @ - 1]
    PROVE  NewsCounted'
<1>1. Cardinality(Over) <= Cardinality(Over')
  BY OverCounted, FS_Subset
<1>2. Cardinality(Over) \in Nat /\ Cardinality(Over') \in Nat
  BY OverCounted
<1>3. /\ news' \in [Channel -> Nat]
      /\ \A c \in Channel : news'[c] <= news[c]
  <2>1. CASE news' = news
    BY <2>1 DEF NewsCounted
  <2>2. CASE \E c \in Channel : news[c] > 0 /\ news' = [news EXCEPT ![c] = @ - 1]
    <3>1. PICK c \in Channel : news[c] > 0 /\ news' = [news EXCEPT ![c] = @ - 1]
      BY <2>2
    <3>2. news \in [Channel -> Nat] /\ news[c] \in Nat /\ news[c] - 1 \in Nat
      BY <3>1 DEF NewsCounted
    <3> QED  BY <3>1, <3>2
  <2> QED  BY <2>1, <2>2
<1>4. ASSUME NEW c \in Channel PROVE news'[c] <= Cardinality(Over')
  <2>1. news[c] \in Nat /\ news'[c] \in Nat /\ news[c] <= Cardinality(Over) /\ news'[c] <= news[c]
    BY <1>3 DEF NewsCounted
  <2> QED  BY <1>1, <1>2, <2>1
<1>5. (\A c \in Channel : news[c] <= Cardinality(Over))'
  BY <1>4
<1> QED  BY <1>3, <1>5 DEF NewsCounted

\* A broadcast is made when one more call is over.
LEMMA MoreNews ==
    ASSUME CallTypes, CallTypes', NewsCounted, Over \subseteq Over', NEW n \in Over' \ Over,
           news' \in {Announced("tokens"), [c \in Channel |-> news[c] + 1]}
    PROVE  NewsCounted'
<1>1. Cardinality(Over) + 1 <= Cardinality(Over')
  <2>1. Cardinality(Over \cup {n}) = Cardinality(Over) + 1
    BY OverCounted, FS_AddElement
  <2>2. Over \cup {n} \in SUBSET Over' /\ IsFiniteSet(Over')
    BY OverCounted
  <2> QED  BY <2>1, <2>2, FS_Subset
<1>2. Cardinality(Over) \in Nat /\ Cardinality(Over') \in Nat
  BY OverCounted
<1>3. /\ news' \in [Channel -> Nat]
      /\ \A c \in Channel : news'[c] <= news[c] + 1
  BY DEF NewsCounted, Announced, Channel
<1>4. ASSUME NEW c \in Channel PROVE news'[c] <= Cardinality(Over')
  <2>1. news[c] \in Nat /\ news'[c] \in Nat /\ news[c] <= Cardinality(Over) /\ news'[c] <= news[c] + 1
    BY <1>3 DEF NewsCounted
  <2> QED  BY <1>1, <1>2, <2>1
<1>5. (\A c \in Channel : news[c] <= Cardinality(Over))'
  BY <1>4
<1> QED  BY <1>3, <1>5 DEF NewsCounted

LEMMA NewsKept ==
    ASSUME CallTypes, CallTypes', ListTypes, ScreenTypes, NewsCounted, [PanelNext]_vars
    PROVE  NewsCounted'
<1>1. CASE UNCHANGED calls /\ (\/ news' = news
                               \/ \E c \in Channel : news[c] > 0 /\ news' = [news EXCEPT ![c] = @ - 1])
  BY <1>1, NoMoreNews DEF Over, OverAmong
<1>2. ASSUME NEW control, Clicks(control) PROVE NewsCounted'
  <2>1. /\ DOMAIN calls' = DOMAIN calls \cup {Len(calls) + 1} /\ news' = news
        /\ \A n \in DOMAIN calls : calls'[n] = calls[n]
    BY <1>2, Appended DEF Clicks
  <2> QED  BY <2>1, NoMoreNews DEF Over, OverAmong
<1>3. CASE Elsewheres
  <2>1. PICK call : /\ Honest(call) /\ Len(calls) < MaxCalls /\ calls' = Append(calls, call)
                    /\ \/ news' = news
                       \/ news' = [c \in Channel |-> news[c] + 1] /\ ~UnderWay(call)
    BY <1>3 DEF Elsewheres
  <2>2. /\ DOMAIN calls' = DOMAIN calls \cup {Len(calls) + 1} /\ calls'[Len(calls) + 1] = call
        /\ \A n \in DOMAIN calls : calls'[n] = calls[n]
        /\ Len(calls) + 1 \notin DOMAIN calls
    BY <2>1, Appended DEF CallTypes
  <2>3. Over \subseteq Over' /\ (~UnderWay(call) => Len(calls) + 1 \in Over' \ Over)
    BY <2>1, <2>2 DEF Over, OverAmong, UnderWay, Honest, Call
  <2> QED  BY <2>1, <2>3, NoMoreNews, MoreNews
<1>4. ASSUME NEW n, Advances(n) PROVE NewsCounted'
  <2>1. PICK call : /\ Honest(call) /\ calls' = [calls EXCEPT ![n] = call]
                    /\ \/ news' = news
                       \/ /\ news' \in {Announced("tokens"), [c \in Channel |-> news[c] + 1]}
                          /\ ~UnderWay(call)
    BY <1>4 DEF Advances
  <2>2. /\ n \in DOMAIN calls /\ UnderWay(calls[n]) /\ DOMAIN calls' = DOMAIN calls /\ calls'[n] = call
        /\ \A m \in DOMAIN calls : m # n => calls'[m] = calls[m]
    BY <1>4, <2>1, Replaced DEF Advances
  <2>3. Over \subseteq Over' /\ (~UnderWay(call) => n \in Over' \ Over)
    BY <2>1, <2>2 DEF Over, OverAmong, UnderWay, Honest, Call
  <2> QED  BY <2>1, <2>3, NoMoreNews, MoreNews
<1>5. CASE Detaches /\ news' = news
  <2>1. Over \subseteq Over'
    BY <1>5, DetachesTypes DEF Over, OverAmong, Detaches
  <2> QED  BY <1>5, <2>1, NoMoreNews
<1>6. ASSUME NEW i, LoadRead(i) \/ LoadAnswered(i) \/ LoadFails(i) PROVE NewsCounted'
  <2>1. news' = news
    BY <1>6 DEF LoadRead, LoadAnswered, LoadFails, serverVars
  <2>2. UNCHANGED calls \/ Detaches
    BY <1>6, ListDetaches, DetachedDetaches DEF LoadRead, LoadAnswered, LoadFails, serverVars
  <2> QED  BY <1>1, <1>5, <2>1, <2>2
<1>7. ASSUME NEW n, CallAnswered(n) PROVE NewsCounted'
  <2>1. /\ n \in DOMAIN calls /\ news' = news /\ calls' = [calls EXCEPT ![n] = Settled]
    BY <1>7 DEF CallAnswered
  <2>2. /\ DOMAIN calls' = DOMAIN calls /\ calls'[n] = Settled
        /\ \A m \in DOMAIN calls : m # n => calls'[m] = calls[m]
    BY <2>1, SettledType, Replaced DEF Honest
  <2>3. Over \subseteq Over'
    BY <2>2, SettledType DEF Over, OverAmong
  <2> QED  BY <2>1, <2>3, NoMoreNews
<1>8. CASE Close
  BY <1>5, <1>8, CloseDetaches DEF Close
<1>9. CASE (\E s \in Screen : Open(s)) \/ Retry \/ (\E c \in Channel : NewsArrives(c))
           \/ UNCHANGED <<calls, news, screenVars>>
  BY <1>1, <1>9 DEF Open, Retry, NewsArrives, serverVars
<1> QED  BY PanelStepCases, <1>2, <1>3, <1>4, <1>6, <1>7, <1>8, <1>9

-----------------------------------------------------------------------------
\* The invariant.

LEMMA PanelInitInv == PanelInit => PanelInv
<1> SUFFICES ASSUME PanelInit PROVE PanelInv
  OBVIOUS
<1>1. calls = <<>> /\ loads = <<>> /\ DOMAIN calls = {} /\ DOMAIN loads = {} /\ Len(calls) = 0 /\ Len(loads) = 0
  BY DEF PanelInit
<1>2. CallTypes
  BY <1>1, PanelAssumption DEF CallTypes
<1>3. ServerTypes /\ ScreenTypes /\ Closed
  BY <1>1 DEF PanelInit, ServerTypes, ScreenTypes, Closed
<1>6. ListTypes
  <2>1. loads \in Seq(Request) /\ Len(loads) <= MaxLoads
    BY <1>1, PanelAssumption
  <2> QED  BY <1>1, <2>1 DEF PanelInit, ListTypes
<1>4. ControlsMatch
  BY DEF PanelInit, ControlsMatch
<1>5. NewsCounted
  <2>1. Cardinality(Over) \in Nat
    BY <1>2, OverFinite DEF CallTypes, Over
  <2> QED  BY <2>1 DEF PanelInit, NewsCounted
<1> QED  BY <1>2, <1>3, <1>4, <1>5, <1>6 DEF PanelInv

LEMMA PanelStep == PanelInv /\ [PanelNext]_vars => PanelInv'
<1> SUFFICES ASSUME PanelInv, [PanelNext]_vars PROVE PanelInv'
  OBVIOUS
<1>1. ServerTypes' /\ CallTypes' /\ ListTypes' /\ ScreenTypes' /\ Closed' /\ ControlsMatch'
  BY ServerKept, CallsKept, ListsKept, ScreenKept, ClosedKept, ControlsKept DEF PanelInv
<1>2. NewsCounted'
  BY <1>1, NewsKept DEF PanelInv
<1> QED  BY <1>1, <1>2 DEF PanelInv

\* The types of the plugin, calls, lists and screen, with the ages of lists and
\* the controls of calls, hold in every reachable state.
THEOREM PanelInductive == PanelSpec => []PanelInv
<1> QED  BY PanelInitInv, PanelStep, PTL DEF PanelSpec

\* A set of one element, or of none, is counted as such.
LEMMA CountOne == (\A n : Cardinality({n}) = 1) /\ Cardinality({}) = 0
BY FS_Singleton, FS_EmptySet

LEMMA PanelInvHolds == PanelInv => PanelInvariant
<1> SUFFICES ASSUME PanelInv PROVE PanelInvariant
  OBVIOUS
<1>1. Cardinality(view) <= 1
  <2>1. CASE view = {}
    BY <2>1, CountOne
  <2>2. CASE view # {}
    <3>1. PICK list \in view : TRUE
      BY <2>2
    <3>2. view = {list}
      BY <3>1 DEF PanelInv, ListTypes
    <3>3. Cardinality({list}) = 1
      BY CountOne
    <3> QED  BY <3>2, <3>3
  <2> QED  BY <2>1, <2>2
<1>2. news \in [Channel -> 0..(2 * MaxCalls)]
  <2>1. Cardinality(Over) \in Nat /\ Cardinality(Over) <= MaxCalls /\ MaxCalls \in Nat
    BY OverFinite, PanelAssumption DEF PanelInv, CallTypes, Over
  <2>2. \A c \in Channel : news[c] \in 0..(2 * MaxCalls)
    BY <2>1 DEF PanelInv, NewsCounted
  <2> QED  BY <2>2 DEF PanelInv, NewsCounted
<1>3. \A list \in view : list.store \in Store /\ list.host \in Host \cup {None} /\ list.at <= version
  BY DEF PanelInv, ListTypes, List
<1>4. PanelTypeOK
  BY <1>1, <1>2, <1>3 DEF PanelInv, PanelTypeOK, ServerTypes, CallTypes, ListTypes, ScreenTypes
<1>5. OneCallPerControl
  <2> SUFFICES ASSUME screen \in {"page", "connections"}, NEW c \in Control
               PROVE  Cardinality(CallsOf(c)) = IF c \in busy THEN 1 ELSE 0
    BY DEF OneCallPerControl
  <2>1. Disabled(c)
    BY DEF PanelInv, ControlsMatch
  <2> QED  BY <2>1, CountOne DEF Disabled
<1> QED  BY <1>4, <1>5 DEF PanelInvariant

\* On the management page and among the connections, a control is disabled
\* exactly while one call of its own is in flight, for any number of invitations,
\* threads, calls and list requests.
THEOREM OneCallAtATime == PanelSpec => []PanelInvariant
<1> QED  BY PanelInductive, PanelInvHolds, PTL

LEMMA ViewStep == PanelInv /\ [PanelNext]_vars => \A old \in view, new \in view' : new.at >= old.at
<1> SUFFICES ASSUME PanelInv, [PanelNext]_vars, NEW old \in view, NEW new \in view'
             PROVE  new.at >= old.at
  OBVIOUS
<1>0. /\ CallTypes /\ ListTypes /\ ScreenTypes /\ Closed
      /\ old \in List /\ (\A list \in view : list = old)
  BY DEF PanelInv, ListTypes
<1>1. CASE view' = view
  BY <1>0, <1>1 DEF List
<1>2. ASSUME NEW i, LoadAnswered(i) PROVE new.at >= old.at
  <2>1. i \in DOMAIN loads /\ loads[i] \in Request
    BY <1>0, <1>2 DEF LoadAnswered, ListTypes
  <2>2. CASE view' = {loads[i].list} /\ \A list \in view : list.at <= loads[i].list.at
    BY <1>0, <2>1, <2>2 DEF List, Request
  <2> QED  BY <1>0, <1>1, <1>2, <2>2, AnswerLater
<1>3. CASE Close
  BY <1>3 DEF Close
<1>4. CASE \/ \E control : Clicks(control)
           \/ Elsewheres
           \/ \E n : Advances(n)
           \/ \E s \in Screen : Open(s)
           \/ Retry
           \/ \E i : LoadRead(i) \/ LoadFails(i)
           \/ \E n : CallAnswered(n)
           \/ \E c \in Channel : NewsArrives(c)
           \/ UNCHANGED <<calls, news, screenVars>>
  <2>1. view' = view
    BY <1>4 DEF Clicks, Elsewheres, Advances, Open, Retry, LoadRead, LoadFails, CallAnswered,
                NewsArrives, screenVars
  <2> QED  BY <1>1, <2>1
<1> HIDE DEF PanelInv
<1> QED  BY <1>0, PanelStepCases, <1>2, <1>3, <1>4, Zenon

\* What a screen shows never goes back, in whatever order requests are performed
\* and answered, for any number of them.
THEOREM ViewNeverGoesBack == PanelSpec => ViewMovesForward
<1>1. PanelInv /\ [PanelNext]_vars => [\A old \in view, new \in view' : new.at >= old.at]_vars
  BY ViewStep
<1> QED  BY PanelInductive, <1>1, PTL DEF PanelSpec, ViewMovesForward
=============================================================================
