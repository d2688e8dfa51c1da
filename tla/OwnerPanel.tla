----------------------------- MODULE OwnerPanel ------------------------------
(***************************************************************************)
(* What the owner sees and clicks, beside the plugin that serves it: the   *)
(* Share popover of a thread (plugin/share-popover/share-popover.tsx), the *)
(* invitations of the management page (nav-panel/tokens-panel.tsx) and its *)
(* connections (nav-panel/connections.tsx).  One of them is watched at a   *)
(* time; another window may change the same invitations.                   *)
(*                                                                         *)
(* Each keeps a list it has fetched, fetches it again whenever a change is *)
(* broadcast or a call of its own succeeded, and disables a control while  *)
(* the control's call is in flight.  RPCs share no order: requests are     *)
(* performed and answers arrive in any order.  The plugin is LiveShares.   *)
(*                                                                         *)
(* Labels, titles, copying and the dialogs that only ask are left out.     *)
(***************************************************************************)
EXTENDS LiveShares, Naturals, Sequences, FiniteSets, SequencesExt

CONSTANTS
    Here,      \* the thread whose popover is opened
    Host,      \* hostnames that may be the default connection
    None,      \* no hostname, token, thread or control
    MaxLoads,  \* bound: list requests in flight
    MaxCalls   \* bound: mutating calls, of this window or another

VARIABLES
    host,     \* the default hostname, which every listed link carries
    calls,    \* every mutating RPC made, in the order of the clicks
    news,     \* broadcasts on their way, by channel
    screen,   \* what is open
    view,     \* the list last fetched: tokens or connections
    failed,   \* loadError, error: the last list request failed
    loads,    \* list requests in flight, in the order they were made
    busy,     \* disabled controls: busyTokenId, busy, minting, saving, deleting...
    version,  \* history: how often what is listed has changed
    undone    \* history: a change was taken back since the last list request

serverVars == <<liveVars, host, calls, news, version>>
screenVars == <<screen, view, failed, loads, busy>>
vars       == <<serverVars, screenVars, undone>>

Screen  == {"popover", "page", "connections"}
Channel == {"tokens", "worker"}

\* The controls that make a call, each with the invitation and thread it is for.
Row(t, h)   == <<"row", t, h>>
Control     == {Row(t, h) : t \in Token, h \in Thread}
                  \cup {"rename", "delete"} \X Token \X {None}
                  \cup {"mint", "connections"} \X {None} \X {None}
IsRow(c)    == c # None /\ c[1] = "row"

ASSUME PanelAssumption ==
    /\ Here \in Thread
    /\ None \notin Host \cup Token \cup Thread \cup Control
    /\ {MaxLoads, MaxCalls} \subseteq Nat \ {0}

\* A call: "sent"; "performed" in memory and being saved; "titling", a minted
\* invitation that is not announced yet; "ok" or "error", its answer on the way.
\* `here`: the screen that made it is still open.
Op   == {"mint", "rename", "delete", "add", "remove", "update", "connections"}
Call == [op : Op, token : Token \cup {None}, thread : Thread \cup {None},
         perm : Perm \cup {None},
         stage : {"sent", "performed", "titling", "ok", "error", "settled"},
         control : Control \cup {None}, here : BOOLEAN]

\* Once it is performed, what it was for no longer matters; and one that was
\* answered, or whose answer nobody waits for, leaves nothing behind.
Settled == [op |-> "mint", token |-> None, thread |-> None, perm |-> None,
            stage |-> "settled", control |-> None, here |-> FALSE]

At(call, stage) == [Settled EXCEPT !.stage = stage, !.control = call.control, !.here = call.here]

Answered(call, stage) == IF call.here THEN At(call, stage) ELSE Settled

Listed   == [store |-> store, host |-> host, at |-> version]
Unloaded == [store |-> EmptyStore, host |-> None, at |-> 0]

\* The plugin has loaded its record.
PanelInit ==
    /\ store \in Store /\ disk = store /\ drawn = DOMAIN store
    /\ recovery = FALSE /\ change = "none" /\ minting = FALSE
    /\ host = None
    /\ calls = <<>>
    /\ news = [c \in Channel |-> 0]
    /\ screen = "none"
    /\ view = {}
    /\ failed = FALSE
    /\ loads = <<>>
    /\ busy = {}
    /\ version = 0
    /\ undone = FALSE

-----------------------------------------------------------------------------
\* The list.

\* load, refetch: of the requests in flight only the new one is current.
Asked(requests) ==
    Append([i \in DOMAIN requests |-> [requests[i] EXCEPT !.current = FALSE]],
           [current |-> TRUE, read |-> FALSE, list |-> Unloaded])

Loads == Len(loads) < MaxLoads /\ loads' = Asked(loads) /\ undone' = FALSE

Open(s) ==
    /\ screen = "none"
    /\ screen' = s
    /\ Loads
    /\ UNCHANGED <<serverVars, view, failed, busy>>

\* The calls go on, and their controls are gone.
Detached(cs) == [n \in DOMAIN cs |-> [cs[n] EXCEPT !.control = None]]

\* Calls outlive the screen that made them; list requests are dropped.
Close ==
    /\ screen # "none"
    /\ screen' = "none"
    /\ view' = {} /\ failed' = FALSE /\ busy' = {} /\ loads' = <<>>
    /\ calls' = [n \in DOMAIN calls |->
          IF calls[n].stage \in {"ok", "error"} THEN Settled
          ELSE [Detached(calls)[n] EXCEPT !.here = FALSE]]
    /\ UNCHANGED <<liveVars, host, news, version, undone>>

\* listTokens, listConnections read what is live at that moment.
LoadRead(i) ==
    /\ i \in DOMAIN loads
    /\ ~loads[i].read
    /\ loads' = [loads EXCEPT ![i].read = TRUE, ![i].list = Listed]
    /\ UNCHANGED <<serverVars, screen, view, failed, busy, undone>>

\* Mutant: any answer is shown.
AnyAnswer(request) == TRUE

IsLatest(request) == request.current

\* The page's controls live in the rows and cards of its list.
StillShown(control, list) ==
    screen = "page" =>
        /\ control[2] \in DOMAIN list.store
        /\ IsRow(control) => list.store[control[2]][control[3]] # "none"

Shown(control, list) == control # None /\ StillShown(control, list)

LoadAnswered(i) ==
    /\ i \in DOMAIN loads
    /\ loads[i].read
    /\ loads' = RemoveAt(loads, i)
    /\ IF IsLatest(loads[i])
         THEN /\ view' = {loads[i].list}
              /\ failed' = FALSE
              /\ busy' = {c \in busy : StillShown(c, loads[i].list)}
              /\ calls' = [n \in DOMAIN calls |->
                    IF Shown(calls[n].control, loads[i].list) THEN calls[n]
                    ELSE [calls[n] EXCEPT !.control = None]]
         ELSE UNCHANGED <<view, failed, busy, calls>>
    /\ UNCHANGED <<liveVars, host, news, version, screen, undone>>

\* The page shows the error instead of its cards.
LoadFails(i) ==
    /\ i \in DOMAIN loads
    /\ loads' = RemoveAt(loads, i)
    /\ failed' = (failed \/ IsLatest(loads[i]))
    /\ IF failed' /\ screen = "page"
         THEN busy' = {} /\ calls' = Detached(calls)
         ELSE UNCHANGED <<busy, calls>>
    /\ UNCHANGED <<liveVars, host, news, version, screen, view, undone>>

\* A broadcast arrives.  Only the connections are deaf to tokens-changed.
NewsArrives(c) ==
    /\ news[c] > 0
    /\ news' = [news EXCEPT ![c] = @ - 1]
    /\ IF screen = "none" \/ (screen = "connections" /\ c = "tokens")
         THEN UNCHANGED <<loads, undone>>
         ELSE Loads
    /\ UNCHANGED <<liveVars, host, calls, version, screen, view, failed, busy>>

\* The popover has no such button.  Bound: it is not pressed while a request is
\* in flight, so that it does not use up MaxLoads.
Retry ==
    /\ failed /\ screen \in {"page", "connections"}
    /\ loads = <<>>
    /\ Loads
    /\ UNCHANGED <<serverVars, screen, view, failed, busy>>

-----------------------------------------------------------------------------
\* Clicks.

Makes(op, t, h, p, control) ==
    /\ Len(calls) < MaxCalls
    /\ calls' = Append(calls, [op |-> op, token |-> t, thread |-> h, perm |-> p,
                               stage |-> "sent", control |-> control, here |-> TRUE])
    /\ UNCHANGED <<liveVars, host, news, version, screen, view, failed, loads, undone>>

\* resolveShareAction: the perm the list shows for a row decides what choosing
\* another one means; the page's rows exist only for what is shared.
Action(old, new) == IF new = "none" THEN "remove"
                    ELSE IF old = "none" THEN "add" ELSE "update"

\* Mutant: the row can be clicked while it is busy.
AlwaysEnabled(control) == TRUE

Enabled(control) == control \notin busy

\* The popover remembers one busy row: another row's call takes its place.
Disables(control) ==
    busy' = IF screen = "popover" /\ IsRow(control)
              THEN {c \in busy : ~IsRow(c)} \cup {control} ELSE busy \cup {control}

\* handleSegmentChange, onPermChange.  PermSegment never fires the cell shown.
ChoosePerm(t, h, new) ==
    /\ ~failed
    /\ screen \in {"popover", "page"}
    /\ screen = "popover" => h = Here
    /\ \E list \in view :
         /\ t \in DOMAIN list.store
         /\ LET old == list.store[t][h] IN
              /\ new # old
              /\ screen = "page" => old # "none"
              /\ Makes(Action(old, new), t, h, IF new = "none" THEN None ELSE new, Row(t, h))
    /\ Enabled(Row(t, h))
    /\ Disables(Row(t, h))

\* Bound: Token has an id left for every mint under way, and one more.
IdsLeft == Cardinality(drawn) + Cardinality({n \in DOMAIN calls :
               calls[n].op = "mint" /\ calls[n].stage = "sent"}) < Cardinality(Token)

Mint(p) ==
    /\ screen = "popover"
    /\ IdsLeft
    /\ Enabled(<<"mint", None, None>>)
    /\ Makes("mint", None, Here, p, <<"mint", None, None>>)
    /\ Disables(<<"mint", None, None>>)

\* A card of the page is there for every invitation listed.
HasCard(t) == screen = "page" /\ ~failed /\ \E list \in view : t \in DOMAIN list.store

\* commit of RenameableLabel.
Rename(t) ==
    /\ HasCard(t)
    /\ Enabled(<<"rename", t, None>>)
    /\ Makes("rename", t, None, None, <<"rename", t, None>>)
    /\ Disables(<<"rename", t, None>>)

\* confirmDelete: its dialog belongs to the card.
Delete(t) ==
    /\ HasCard(t)
    /\ Enabled(<<"delete", t, None>>)
    /\ Makes("delete", t, None, None, <<"delete", t, None>>)
    /\ Disables(<<"delete", t, None>>)

\* Deploy, register, remove, use by default: one at a time.
ClickConnections ==
    /\ screen = "connections"
    /\ Enabled(<<"connections", None, None>>)
    /\ Makes("connections", None, None, None, <<"connections", None, None>>)
    /\ Disables(<<"connections", None, None>>)

-----------------------------------------------------------------------------
\* The plugin performs calls in whatever order they reach it.

Performable(c, s) ==
    CASE c.op = "mint" -> Token \ drawn # {}
      [] c.op \in {"rename", "delete"} -> c.token \in DOMAIN s
      [] c.op = "add" -> c.token \in DOMAIN s /\ s[c.token][c.thread] = "none"
      [] OTHER -> c.token \in DOMAIN s /\ s[c.token][c.thread] # "none"

Outcomes(c, s) ==
    CASE c.op = "mint" -> {WithToken(s, t, [NoShares EXCEPT ![c.thread] = c.perm]) :
                              t \in Token \ drawn}
      [] c.op = "rename" -> {s}
      [] c.op = "delete" -> {WithoutToken(s, c.token)}
      [] c.op = "remove" -> {WithAccess(s, c.token, c.thread, "none")}
      [] OTHER -> {WithAccess(s, c.token, c.thread, c.perm)}

Sent(n, isConnection) ==
    /\ n \in DOMAIN calls
    /\ calls[n].stage = "sent"
    /\ (calls[n].op = "connections") = isConnection

Performed(c) ==
    /\ Performable(c, store)
    /\ store' \in Outcomes(c, store)
    /\ Change(c.op = "mint")
    /\ version' = version + 1
    /\ UNCHANGED <<host, news, screenVars, undone>>

CallPerformed(n) ==
    /\ Sent(n, FALSE)
    /\ calls' = [calls EXCEPT ![n] = At(@, "performed")]
    /\ Performed(calls[n])

\* Another window of the owner calls the same RPCs: its call is met when it is
\* performed.
Elsewhere(op, t, h, p) ==
    /\ Len(calls) < MaxCalls
    /\ calls' = Append(calls, At(Settled, "performed"))
    /\ Performed([Settled EXCEPT !.op = op, !.token = t, !.thread = h, !.perm = p])

ElsewhereNext ==
    \/ IdsLeft /\ \E h \in Thread, p \in Perm : Elsewhere("mint", None, h, p)
    \/ \E t \in DOMAIN store :
         \/ \E op \in {"rename", "delete"} : Elsewhere(op, t, None, None)
         \/ \E h \in Thread, op \in {"add", "update"}, p \in Perm : Elsewhere(op, t, h, p)
         \/ \E h \in Thread : Elsewhere("remove", t, h, None)

\* mapStoreError: the list the click went by was out of date.
CallRefused(n) ==
    /\ Sent(n, FALSE)
    /\ change = "none"
    /\ ~Performable(calls[n], store)
    /\ calls[n].op # "mint"
    /\ calls' = [calls EXCEPT ![n] = Answered(@, "error")]
    /\ UNCHANGED <<liveVars, host, news, version, screenVars, undone>>

SaveWritten == Written /\ UNCHANGED <<host, calls, news, version, screenVars, undone>>

\* Mutant: the change is not broadcast.
Unannounced(channel) == news

Announced(channel) == [news EXCEPT ![channel] = @ + 1]

\* The mutation resolves; emitTokensChanged and the answer follow in the same
\* turn, but for mintToken, which looks up titles first.
CallSaved(n) ==
    /\ n \in DOMAIN calls /\ calls[n].stage = "performed"
    /\ Acknowledged
    /\ IF minting
         THEN calls' = [calls EXCEPT ![n] = At(@, "titling")] /\ UNCHANGED news
         ELSE calls' = [calls EXCEPT ![n] = Answered(@, "ok")] /\ news' = Announced("tokens")
    /\ UNCHANGED <<host, version, screenVars, undone>>

MintAnnounced(n) ==
    /\ n \in DOMAIN calls /\ calls[n].stage = "titling"
    /\ calls' = [calls EXCEPT ![n] = Answered(@, "ok")]
    /\ news' = Announced("tokens")
    /\ UNCHANGED <<liveVars, host, version, screenVars, undone>>

\* The save fails: the store goes back, and nobody is told.
CallUndone(n) ==
    /\ n \in DOMAIN calls /\ calls[n].stage = "performed"
    /\ TakenBack
    /\ calls' = [calls EXCEPT ![n] = Answered(@, "error")]
    /\ version' = version + 1
    /\ undone' = TRUE
    /\ UNCHANGED <<host, news, screenVars>>

\* A connection mutation (WorkerLifecycle) ends and leaves some default: it
\* publishes workerChanged, and its RPC tokensChanged.
ConnectionsChange ==
    /\ host' \in Host \cup {None}
    /\ news' = [c \in Channel |-> news[c] + 1]
    /\ version' = version + 1
    /\ UNCHANGED <<liveVars, screenVars, undone>>

ConnectionsChanged(n) ==
    /\ Sent(n, TRUE)
    /\ calls' = [calls EXCEPT ![n] = Answered(@, "ok")]
    /\ ConnectionsChange

ConnectionsChangedElsewhere ==
    /\ Len(calls) < MaxCalls
    /\ calls' = Append(calls, Settled)
    /\ ConnectionsChange

ConnectionsFailed(n) ==
    /\ Sent(n, TRUE)
    /\ calls' = [calls EXCEPT ![n] = Answered(@, "error")]
    /\ UNCHANGED <<liveVars, host, news, version, screenVars, undone>>

-----------------------------------------------------------------------------
\* setBusyTokenId(null) enables whichever row of the popover is disabled.
EnabledAgain(call) ==
    IF screen = "popover" /\ IsRow(call.control) THEN {c \in busy : IsRow(c)}
    ELSE {call.control}

\* The handler's continuation: it fetches the list after a success, and enables
\* the control in any case.
CallAnswered(n) ==
    /\ n \in DOMAIN calls
    /\ calls[n].stage \in {"ok", "error"}
    /\ IF calls[n].stage = "ok" /\ calls[n].here THEN Loads ELSE UNCHANGED <<loads, undone>>
    /\ busy' = busy \ EnabledAgain(calls[n])
    /\ calls' = [calls EXCEPT ![n] = Settled]
    /\ UNCHANGED <<liveVars, host, news, version, screen, view, failed>>

OwnerNext ==
    \/ \E s \in Screen : Open(s)
    \/ Close
    \/ Retry
    \/ \E t \in Token, h \in Thread, new \in Access : ChoosePerm(t, h, new)
    \/ \E p \in Perm : Mint(p)
    \/ \E t \in Token : Rename(t) \/ Delete(t)
    \/ ClickConnections
    \/ ElsewhereNext \/ ConnectionsChangedElsewhere

LoadNext == \E i \in 1..MaxLoads : LoadRead(i) \/ LoadAnswered(i) \/ LoadFails(i)

CallNext == \E n \in 1..MaxCalls :
    \/ CallPerformed(n) \/ CallRefused(n) \/ CallSaved(n) \/ MintAnnounced(n)
    \/ CallUndone(n) \/ ConnectionsChanged(n) \/ ConnectionsFailed(n) \/ CallAnswered(n)

NewsNext == \E c \in Channel : NewsArrives(c)

PanelNext == OwnerNext \/ LoadNext \/ CallNext \/ SaveWritten \/ NewsNext

\* RPCs are answered, saves settle and broadcasts arrive; the owner owes nothing.
PanelFairness ==
    /\ WF_vars(LoadNext)
    /\ WF_vars(CallNext \/ SaveWritten)
    /\ WF_vars(NewsNext)

PanelSpec == PanelInit /\ [][PanelNext]_vars /\ PanelFairness

-----------------------------------------------------------------------------
\* The state has its types; only the last list request is current; and the page
\* disables nothing of an invitation that it no longer lists.
PanelTypeOK ==
    /\ host \in Host \cup {None}
    /\ calls \in Seq(Call) /\ Len(calls) <= MaxCalls
    /\ news \in [Channel -> 0..(2 * MaxCalls)]
    /\ screen \in Screen \cup {"none"}
    /\ Cardinality(view) <= 1
    /\ \A list \in view : list.store \in Store /\ list.host \in Host \cup {None} /\ list.at <= version
    /\ failed \in BOOLEAN
    /\ Len(loads) <= MaxLoads
    /\ \A i \in DOMAIN loads : loads[i].current => i = Len(loads)
    /\ busy \subseteq Control
    /\ screen = "page" => \A c \in busy, list \in view : c[2] \in DOMAIN list.store

\* What a screen shows never goes back in time, in whatever order the answers to
\* its requests arrive (the request counters of useTokens, useConnections and
\* ShareForm).
ViewMovesForward ==
    [][\A old \in view, new \in view' : new.at >= old.at]_vars

UpToDate(list) == list.host = host /\ (screen = "connections" \/ list.store = store)

\* An open screen comes to show the links as they are, whoever changed them, or
\* says that it could not fetch them: every acknowledged change is broadcast.
\* (A change taken back is not: a list that was fetched while it was live stays
\* until the next fetch.)
ViewSettles ==
    []<>(screen = "none" \/ failed \/ undone \/ \E list \in view : UpToDate(list))

CallsOf(control) == {n \in DOMAIN calls : calls[n].control = control}

OneCallPerControl ==
    screen \in {"page", "connections"} =>
        \A c \in Control : Cardinality(CallsOf(c)) = IF c \in busy THEN 1 ELSE 0

\* Besides the types: on the management page a control is disabled exactly while
\* one call of its own is in flight, through refetches that remove and restore
\* its row, so that neither a second click nor a late answer gets past it and no
\* error leaves it disabled (ShareRow, RenameableLabel, TokenCard and
\* ConnectionsPanel).
PanelInvariant == PanelTypeOK /\ OneCallPerControl
=============================================================================
