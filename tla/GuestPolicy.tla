---------------------------- MODULE GuestPolicy ----------------------------
(***************************************************************************)
(* What a guest may ask for and what it gets to see: the authorization of  *)
(* requests (plugin/authz/authz.ts), the projections of BB's responses     *)
(* (plugin/guest-gateway/responses.ts) and the filters of realtime frames  *)
(* (plugin/guest-gateway/frames.ts), as operators on a session's grants.   *)
(* A route is the class the code gives its path; a response or a frame is  *)
(* the threads, projects and sections it names.                            *)
(***************************************************************************)
EXTENDS Functions

CONSTANTS
    Thread, Project, Section,
    Personal,    \* BB's personal project
    SectionOf,   \* external: the section BB shows a thread in, or None
    None

ASSUME PolicyAssumption ==
    /\ Personal \in Project
    /\ None \notin Thread \cup Project \cup Section
    /\ SectionOf \in [Thread -> Section \cup {None}]

\* The Token that Sessions.resolve makes of a session's live invitations: one
\* share for each thread, with the project it was shared from.
Share  == [project : Project, perm : {"read", "write"}]
Grants == UNION {[S -> Share] : S \in SUBSET Thread}

ThreadIds(g)  == DOMAIN g
ProjectIds(g) == {g[t].project : t \in DOMAIN g}

\* What a response or a frame can name.
Named(kind, ids) == {kind} \X ids
Topic    == Named("thread", Thread) \cup Named("project", Project)
Scope(g) == Named("thread", ThreadIds(g)) \cup Named("project", ProjectIds(g))

-----------------------------------------------------------------------------
\* Requests.  "PUT" stands for PUT, PATCH and DELETE; "page" for what carries
\* nothing of a thread (the app's shell, assets, versions, providers); "constant"
\* for what BB is never asked (plugins, hosts); "transcript" for a thread's
\* readable endpoints and "other" for the rest of them.
Request ==
    [on : {None}, kind : {"page", "config", "sidebar", "constant", "invalid"},
     method : {"GET", "HEAD", "POST", "PUT", "OPTIONS"}]
    \cup [on : Project, kind : {"project"}, method : {"GET", "HEAD", "POST", "PUT", "OPTIONS"}]
    \cup [on : Thread, kind : {"transcript", "tabs", "send", "other"},
          method : {"GET", "HEAD", "POST", "PUT", "OPTIONS"}]

computeAuthz(g, r) ==
    \/ /\ r.method \in {"GET", "HEAD"}
       /\ \/ r.kind \in {"page", "config", "sidebar", "constant"}
          \/ r.kind = "project" /\ r.on \in ProjectIds(g)
          \/ r.kind \in {"transcript", "tabs"} /\ r.on \in ThreadIds(g)
    \/ /\ r.method = "POST" /\ r.kind = "send"
       /\ r.on \in ThreadIds(g) /\ g[r.on].perm = "write"

\* matchResponseFilter's constants: answered without asking BB.
Constant(r) == r.kind \in {"constant", "tabs"}

-----------------------------------------------------------------------------
\* A response lists projects with their threads, and sections, or is about one
\* thread.
Body == [projects : UNION {[P -> SUBSET Thread] : P \in SUBSET Project},
         sections : SUBSET Section, about : SUBSET Thread]

Empty == [projects |-> [p \in {} |-> {}], sections |-> {}, about |-> {}]

\* BB's answer (external): it lists everything, wherever threads are now.  An
\* error, a page or a transcript without its `include` names nothing else.
Lists(P, home) == [p \in P |-> {t \in Thread : home[t] = p}]

Upstream(r, home) ==
    IF r.method # "GET" THEN Empty
    ELSE CASE r.kind = "sidebar" ->
            [projects |-> Lists(Project, home), sections |-> Section, about |-> {}]
           [] r.kind = "project" ->
            [projects |-> Lists({r.on}, home), sections |-> Section, about |-> {}]
           [] r.kind = "transcript" -> [Empty EXCEPT !.about = {r.on}]
           [] OTHER -> Empty

\* Mutant: all threads of a project in scope.
EveryThread(threads, g) == threads

scopedThreads(threads, g) == threads \cap ThreadIds(g)

SectionsOf(threads) == {SectionOf[t] : t \in threads} \ {None}

\* The projects in scope with their threads in scope.
ScopedProjects(body, g) ==
    [p \in DOMAIN body.projects \cap ProjectIds(g) |-> scopedThreads(body.projects[p], g)]

\* emptyPersonalProjectStub: the personal project is listed by its constant id,
\* without threads, where it is not shown.
WithStub(shown) ==
    [p \in DOMAIN shown \cup {Personal} |-> IF p \in DOMAIN shown THEN shown[p] ELSE {}]

\* Mutant: the personal project is always a stub.
SidebarWithoutPersonal(body, g) ==
    LET all   == ScopedProjects(body, g)
        shown == Restrict(all, DOMAIN all \ {Personal})
    IN  [Empty EXCEPT !.projects = WithStub(shown),
                      !.sections = body.sections \cap SectionsOf(UNION Range(shown))]

\* The personal project's threads keep no section in the sidebar.
filterSidebarBootstrap(body, g) ==
    LET shown  == ScopedProjects(body, g)
        listed == UNION {shown[p] : p \in DOMAIN shown \ {Personal}}
    IN  [Empty EXCEPT !.projects = WithStub(shown), !.sections = body.sections \cap SectionsOf(listed)]

filterProjectDetail(body, g) ==
    LET shown == ScopedProjects(body, g) IN
    [Empty EXCEPT !.projects = shown,
                  !.sections = body.sections \cap SectionsOf(UNION Range(shown))]

\* Only a body is reshaped: what answers a HEAD has none.
Filtered(r, body, g) ==
    IF r.method # "GET" THEN body
    ELSE CASE r.kind = "sidebar" -> filterSidebarBootstrap(body, g)
           [] r.kind = "project" -> filterProjectDetail(body, g)
           [] OTHER              -> body

NamedBy(body) ==
    Named("project", DOMAIN body.projects)
    \cup Named("thread", body.about \cup UNION Range(body.projects))
    \cup Named("section", body.sections)

-----------------------------------------------------------------------------
\* Frames.  "malformed" is what no client sends; a subscription to any other
\* target than a thread or a project is on <<"other", None>>.
ClientFrame ==
    [type : {"subscribe", "unsubscribe"}, target : Topic \cup {<<"other", None>>}]
    \cup [type : {"ping", "malformed"}]

filterClientFrame(f, g) ==
    CASE f.type = "malformed" -> "close"
      [] f.type = "ping"      -> "forward"
      [] OTHER                -> IF f.target \in Scope(g) THEN "forward" ELSE "drop"

\* A change of a thread (with its project) or of a project, a change that names
\* nothing (list-wide, or of the owner's infrastructure), a broadcast, a pong.
ServerFrame ==
    [type : {"thread"}, id : Thread, project : Project \cup {None}]
    \cup [type : {"project"}, id : Project]
    \cup [type : {"changed", "broadcast", "pong"}]

\* Mutant: a thread's change is dropped when its project is out of scope.
DropsMoved(f, g) ==
    CASE f.type = "pong"    -> {f}
      [] f.type = "project" -> IF f.id \in ProjectIds(g) THEN {f} ELSE {}
      [] f.type = "thread"  -> IF f.id \in ThreadIds(g) /\ f.project \in ProjectIds(g) THEN {f} ELSE {}
      [] OTHER              -> {}

\* The frames to relay: none or one.
filterServerFrame(f, g) ==
    CASE f.type = "pong"    -> {f}
      [] f.type = "project" -> IF f.id \in ProjectIds(g) THEN {f} ELSE {}
      [] f.type = "thread"  ->
            IF f.id \notin ThreadIds(g) THEN {}
            ELSE {[f EXCEPT !.project = IF @ \in ProjectIds(g) THEN @ ELSE None]}
      [] OTHER              -> {}

NamedByFrame(f) ==
    CASE f.type = "project" -> {<<"project", f.id>>}
      [] f.type = "thread"  -> {<<"thread", f.id>>} \cup (Named("project", {f.project} \ {None}))
      [] OTHER              -> {}
=============================================================================
