------------------------------ MODULE ReadCommands ------------------------------
(***************************************************************************)
(* galaxy get and galaxy info: commands that list what the Galaxy API has  *)
(* and change nothing.  Several need more than one request, and the answer *)
(* to one decides about the next, while others create and delete.          *)
(***************************************************************************)
EXTENDS Naturals, Sequences, FiniteSets, Bags

CONSTANTS
    Entries,      \* [kind, id, in, title, service]: in is the set of scopes it is listed in
    Contexts,     \* what the configuration says: [user, org, group, orgs, project, projects]
    Queries,      \* [what, names]
    Nowhere,      \* no organization, no project
    PageSize,     \* how much the API returns at once of what it lists in pages
    MaxNews       \* bounds what others create and delete

VARIABLES
    query, context,
    present,      \* the entries that the API has
    reading,      \* "start", "next", "done", "failed"
    runtimes,     \* the runtimes the first answer had
    todo,         \* the requests that are still to be made
    rows,         \* the bag of the entries that are shown
    cut,          \* history: an answer was a full page
    ever,         \* history: what was there at some moment
    throughout,   \* history: what was there all the time
    news          \* bound: see MaxNews

readVars == <<query, context, present, reading, runtimes, todo, rows, cut, ever, throughout, news>>

ASSUME ReadAssumption ==
    /\ IsFiniteSet(Entries) /\ \A e \in Entries : Nowhere \notin e.in \union {e.id}
    /\ \A e, f \in Entries : e.kind = f.kind /\ e.id = f.id => e = f
    /\ \A e \in Entries : e.kind = "container" => \A c, d \in e.in : c = d
    /\ \A q \in Queries : q.names \in Seq(STRING)
    /\ \A c \in Contexts : /\ c.projects \in Seq({c.projects[k] : k \in DOMAIN c.projects})
                            /\ \A j, k \in DOMAIN c.projects : c.projects[j].id = c.projects[k].id => j = k
    /\ PageSize \in Nat \ {0} /\ MaxNews \in Nat

\* What the command can come across.
Kinds == CASE query.what = "info" -> {"organization", "group", "project"}
           [] query.what = "container" -> {"instance", "container"}
           [] query.what = "domain" -> {"route"}
           [] OTHER -> {query.what}
Candidates == {e \in Entries : e.kind \in Kinds}

ReadInit ==
    /\ query \in Queries /\ context \in Contexts
    /\ present \in SUBSET Candidates
    /\ reading = "start" /\ runtimes = {} /\ todo = <<>>
    /\ rows = EmptyBag /\ cut = FALSE
    /\ ever = present /\ throughout = present /\ news = 0

Fixed == UNCHANGED <<query, context, present, ever, throughout, news>>

\* No argument, or an empty one, stands for all.
NoName == query.names = <<>> \/ query.names[1] = ""

\* CheckErr: whatever the error, a message and the exit code 1.
ReadFails == reading' = "failed" /\ UNCHANGED <<runtimes, todo, rows, cut>>

-----------------------------------------------------------------------------
(* Requests.                                                               *)

\* The scope parameters of a request: organization, group and project, or less.
HeldIn(kind, scope) == {e \in present : e.kind = kind /\ scope \in e.in}

\* The first page; no command asks for a second.
Page(all) ==
    IF Cardinality(all) > PageSize THEN {s \in SUBSET all : Cardinality(s) = PageSize}
                                   ELSE {all}

Show(answer) == rows' = rows (+) SetToBag(answer)

\* A command with one request: kind, scope, whether in pages, and how the
\* command ends when nothing is there.  It may fail, without a scope it does.
Lists(kind, scope, paged, empty) ==
    /\ query.what = kind /\ reading = "start"
    /\ \/ ReadFails
       \/ /\ scope # Nowhere
          /\ \E answer \in IF paged THEN Page(HeldIn(kind, scope)) ELSE {HeldIn(kind, scope)} :
                /\ Show({e \in answer : kind \in {"certificate", "route"} =>
                                            NoName \/ query.names[1] = e.title})
                /\ reading' = IF answer = {} THEN empty ELSE "done"
                /\ cut' = (paged /\ Cardinality(answer) >= PageSize)
          /\ UNCHANGED <<runtimes, todo>>
    /\ Fixed

\* The project of the directory; without one, ErrorNotInitProject.
ProjectScope == context.project.id

\* The organization of the project, or else the default one of the user.
OrgScope == IF ProjectScope = Nowhere THEN context.org ELSE context.project.org

\* By the project and its group, if there is a project.
ClusterScope == IF ProjectScope = Nowhere THEN context.org ELSE ProjectScope

GetPipelines == Lists("pipeline", ProjectScope, TRUE, "failed")
GetImages == Lists("image", ProjectScope, TRUE, "failed")
GetBuilds == Lists("build", ProjectScope, TRUE, "failed")
GetInstances == Lists("instance", ProjectScope, FALSE, "failed")
GetDeploys == Lists("deploy", ProjectScope, TRUE, "done")
GetRoutes == Lists("route", ProjectScope, FALSE, "done")
GetCertificates == Lists("certificate", OrgScope, TRUE, "failed")
GetOrganizations == Lists("organization", "user", FALSE, "failed")

GetClusters == Lists("cluster", ClusterScope, FALSE, "failed")

\* Of the default organization, also when the project belongs to another one.
GetGroups == Lists("group", context.org, TRUE, "failed")

\* The routes of the project, one row for each host.
GetDomains ==
    /\ query.what = "domain" /\ reading = "start"
    /\ \/ ReadFails
       \/ /\ ProjectScope # Nowhere
          /\ LET all == HeldIn("route", ProjectScope) IN
             \E first \in {s \in SUBSET all :
                              \A e \in all : Cardinality({f \in s : f.title = e.title}) = 1} :
                Show(first)
          /\ reading' = "done"
          /\ UNCHANGED <<runtimes, todo, cut>>
    /\ Fixed

-----------------------------------------------------------------------------
(* get project: a request for each name, which the API looks up as a word.   *)

GetProjects ==
    /\ query.what = "project" /\ reading = "start"
    /\ \/ ReadFails
       \/ /\ ProjectScope # Nowhere
          /\ reading' = "next"
          /\ todo' = IF query.names = <<>> THEN <<"">> ELSE query.names
          /\ UNCHANGED <<runtimes, rows, cut>>
    /\ Fixed

Matching(answer, word) == {e \in answer : word = "" \/ e.title = word}

GetProjectsNamed ==
    /\ query.what = "project" /\ reading = "next"
    /\ \/ ReadFails
       \/ \E answer \in Page(Matching(HeldIn("project", context.project.group), Head(todo))) :
             /\ Show(answer)
             /\ todo' = Tail(todo)
             /\ cut' = (cut \/ Cardinality(answer) >= PageSize)
             /\ reading' = IF Len(todo) > 1 THEN "next"
                           ELSE IF rows' = EmptyBag THEN "failed" ELSE "done"
             /\ UNCHANGED runtimes
    /\ Fixed

-----------------------------------------------------------------------------
(* get container: the runtimes, and the containers of each of their clusters. *)

\* selectContainerRuntime: the first that is called so, by name or service.
Called(all) ==
    IF NoName THEN {all}
    ELSE {{r} : r \in {r \in all : query.names[1] \in {r.title, r.service}}}

InOrder(set) == {s \in [1 .. Cardinality(set) -> set] : {s[k] : k \in DOMAIN s} = set}

ClusterOf(r) == CHOOSE c \in r.in : c # ProjectScope

\* Variant for the mutation runs: the argument is only checked.
GetRuntimesOfAll ==
    /\ query.what = "container" /\ reading = "start"
    /\ \/ ReadFails
       \/ /\ ProjectScope # Nowhere
          /\ \E chosen \in Called(HeldIn("instance", ProjectScope)) :
                /\ runtimes' = HeldIn("instance", ProjectScope)
                /\ todo' \in InOrder({ClusterOf(r) : r \in runtimes'})
          /\ reading' = "next"
          /\ UNCHANGED <<rows, cut>>
    /\ Fixed

\* The order of the clusters is that of a Go map.
GetRuntimes ==
    /\ query.what = "container" /\ reading = "start"
    /\ \/ ReadFails
       \/ /\ ProjectScope # Nowhere
          /\ \E chosen \in Called(HeldIn("instance", ProjectScope)) :
                /\ runtimes' = chosen
                /\ todo' \in InOrder({ClusterOf(r) : r \in chosen})
          /\ reading' = "next"
          /\ UNCHANGED <<rows, cut>>
    /\ Fixed

\* containerRuntime: a runtime of the cluster that the container belongs to, by
\* the ID or the name of its service.
OfRuntime(c, cluster) == \E r \in runtimes : ClusterOf(r) = cluster /\ c.service = r.service

GetContainers ==
    /\ query.what = "container" /\ reading = "next"
    /\ \/ ReadFails
       \/ /\ todo # <<>>
          /\ Show({c \in HeldIn("container", Head(todo)) : OfRuntime(c, Head(todo))})
          /\ todo' = Tail(todo)
          /\ UNCHANGED <<reading, runtimes, cut>>
       \/ /\ todo = <<>>
          /\ reading' = IF rows = EmptyBag THEN "failed" ELSE "done"
          /\ UNCHANGED <<runtimes, todo, rows, cut>>
    /\ Fixed

-----------------------------------------------------------------------------
(* info: the organization, the group, and the projects of the directory.     *)

\* A profile that is asked for, unless there is none to ask for.
Ask(kind, id, asked) == [kind |-> kind, id |-> id, asked |-> asked]

Asks(projects) ==
    <<Ask("organization", context.org, TRUE), Ask("group", context.group, context.group # Nowhere)>> \o projects

\* Variant for the mutation runs: the projects of all organizations.
InfoOfAll ==
    /\ query.what = "info" /\ reading = "start"
    /\ IF ~ context.user
         THEN reading' = "done" /\ UNCHANGED todo
         ELSE /\ reading' = "next"
              /\ todo' = Asks([k \in DOMAIN context.projects |-> Ask("project", context.projects[k].id, TRUE)])
    /\ UNCHANGED <<runtimes, rows, cut>> /\ Fixed

\* Nobody logged in: a hint, which is no error.  Who is a member of no organization
\* asks for the profile of none (GetDefaultOrg never returns nil).  Projects of
\* organizations that the user is no member of are passed over.
Info ==
    /\ query.what = "info" /\ reading = "start"
    /\ IF ~ context.user
         THEN reading' = "done" /\ UNCHANGED todo
         ELSE /\ reading' = "next"
              /\ todo' = Asks([k \in DOMAIN context.projects |->
                                 LET p == context.projects[k] IN Ask("project", p.id, p.org \in context.orgs)])
    /\ UNCHANGED <<runtimes, rows, cut>> /\ Fixed

\* organization, group and project profile: one that is gone is an error.
Profile ==
    /\ query.what = "info" /\ reading = "next"
    /\ \/ ReadFails
       \/ /\ todo # <<>>
          /\ IF Head(todo).asked
               THEN \E e \in present : e.kind = Head(todo).kind /\ e.id = Head(todo).id /\ Show({e})
               ELSE UNCHANGED rows
          /\ todo' = Tail(todo)
          /\ UNCHANGED <<reading, runtimes, cut>>
       \/ /\ todo = <<>> /\ reading' = "done"
          /\ UNCHANGED <<runtimes, todo, rows, cut>>
    /\ Fixed

-----------------------------------------------------------------------------
\* Somebody creates an entry or deletes one.
OthersCreateOrDelete ==
    /\ reading \in {"start", "next"} /\ news < MaxNews
    /\ \E e \in Candidates : present' = IF e \in present THEN present \ {e} ELSE present \union {e}
    /\ ever' = ever \union present'
    /\ throughout' = throughout \intersect present'
    /\ news' = news + 1
    /\ UNCHANGED <<query, context, reading, runtimes, todo, rows, cut>>

ReadNext ==
    \/ GetPipelines \/ GetImages \/ GetBuilds \/ GetInstances \/ GetDeploys \/ GetRoutes
    \/ GetCertificates \/ GetOrganizations \/ GetClusters \/ GetGroups \/ GetDomains
    \/ GetProjects \/ GetProjectsNamed \/ GetRuntimes \/ GetContainers \/ Info \/ Profile
    \/ OthersCreateOrDelete

ReadSpec == ReadInit /\ [][ReadNext]_readVars

-----------------------------------------------------------------------------
(* Properties.                                                             *)

\* What the user asks for.
Scope == CASE query.what = "organization" -> "user"
           [] query.what = "group" -> context.org
           [] query.what = "certificate" -> OrgScope
           [] query.what = "cluster" -> ClusterScope
           [] query.what = "project" -> context.project.group
           [] OTHER -> ProjectScope

\* All commands but one look at the first argument only.
Named(titles) ==
    query.names = <<>> \/ \E k \in DOMAIN query.names :
                             (k = 1 \/ query.what = "project") /\ query.names[k] \in {""} \union titles

Runs(r, c) ==
    /\ r.kind = "instance" /\ ProjectScope \in r.in /\ Named({r.title, r.service})
    /\ r.service = c.service /\ ClusterOf(r) \in c.in

Meant(e) ==
    CASE query.what = "info" ->
            \/ e.kind = "organization" /\ e.id = context.org
            \/ e.kind = "group" /\ e.id = context.group
            \/ e.kind = "project" /\ \E k \in DOMAIN context.projects :
                  context.projects[k].id = e.id /\ context.projects[k].org \in context.orgs
      [] query.what = "container" -> e.kind = "container" /\ \E r \in ever : Runs(r, e)
      [] query.what = "domain" -> Scope \in e.in
      [] OTHER ->
            /\ Scope \in e.in
            /\ query.what \in {"project", "certificate", "route"} => Named({e.title})

\* What may not be missing.  Of several runtimes of the name only one is shown.
Expected(e) ==
    /\ Meant(e) /\ ~ cut /\ (query.what = "info" => context.user)
    /\ query.what = "container" =>
          /\ \E r \in throughout : Runs(r, e)
          /\ ~ NoName =>
                Cardinality({r \in ever : r.kind = "instance" /\ Named({r.title, r.service})}) = 1

\* galaxy get, galaxy info: however the resources change between the requests,
\* a listing that succeeds has nothing but what was meant and was there while
\* the command ran, each once (a project for each name it was asked for by,
\* a domain once for all its routes); and what was there all the time is not
\* missing, unless a page was full.
ListedIsThere ==
    reading = "done" =>
        /\ \A e \in BagToSet(rows) : e \in ever /\ Meant(e)
        /\ query.what = "project" \/ rows = SetToBag(BagToSet(rows))
        /\ \A e \in throughout : Expected(e) =>
              \E f \in BagToSet(rows) : f = e \/ (query.what = "domain" /\ f.title = e.title)
        /\ query.what = "domain" =>
              \A e, f \in BagToSet(rows) : e.title = f.title => e = f

=============================================================================
