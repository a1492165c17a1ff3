---------------------------- MODULE ResourceCommands ----------------------------
(***************************************************************************)
(* The commands on what runs at the platform: deploy, scale, reload,       *)
(* rollback, and route, create, edit and delete of domains, routes and     *)
(* certificates (cmd/deploy, cmd/route, cmd/create, cmd/edit, cmd/delete,  *)
(* service).  Each lists resources, selects some of what it was shown, and *)
(* changes that by its ids, a request at a time; other clients change the  *)
(* same resources in between.                                              *)
(***************************************************************************)
EXTENDS Naturals, Sequences, FiniteSets

CONSTANTS
    Platforms,      \* the platforms to start from
    Orders,         \* the command lines
    Similar,        \* Similar[t]: the titles that a search for the keyword t finds
    ServiceNames,   \* the sequence of names that deploy tries, 99 in the code
    LastName,       \* the one it takes without trying
    MaxMoves        \* bounds what other clients do during a command

VARIABLES
    platform,       \* [runtimes, routes, certificates, images, releases]: by their ids
    errand          \* the command: where it is, what it was shown, what is selected

resourceVars == <<platform, errand>>

Vacant == [vacant |-> TRUE]     \* an id that is not in use; ids are not used again
Used(f) == {i \in DOMAIN f : f[i] # Vacant}
AnyOne == "any"                 \* no name given

\* What the platform keeps.
Instance == [name: STRING, service: STRING, cluster: STRING, image: Nat, ports: SUBSET (Nat \ {0}),
             replicas: Nat, tasks: {"old", "new"}]
RouteRecord == [domain: STRING, location: STRING, cluster: STRING, service: STRING, port: Nat \ {0},
                certificate: Nat]
PlatformRecord ==
    [runtimes: Seq(Instance \union {Vacant}), routes: Seq(RouteRecord \union {Vacant}),
     certificates: Seq([title: STRING] \union {Vacant}),
     images: Seq([tag: STRING, ports: SUBSET (Nat \ {0})] \union {Vacant}),
     releases: Seq([runtime: Nat, image: Nat] \union {Vacant}), targets: SUBSET STRING]

ASSUME ResourceAssumption ==
    /\ MaxMoves \in Nat
    /\ Platforms \subseteq PlatformRecord
    /\ ServiceNames \in Seq(STRING)
    /\ \A t \in DOMAIN Similar : t \in Similar[t]
    /\ \A o \in Orders : o.title \in DOMAIN Similar

\* The command o before its first request.
Ready(o) == [order |-> o, at |-> "start", shown |-> Vacant, before |-> platform, pick |-> 0,
             chosen |-> Vacant, image |-> 0, port |-> 0, certificate |-> 0, left |-> {},
             moves |-> 0, sure |-> TRUE]

ResourceInit ==
    /\ platform \in Platforms
    /\ errand \in {Ready(o) : o \in Orders}

Asked == errand.order
Doing(S, at) == Asked.command \in S /\ errand.at = at

Turn(e) == errand' = e /\ UNCHANGED platform
Fails == Turn([errand EXCEPT !.at = "failed"])
Stands(at) == [errand EXCEPT !.at = at]

\* Select: the user selects one of S, the only one is taken; of none an error.
\* From here on f[i] is what the command knows of it.
Picks(f, S, at) ==
    IF S = {} THEN Fails
    ELSE \E i \in S : Turn([errand EXCEPT !.pick = i, !.chosen = f[i], !.at = at])

\* The request that makes a change: it may be refused, and its answer be lost.
Posts(p, e) ==
    /\ platform' = p
    /\ errand' \in {e, [errand EXCEPT !.at = "failed", !.sure = FALSE]}

\* Any request fails, any question is given up.
GiveUpErrand ==
    /\ errand.at \notin {"done", "failed", "declined"}
    /\ Fails

-----------------------------------------------------------------------------
(* Selecting a runtime (instance.SelectedRuntime).                           *)

Preferred(runtimes, name) ==
    {i \in Used(runtimes) : name \in {AnyOne, runtimes[i].name, runtimes[i].service}}

OnRuntime == {"scale", "reload", "route", "create route", "create domain"}

\* create domain may name the cluster instead, and then takes the first there.
SelectRuntime ==
    /\ Doing(OnRuntime, "start")
    /\ Picks(platform.runtimes,
             {i \in Preferred(platform.runtimes, Asked.runtime) :
                 Asked.cluster \in {AnyOne, platform.runtimes[i].cluster}},
             IF Asked.command \in {"scale", "reload"} THEN "change" ELSE "port")

ChangeRuntime ==
    /\ Doing({"scale", "reload"}, "change")
    /\ errand.pick \in Used(platform.runtimes)
    /\ Posts(IF Asked.command = "reload"
                THEN [platform EXCEPT !.runtimes[errand.pick].tasks = "new"]
                ELSE [platform EXCEPT !.runtimes[errand.pick].replicas = Asked.replicas],
                Stands("done"))

-----------------------------------------------------------------------------
(* deploy                                                                    *)

\* Of the images with the tag asked for, the newest or the one selected.
SelectImage ==
    /\ Doing({"deploy"}, "start")
    /\ LET S == {i \in Used(platform.images) : Asked.tag \in {AnyOne, platform.images[i].tag}}
       IN IF S = {} THEN Fails
          ELSE \E i \in S : /\ Asked.latest => \A j \in S : j <= i
                            /\ Turn([errand EXCEPT !.image = i, !.at = "runtimes"])
\* The list that decides between an update and a new runtime, and that the name
\* of a new one is chosen by.
ListRuntimes ==
    /\ Doing({"deploy"}, "runtimes")
    /\ Turn([errand EXCEPT !.shown = platform,
                           !.at = IF Asked.new \/ Used(platform.runtimes) = {} THEN "target" ELSE "update"])

\* SelectedRuntime lists once more; then the confirmation and the update.
SelectUpdated ==
    /\ Doing({"deploy"}, "update")
    /\ Picks(platform.runtimes, Used(platform.runtimes), "confirm")

UpdateArtifact ==
    /\ Doing({"deploy"}, "confirm")
    /\ \/ ~Asked.yes /\ Turn(Stands("declined"))
       \/ /\ errand.pick \in Used(platform.runtimes)
          /\ Posts([platform EXCEPT !.runtimes[errand.pick].image = errand.image], Stands("done"))

\* availableServiceName looks at the names, not at the service names.
AvailableName(runtimes) ==
    LET used == {runtimes[i].name : i \in Used(runtimes)}
        free == {n \in DOMAIN ServiceNames : ServiceNames[n] \notin used}
    IN IF free = {} THEN LastName ELSE ServiceNames[CHOOSE n \in free : \A m \in free : n <= m]

\* SelectTarget: a cluster that is linked to an environment one may deploy to;
\* CreateRelease with the name suggested, or with another one typed in.
CreateRelease ==
    /\ Doing({"deploy"}, "target")
    /\ \E i \in DOMAIN platform.runtimes \ Used(platform.runtimes), c \in platform.targets,
         n \in {AvailableName(errand.shown.runtimes)} \union (IF Asked.yes THEN {} ELSE {"typed"}) :
           Posts([platform EXCEPT !.runtimes[i] =
                        [name |-> n, service |-> n, cluster |-> c, image |-> errand.image,
                         ports |-> platform.images[errand.image].ports, replicas |-> 1, tasks |-> "new"]],
                    Stands("done"))

-----------------------------------------------------------------------------
(* rollback                                                                  *)

\* The release is given, or selected of the list, and confirmed.
SelectRelease ==
    /\ Doing({"rollback"}, "start")
    /\ Picks(platform.releases,
             IF Asked.release # 0 THEN {Asked.release} ELSE Used(platform.releases), "change")

RollbackRelease ==
    /\ Doing({"rollback"}, "change")
    /\ errand.pick \in Used(platform.releases)
    /\ LET r == platform.releases[errand.pick]
       IN r.runtime \in Used(platform.runtimes)
          /\ Posts([platform EXCEPT !.runtimes[r.runtime].image = r.image], Stands("done"))

-----------------------------------------------------------------------------
(* The gateway: route, create route, create domain.                          *)

Gateway == {"route", "create route", "create domain"}

\* The service, if one is named, is only checked; the port is the one given, the
\* only one of the runtime, or one of several.
SelectPort ==
    /\ Doing(Gateway, "port")
    /\ Asked.service \in {AnyOne, errand.chosen.service}
    /\ \E port \in IF Asked.port # 0 THEN {Asked.port} ELSE errand.chosen.ports :
          Turn([errand EXCEPT !.port = port,
                              !.at = IF Asked.https = "no" THEN "create" ELSE "certificate"])

\* certificateID of route --https: one is imported, or found by its name.
Found(t) == {i \in Used(platform.certificates) : platform.certificates[i].title \in Similar[t]}
Unused(f) == DOMAIN f \ Used(f)

SelectCertificate ==
    /\ Doing(Gateway, "certificate")
    /\ IF Asked.https = "import"
       THEN \E i \in Unused(platform.certificates) :
              Posts([platform EXCEPT !.certificates[i] = [title |-> Asked.title]],
                       [errand EXCEPT !.certificate = i, !.at = "create"])
       ELSE IF Found(Asked.title) = {} THEN Fails
       ELSE \E i \in Found(Asked.title) : Turn([errand EXCEPT !.certificate = i, !.at = "create"])

CreateRoute ==
    /\ Doing(Gateway, "create")
    /\ \E i \in Unused(platform.routes) :
          Posts([platform EXCEPT !.routes[i] =
                       [domain |-> Asked.domain, location |-> Asked.location,
                        cluster |-> errand.chosen.cluster, service |-> errand.chosen.service,
                        port |-> errand.port, certificate |-> errand.certificate]],
                   Stands("done"))

-----------------------------------------------------------------------------
(* edit domain, delete route, delete domain                                  *)

AtDomain(routes, domain) == {i \in Used(routes) : routes[i].domain = domain}

\* The one at the location, or else any of the domain.
RoutesMeant(routes, o) ==
    LET of == AtDomain(routes, o.domain)
        at == {i \in of : routes[i].location = o.location}
    IN IF at # {} THEN at ELSE of

\* Without a question if there is only one.
SelectRoute ==
    /\ Doing({"edit domain", "delete route"}, "start")
    /\ Picks(platform.routes, RoutesMeant(platform.routes, Asked),
             IF Asked.command = "edit domain" THEN "edit" ELSE "delete")

DeleteRoute ==
    /\ Doing({"delete route"}, "delete")
    /\ errand.pick \in Used(platform.routes)
    /\ Posts([platform EXCEPT !.routes[errand.pick] = Vacant], Stands("done"))

\* In the editor: the fields may be changed, the certificate by its title; the
\* first one that is found by that title is taken.
EditRoute ==
    /\ Doing({"edit domain"}, "edit")
    /\ LET r == errand.chosen
       IN \E port \in {r.port, Asked.port} \ {0}, t \in DOMAIN Similar \union {AnyOne} :
             IF t = AnyOne
             THEN Turn([errand EXCEPT !.at = "update", !.chosen = [r EXCEPT !.port = port, !.certificate = 0]])
             ELSE IF Found(t) = {} THEN Fails
             ELSE \E c \in Found(t) :
                     Turn([errand EXCEPT !.at = "update",
                                         !.chosen = [r EXCEPT !.port = port, !.certificate = c]])

UpdateRoute ==
    /\ Doing({"edit domain"}, "update")
    /\ errand.pick \in Used(platform.routes)
    /\ Posts([platform EXCEPT !.routes[errand.pick] = errand.chosen],
                Stands("done"))

\* All routes of the domain that the list has.
ListDomain ==
    /\ Doing({"delete domain"}, "start")
    /\ LET S == AtDomain(platform.routes, Asked.domain)
       IN IF S = {} THEN Fails
          ELSE Turn([errand EXCEPT !.shown = platform, !.left = S, !.at = "delete"])

\* Variant for the mutation runs: a route that cannot be deleted is passed over.
DeleteWhatGoes ==
    /\ Doing({"delete domain"}, "delete")
    /\ IF errand.left = {} THEN Turn(Stands("done"))
       ELSE \E i \in errand.left :
               LET e == [errand EXCEPT !.left = @ \ {i}]
               IN Turn(e) \/ Posts([platform EXCEPT !.routes[i] = Vacant], e)

\* One after the other; the first failure ends the command.
DeleteNext ==
    /\ Doing({"delete domain"}, "delete")
    /\ IF errand.left = {} THEN Turn(Stands("done"))
       ELSE \E i \in errand.left \intersect Used(platform.routes) :
               Posts([platform EXCEPT !.routes[i] = Vacant], [errand EXCEPT !.left = @ \ {i}])

-----------------------------------------------------------------------------
(* create certificate, delete certificate                                    *)

ImportCertificate ==
    /\ Doing({"create certificate"}, "start")
    /\ \E i \in Unused(platform.certificates) :
          Posts([platform EXCEPT !.certificates[i] = [title |-> Asked.title]], Stands("done"))

\* Of those that are found the one with that very title, or else the first one.
FindCertificate ==
    /\ Doing({"delete certificate"}, "start")
    /\ LET exact == {i \in Found(Asked.title) : platform.certificates[i].title = Asked.title}
       IN Picks(platform.certificates, IF exact # {} THEN exact ELSE Found(Asked.title), "delete")

DeleteCertificate ==
    /\ Doing({"delete certificate"}, "delete")
    /\ errand.pick \in Used(platform.certificates)
    /\ Posts([platform EXCEPT !.certificates[errand.pick] = Vacant], Stands("done"))

-----------------------------------------------------------------------------
\* Other clients delete, move or rename what is there.
OthersMove ==
    /\ errand.at \notin {"done", "failed", "declined"} /\ errand.moves < MaxMoves
    /\ errand' = [errand EXCEPT !.moves = @ + 1]
    /\ \/ \E i \in Used(platform.runtimes) :
             platform' \in {[platform EXCEPT !.runtimes[i] = Vacant],
                           [platform EXCEPT !.runtimes[i].name = "renamed"]}
       \/ \E i \in Used(platform.routes) :
             platform' \in {[platform EXCEPT !.routes[i] = Vacant],
                           [platform EXCEPT !.routes[i].domain = "moved"]}
       \/ \E i \in Used(platform.certificates) : platform' = [platform EXCEPT !.certificates[i] = Vacant]

ResourceNext ==
    \/ SelectRuntime \/ ChangeRuntime \/ SelectImage \/ ListRuntimes \/ SelectUpdated \/ UpdateArtifact
    \/ CreateRelease \/ SelectRelease \/ RollbackRelease \/ SelectPort \/ SelectCertificate \/ CreateRoute
    \/ SelectRoute \/ DeleteRoute \/ EditRoute \/ UpdateRoute \/ ListDomain \/ DeleteNext
    \/ ImportCertificate \/ FindCertificate \/ DeleteCertificate \/ OthersMove \/ GiveUpErrand

ResourceSpec == ResourceInit /\ [][ResourceNext]_resourceVars

-----------------------------------------------------------------------------
\* Nothing but p[k][i] of one i in S has changed: to something that is ok, or it
\* was removed.
OnlyOne(b, p, k, S, ok(_, _)) ==
    \E i \in S : p = [b EXCEPT ![k][i] = p[k][i]] /\ p[k][i] # Vacant /\ ok(i, p[k][i])
OneRemoved(b, p, k, S) == \E i \in S : p = [b EXCEPT ![k][i] = Vacant]

TagOk(o, b, image) == o.tag \in {AnyOne, b.images[image].tag}
NamesIn(runtimes) == {runtimes[i].name : i \in Used(runtimes)}

\* What platform b becomes by each of the commands.
Scaled(o, b, p) ==
    OnlyOne(b, p, "runtimes", Preferred(b.runtimes, o.runtime), LAMBDA i, r : r.replicas = o.replicas)
Reloaded(o, b, p) == OnlyOne(b, p, "runtimes", Used(b.runtimes), LAMBDA i, r : r.tasks = "new")
ArtifactUpdated(o, b, p) == OnlyOne(b, p, "runtimes", Used(b.runtimes), LAMBDA i, r : TagOk(o, b, r.image))
ReleaseCreated(o, b, p) ==
    OnlyOne(b, p, "runtimes", Unused(b.runtimes),
            LAMBDA i, r : /\ TagOk(o, b, r.image) /\ r.cluster \in b.targets
                          /\ r.name \in NamesIn(b.runtimes) => r.name \in {LastName, "typed"})
RolledBack(o, b, p) ==
    \E x \in Used(b.releases) :
       OnlyOne(b, p, "runtimes", {b.releases[x].runtime}, LAMBDA i, r : r.image = b.releases[x].image)
CertificateImported(o, b, p) ==
    OnlyOne(b, p, "certificates", Unused(b.certificates), LAMBDA i, c : c.title = o.title)
RouteCreated(o, b, p) ==
    LET q == [b EXCEPT !.certificates = p.certificates]
    IN /\ IF o.https = "import" THEN CertificateImported(o, b, q) ELSE q = b
       /\ OnlyOne(q, p, "routes", Unused(b.routes),
            LAMBDA i, r : /\ r.domain = o.domain /\ r.location = o.location
                          /\ \E u \in Preferred(b.runtimes, o.runtime) :
                                /\ r.service = b.runtimes[u].service /\ r.cluster = b.runtimes[u].cluster
                                /\ r.port \in {o.port} \union b.runtimes[u].ports
                          /\ r.port # 0
                          /\ IF o.https = "no" THEN r.certificate = 0
                             ELSE p.certificates[r.certificate].title \in Similar[o.title])
RouteEdited(o, b, p) ==
    OnlyOne(b, p, "routes", AtDomain(b.routes, o.domain),
            LAMBDA i, r : \A f \in {"domain", "location", "cluster", "service"} : r[f] = b.routes[i][f])
RouteDeleted(o, b, p) == OneRemoved(b, p, "routes", RoutesMeant(b.routes, o))
Without(b, S) == [b EXCEPT !.routes = [i \in DOMAIN b.routes |-> IF i \in S THEN Vacant ELSE b.routes[i]]]
CertificateDeleted(o, b, p) ==
    OneRemoved(b, p, "certificates",
               {i \in Used(b.certificates) : b.certificates[i].title \in Similar[o.title]})

\* What has become of it when the command has done what it was asked.
Ordered(o, b, p) ==
    LET new == o.new \/ Used(b.runtimes) = {}
    IN /\ o.command = "scale" => Scaled(o, b, p)
       /\ o.command = "reload" => Reloaded(o, b, p)
       /\ o.command = "deploy" => IF new THEN ReleaseCreated(o, b, p) ELSE ArtifactUpdated(o, b, p)
       /\ o.command = "rollback" => RolledBack(o, b, p)
       /\ o.command \in Gateway => RouteCreated(o, b, p)
       /\ o.command = "edit domain" => RouteEdited(o, b, p)
       /\ o.command = "delete route" => RouteDeleted(o, b, p)
       /\ o.command = "delete domain" => p = Without(b, AtDomain(b.routes, o.domain))
       /\ o.command = "create certificate" => CertificateImported(o, b, p)
       /\ o.command = "delete certificate" => CertificateDeleted(o, b, p)

\* What a command that failed may leave behind: a certificate it has imported
\* for its route, and a domain without some of its routes.
LeftBehind(o, b, p) ==
    \/ p = b
    \/ o.command \in Gateway /\ CertificateImported(o, b, p)
    \/ /\ o.command = "delete domain"
       /\ \E S \in SUBSET AtDomain(b.routes, o.domain) : p = Without(b, S)

(* The commands on resources (deploy, scale, reload, rollback, route, create,  *)
(* edit, delete).  One that reports success has done exactly what was asked of *)
(* it, to one of the resources that were meant, when no other client acted;    *)
(* one that reports a failure has changed nothing but what LeftBehind says,    *)
(* unless an answer was lost; and whatever other clients do, a domain that is  *)
(* reported deleted has none of the routes that were listed.                   *)
OnlyOrdered ==
    /\ errand.moves = 0 /\ errand.at = "done" => Ordered(Asked, errand.before, platform)
    /\ errand.moves = 0 /\ errand.at \in {"failed", "declined"} /\ errand.sure =>
         LeftBehind(Asked, errand.before, platform)
    /\ Doing({"delete domain"}, "done") =>
         \A i \in AtDomain(errand.shown.routes, Asked.domain) : platform.routes[i] = Vacant

=============================================================================
