------------------------------ MODULE MCGalaxyCLI ------------------------------
(* sync: a path that may be a file or a directory, a file in it, and a file  *)
(* beside it.  migrate: two nodes; projects of up to two services, and       *)
(* single containers, that differ in their mounts, constraints or ports.     *)
(* login: two processes, the one that may log in as somebody else, and two   *)
(* servers.  hostctl: all files of up to three lines, and those in which a   *)
(* profile, a line twice or the banner of hostctl meet others.               *)
(* deploy: no runtime, one, and two whose names look alike.                  *)
EXTENDS GalaxyCLI, TLC

MCOrder == <<"a", "a/b", "c">>
MCAbove == "a" :> {} @@ "a/b" :> {"a"} @@ "c" :> {}

MCAttribute ==
    "here" :> ("node.hostname" :> "here" @@ "node.id" :> "n1")
    @@ "there" :> ("node.hostname" :> "there" @@ "node.id" :> "n2")

Port(form) == [p \in PortNumbers |-> form]

Service(image, mounts, form, constraints) ==
    [image |-> image, mounts |-> mounts, ports |-> Port(form), constraints |-> constraints]

On(key, op, value) == [key |-> key, op |-> op, value |-> value]

Placements ==
    SUBSET [key : {"node.hostname"}, op : {"==", "!="}, value : {"here", "there"}]
    \union {{On("node.id", op, "n2")} : op \in {"==", "!="}}

MCServices ==
    {Service(TRUE, M, "digits", C) :
        M \in {{}, {"path"}, {"v1"}, {"v2"}, {"anonymous"}, {"tmpfs", "v2"}}, C \in Placements}
    \union {Service(i, {"v1"}, f, {}) :
        i \in BOOLEAN, f \in {"closed", "number", "huge", "range"}}

MCSecond == {NoService} \union {Service(TRUE, M, "digits", {}) : M \in {{"v1"}, {"v2"}}}

MCProjects ==
    [name : BOOLEAN,
     services : {"web" :> NoService @@ "db" :> NoService}
                \union {"web" :> s @@ "db" :> t : s \in MCServices, t \in MCSecond}]

MCWorkloads ==
    [owner : {"nobody", "compose"}, modes : {{}, {"rm"}},
     service : {Service(i, M, f, {}) : i \in BOOLEAN, f \in {"closed", "digits", "random"},
                                       M \in SUBSET {"path", "v1", "npipe"}}]

-----------------------------------------------------------------------------
Invoked(what, server, account) ==
    [command |-> what, server |-> server, account |-> account]

MCInvocations ==
    "p1" :> {Invoked(c, "s1", "b") : c \in {"request", "login", "logout", "org", "group"}}
    @@ "p2" :> {Invoked(c, "s1", "a") : c \in {"request", "login", "logout", "org", "group"}}
               \union {Invoked("login", "s2", "a")}

MCHeads == {<<"main", "c1">>, <<"topic", "c2">>}

HostLines ==
    {Line("empty"), Line("comment"), Line("end"),
     Header("g", FALSE), Header("g", TRUE), Header("p", FALSE),
     RouteLine(FALSE, "1", <<"h">>), RouteLine(TRUE, "1", <<"k">>)}
Banner == <<Line("frame"), Line("banner"), Line("frame")>>
Section(name, off) == <<Header(name, off), RouteLine(off, "1", <<"k">>), Line("end")>>
MCHostsFiles ==
    UNION {[1 .. n -> HostLines] : n \in 0 .. 3}
    \union {<<Line("comment"), Line("blank")>>, <<Line("banner")>>, Banner,
            <<RouteLine(FALSE, "1", <<"h", "k">>)>> \o Banner}
    \union {Section(n, b) \o <<l>> \o Section("p", FALSE) :
                n \in {"g", "default"}, b \in BOOLEAN, l \in HostLines}

MCNewRoutes ==
    {[profile |-> "g", ip |-> "1", host |-> "h"], [profile |-> "default", ip |-> "2", host |-> "h"]}

Bound(project, url) == [id |-> project, src |-> url]
MCProjectFiles ==
    {NoFile, [default |-> "p1", listed |-> <<Bound("p1", "u1")>>],
     [default |-> "p2", listed |-> <<Bound("p1", "u1"), Bound("p2", NoRepository)>>]}

-----------------------------------------------------------------------------
Runtime(name, service, ports) ==
    [name |-> name, service |-> service, cluster |-> "c1", image |-> 1, ports |-> ports,
     replicas |-> 1, tasks |-> "old"]
RouteOf(domain, location, certificate) ==
    [domain |-> domain, location |-> location, cluster |-> "c1", service |-> "web", port |-> 80,
     certificate |-> certificate]

MCPlatforms ==
    {[runtimes |-> r,
      routes |-> <<RouteOf("a", "/", 2), RouteOf("a", "/x", 0), RouteOf("b", "/", 0), Vacant>>,
      certificates |-> <<[title |-> "www.a"], [title |-> "a"], Vacant>>,
      images |-> <<[tag |-> "t", ports |-> {80}], [tag |-> "u", ports |-> {}]>>,
      releases |-> <<[runtime |-> 1, image |-> 2]>>,
      targets |-> {"c1"}] :
        r \in {<<Vacant, Vacant, Vacant>>,
               <<Runtime("web", "web", {80}), Vacant, Vacant>>,
               <<Runtime("web", "web-2", {80, 81}), Runtime("api", "web", {}), Vacant>>}}

Command(c) ==
    [command |-> c, runtime |-> AnyOne, cluster |-> AnyOne, replicas |-> 0, tag |-> AnyOne,
     latest |-> FALSE, new |-> FALSE, yes |-> FALSE, release |-> 0, domain |-> "a",
     location |-> "/", service |-> AnyOne, port |-> 0, https |-> "no", title |-> "a"]

MCOrders ==
    {Command(c) : c \in {"reload", "delete domain", "create certificate", "delete certificate"}}
    \union {[Command("scale") EXCEPT !.runtime = r] : r \in {AnyOne, "web"}}
    \union {[Command("edit domain") EXCEPT !.location = AnyOne, !.port = 81]}
    \union {[Command("deploy") EXCEPT !.new = n, !.yes = y, !.latest = l, !.tag = t] :
               n, y, l \in BOOLEAN, t \in {AnyOne, "t"}}
    \union {[Command("rollback") EXCEPT !.release = r] : r \in {0, 1}}
    \union {[Command("route") EXCEPT !.location = "/y", !.port = p, !.https = h, !.service = s] :
               p \in {0, 81}, h \in {"no", "find", "import"}, s \in {AnyOne, "web"}}
    \union {[Command("create route") EXCEPT !.location = "/y"]}
    \union {[Command("create domain") EXCEPT !.cluster = c, !.domain = "d"] : c \in {AnyOne, "c1"}}
    \union {[Command("delete route") EXCEPT !.location = l, !.domain = d] :
               l \in {"/", "/z"}, d \in {"a", "b"}}

MCSimilar == "a" :> {"a", "www.a"} @@ "www.a" :> {"www.a"}
MCServiceNames == <<"web", "web-2">>

MCCopyPaths == <<"x", "x/f", "x/g">>
MCWithin == "x" :> {} @@ "x/f" :> {"x"} @@ "x/g" :> {"x"}
MCInto == "x" :> "x/f" @@ "x/f" :> Elsewhere @@ "x/g" :> Elsewhere
Container(name, service, cluster, running) ==
    [name |-> name, service |-> service, cluster |-> cluster, running |-> running]
MCFleets ==
    {[runtimes |-> {[name |-> "r", service |-> "web", cluster |-> "c1"]},
      containers |-> <<Container("web.1", "web", "c1", TRUE), Container("web.2", "web", "c1", FALSE),
                       Container("db.1", "db", "c2", TRUE)>>,
      named |-> n, flag |-> n = "web.1"] : n \in {"", "web.1", "r"}}

-----------------------------------------------------------------------------
Listing(kind, id, in, title, service) ==
    [kind |-> kind, id |-> id, in |-> in, title |-> title, service |-> service]
MCEntries ==
    {Listing(k, "1", {"p1"}, "x", "") : k \in {"pipeline", "image", "build", "deploy"}}
    \union {Listing(k, "2", {"p1"}, "y", "") : k \in {"build", "image"}}
    \union {Listing("route", n, {"p1"}, "a", "") : n \in {"1", "2"}}
    \union {Listing("route", "3", {"p1"}, "b", "")}
    \union {Listing("certificate", "1", {"o1"}, "a", ""), Listing("certificate", "2", {"o2"}, "a", ""),
            Listing("cluster", "1", {"o1", "p1"}, "k1", ""), Listing("cluster", "2", {"o2"}, "k2", "")}
    \union {Listing("instance", "1", {"p1", "k1"}, "r1", "web"), Listing("instance", "2", {"p1", "k2"}, "r2", "web"),
            Listing("container", "1", {"k1"}, "web.1", "web"), Listing("container", "2", {"k2"}, "web.1", "web"),
            Listing("container", "3", {"k1"}, "db.1", "db")}
    \union {Listing("organization", "o1", {"user"}, "o1", ""), Listing("organization", "o2", {"user"}, "o2", ""),
            Listing("group", "g1", {"o1"}, "g1", ""), Listing("project", "p1", {"g1"}, "shop", ""),
            Listing("project", "p2", {"g1"}, "api", ""), Listing("project", "p3", {"g3"}, "shop", "")}

ProjectIn(id, org, group) == [id |-> id, org |-> org, group |-> group]
MCContexts ==
    {[user |-> TRUE, org |-> "o1", group |-> g, orgs |-> {"o1"}, project |-> ProjectIn("p1", "o1", "g1"),
      projects |-> <<ProjectIn("p1", "o1", "g1"), ProjectIn("p3", "o3", "g3")>>] : g \in {Nowhere, "g1"}}
    \union {[user |-> u, org |-> Nowhere, group |-> Nowhere, orgs |-> {}, project |-> ProjectIn("p1", "o1", "g1"),
             projects |-> <<ProjectIn("p1", "o1", "g1")>>] : u \in BOOLEAN}
    \union {[user |-> TRUE, org |-> o, group |-> Nowhere, orgs |-> {o} \ {Nowhere}, project |-> ProjectIn(Nowhere, Nowhere, Nowhere),
             projects |-> <<>>] : o \in {Nowhere, "o1"}}
    \union {[user |-> TRUE, org |-> "o2", group |-> Nowhere, orgs |-> {"o1", "o2"}, project |-> ProjectIn("p1", "o1", "g1"),
             projects |-> <<ProjectIn("p1", "o1", "g1")>>]}

MCQueries ==
    {[what |-> k, names |-> <<>>] :
        k \in {"pipeline", "image", "build", "instance", "deploy", "route", "certificate", "cluster",
               "organization", "group", "domain", "project", "container", "info"}}
    \union {[what |-> k, names |-> <<"a">>] : k \in {"route", "certificate"}}
    \union {[what |-> "certificate", names |-> <<"b", "a">>]}
    \union {[what |-> "container", names |-> <<n>>] : n \in {"", "r1", "web"}}
    \union {[what |-> "project", names |-> n] : n \in {<<"shop">>, <<"shop", "api">>, <<"api", "api">>}}

=============================================================================
