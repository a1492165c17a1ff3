-------------------------------- MODULE HostsFile --------------------------------
(***************************************************************************)
(* galaxy hostctl addRoute (cmd/hostctl, pkg/hostctl): the hosts file is   *)
(* parsed into the rows that are nobody's and the profiles, a route is     *)
(* added to a profile, and the whole file is rendered again over itself.   *)
(***************************************************************************)
EXTENDS Naturals, Sequences

LOCAL INSTANCE SequencesExt

CONSTANTS
    HostsFiles,     \* the files a machine may have
    NewRoutes,      \* [profile, ip, host]: what may be added
    MaxAdds         \* bounds the runs of the command

VARIABLES
    hosts,          \* the file: a sequence of lines
    seen,           \* the file as this run read it
    adding,         \* the route this run adds
    parsed,        \* types.Content: what this run has parsed
    parts,          \* what it has still to write
    adder,          \* where it is
    edited,         \* whether somebody else wrote the file since
    adds

hostsVars == <<hosts, seen, adding, parsed, parts, adder, edited, adds>>

\* A line: "empty", "blank" (white space), "comment", "route" (several hosts
\* for an address; off: commented out), "header" and "end" of a profile, and the
\* "banner" of hostctl, which stands between two "frame" lines.
Line(kind) == [kind |-> kind, name |-> "", off |-> FALSE, ip |-> "", hosts |-> <<>>]
RouteLine(off, ip, hs) == [Line("route") EXCEPT !.off = off, !.ip = ip, !.hosts = hs]
Header(name, off) == [Line("header") EXCEPT !.name = name, !.off = off]

Nothing == [rows |-> <<>>, names |-> <<>>, profiles |-> [n \in {} |-> <<>>],
            section |-> "", skip |-> FALSE, panic |-> FALSE]

HostsInit ==
    /\ hosts \in HostsFiles
    /\ adding \in NewRoutes
    /\ seen = <<>> /\ parsed = Nothing /\ parts = <<>>
    /\ adder = "start" /\ edited = FALSE /\ adds = 0

-----------------------------------------------------------------------------
(* Parsing (parser.Parse).                                                   *)

Unique(s) == FoldLeft(LAMBDA u, h : IF Contains(u, h) THEN u ELSE Append(u, h), <<>>, s)

\* Profile.AddRoutes: the routes of a profile are kept by address.
AddRoute(routes, ip, hs) ==
    IF \E i \in DOMAIN routes : routes[i].ip = ip
    THEN [i \in DOMAIN routes |->
             IF routes[i].ip = ip THEN [routes[i] EXCEPT !.hosts = Unique(@ \o hs)] ELSE routes[i]]
    ELSE Append(routes, [ip |-> ip, hosts |-> Unique(hs)])

\* A line with a host of an unmanaged part keeps its first host.
Row(l) == IF l.kind = "route" THEN [l EXCEPT !.hosts = <<Head(@)>>] ELSE l

WithProfile(profiles, n, p) == [m \in DOMAIN profiles \union {n} |-> IF m = n THEN p ELSE profiles[m]]

\* A second header of a name starts its profile afresh and lists it again.
\* The banner goes together with the row before it and the line after it.
ParseLine(d, l) ==
    IF d.panic THEN d
    ELSE IF d.skip THEN [d EXCEPT !.skip = FALSE]
    ELSE CASE l.kind = "header" ->
                [d EXCEPT !.section = l.name, !.names = Append(@, l.name),
                          !.profiles = WithProfile(@, l.name, [off |-> l.off, routes |-> <<>>])]
           [] l.kind = "end" -> [d EXCEPT !.section = ""]
           [] l.kind = "blank" -> [d EXCEPT !.panic = TRUE]
           [] l.kind \notin {"header", "end", "blank"} /\ d.section # "" ->
                IF l.kind = "route"
                THEN [d EXCEPT !.profiles[d.section].routes = AddRoute(@, l.ip, l.hosts)] ELSE d
           [] l.kind = "banner" /\ d.section = "" ->
                IF d.rows = <<>> THEN [d EXCEPT !.panic = TRUE]
                ELSE [d EXCEPT !.rows = Front(@), !.skip = TRUE]
           [] OTHER -> [d EXCEPT !.rows = Append(@, Row(l))]

Parse(f) == FoldLeft(ParseLine, Nothing, f)

-----------------------------------------------------------------------------
(* Rendering (File.writeToFile).                                             *)

\* DefaultProfile.Render: of consecutive empty rows the last one is written,
\* at the end of the rows none.
RenderRows(rows) ==
    LET empty(i) == i > Len(rows) \/ rows[i].kind = "empty"
    IN FoldLeftDomain(LAMBDA out, i : IF empty(i) /\ empty(i + 1) THEN out ELSE Append(out, rows[i]),
                      <<>>, rows)

\* Variant for the mutation runs: the routes of a profile that is off are written as on.
RenderProfileOn(name, p) ==
    LET lines(r) == [i \in DOMAIN r.hosts |-> RouteLine(FALSE, r.ip, <<r.hosts[i]>>)]
    IN <<Line("empty"), Header(name, p.off)>>
       \o FlattenSeq([i \in DOMAIN p.routes |-> lines(p.routes[i])])
       \o <<Line("end")>>

\* Profile.Render: a line per host, behind "# " when the profile is off.
RenderProfile(name, p) ==
    LET lines(r) == [i \in DOMAIN r.hosts |-> RouteLine(p.off, r.ip, <<r.hosts[i]>>)]
    IN <<Line("empty"), Header(name, p.off)>>
       \o FlattenSeq([i \in DOMAIN p.routes |-> lines(p.routes[i])])
       \o <<Line("end")>>

\* What Flush writes, a part at a time; "default" is not a profile.
Parts(d) ==
    LET names == SelectSeq(d.names, LAMBDA n : n # "default")
    IN <<RenderRows(d.rows)>> \o [i \in DOMAIN names |-> RenderProfile(names[i], d.profiles[names[i]])]

-----------------------------------------------------------------------------
(* CreateRoute.                                                              *)

\* AddRoute of File: a profile that is not there is created, unless it is the
\* one that stands for the unmanaged part.
Added(d, r) ==
    IF r.profile \in DOMAIN d.profiles
    THEN [d EXCEPT !.profiles[r.profile].routes = AddRoute(@, r.ip, <<r.host>>)]
    ELSE [d EXCEPT !.names = Append(@, r.profile),
                   !.profiles = WithProfile(@, r.profile,
                                    [off |-> FALSE, routes |-> AddRoute(<<>>, r.ip, <<r.host>>)])]

\* NewFile, GetProfile and AddRoute; a panic ends the process as well.
ReadHosts ==
    /\ adder = "start"
    /\ seen' = hosts
    /\ edited' = FALSE
    /\ LET d == Parse(hosts)
       IN IF d.panic \/ (adding.profile = "default" /\ "default" \notin DOMAIN d.profiles)
          THEN adder' = "failed" /\ UNCHANGED parsed
          ELSE adder' = "flush" /\ parsed' = Added(d, adding)
    /\ UNCHANGED <<hosts, adding, parts, adds>>

\* Flush: the file is emptied, and then written part by part.
OpenHosts ==
    /\ adder = "flush"
    /\ hosts' = <<>>
    /\ parts' = Parts(parsed)
    /\ adder' = "write"
    /\ UNCHANGED <<seen, adding, parsed, edited, adds>>

WritePart ==
    /\ adder = "write"
    /\ IF parts = <<>> THEN adder' = "done" /\ UNCHANGED <<hosts, parts>>
       ELSE hosts' = hosts \o Head(parts) /\ parts' = Tail(parts) /\ UNCHANGED adder
    /\ UNCHANGED <<seen, adding, parsed, edited, adds>>

\* The process is killed; the file stays as far as it is written.
KillAdder ==
    /\ adder \in {"flush", "write"}
    /\ adder' = "killed"
    /\ UNCHANGED <<hosts, seen, adding, parsed, parts, edited, adds>>

\* Somebody else saves the hosts file between the read and the truncation.
EditHosts ==
    /\ adder = "flush" /\ ~edited
    /\ hosts' = <<RouteLine(FALSE, "9", <<"other">>)>>
    /\ edited' = TRUE
    /\ UNCHANGED <<seen, adding, parsed, parts, adder, adds>>

AddAgain ==
    /\ adder \in {"done", "failed", "killed"} /\ adds < MaxAdds
    /\ adds' = adds + 1
    /\ adding' \in NewRoutes
    /\ adder' = "start" /\ edited' = FALSE
    /\ seen' = <<>> /\ parsed' = Nothing /\ parts' = <<>>
    /\ UNCHANGED hosts

HostsNext == ReadHosts \/ OpenHosts \/ WritePart \/ KillAdder \/ EditHosts \/ AddAgain

HostsSpec == HostsInit /\ [][HostsNext]_hostsVars

-----------------------------------------------------------------------------
(* What a hosts file says, read line by line.                                *)

Marks(f, i) == {j \in 1 .. i : f[j].kind \in {"header", "end"}}
Latest(S) == CHOOSE i \in S : \A j \in S : j <= i

\* The profile a line belongs to; "" for none.
SectionAt(f, i) == IF Marks(f, i) = {} THEN "" ELSE f[Latest(Marks(f, i))].name

HeadersOf(f, n) == {i \in DOMAIN f : f[i].kind = "header" /\ f[i].name = n}
ProfilesOf(f) == {f[i].name : i \in {j \in DOMAIN f : f[j].kind = "header"}}
IsOff(f, n) == f[Latest(HeadersOf(f, n))].off

\* The lines with a route in the last section of a name.
RouteLines(f, n) ==
    {f[i] : i \in {j \in DOMAIN f : /\ f[j].kind = "route" /\ SectionAt(f, j) = n
                                    /\ \A h \in HeadersOf(f, n) : h < j}}
RoutesOf(f, n) == UNION {{<<l.ip, l.hosts[k]>> : k \in DOMAIN l.hosts} : l \in RouteLines(f, n)}

\* The comments and routes outside, in their order, each route by its first host.
Unmanaged(f) ==
    LET at == SelectSeq([i \in DOMAIN f |-> i],
                        LAMBDA i : f[i].kind \in {"comment", "route"} /\ SectionAt(f, i) = "")
    IN [k \in DOMAIN at |-> LET l == f[at[k]]
                            IN <<l.kind, l.off, l.ip, IF l.kind = "route" THEN Head(l.hosts) ELSE "">>]

(* The hosts file after the command (CreateRoute; TestAddRouteAndFlush).     *)
(* A run that nobody else disturbed and that ends well has added its route   *)
(* to its profile, and nothing else has changed what the file says: every    *)
(* profile has the routes and the state it had, all of them written as on or *)
(* off as the profile is, and the lines outside are there, in their order;   *)
(* a run that fails has left the file alone.  Not true of a file that has a  *)
(* profile of the name default, which is not written again.                  *)
OnlyRouteAdded ==
    /\ adder = "failed" => hosts = seen
    /\ adder = "done" /\ ~edited /\ "default" \notin ProfilesOf(seen) =>
         /\ Unmanaged(hosts) = Unmanaged(seen)
         /\ ProfilesOf(hosts) \ {adding.profile} = ProfilesOf(seen) \ {adding.profile}
         /\ <<adding.ip, adding.host>> \in RoutesOf(hosts, adding.profile)
         /\ \A n \in ProfilesOf(hosts) :
              /\ RoutesOf(hosts, n) \ RoutesOf(seen, n) \subseteq {<<adding.ip, adding.host>>}
              /\ RoutesOf(seen, n) \subseteq RoutesOf(hosts, n)
              /\ n \in ProfilesOf(seen) => IsOff(hosts, n) = IsOff(seen, n)
              /\ \A l \in RouteLines(hosts, n) : l.off = IsOff(hosts, n)

=============================================================================
