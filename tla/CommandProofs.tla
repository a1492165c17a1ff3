----------------------------- MODULE CommandProofs -----------------------------
(***************************************************************************)
(* Three commands of the command line: the session of a process with the   *)
(* API (ClientSession), the upgrade of the executable (SelfUpgrade), and   *)
(* the log of a build (ProjectBuild), for every number of processes,       *)
(* servers, accounts, upgrades and lines, and a channel of any length.     *)
(***************************************************************************)
EXTENDS ClientSession, SelfUpgrade, ProjectBuild, SequenceTheorems, TLAPS

-----------------------------------------------------------------------------
(* The session.                                                            *)

\* Token, account and default organization of an entry are of one account.
OfOne(e) ==
    /\ e.token = e.secret
    /\ IF e.token = Nobody THEN e.org = Nobody ELSE e.org \in {e.token} \X {"last", "chosen"}

Own(r) == r.run.server

\* The entries a process holds.  Its own is of two accounts only while a login
\* waits for the organizations, and is completed, or loaded again, before it is
\* saved.
Holds(r) ==
    /\ \A s \in Servers \ {Own(r)} : OfOne(r.cfg[s]) /\ OfOne(r.held[s])
    /\ r.run.command # "login" \/ r.pc \in {"renewing", "truncate", "write"} =>
          OfOne(r.cfg[Own(r)])
    /\ r.run.command = "login" /\ r.pc \notin {"idle", "login", "done", "failed"} =>
          /\ r.held[Own(r)].token = r.run.account
          /\ r.held[Own(r)].org = <<r.run.account, "last">>
    /\ r.pc = "renewing" => r.cfg[Own(r)].secret # Nobody

\* Whose the requests are, and how often the token has been renewed.
Renewing(r) ==
    LET asks == r.pc \in {"request", "chosen"}
                \/ (r.pc \in {"truncate", "write"} /\ r.next = "request")
    IN /\ asks /\ r.run.command # "login" => r.bearer = r.cfg[Own(r)].token
       /\ r.pc = "login" => r.run.command = "login"
       /\ r.pc = "remove" => r.run.command = "logout"
       /\ r.pc = "chosen" => r.run.command = "org" /\ r.bearer # Nobody
       /\ asks \/ r.pc \in {"idle", "login", "renew", "renewing"} => r.tries \in {0, 1}
       /\ r.pc \in {"truncate", "write"} /\ r.next = "done" =>
             r.run.command \in {"org", "group", "login"}

SessionSound ==
    /\ CredentialsAgree
    /\ \A p \in Processes : Holds(session[p]) /\ Renewing(session[p])

\* What a process that nobody disturbs may find in the file.
AsBefore(r) == {r.start, [r.start EXCEPT ![Own(r)] = Renewed(r.start[Own(r)])]}

\* What it knows then of the file, and what it is going to leave there.
Knows(r) ==
    /\ (r.run.command # "login" /\ r.pc \notin {"truncate", "write"}) \/ r.pc = "renewing" =>
          r.cfg \in AsBefore(r)
    /\ r.pc = "login" => r.cfg = r.start
    /\ r.run.command = "login" /\ r.pc # "login" =>
          /\ \A s \in Servers \ {Own(r)} : r.held[s] = r.start[s]
          /\ r.tries = 0 => r.bearer = r.run.account
    /\ r.run.command = "group" => r.held = r.start
    /\ r.pc \in {"truncate", "write"} =>
          /\ \A s \in Servers \ {Own(r)} : r.cfg[s] = r.start[s]
          /\ IF r.next = "done" THEN Leaves(r, "done", r.cfg[Own(r)])
             ELSE r.cfg[Own(r)] = Renewed(r.start[Own(r)])

Undisturbed(p) ==
    LET r == session[p]
    IN Busy(r) /\ r.alone =>
          /\ IF r.pc = "write" THEN config = Torn /\ opened = {p}
             ELSE opened = {} /\ config # Garbled /\ Load(config) \in AsBefore(r)
          /\ Knows(r)


\* The fields of what a process is doing.
LEMMA SessionFields ==
    ASSUME NEW r \in Sessions
    PROVE  /\ r.pc \in {"idle", "login", "request", "renew", "renewing", "chosen", "truncate",
                        "write", "remove", "done", "failed"}
           /\ r.next \in {"request", "done", "failed"}
           /\ r.start \in Configs /\ r.cfg \in Configs /\ r.held \in Configs
           /\ r.bearer \in Accounts \union {Nobody}
           /\ r.tries \in 0 .. 2 /\ r.alone \in BOOLEAN
           /\ r.run \in UNION {Invocations[p] : p \in Processes}
           /\ Own(r) \in Servers /\ r.run.server \in Servers /\ r.run.account \in Accounts
           /\ r.run.command \in {"request", "login", "logout", "org", "group"}
<1>1. r.run \in UNION {Invocations[p] : p \in Processes}
  BY DEF Sessions
<1>2. PICK p \in Processes : r.run \in Invocations[p]
  BY <1>1
<1>3. Invocations[p] \subseteq [command : {"request", "login", "logout", "org", "group"},
                                server : Servers, account : Accounts]
  BY SessionAssumption
<1>4. r.run \in [command : {"request", "login", "logout", "org", "group"},
                 server : Servers, account : Accounts]
  BY <1>2, <1>3
<1>5. /\ r.run.server \in Servers /\ r.run.account \in Accounts
      /\ r.run.command \in {"request", "login", "logout", "org", "group"}
  BY <1>4
<1>. QED  BY <1>1, <1>5 DEF Sessions, Own

\* The entries that are written whole, and their fields.
LEMMA EntryFields ==
    /\ NoEntry \in Entry /\ OfOne(NoEntry)
    /\ \A a \in Accounts : LoggedIn(a) \in Entry /\ OfOne(LoggedIn(a))
    /\ \A e \in Entry : /\ e.token \in Accounts \union {Nobody}
                        /\ e.secret \in Accounts \union {Nobody}
                        /\ e.org \in Orgs /\ e.orgs \in Accounts \union {Nobody}
                        /\ e.group \in {"first", "chosen"}
<1>1. NoEntry \in Entry
  BY DEF NoEntry, Entry, Orgs
<1>2. OfOne(NoEntry)
  BY DEF NoEntry, OfOne
<1>3. ASSUME NEW a \in Accounts PROVE LoggedIn(a) \in Entry /\ OfOne(LoggedIn(a))
  BY SessionAssumption DEF LoggedIn, Entry, Orgs, OfOne
<1>4. \A e \in Entry : /\ e.token \in Accounts \union {Nobody}
                       /\ e.secret \in Accounts \union {Nobody}
                       /\ e.org \in Orgs /\ e.orgs \in Accounts \union {Nobody}
                       /\ e.group \in {"first", "chosen"}
  BY DEF Entry
<1>. QED  BY <1>1, <1>2, <1>3, <1>4

\* A process that has nothing in mind.
LEMMA IdleSound ==
    ASSUME NEW i \in UNION {Invocations[p] : p \in Processes}
    PROVE  /\ Idle(i) \in Sessions /\ Holds(Idle(i)) /\ Renewing(Idle(i))
           /\ \A how \in {"done", "failed"} :
                 /\ [Idle(i) EXCEPT !.pc = how] \in Sessions
                 /\ Holds([Idle(i) EXCEPT !.pc = how]) /\ Renewing([Idle(i) EXCEPT !.pc = how])
<1>1. NoConfig \in Configs
  BY EntryFields DEF NoConfig, Configs
<1>2. Idle(i) \in Sessions
  BY <1>1 DEF Idle, Sessions
<1>3. \A s \in Servers : OfOne(NoConfig[s])
  BY EntryFields DEF NoConfig
<1>4. i.server \in Servers /\ i.command \in {"request", "login", "logout", "org", "group"}
  BY <1>2, SessionFields DEF Idle
<1>5. Holds(Idle(i)) /\ Renewing(Idle(i))
  BY <1>3, <1>4 DEF Idle, Holds, Renewing, Own
<1>6. ASSUME NEW how \in {"done", "failed"}
      PROVE  /\ [Idle(i) EXCEPT !.pc = how] \in Sessions
             /\ Holds([Idle(i) EXCEPT !.pc = how]) /\ Renewing([Idle(i) EXCEPT !.pc = how])
  <2>. DEFINE t == [Idle(i) EXCEPT !.pc = how]
  <2>1. t \in Sessions
    BY <1>2 DEF Sessions
  <2>2. t.pc = how /\ t.run = i /\ t.cfg = NoConfig /\ t.held = NoConfig /\ t.next = "done"
    BY DEF Idle
  <2>. HIDE DEF t
  <2>3. Holds(t) /\ Renewing(t)
    BY <2>2, <1>3, <1>4 DEF Holds, Renewing, Own
  <2>. QED  BY <2>1, <2>3 DEF t
<1>. QED  BY <1>2, <1>5, <1>6

\* A process that ends.
LEMMA EndsSound ==
    ASSUME NEW r \in Sessions, NEW how \in {"done", "failed"}
    PROVE  /\ EndsAs(r, how) \in Sessions
           /\ Holds(EndsAs(r, how)) /\ Renewing(EndsAs(r, how))
BY SessionFields, IdleSound DEF EndsAs

\* What is loaded.
LEMMA LoadSound ==
    ASSUME SessionTypeOK, CredentialsAgree, config # Garbled
    PROVE  /\ Load(config) \in Configs
           /\ \A s \in Servers : OfOne(Load(config)[s])
<1>1. NoConfig \in Configs /\ \A s \in Servers : OfOne(NoConfig[s])
  BY EntryFields DEF NoConfig, Configs
<1>2. CASE config \in {Gone, Torn}
  BY <1>1, <1>2 DEF Load
<1>3. CASE config \in Configs
  BY <1>3, SessionAssumption DEF Load, CredentialsAgree, OfOne
<1>. QED  BY <1>2, <1>3 DEF SessionTypeOK, Files

\* A process that starts.
LEMMA StartSound ==
    ASSUME NEW p \in Processes, NEW c \in Configs, \A s \in Servers : OfOne(c[s]),
           NEW b \in BOOLEAN, session[p] \in Sessions, session[p].tries \in {0, 1}
    PROVE  /\ StartsWith(p, c, b) \in Sessions
           /\ Holds(StartsWith(p, c, b)) /\ Renewing(StartsWith(p, c, b))
<1>. DEFINE i == session[p].run
            r == [session[p] EXCEPT !.start = c, !.cfg = c, !.held = c, !.alone = b,
                                    !.bearer = c[i.server].token]
            t(goes) == [r EXCEPT !.pc = goes]
<1>1. i.server \in Servers /\ c[i.server] \in Entry
  BY SessionFields DEF Configs
<1>2. c[i.server].token \in Accounts \union {Nobody}
  BY <1>1, EntryFields
<1>3. r \in Sessions
  BY <1>2 DEF Sessions
<1>4. ASSUME NEW goes \in {"login", "request"}
      PROVE  /\ t(goes) \in Sessions /\ t(goes).pc = goes /\ t(goes).run = i /\ t(goes).cfg = c
             /\ t(goes).held = c /\ t(goes).bearer = c[i.server].token /\ t(goes).tries \in {0, 1}
  <2>1. t(goes) \in Sessions
    BY <1>3 DEF Sessions
  <2>. QED  BY <2>1 DEF Sessions
<1>5. i.command # "login" => StartsWith(p, c, b) \in {t("request"), EndsAs(r, "failed")}
  BY DEF StartsWith
<1>6. i.command = "login" => StartsWith(p, c, b) = t("login")
  BY DEF StartsWith
<1>. HIDE DEF t, r, i
<1>7. CASE i.command = "login"
  BY <1>6, <1>7, <1>4, <1>1 DEF Holds, Renewing, Own
<1>8. CASE StartsWith(p, c, b) = t("request") /\ i.command # "login"
  BY <1>8, <1>4, <1>1 DEF Holds, Renewing, Own
<1>9. CASE StartsWith(p, c, b) = EndsAs(r, "failed")
  BY <1>9, <1>3, EndsSound
<1>. QED  BY <1>5, <1>6, <1>7, <1>8, <1>9

\* Nobody else's saving changes what a process knows of itself.
LEMMA AloneSound ==
    ASSUME NEW r \in Sessions, NEW b \in BOOLEAN, Holds(r), Renewing(r)
    PROVE  /\ [r EXCEPT !.alone = b] \in Sessions
           /\ Holds([r EXCEPT !.alone = b]) /\ Renewing([r EXCEPT !.alone = b])
<1>. DEFINE t == [r EXCEPT !.alone = b]
<1>1. t \in Sessions
  BY DEF Sessions
<1>2. /\ t.pc = r.pc /\ t.next = r.next /\ t.run = r.run /\ t.cfg = r.cfg
      /\ t.held = r.held /\ t.bearer = r.bearer /\ t.tries = r.tries
  BY DEF Sessions
<1>. HIDE DEF t
<1>3. Holds(t)
  BY <1>2 DEF Holds, Own
<1>4. Renewing(t)
  BY <1>2 DEF Renewing, Own
<1>. QED  BY <1>1, <1>3, <1>4 DEF t

\* A process that only goes to another place.
LEMMA MovedSound ==
    ASSUME NEW r \in Sessions, NEW goes \in {"renew", "remove", "write", "request", "chosen"},
           Holds(r), Renewing(r),
           goes = "renew" => r.pc = "request",
           goes = "remove" => r.pc = "request" /\ r.run.command = "logout",
           goes = "chosen" => r.pc = "request" /\ r.run.command = "org" /\ r.bearer # Nobody,
           goes = "write" => r.pc = "truncate",
           goes = "request" => r.pc = "write" /\ r.next = "request"
    PROVE  /\ [r EXCEPT !.pc = goes] \in Sessions
           /\ Holds([r EXCEPT !.pc = goes]) /\ Renewing([r EXCEPT !.pc = goes])
<1>. DEFINE t == [r EXCEPT !.pc = goes]
<1>1. t \in Sessions
  BY DEF Sessions
<1>2. /\ t.pc = goes /\ t.next = r.next /\ t.run = r.run /\ t.cfg = r.cfg
      /\ t.held = r.held /\ t.bearer = r.bearer /\ t.tries = r.tries
  BY DEF Sessions
<1>. HIDE DEF t
<1>3. Holds(t)
  BY <1>2 DEF Holds, Own
<1>4. Renewing(t)
  BY <1>2 DEF Renewing, Own
<1>. QED  BY <1>1, <1>3, <1>4 DEF t

\* A process that is going to save c, and then to do what is next.
LEMMA SavingSound ==
    ASSUME NEW r \in Sessions, NEW t \in Sessions, Holds(r),
           t.run = r.run, t.held = r.held, t.pc = "truncate", t.next \in {"done", "failed"},
           r.pc \notin {"idle", "login", "done", "failed"},
           t.next = "done" => r.run.command \in {"org", "group", "login"},
           \A s \in Servers : OfOne(t.cfg[s])
    PROVE  Holds(t) /\ Renewing(t)
<1>1. Own(t) = Own(r) /\ Own(r) \in Servers
  BY SessionFields DEF Own
<1>2. Holds(t)
  BY <1>1 DEF Holds
<1>. QED  BY <1>2 DEF Renewing

\* A process whose request is answered.
LEMMA AnsweredSound ==
    ASSUME NEW r \in Sessions, Holds(r), Renewing(r), r.pc = "request", r.bearer # Nobody
    PROVE  /\ Answered(r) \in Sessions
           /\ Holds(Answered(r)) /\ Renewing(Answered(r))
<1>. DEFINE o == Own(r)
            saving == [r EXCEPT !.pc = "truncate", !.next = "done"]
            saved(c) == [saving EXCEPT !.cfg = c]
<1>1. /\ o \in Servers /\ r.cfg \in Configs /\ r.held \in Configs
      /\ r.bearer \in Accounts /\ r.run.account \in Accounts
      /\ r.run.command \in {"request", "login", "logout", "org", "group"}
  BY SessionFields
<1>2. ASSUME NEW c \in Configs
      PROVE  /\ saved(c) \in Sessions /\ saved(c).run = r.run /\ saved(c).held = r.held
             /\ saved(c).pc = "truncate" /\ saved(c).next = "done" /\ saved(c).cfg = c
  <2>1. saving \in Sessions
    BY DEF Sessions
  <2>. QED  BY <2>1 DEF Sessions
<1>3. CASE r.run.command = "request"
  <2>1. Answered(r) = EndsAs(r, "done")
    BY <1>3, Zenon DEF Answered
  <2>. QED  BY <2>1, EndsSound
<1>4. CASE r.run.command = "logout"
  <2>1. Answered(r) = [r EXCEPT !.pc = "remove"]
    BY <1>4, Zenon DEF Answered
  <2>. QED  BY <2>1, <1>4, MovedSound
<1>5. CASE r.run.command = "org"
  <2>1. Answered(r) = [r EXCEPT !.pc = "chosen"]
    BY <1>5, Zenon DEF Answered
  <2>. QED  BY <2>1, <1>5, MovedSound
<1>6. CASE r.run.command = "group"
  <2>1. Answered(r) = saved(SwitchedGroup(r))
    BY <1>6, Zenon DEF Answered
  <2>2. r.cfg[o] \in Entry /\ OfOne(r.cfg[o])
    BY <1>1, <1>6 DEF Configs, Holds
  <2>3. [r.cfg[o] EXCEPT !.group = "chosen"] \in Entry
    BY <2>2 DEF Entry
  <2>4. OfOne([r.cfg[o] EXCEPT !.group = "chosen"])
    <3>. DEFINE e == [r.cfg[o] EXCEPT !.group = "chosen"]
    <3>1. e.token = r.cfg[o].token /\ e.secret = r.cfg[o].secret /\ e.org = r.cfg[o].org
      BY <2>2 DEF Entry
    <3>. HIDE DEF e
    <3>2. OfOne(e)
      BY <2>2, <3>1 DEF OfOne
    <3>. QED  BY <3>2 DEF e
  <2>5. /\ SwitchedGroup(r) \in Configs
        /\ \A s \in Servers : OfOne(SwitchedGroup(r)[s])
    <3>1. SwitchedGroup(r) \in {r.cfg, [r.cfg EXCEPT ![o] = [r.cfg[o] EXCEPT !.group = "chosen"]]}
      BY DEF SwitchedGroup, Own
    <3>2. \A s \in Servers : OfOne(r.cfg[s])
      BY <1>6, <2>2 DEF Holds
    <3>. QED  BY <1>1, <2>3, <2>4, <3>1, <3>2 DEF Configs
  <2>6. /\ saved(SwitchedGroup(r)) \in Sessions
        /\ Holds(saved(SwitchedGroup(r))) /\ Renewing(saved(SwitchedGroup(r)))
    <3>. DEFINE t == saved(SwitchedGroup(r))
    <3>1. /\ t \in Sessions /\ t.run = r.run /\ t.held = r.held /\ t.pc = "truncate"
          /\ t.next = "done" /\ t.cfg = SwitchedGroup(r)
      BY <1>2, <2>5
    <3>. HIDE DEF t
    <3>2. Holds(t) /\ Renewing(t)
      BY <1>6, <3>1, <2>5, SavingSound
    <3>. QED  BY <3>1, <3>2 DEF t
  <2>. QED  BY <2>1, <2>6
<1>7. CASE r.run.command = "login"
  <2>. DEFINE e == [r.held[o] EXCEPT !.orgs = r.bearer, !.secret = r.run.account,
                                     !.group = "first"]
  <2>1. Answered(r) = saved(LoggedInAgain(r))
    BY <1>7, Zenon DEF Answered
  <2>2. LoggedInAgain(r) = [r.held EXCEPT ![o] = e]
    BY <1>1 DEF LoggedInAgain, Own, Configs
  <2>3. r.held[o] \in Entry
    BY <1>1 DEF Configs
  <2>4. e \in Entry
    BY <1>1, <2>3 DEF Entry
  <2>5. e.token = r.held[o].token /\ e.secret = r.run.account /\ e.org = r.held[o].org
    BY <2>3 DEF Entry
  <2>6. r.held[o].token = r.run.account /\ r.held[o].org = <<r.run.account, "last">>
    BY <1>7 DEF Holds
  <2>. HIDE DEF e
  <2>7. OfOne(e)
    BY <2>5, <2>6, <1>1, SessionAssumption DEF OfOne
  <2>8. /\ LoggedInAgain(r) \in Configs
        /\ \A s \in Servers : OfOne(LoggedInAgain(r)[s])
    BY <2>2, <2>4, <2>7, <1>1 DEF Configs, Holds
  <2>9. /\ saved(LoggedInAgain(r)) \in Sessions
        /\ Holds(saved(LoggedInAgain(r))) /\ Renewing(saved(LoggedInAgain(r)))
    <3>. DEFINE t == saved(LoggedInAgain(r))
    <3>1. /\ t \in Sessions /\ t.run = r.run /\ t.held = r.held /\ t.pc = "truncate"
          /\ t.next = "done" /\ t.cfg = LoggedInAgain(r)
      BY <1>2, <2>8
    <3>. HIDE DEF t
    <3>2. Holds(t) /\ Renewing(t)
      BY <1>7, <3>1, <2>8, SavingSound
    <3>. QED  BY <3>1, <3>2 DEF t
  <2>. QED  BY <2>1, <2>9
<1>. QED  BY <1>1, <1>3, <1>4, <1>5, <1>6, <1>7

\* A process that knows the organization.
LEMMA ChosenSound ==
    ASSUME NEW r \in Sessions, Holds(r), Renewing(r), r.pc = "chosen"
    PROVE  LET t == [r EXCEPT !.pc = "truncate", !.next = "done", !.cfg = SwitchedOrg(r)]
           IN t \in Sessions /\ Holds(t) /\ Renewing(t)
<1>. DEFINE o == Own(r)
            e == [r.cfg[o] EXCEPT !.org = <<r.bearer, "chosen">>]
            t == [r EXCEPT !.pc = "truncate", !.next = "done", !.cfg = SwitchedOrg(r)]
<1>1. /\ o \in Servers /\ r.cfg \in Configs /\ r.bearer \in Accounts /\ r.cfg[o] \in Entry
  BY SessionFields DEF Configs, Renewing
<1>2. r.run.command # "login" => r.bearer = r.cfg[o].token
  BY DEF Renewing
<1>3. SwitchedOrg(r) = [r.cfg EXCEPT ![o] = e]
  BY <1>1 DEF SwitchedOrg, Own, Configs
<1>4. e \in Entry /\ e.token = r.cfg[o].token /\ e.secret = r.cfg[o].secret /\ e.org = <<r.bearer, "chosen">>
  BY <1>1 DEF Entry, Orgs
<1>. HIDE DEF e
<1>5. SwitchedOrg(r) \in Configs
  BY <1>1, <1>3, <1>4 DEF Configs
<1>6. t \in Sessions /\ t.run = r.run /\ t.held = r.held /\ t.pc = "truncate" /\ t.next = "done"
      /\ t.cfg = SwitchedOrg(r)
  BY <1>5 DEF Sessions
<1>. HIDE DEF t
<1>7. r.cfg[o].token = r.bearer /\ (\A s \in Servers : OfOne(r.cfg[s]))
      /\ r.run.command = "org"
  BY <1>1, <1>2 DEF Renewing, Holds
<1>8. OfOne(e)
  BY <1>4, <1>7, <1>1, SessionAssumption DEF OfOne
<1>9. \A s \in Servers : OfOne(SwitchedOrg(r)[s])
  BY <1>1, <1>3, <1>7, <1>8 DEF Configs
<1>10. Holds(t) /\ Renewing(t)
  BY <1>6, <1>7, <1>9, SavingSound
<1>. QED  BY <1>6, <1>10 DEF t

\* A process that logs in again by the account it has loaded.
LEMMA RenewedSound ==
    ASSUME NEW r \in Sessions, Holds(r), Renewing(r), r.pc = "renewing"
    PROVE  LET t == [r EXCEPT !.pc = "truncate", !.cfg[r.run.server] = Renewed(@),
                              !.bearer = r.cfg[r.run.server].secret, !.tries = @ + 1,
                              !.next = IF r.tries = 0 THEN "request" ELSE "failed"]
           IN t \in Sessions /\ Holds(t) /\ Renewing(t)
<1>. DEFINE o == Own(r)
            e == Renewed(r.cfg[o])
            c == [r.cfg EXCEPT ![o] = e]
            t == [r EXCEPT !.pc = "truncate", !.cfg[r.run.server] = Renewed(@),
                           !.bearer = r.cfg[r.run.server].secret, !.tries = @ + 1,
                           !.next = IF r.tries = 0 THEN "request" ELSE "failed"]
<1>1. /\ o \in Servers /\ o = r.run.server /\ r.cfg \in Configs /\ r.cfg[o] \in Entry
      /\ r.tries \in {0, 1} /\ r.cfg[o].secret \in Accounts
  <2>1. o \in Servers /\ r.cfg \in Configs
    BY SessionFields
  <2>2. r.cfg[o] \in Entry
    BY <2>1 DEF Configs
  <2>3. r.cfg[o].secret \in Accounts /\ r.tries \in {0, 1}
    BY <2>2, EntryFields DEF Holds, Renewing
  <2>. QED  BY <2>1, <2>2, <2>3 DEF Own
<1>2. /\ e \in Entry /\ e.token = r.cfg[o].secret /\ e.secret = r.cfg[o].secret
      /\ e.org = <<r.cfg[o].secret, "last">>
  BY <1>1 DEF Renewed, Entry, Orgs
<1>5. t = [r EXCEPT !.pc = "truncate", !.cfg = c, !.bearer = r.cfg[o].secret, !.tries = r.tries + 1,
                    !.next = IF r.tries = 0 THEN "request" ELSE "failed"]
  BY <1>1, Zenon DEF Own
<1>. HIDE DEF e
<1>3. OfOne(e)
  BY <1>1, <1>2, SessionAssumption DEF OfOne
<1>4. c \in Configs /\ c[o] = e /\ \A s \in Servers \ {o} : c[s] = r.cfg[s]
  BY <1>1, <1>2 DEF Configs
<1>. DEFINE n == IF r.tries = 0 THEN "request" ELSE "failed"
<1>5a. n \in {"request", "failed"} /\ r.tries + 1 \in 0 .. 2
  BY <1>1
<1>. HIDE DEF c, t, n
<1>6. /\ t \in Sessions /\ t.run = r.run /\ t.held = r.held /\ t.pc = "truncate" /\ t.cfg = c
      /\ t.bearer = r.cfg[o].secret /\ t.tries = r.tries + 1
      /\ t.next = n
  <2>1. t = [r EXCEPT !.pc = "truncate", !.cfg = c, !.bearer = r.cfg[o].secret,
                      !.tries = r.tries + 1, !.next = n]
    BY <1>5 DEF n
  <2>. QED  BY <1>1, <1>4, <1>5a, <2>1 DEF Sessions
<1>7. \A s \in Servers : OfOne(t.cfg[s])
  BY <1>3, <1>4, <1>6 DEF Holds
<1>8. Own(t) = o
  BY <1>6 DEF Own
<1>9. Holds(t)
  BY <1>1, <1>6, <1>7, <1>8 DEF Holds
<1>10. Renewing(t)
  BY <1>1, <1>2, <1>4, <1>6, <1>8 DEF Renewing, n
<1>. QED  BY <1>6, <1>9, <1>10 DEF t

\* A process that has loaded the file again.
LEMMA ReloadedSound ==
    ASSUME NEW r \in Sessions, Holds(r), Renewing(r), r.pc = "renew",
           NEW c \in Configs, \A s \in Servers : OfOne(c[s]), c[r.run.server].secret # Nobody
    PROVE  LET t == [r EXCEPT !.pc = "renewing", !.cfg = c]
           IN t \in Sessions /\ Holds(t) /\ Renewing(t)
<1>. DEFINE t == [r EXCEPT !.pc = "renewing", !.cfg = c]
<1>1. /\ t \in Sessions /\ t.run = r.run /\ t.held = r.held /\ t.pc = "renewing" /\ t.cfg = c
      /\ t.tries = r.tries
  BY DEF Sessions
<1>. HIDE DEF t
<1>2. Own(t) = Own(r) /\ Own(r) = r.run.server /\ Own(r) \in Servers
  BY <1>1, SessionFields DEF Own
<1>3. Holds(t) /\ Renewing(t)
  BY <1>1, <1>2 DEF Holds, Renewing
<1>. QED  BY <1>1, <1>3 DEF t

\* A process whose login is answered.
LEMMA LoginSound ==
    ASSUME NEW r \in Sessions, Holds(r), Renewing(r), r.pc = "login"
    PROVE  LET c == [r.cfg EXCEPT ![r.run.server].token = r.run.account,
                                  ![r.run.server].org = <<r.run.account, "last">>]
               t == [r EXCEPT !.pc = "request", !.cfg = c, !.held = c, !.bearer = r.run.account]
           IN t \in Sessions /\ Holds(t) /\ Renewing(t)
<1>. DEFINE o == Own(r)
            e == [r.cfg[o] EXCEPT !.token = r.run.account, !.org = <<r.run.account, "last">>]
            c == [r.cfg EXCEPT ![r.run.server].token = r.run.account,
                               ![r.run.server].org = <<r.run.account, "last">>]
            t == [r EXCEPT !.pc = "request", !.cfg = c, !.held = c, !.bearer = r.run.account]
<1>1. /\ o \in Servers /\ o = r.run.server /\ r.cfg \in Configs /\ r.cfg[o] \in Entry
      /\ r.run.account \in Accounts /\ r.tries \in {0, 1}
  BY SessionFields DEF Own, Configs, Renewing
<1>2. e \in Entry /\ e.token = r.run.account /\ e.org = <<r.run.account, "last">>
  BY <1>1 DEF Entry, Orgs
<1>3. c = [r.cfg EXCEPT ![o] = e]
  BY <1>1 DEF Configs
<1>. HIDE DEF e
<1>4. c \in Configs /\ c[o] = e /\ \A s \in Servers \ {o} : c[s] = r.cfg[s]
  BY <1>1, <1>2, <1>3 DEF Configs
<1>. HIDE DEF c
<1>5. /\ t \in Sessions /\ t.run = r.run /\ t.held = c /\ t.pc = "request" /\ t.cfg = c
      /\ t.tries = r.tries /\ t.bearer = r.run.account
  BY <1>1, <1>4 DEF Sessions
<1>. HIDE DEF t
<1>6. Own(t) = o
  BY <1>5 DEF Own
<1>7. \A s \in Servers \ {o} : OfOne(r.cfg[s])
  BY DEF Holds
<1>8. Holds(t) /\ Renewing(t)
  BY <1>1, <1>2, <1>4, <1>5, <1>6, <1>7 DEF Holds, Renewing
<1>. QED  BY <1>5, <1>8 DEF t, c

-----------------------------------------------------------------------------
SessionInv == SessionTypeOK /\ SessionSound

\* A step in which p goes on as r, and the file is as it was.
LEMMA BecomesSound ==
    ASSUME SessionInv, NEW p \in Processes, NEW r \in Sessions, Holds(r), Renewing(r),
           Becomes(p, r), UNCHANGED <<config, opened>>
    PROVE  SessionInv'
<1>1. session' \in [Processes -> Sessions]
  BY DEF SessionInv, SessionTypeOK, Becomes
<1>2. \A q \in Processes : session'[q] = IF q = p THEN r ELSE session[q]
  BY DEF SessionInv, SessionTypeOK, Becomes
<1>3. \A q \in Processes : Holds(session'[q]) /\ Renewing(session'[q])
  BY <1>2 DEF SessionInv, SessionSound
<1>4. SessionTypeOK'
  BY <1>1 DEF SessionInv, SessionTypeOK
<1>5. CredentialsAgree'
  BY DEF SessionInv, SessionSound, CredentialsAgree
<1>. QED  BY <1>3, <1>4, <1>5 DEF SessionInv, SessionSound

\* A step in which p goes on as r, and the others have seen the file written.
LEMMA WritingSound ==
    ASSUME SessionInv, NEW p \in Processes, NEW r \in Sessions, Holds(r), Renewing(r),
           BecomesWriting(p, r), config' \in Files, opened' \subseteq Processes,
           config' \in Configs => \A s \in Servers : OfOne(config'[s])
    PROVE  SessionInv'
<1>1. \A q \in Processes :
         session'[q] = IF q = p THEN r
                       ELSE [session[q] EXCEPT !.alone = session[q].alone /\ ~Busy(session[q])]
  BY DEF BecomesWriting
<1>2. ASSUME NEW q \in Processes
      PROVE  session'[q] \in Sessions /\ Holds(session'[q]) /\ Renewing(session'[q])
  <2>. DEFINE b == session[q].alone /\ ~Busy(session[q])
  <2>1. b \in BOOLEAN
    OBVIOUS
  <2>2. session[q] \in Sessions /\ Holds(session[q]) /\ Renewing(session[q])
    BY DEF SessionInv, SessionTypeOK, SessionSound
  <2>3. session'[q] = IF q = p THEN r ELSE [session[q] EXCEPT !.alone = b]
    BY <1>1
  <2>. HIDE DEF b
  <2>. QED  BY <2>1, <2>2, <2>3, AloneSound
<1>3. session' \in [Processes -> Sessions]
  BY <1>2 DEF BecomesWriting
<1>4. SessionTypeOK'
  BY <1>3 DEF SessionTypeOK
<1>5. CredentialsAgree'
  BY DEF CredentialsAgree, OfOne
<1>. QED  BY <1>2, <1>4, <1>5 DEF SessionInv, SessionSound

\* All processes are idle, and the file is of one account per server, or gone.
LEMMA SessionInitSound ==
    ASSUME SessionInit
    PROVE  SessionInv
<1>. DEFINE Whole == [Servers -> {NoEntry} \union {LoggedIn(a) : a \in Accounts}]
<1>1. \A c \in Whole : c \in Configs /\ \A s \in Servers : OfOne(c[s])
  BY EntryFields DEF Configs
<1>2. config \in Files /\ (config \in Configs => \A s \in Servers : OfOne(config[s]))
  BY <1>1, SessionAssumption DEF SessionInit, Files
<1>3. ASSUME NEW p \in Processes
      PROVE  session[p] \in Sessions /\ Holds(session[p]) /\ Renewing(session[p])
  <2>1. PICK i \in UNION {Invocations[q] : q \in Processes} : session[p] = Idle(i)
    BY DEF SessionInit
  <2>. QED  BY <2>1, IdleSound
<1>4. session \in [Processes -> Sessions]
  BY <1>3 DEF SessionInit
<1>5. SessionTypeOK
  BY <1>2, <1>4 DEF SessionInit, SessionTypeOK
<1>6. CredentialsAgree
  BY <1>2 DEF CredentialsAgree, OfOne
<1>. QED  BY <1>3, <1>5, <1>6 DEF SessionInv, SessionSound

\* Every step of a process.
LEMMA SessionStepSound ==
    ASSUME SessionInv, [SessionNext]_sessionVars
    PROVE  SessionInv'
<1>1. CASE UNCHANGED sessionVars
  BY <1>1 DEF sessionVars, SessionInv, SessionTypeOK, SessionSound, CredentialsAgree
<1>2. ASSUME NEW p \in Processes,
             \/ Start(p) \/ Request(p) \/ ChooseOrg(p)
             \/ Reload(p) \/ Renew(p) \/ Login(p)
             \/ RemoveConfig(p) \/ StartSave(p) \/ FinishSave(p)
      PROVE  SessionInv'
  <2>. DEFINE r == session[p]
  <2>. /\ r \in Sessions /\ Holds(r) /\ Renewing(r)
       /\ SessionTypeOK /\ CredentialsAgree
    BY DEF SessionInv, SessionTypeOK, SessionSound
  <2>. HIDE DEF r
  <2>1. CASE Start(p)
    <3>1. CASE config = Garbled
      <4>1. Becomes(p, EndsAs(r, "failed")) /\ UNCHANGED <<config, opened>>
        BY <2>1, <3>1 DEF Start, r
      <4>. QED  BY <4>1, EndsSound, BecomesSound
    <3>2. CASE config # Garbled
      <4>. DEFINE t == StartsWith(p, Load(config), opened = {})
      <4>1. Becomes(p, t) /\ UNCHANGED <<config, opened>>
        BY <2>1, <3>2 DEF Start
      <4>2. session[p] \in Sessions /\ session[p].tries \in {0, 1}
        BY <2>1 DEF Start, Renewing, r
      <4>3. t \in Sessions /\ Holds(t) /\ Renewing(t)
        BY <3>2, <4>2, LoadSound, StartSound
      <4>. HIDE DEF t
      <4>. QED  BY <4>1, <4>3, BecomesSound
    <3>. QED  BY <3>1, <3>2
  <2>2. CASE Request(p)
    <3>1. CASE r.bearer # Nobody /\ Becomes(p, Answered(r))
      BY <2>2, <3>1, AnsweredSound, BecomesSound DEF Request, r
    <3>2. CASE Becomes(p, [r EXCEPT !.pc = "renew"])
      BY <2>2, <3>2, MovedSound, BecomesSound DEF Request, r
    <3>3. CASE Becomes(p, EndsAs(r, "failed"))
      BY <2>2, <3>3, EndsSound, BecomesSound DEF Request
    <3>. QED  BY <2>2, <3>1, <3>2, <3>3 DEF Request, r
  <2>3. CASE ChooseOrg(p)
    <3>. DEFINE t == [r EXCEPT !.pc = "truncate", !.next = "done", !.cfg = SwitchedOrg(r)]
    <3>1. Becomes(p, t) /\ r.pc = "chosen" /\ UNCHANGED <<config, opened>>
      BY <2>3 DEF ChooseOrg, r
    <3>2. t \in Sessions /\ Holds(t) /\ Renewing(t)
      BY <3>1, ChosenSound
    <3>. HIDE DEF t
    <3>. QED  BY <3>1, <3>2, BecomesSound
  <2>4. CASE Reload(p)
    <3>. DEFINE c == Load(config)
                t == [r EXCEPT !.pc = "renewing", !.cfg = c]
    <3>1. r.pc = "renew" /\ UNCHANGED <<config, opened>>
      BY <2>4 DEF Reload, r
    <3>2. CASE config = Garbled \/ c[r.run.server].secret = Nobody
      <4>1. Becomes(p, EndsAs(r, "failed"))
        BY <2>4, <3>2 DEF Reload, r
      <4>. QED  BY <3>1, <4>1, EndsSound, BecomesSound
    <3>3. CASE ~(config = Garbled \/ c[r.run.server].secret = Nobody)
      <4>1. Becomes(p, t)
        BY <2>4, <3>3 DEF Reload, r
      <4>2. t \in Sessions /\ Holds(t) /\ Renewing(t)
        BY <3>1, <3>3, LoadSound, ReloadedSound
      <4>. HIDE DEF t
      <4>. QED  BY <3>1, <4>1, <4>2, BecomesSound
    <3>. QED  BY <3>2, <3>3
  <2>5. CASE Renew(p)
    <3>. DEFINE t == [r EXCEPT !.pc = "truncate", !.cfg[r.run.server] = Renewed(@),
                               !.bearer = r.cfg[r.run.server].secret, !.tries = @ + 1,
                               !.next = IF r.tries = 0 THEN "request" ELSE "failed"]
    <3>1. /\ Becomes(p, t) \/ Becomes(p, EndsAs(r, "failed"))
          /\ r.pc = "renewing" /\ UNCHANGED <<config, opened>>
      BY <2>5 DEF Renew, r
    <3>2. t \in Sessions /\ Holds(t) /\ Renewing(t)
      BY <3>1, RenewedSound
    <3>. HIDE DEF t
    <3>. QED  BY <3>1, <3>2, EndsSound, BecomesSound
  <2>6. CASE Login(p)
    <3>. DEFINE c == [r.cfg EXCEPT ![r.run.server].token = r.run.account,
                                   ![r.run.server].org = <<r.run.account, "last">>]
                t == [r EXCEPT !.pc = "request", !.cfg = c, !.held = c, !.bearer = r.run.account]
    <3>1. /\ Becomes(p, t) \/ Becomes(p, EndsAs(r, "failed"))
          /\ r.pc = "login" /\ UNCHANGED <<config, opened>>
      BY <2>6 DEF Login, r
    <3>2. t \in Sessions /\ Holds(t) /\ Renewing(t)
      BY <3>1, LoginSound
    <3>. HIDE DEF t
    <3>. QED  BY <3>1, <3>2, EndsSound, BecomesSound
  <2>7. CASE RemoveConfig(p)
    <3>1. BecomesWriting(p, EndsAs(r, "done")) /\ config' = Gone /\ opened' = {}
      BY <2>7 DEF RemoveConfig, r
    <3>2. config' \in Files /\ config' \notin Configs
      BY <3>1, SessionAssumption DEF Files
    <3>. QED  BY <3>1, <3>2, EndsSound, WritingSound
  <2>8. CASE StartSave(p)
    <3>1. /\ BecomesWriting(p, [r EXCEPT !.pc = "write"]) /\ r.pc = "truncate"
          /\ config' = Torn /\ opened' = opened \union {p}
      BY <2>8 DEF StartSave, Truncate, r
    <3>2. config' \in Files /\ config' \notin Configs /\ opened' \subseteq Processes
      BY <3>1, SessionAssumption DEF Files, SessionTypeOK
    <3>. QED  BY <3>1, <3>2, MovedSound, WritingSound
  <2>9. CASE FinishSave(p)
    <3>1. r.pc = "write" /\ config' \in {config, r.cfg, Garbled} /\ opened' \subseteq Processes
      BY <2>9 DEF FinishSave, Write, WrittenBy, SessionTypeOK, r
    <3>2. r.cfg \in Configs /\ \A s \in Servers : OfOne(r.cfg[s])
      BY <3>1, SessionFields DEF Holds
    <3>3. config' \in Files /\ (config' \in Configs => \A s \in Servers : OfOne(config'[s]))
      BY <3>1, <3>2, SessionAssumption DEF Files, SessionTypeOK, CredentialsAgree, OfOne
    <3>4. CASE r.next = "request"
      <4>1. BecomesWriting(p, [r EXCEPT !.pc = "request"])
        BY <2>9, <3>4 DEF FinishSave, r
      <4>. QED  BY <3>1, <3>3, <3>4, <4>1, MovedSound, WritingSound
    <3>5. CASE r.next # "request"
      <4>1. BecomesWriting(p, EndsAs(r, r.next)) /\ r.next \in {"done", "failed"}
        BY <2>9, <3>5, SessionFields DEF FinishSave, r
      <4>. QED  BY <3>1, <3>3, <4>1, EndsSound, WritingSound
    <3>. QED  BY <3>4, <3>5
  <2>. QED  BY <1>2, <2>1, <2>2, <2>3, <2>4, <2>5, <2>6, <2>7, <2>8, <2>9
<1>. QED  BY <1>1, <1>2 DEF SessionNext

(* Whatever the processes do at once, the variables of the session keep their *)
(* types (user.go, httpclient.go, config.go), for every set of processes,      *)
(* servers and accounts.                                                       *)
THEOREM SessionTypeCorrect == SessionSpec => []SessionTypeOK
<1>1. SessionInit => SessionInv
  BY SessionInitSound
<1>2. SessionInv /\ [SessionNext]_sessionVars => SessionInv'
  BY SessionStepSound
<1>3. SessionInv => SessionTypeOK
  BY DEF SessionInv
<1>. QED  BY <1>1, <1>2, <1>3, PTL DEF SessionSpec

(* Whatever the processes do at once, and whichever token is refused when, the  *)
(* token, the account that renews it and the default organization of an entry   *)
(* in the file are of one account (user.go, LoginBySecret,                      *)
(* LoginSaveGalaxyConfig).                                                      *)
THEOREM OneAccount == SessionSpec => []CredentialsAgree
<1>1. SessionInit => SessionInv
  BY SessionInitSound
<1>2. SessionInv /\ [SessionNext]_sessionVars => SessionInv'
  BY SessionStepSound
<1>3. SessionInv => CredentialsAgree
  BY DEF SessionInv, SessionSound
<1>. QED  BY <1>1, <1>2, <1>3, PTL DEF SessionSpec

-----------------------------------------------------------------------------
(* What a process leaves that nobody disturbs.                               *)

\* An entry renewed twice is one renewed once, and so is a configuration.
LEMMA AsBeforeFields ==
    ASSUME NEW r \in Sessions, NEW c \in AsBefore(r)
    PROVE  /\ \A s \in Servers \ {Own(r)} : c[s] = r.start[s]
           /\ c[Own(r)] \in {r.start[Own(r)], Renewed(r.start[Own(r)])}
           /\ Renewed(c[Own(r)]) = Renewed(r.start[Own(r)])
           /\ c[Own(r)].orgs = r.start[Own(r)].orgs
           /\ c \in Configs => [c EXCEPT ![Own(r)] = Renewed(c[Own(r)])] \in AsBefore(r)
<1>. DEFINE o == Own(r)
            e == r.start[o]
<1>1. o \in Servers /\ r.start \in Configs /\ e \in Entry
  BY SessionFields DEF Configs
<1>2. Renewed(e) = [e EXCEPT !.token = e.secret, !.org = <<e.secret, "last">>]
  BY DEF Renewed
<1>3. Renewed(e).secret = e.secret /\ Renewed(e).orgs = e.orgs
  BY <1>1, <1>2 DEF Entry
<1>4. Renewed(Renewed(e)) = Renewed(e)
  <2>. DEFINE d == Renewed(e)
  <2>1. Renewed(d) = [d EXCEPT !.token = d.secret, !.org = <<d.secret, "last">>]
    BY DEF Renewed
  <2>2. [d EXCEPT !.token = e.secret, !.org = <<e.secret, "last">>] = d
    BY <1>1, <1>2 DEF Entry
  <2>. QED  BY <2>1, <2>2, <1>3
<1>5. CASE c = r.start
  BY <1>5, <1>1 DEF AsBefore
<1>6. CASE c = [r.start EXCEPT ![o] = Renewed(e)]
  <2>1. c[o] = Renewed(e) /\ \A s \in Servers \ {o} : c[s] = r.start[s]
    BY <1>6, <1>1 DEF Configs
  <2>2. [c EXCEPT ![o] = Renewed(c[o])] = c
    BY <2>1, <1>4, <1>6, <1>1 DEF Configs
  <2>. QED  BY <2>1, <2>2, <1>3, <1>4
<1>. QED  BY <1>5, <1>6 DEF AsBefore

\* What is left of an entry that may be as it was, or renewed.
LEMMA LeavesAsBefore ==
    ASSUME NEW r \in Sessions, NEW e \in {r.start[Own(r)], Renewed(r.start[Own(r)])}
    PROVE  Leaves(r, "failed", e) /\ (r.run.command = "request" => Leaves(r, "done", e))
BY DEF Leaves, Own

\* What a command that ends well leaves of its entry.
LEMMA LeavesOrg ==
    ASSUME NEW r \in Sessions, r.run.command = "org",
           NEW x \in {r.start[Own(r)], Renewed(r.start[Own(r)])}, NEW e,
           e = [x EXCEPT !.org = <<e.token, "chosen">>]
    PROVE  Leaves(r, "done", e)
<1>1. Leaves(r, "done", e) = \E y \in {r.start[Own(r)], Renewed(r.start[Own(r)])} :
                                 e = [y EXCEPT !.org = <<e.token, "chosen">>]
  BY Zenon DEF Leaves, Own
<1>. QED  BY <1>1

\* Choosing another group leaves what the user asked for.
LEMMA LeavesGroup ==
    ASSUME NEW r \in Sessions, r.run.command = "group",
           NEW x \in {r.start[Own(r)], Renewed(r.start[Own(r)])}
    PROVE  Leaves(r, "done", [x EXCEPT !.group = "chosen"])
<1>1. Leaves(r, "done", [x EXCEPT !.group = "chosen"])
      = \E y \in {r.start[Own(r)], Renewed(r.start[Own(r)])} :
            [x EXCEPT !.group = "chosen"] = [y EXCEPT !.group = "chosen"]
  BY Zenon DEF Leaves, Own
<1>. QED  BY <1>1

\* A login that has saved its entry leaves what the user asked for.
LEMMA LeavesLogin ==
    ASSUME NEW r \in Sessions, r.run.command = "login", NEW e,
           e.token = r.run.account, e.secret = r.run.account, e.org = <<r.run.account, "last">>,
           r.tries = 0 => e.orgs = r.run.account
    PROVE  Leaves(r, "done", e)
<1>1. Leaves(r, "done", e) = /\ {e.token, e.secret} = {r.run.account}
                             /\ e.org = <<r.run.account, "last">>
                             /\ r.tries = 0 => e.orgs = r.run.account
  BY Zenon DEF Leaves, Own
<1>. QED  BY <1>1

\* It depends on what the process does, not on where it is.
LEMMA LeavesSame ==
    ASSUME NEW r \in Sessions, NEW t \in Sessions, t.run = r.run, t.start = r.start,
           t.tries = r.tries, NEW how, NEW e
    PROVE  Leaves(t, how, e) = Leaves(r, how, e)
BY SMT DEF Leaves

\* How a process begins.
LEMMA StartKnows ==
    ASSUME NEW p \in Processes, NEW c \in Configs, NEW b \in BOOLEAN, session[p] \in Sessions,
           Busy(StartsWith(p, c, b))
    PROVE  LET t == StartsWith(p, c, b)
           IN t.start = c /\ t.alone = b /\ t.pc # "write" /\ Knows(t) /\ c \in AsBefore(t)
<1>. DEFINE i == session[p].run
            r == [session[p] EXCEPT !.start = c, !.cfg = c, !.held = c, !.alone = b,
                                    !.bearer = c[i.server].token]
            u(goes) == [r EXCEPT !.pc = goes]
            t == StartsWith(p, c, b)
<1>1. r.run = session[p].run
  BY DEF Sessions
<1>2. ~Busy(EndsAs(r, "failed"))
  BY DEF EndsAs, Idle, Busy
<1>3. t = IF i.command = "login" THEN u("login")
          ELSE IF i.command = "group" /\ c[i.server].orgs = Nobody THEN EndsAs(r, "failed")
          ELSE u("request")
  BY DEF StartsWith
<1>4. ASSUME NEW goes \in {"login", "request"}
      PROVE  /\ u(goes).pc = goes /\ u(goes).run = i /\ u(goes).cfg = c
             /\ u(goes).held = c /\ u(goes).start = c /\ u(goes).alone = b
  BY DEF Sessions
<1>. HIDE DEF t, u, r, i
<1>5. CASE i.command = "login"
  BY <1>3, <1>4, <1>5 DEF Knows, AsBefore, t
<1>6. CASE i.command # "login" /\ t = u("request")
  BY <1>4, <1>6 DEF Knows, AsBefore, t
<1>. QED  BY <1>2, <1>3, <1>5, <1>6 DEF t

\* A process that only goes to another place.
LEMMA MovedKnows ==
    ASSUME NEW r \in Sessions, NEW goes \in {"renew", "remove", "write", "chosen"}, Knows(r),
           goes = "write" => r.pc = "truncate",
           goes # "write" => r.pc = "request"
    PROVE  Knows([r EXCEPT !.pc = goes])
<1>. DEFINE t == [r EXCEPT !.pc = goes]
<1>1. /\ t \in Sessions /\ t.pc = goes /\ t.next = r.next /\ t.run = r.run /\ t.start = r.start
      /\ t.cfg = r.cfg /\ t.held = r.held /\ t.bearer = r.bearer /\ t.tries = r.tries
  BY DEF Sessions
<1>. HIDE DEF t
<1>2. Own(t) = Own(r) /\ AsBefore(t) = AsBefore(r)
  BY <1>1 DEF Own, AsBefore
<1>3. \A e : Leaves(t, "done", e) = Leaves(r, "done", e)
  BY <1>1, LeavesSame
<1>4. goes = "write" => Knows(t)
  BY <1>1, <1>2, <1>3 DEF Knows
<1>5. goes # "write" => Knows(t)
  BY <1>1, <1>2 DEF Knows
<1>. QED  BY <1>4, <1>5 DEF t

\* A process that is going to save what the command asks for.
LEMMA SavingKnows ==
    ASSUME NEW r \in Sessions, NEW t \in Sessions, Knows(r),
           t.run = r.run, t.start = r.start, t.held = r.held, t.bearer = r.bearer,
           t.tries = r.tries, t.pc = "truncate", t.next = "done", r.pc # "login",
           \A s \in Servers \ {Own(r)} : t.cfg[s] = r.start[s],
           Leaves(r, "done", t.cfg[Own(r)])
    PROVE  Knows(t)
<1>1. Own(t) = Own(r)
  BY DEF Own
<1>2. Leaves(t, "done", t.cfg[Own(r)])
  BY LeavesSame
<1>. QED  BY <1>1, <1>2 DEF Knows

\* A process whose request is answered.
LEMMA AnsweredKnows ==
    ASSUME NEW r \in Sessions, Holds(r), Renewing(r), Knows(r), r.pc = "request", r.bearer # Nobody,
           Busy(Answered(r))
    PROVE  LET t == Answered(r)
           IN /\ t.start = r.start /\ t.alone = r.alone /\ t.run = r.run
              /\ t.pc # "write" /\ Knows(t)
<1>. DEFINE o == Own(r)
            saving == [r EXCEPT !.pc = "truncate", !.next = "done"]
            saved(c) == [saving EXCEPT !.cfg = c]
<1>1. /\ o \in Servers /\ r.cfg \in Configs /\ r.held \in Configs /\ r.start \in Configs
      /\ r.bearer \in Accounts /\ r.run.account \in Accounts
      /\ r.run.command \in {"request", "login", "logout", "org", "group"}
      /\ r.cfg[o] \in Entry /\ r.held[o] \in Entry /\ r.start[o] \in Entry
  BY SessionFields DEF Configs
<1>2. ASSUME NEW c \in Configs
      PROVE  /\ saved(c) \in Sessions /\ saved(c).run = r.run /\ saved(c).held = r.held
             /\ saved(c).pc = "truncate" /\ saved(c).next = "done" /\ saved(c).cfg = c
             /\ saved(c).start = r.start /\ saved(c).bearer = r.bearer
             /\ saved(c).tries = r.tries /\ saved(c).alone = r.alone
  <2>1. saving \in Sessions
    BY DEF Sessions
  <2>. QED  BY <2>1 DEF Sessions
<1>3. ASSUME NEW goes \in {"remove", "chosen"}
      PROVE  LET t == [r EXCEPT !.pc = goes]
             IN /\ t.start = r.start /\ t.alone = r.alone /\ t.run = r.run
                /\ t.pc # "write" /\ Knows(t)
  <2>1. Knows([r EXCEPT !.pc = goes])
    BY MovedKnows
  <2>. QED  BY <2>1 DEF Sessions
<1>4. CASE r.run.command = "request"
  <2>1. Answered(r) = EndsAs(r, "done")
    BY <1>4, Zenon DEF Answered
  <2>. QED  BY <2>1 DEF EndsAs, Idle, Busy
<1>5. CASE r.run.command = "logout"
  <2>1. Answered(r) = [r EXCEPT !.pc = "remove"]
    BY <1>5, Zenon DEF Answered
  <2>. QED  BY <2>1, <1>3
<1>6. CASE r.run.command = "org"
  <2>1. Answered(r) = [r EXCEPT !.pc = "chosen"]
    BY <1>6, Zenon DEF Answered
  <2>. QED  BY <2>1, <1>3
<1>7. CASE r.run.command = "group"
  <2>. DEFINE c == SwitchedGroup(r)
              t == saved(c)
  <2>1. Answered(r) = t
    BY <1>7, Zenon DEF Answered
  <2>2. r.cfg \in AsBefore(r) /\ r.held = r.start
    BY <1>7 DEF Knows
  <2>10. /\ \A s \in Servers \ {o} : r.cfg[s] = r.start[s]
         /\ r.cfg[o] \in {r.start[o], Renewed(r.start[o])}
         /\ r.cfg[o].orgs = r.held[o].orgs
    BY <2>2, AsBeforeFields
  <2>3. c = [r.cfg EXCEPT ![o] = [r.cfg[o] EXCEPT !.group = "chosen"]]
    BY <2>10, Zenon DEF SwitchedGroup, Own
  <2>4. [r.cfg[o] EXCEPT !.group = "chosen"] \in Entry
    BY <1>1 DEF Entry
  <2>5. /\ c \in Configs /\ c[o] = [r.cfg[o] EXCEPT !.group = "chosen"]
        /\ \A s \in Servers \ {o} : c[s] = r.cfg[s]
    BY <2>3, <2>4, <1>1 DEF Configs
  <2>. HIDE DEF c
  <2>6. Leaves(r, "done", c[o])
    <3>1. Leaves(r, "done", [r.cfg[o] EXCEPT !.group = "chosen"])
      BY <2>10, <1>7, LeavesGroup
    <3>2. QED
      BY <2>5, <3>1, Zenon
  <2>7. \A s \in Servers \ {o} : c[s] = r.start[s]
    BY <2>5, <2>10
  <2>8. /\ t \in Sessions /\ t.run = r.run /\ t.held = r.held /\ t.pc = "truncate"
        /\ t.next = "done" /\ t.cfg = c /\ t.start = r.start /\ t.bearer = r.bearer
        /\ t.tries = r.tries /\ t.alone = r.alone
    BY <1>2, <2>5
  <2>. HIDE DEF t
  <2>9. Knows(t)
    BY <2>6, <2>7, <2>8, SavingKnows
  <2>. QED  BY <2>1, <2>8, <2>9
<1>8. CASE r.run.command = "login"
  <2>. DEFINE c == LoggedInAgain(r)
              t == saved(c)
              e == [r.held[o] EXCEPT !.orgs = r.bearer, !.secret = r.run.account,
                                     !.group = "first"]
  <2>1. Answered(r) = t
    BY <1>8, Zenon DEF Answered
  <2>2. c = [r.held EXCEPT ![o] = e]
    BY <1>1 DEF LoggedInAgain, Own, Configs
  <2>3. /\ e \in Entry /\ e.token = r.held[o].token /\ e.secret = r.run.account
        /\ e.org = r.held[o].org /\ e.orgs = r.bearer
    BY <1>1 DEF Entry
  <2>4. /\ r.held[o].token = r.run.account /\ r.held[o].org = <<r.run.account, "last">>
        /\ r.tries = 0 => r.bearer = r.run.account
    BY <1>8 DEF Holds, Knows
  <2>5. \A s \in Servers \ {o} : r.held[s] = r.start[s]
    BY <1>8 DEF Knows
  <2>. HIDE DEF e
  <2>6. c \in Configs /\ c[o] = e /\ \A s \in Servers \ {o} : c[s] = r.start[s]
    BY <2>2, <2>3, <2>5, <1>1 DEF Configs
  <2>. HIDE DEF c
  <2>7. Leaves(r, "done", c[o])
    BY <2>3, <2>4, <2>6, <1>8, LeavesLogin
  <2>8. /\ t \in Sessions /\ t.run = r.run /\ t.held = r.held /\ t.pc = "truncate"
        /\ t.next = "done" /\ t.cfg = c /\ t.start = r.start /\ t.bearer = r.bearer
        /\ t.tries = r.tries /\ t.alone = r.alone
    BY <1>2, <2>6
  <2>. HIDE DEF t
  <2>9. Knows(t)
    BY <2>6, <2>7, <2>8, SavingKnows
  <2>. QED  BY <2>1, <2>8, <2>9
<1>. QED  BY <1>1, <1>4, <1>5, <1>6, <1>7, <1>8

\* A process that knows the organization.
LEMMA ChosenKnows ==
    ASSUME NEW r \in Sessions, Renewing(r), Knows(r), r.pc = "chosen"
    PROVE  LET t == [r EXCEPT !.pc = "truncate", !.next = "done", !.cfg = SwitchedOrg(r)]
           IN t.start = r.start /\ t.alone = r.alone /\ t.run = r.run /\ t.pc # "write" /\ Knows(t)
<1>. DEFINE o == Own(r)
            e == [r.cfg[o] EXCEPT !.org = <<r.bearer, "chosen">>]
            c == SwitchedOrg(r)
            t == [r EXCEPT !.pc = "truncate", !.next = "done", !.cfg = SwitchedOrg(r)]
<1>1. /\ o \in Servers /\ r.cfg \in Configs /\ r.bearer \in Accounts /\ r.cfg[o] \in Entry
      /\ r.run.command = "org" /\ r.bearer = r.cfg[o].token
  BY SessionFields DEF Configs, Renewing
<1>2. r.cfg \in AsBefore(r)
  BY <1>1 DEF Knows
<1>3. /\ \A s \in Servers \ {o} : r.cfg[s] = r.start[s]
      /\ r.cfg[o] \in {r.start[o], Renewed(r.start[o])}
  BY <1>2, AsBeforeFields
<1>4. c = [r.cfg EXCEPT ![o] = e]
  BY <1>1 DEF SwitchedOrg, Own, Configs
<1>5. e \in Entry /\ e.token = r.bearer
  BY <1>1 DEF Entry, Orgs
<1>6. e = [r.cfg[o] EXCEPT !.org = <<e.token, "chosen">>]
  BY <1>5
<1>. HIDE DEF e
<1>7. c \in Configs /\ c[o] = e /\ \A s \in Servers \ {o} : c[s] = r.start[s]
  BY <1>1, <1>3, <1>4, <1>5 DEF Configs
<1>. HIDE DEF c
<1>8. Leaves(r, "done", c[o])
  BY <1>1, <1>3, <1>6, <1>7, LeavesOrg
<1>9. /\ t \in Sessions /\ t.run = r.run /\ t.held = r.held /\ t.pc = "truncate"
      /\ t.next = "done" /\ t.cfg = c /\ t.start = r.start /\ t.bearer = r.bearer
      /\ t.tries = r.tries /\ t.alone = r.alone
  BY <1>7 DEF Sessions, c
<1>. HIDE DEF t
<1>10. Knows(t)
  BY <1>7, <1>8, <1>9, SavingKnows
<1>. QED  BY <1>9, <1>10 DEF t

\* A process that logs in again by the account it has loaded.
LEMMA RenewedKnows ==
    ASSUME NEW r \in Sessions, Renewing(r), Knows(r), r.pc = "renewing"
    PROVE  LET t == [r EXCEPT !.pc = "truncate", !.cfg[r.run.server] = Renewed(@),
                              !.bearer = r.cfg[r.run.server].secret, !.tries = @ + 1,
                              !.next = IF r.tries = 0 THEN "request" ELSE "failed"]
           IN t.start = r.start /\ t.alone = r.alone /\ t.run = r.run /\ t.pc # "write" /\ Knows(t)
<1>. DEFINE o == Own(r)
            c == [r.cfg EXCEPT ![o] = Renewed(r.cfg[o])]
            n == IF r.tries = 0 THEN "request" ELSE "failed"
            t == [r EXCEPT !.pc = "truncate", !.cfg[r.run.server] = Renewed(@),
                           !.bearer = r.cfg[r.run.server].secret, !.tries = @ + 1,
                           !.next = IF r.tries = 0 THEN "request" ELSE "failed"]
<1>1. o \in Servers /\ o = r.run.server /\ r.cfg \in Configs /\ r.tries \in {0, 1}
  BY SessionFields DEF Own, Renewing
<1>2. t = [r EXCEPT !.pc = "truncate", !.cfg = c, !.bearer = r.cfg[o].secret,
                    !.tries = r.tries + 1, !.next = n]
  BY <1>1, Zenon DEF Own
<1>3. r.cfg \in AsBefore(r)
  BY DEF Knows
<1>4. /\ \A s \in Servers \ {o} : r.cfg[s] = r.start[s]
      /\ Renewed(r.cfg[o]) = Renewed(r.start[o])
  BY <1>3, AsBeforeFields
<1>5. c[o] = Renewed(r.start[o]) /\ \A s \in Servers \ {o} : c[s] = r.start[s]
  BY <1>1, <1>4 DEF Configs
<1>6. n \in {"request", "failed"} /\ r.tries + 1 # 0
  BY <1>1
<1>7. r.run.command = "login" => \A s \in Servers \ {o} : r.held[s] = r.start[s]
  BY DEF Knows
<1>8. r.run.command = "group" => r.held = r.start
  BY DEF Knows
<1>. HIDE DEF c, t, n
<1>9. /\ t.run = r.run /\ t.held = r.held /\ t.pc = "truncate" /\ t.next = n /\ t.cfg = c
      /\ t.start = r.start /\ t.tries = r.tries + 1 /\ t.alone = r.alone
  BY <1>2 DEF Sessions
<1>10. Own(t) = o
  BY <1>9 DEF Own
<1>11. Knows(t)
  BY <1>5, <1>6, <1>7, <1>8, <1>9, <1>10 DEF Knows
<1>. QED  BY <1>9, <1>11 DEF t

\* A process that has loaded the file again.
LEMMA ReloadedKnows ==
    ASSUME NEW r \in Sessions, Knows(r), r.pc = "renew", NEW c \in AsBefore(r)
    PROVE  LET t == [r EXCEPT !.pc = "renewing", !.cfg = c]
           IN t.start = r.start /\ t.alone = r.alone /\ t.run = r.run /\ t.pc # "write" /\ Knows(t)
<1>. DEFINE t == [r EXCEPT !.pc = "renewing", !.cfg = c]
<1>1. /\ t.run = r.run /\ t.held = r.held /\ t.pc = "renewing" /\ t.cfg = c /\ t.start = r.start
      /\ t.tries = r.tries /\ t.alone = r.alone /\ t.bearer = r.bearer
  BY DEF Sessions
<1>. HIDE DEF t
<1>2. Own(t) = Own(r) /\ AsBefore(t) = AsBefore(r)
  BY <1>1 DEF Own, AsBefore
<1>3. Knows(t)
  BY <1>1, <1>2 DEF Knows
<1>. QED  BY <1>1, <1>3 DEF t

\* A process whose login is answered.
LEMMA LoginKnows ==
    ASSUME NEW r \in Sessions, Renewing(r), Knows(r), r.pc = "login"
    PROVE  LET c == [r.cfg EXCEPT ![r.run.server].token = r.run.account,
                                  ![r.run.server].org = <<r.run.account, "last">>]
               t == [r EXCEPT !.pc = "request", !.cfg = c, !.held = c, !.bearer = r.run.account]
           IN t.start = r.start /\ t.alone = r.alone /\ t.run = r.run /\ t.pc # "write" /\ Knows(t)
<1>. DEFINE o == Own(r)
            c == [r.cfg EXCEPT ![r.run.server].token = r.run.account,
                               ![r.run.server].org = <<r.run.account, "last">>]
            t == [r EXCEPT !.pc = "request", !.cfg = c, !.held = c, !.bearer = r.run.account]
<1>1. /\ o \in Servers /\ o = r.run.server /\ r.cfg \in Configs /\ r.cfg = r.start
      /\ r.run.command = "login"
  BY SessionFields DEF Own, Renewing, Knows
<1>2. \A s \in Servers \ {o} : c[s] = r.start[s]
  BY <1>1 DEF Configs
<1>. HIDE DEF c
<1>3. /\ t.run = r.run /\ t.held = c /\ t.pc = "request" /\ t.cfg = c /\ t.start = r.start
      /\ t.alone = r.alone /\ t.bearer = r.run.account
  BY DEF Sessions
<1>. HIDE DEF t
<1>4. Own(t) = o
  BY <1>3 DEF Own
<1>5. Knows(t)
  BY <1>1, <1>2, <1>3, <1>4 DEF Knows
<1>. QED  BY <1>3, <1>5 DEF t, c

-----------------------------------------------------------------------------
\* What a step of a process leaves if it is its last.
Left(p) ==
    LET r == session[p]
        how == session'[p].pc
    IN Busy(r) /\ r.alone /\ how \in {"done", "failed"} =>
          IF r.run.command = "logout" /\ how = "done" THEN config' = Gone
          ELSE /\ config' # Garbled
               /\ Leaves(r, how, Load(config')[r.run.server])
               /\ \A s \in Servers \ {r.run.server} : Load(config')[s] = r.start[s]

IsolatedInv == SessionInv /\ \A p \in Processes : Undisturbed(p)

\* A step that goes on leaves the file as it was.
LEMMA GoesOn ==
    ASSUME IsolatedInv, NEW p \in Processes, NEW t, Becomes(p, t), UNCHANGED <<config, opened>>,
           Busy(t),
           t.alone => /\ Busy(session[p]) /\ session[p].alone /\ session[p].pc # "write"
                      /\ t.start = session[p].start /\ t.run = session[p].run
                      /\ t.pc # "write" /\ Knows(t)
    PROVE  \A q \in Processes : Undisturbed(q)' /\ Left(q)
<1>. SUFFICES ASSUME NEW q \in Processes PROVE Undisturbed(q)' /\ Left(q)
  OBVIOUS
<1>1. session'[q] = IF q = p THEN t ELSE session[q]
  BY DEF Becomes, IsolatedInv, SessionInv, SessionTypeOK
<1>2. Undisturbed(q) /\ Undisturbed(p)
  BY DEF IsolatedInv
<1>3. CASE q # p
  <2>1. Undisturbed(q)'
    BY <1>1, <1>2, <1>3 DEF Undisturbed, Load
  <2>2. Left(q)
    BY <1>1, <1>3 DEF Left, Busy
  <2>. QED  BY <2>1, <2>2
<1>4. CASE q = p
  <2>1. Left(q)
    BY <1>1, <1>4 DEF Left, Busy
  <2>2. t.alone => AsBefore(t) = AsBefore(session[p])
    BY DEF AsBefore, Own
  <2>3. Undisturbed(q)'
    BY <1>1, <1>2, <1>4, <2>2 DEF Undisturbed, Load
  <2>. QED  BY <2>1, <2>3
<1>. QED  BY <1>3, <1>4

\* A step in which it ends without a last save.
LEMMA GivesUp ==
    ASSUME IsolatedInv, NEW p \in Processes, NEW how \in {"done", "failed"},
           Becomes(p, EndsAs(session[p], how)), UNCHANGED <<config, opened>>,
           session[p].pc # "write",
           how = "done" => session[p].run.command = "request"
    PROVE  \A q \in Processes : Undisturbed(q)' /\ Left(q)
<1>. DEFINE t == EndsAs(session[p], how)
<1>. SUFFICES ASSUME NEW q \in Processes PROVE Undisturbed(q)' /\ Left(q)
  OBVIOUS
<1>1. session'[q] = IF q = p THEN t ELSE session[q]
  BY DEF Becomes, IsolatedInv, SessionInv, SessionTypeOK
<1>2. Undisturbed(q) /\ Undisturbed(p)
  BY DEF IsolatedInv
<1>3. CASE q # p
  <2>1. Undisturbed(q)'
    BY <1>1, <1>2, <1>3 DEF Undisturbed, Load
  <2>2. Left(q)
    BY <1>1, <1>3 DEF Left, Busy
  <2>. QED  BY <2>1, <2>2
<1>4. CASE q = p
  <2>1. t.pc = how /\ ~Busy(t)
    BY DEF EndsAs, Idle, Busy
  <2>. HIDE DEF t
  <2>2. Undisturbed(q)'
    BY <1>1, <1>4, <2>1 DEF Undisturbed
  <2>3. ASSUME Busy(session[p]), session[p].alone
        PROVE  /\ config' # Garbled
               /\ Leaves(session[p], how, Load(config')[session[p].run.server])
               /\ \A s \in Servers \ {session[p].run.server} :
                     Load(config')[s] = session[p].start[s]
    <3>. DEFINE r == session[p]
    <3>1. config # Garbled /\ Load(config) \in AsBefore(r) /\ r \in Sessions
      BY <1>2, <2>3 DEF Undisturbed, IsolatedInv, SessionInv, SessionTypeOK
    <3>2. /\ \A s \in Servers \ {Own(r)} : Load(config)[s] = r.start[s]
          /\ Load(config)[Own(r)] \in {r.start[Own(r)], Renewed(r.start[Own(r)])}
      BY <3>1, AsBeforeFields
    <3>3. Leaves(r, how, Load(config)[Own(r)])
      BY <3>1, <3>2, LeavesAsBefore
    <3>. QED  BY <3>1, <3>2, <3>3 DEF Own
  <2>4. Left(q)
    BY <1>1, <1>4, <2>1, <2>3 DEF Left
  <2>. QED  BY <2>2, <2>4
<1>. QED  BY <1>3, <1>4

\* A step that writes the file disturbs the others.
LEMMA WritesAlone ==
    ASSUME IsolatedInv, NEW p \in Processes, NEW t, BecomesWriting(p, t)
    PROVE  /\ session'[p] = t
           /\ \A q \in Processes \ {p} : Undisturbed(q)' /\ Left(q)
<1>1. ASSUME NEW q \in Processes
      PROVE  session'[q] = IF q = p THEN t
                           ELSE [session[q] EXCEPT !.alone = session[q].alone /\ ~Busy(session[q])]
  BY DEF BecomesWriting
<1>2. ASSUME NEW q \in Processes \ {p}
      PROVE  Undisturbed(q)' /\ Left(q)
  <2>. DEFINE r == session[q]
              b == r.alone /\ ~Busy(r)
              u == [r EXCEPT !.alone = b]
  <2>1. session'[q] = u
    BY <1>1
  <2>2. r \in Sessions
    BY DEF IsolatedInv, SessionInv, SessionTypeOK
  <2>3. u.pc = r.pc /\ u.alone = b
    <3>1. b \in BOOLEAN
      OBVIOUS
    <3>. HIDE DEF b
    <3>. QED  BY <2>2, <3>1 DEF Sessions
  <2>. HIDE DEF u
  <2>4. ~(Busy(u) /\ u.alone)
    BY <2>3 DEF Busy
  <2>5. Undisturbed(q)'
    BY <2>1, <2>4 DEF Undisturbed
  <2>6. Left(q)
    BY <2>1, <2>3 DEF Left, Busy
  <2>. QED  BY <2>5, <2>6
<1>. QED  BY <1>1, <1>2

\* An answered request does not change who else wrote.
LEMMA AnsweredAlone ==
    ASSUME NEW r \in Sessions
    PROVE  Answered(r).alone = r.alone \/ ~Busy(Answered(r))
<1>. DEFINE saving == [r EXCEPT !.pc = "truncate", !.next = "done"]
<1>1. ASSUME NEW c PROVE [saving EXCEPT !.cfg = c].alone = r.alone
  BY DEF Sessions
<1>2. ASSUME NEW goes PROVE [r EXCEPT !.pc = goes].alone = r.alone
  BY DEF Sessions
<1>3. ~Busy(EndsAs(r, "done"))
  BY DEF EndsAs, Idle, Busy
<1>4. r.run.command \in {"request", "login", "logout", "org", "group"}
  BY SessionFields
<1>5. CASE r.run.command = "request"
  <2>1. Answered(r) = EndsAs(r, "done")
    BY <1>5, Zenon DEF Answered
  <2>. QED  BY <2>1, <1>3
<1>6. CASE r.run.command = "logout"
  <2>1. Answered(r) = [r EXCEPT !.pc = "remove"]
    BY <1>6, Zenon DEF Answered
  <2>. QED  BY <2>1, <1>2
<1>7. CASE r.run.command = "org"
  <2>1. Answered(r) = [r EXCEPT !.pc = "chosen"]
    BY <1>7, Zenon DEF Answered
  <2>. QED  BY <2>1, <1>2
<1>8. CASE r.run.command = "group"
  <2>1. Answered(r) = [saving EXCEPT !.cfg = SwitchedGroup(r)]
    BY <1>8, Zenon DEF Answered
  <2>. QED  BY <2>1, <1>1
<1>9. CASE r.run.command = "login"
  <2>1. Answered(r) = [saving EXCEPT !.cfg = LoggedInAgain(r)]
    BY <1>9, Zenon DEF Answered
  <2>. QED  BY <2>1, <1>1
<1>. QED  BY <1>4, <1>5, <1>6, <1>7, <1>8, <1>9

\* Nobody has started: nothing to disturb.
LEMMA IsolatedInit ==
    ASSUME SessionInit
    PROVE  IsolatedInv
<1>1. ASSUME NEW p \in Processes PROVE Undisturbed(p)
  <2>1. PICK i : session[p] = Idle(i)
    BY DEF SessionInit
  <2>. QED  BY <2>1 DEF Undisturbed, Idle, Busy
<1>. QED  BY <1>1, SessionInitSound DEF IsolatedInv

\* Every step of a process.
LEMMA IsolatedStep ==
    ASSUME IsolatedInv, NEW p \in Processes,
           \/ Start(p) \/ Request(p) \/ ChooseOrg(p)
           \/ Reload(p) \/ Renew(p) \/ Login(p)
           \/ RemoveConfig(p) \/ StartSave(p) \/ FinishSave(p)
    PROVE  \A q \in Processes : Undisturbed(q)' /\ Left(q)
<1>. DEFINE r == session[p]
<1>. /\ r \in Sessions /\ Holds(r) /\ Renewing(r) /\ SessionInv
     /\ SessionTypeOK /\ CredentialsAgree /\ Undisturbed(p)
  BY DEF IsolatedInv, SessionInv, SessionTypeOK, SessionSound
<1>0. Busy(r) /\ r.alone =>
         /\ Knows(r)
         /\ IF r.pc = "write" THEN config = Torn /\ opened = {p}
            ELSE opened = {} /\ config # Garbled /\ Load(config) \in AsBefore(r)
  BY DEF Undisturbed
<1>. HIDE DEF r
<1>1. CASE Start(p)
  <2>. DEFINE t == StartsWith(p, Load(config), opened = {})
  <2>1. r.pc = "idle" /\ UNCHANGED <<config, opened>>
        /\ Becomes(p, IF config = Garbled THEN EndsAs(r, "failed") ELSE t)
    BY <1>1 DEF Start, r
  <2>2. CASE config = Garbled
    BY <2>1, <2>2, GivesUp DEF r
  <2>3. CASE config # Garbled /\ Busy(t)
    <3>. DEFINE c == Load(config)
                b == opened = {}
    <3>1. c \in Configs /\ b \in BOOLEAN /\ session[p] \in Sessions
      BY <2>3, LoadSound DEF r
    <3>2. t.start = c /\ t.alone = b /\ t.pc # "write" /\ Knows(t) /\ c \in AsBefore(t)
      <4>. HIDE DEF b, c
      <4>. QED  BY <2>3, <3>1, StartKnows DEF b, c
    <3>. HIDE DEF t
    <3>3. session' = [session EXCEPT ![p] = t]
      BY <2>1, <2>3 DEF Becomes
    <3>. SUFFICES ASSUME NEW q \in Processes PROVE Undisturbed(q)' /\ Left(q)
      OBVIOUS
    <3>4. session'[q] = IF q = p THEN t ELSE session[q]
      BY <3>3 DEF SessionTypeOK
    <3>5. Undisturbed(q)
      BY DEF IsolatedInv
    <3>6. Left(q)
      BY <3>4, <2>1, <2>3 DEF Left, Busy, r
    <3>7. CASE q # p
      BY <3>4, <3>5, <3>6, <3>7, <2>1 DEF Undisturbed, Load
    <3>8. CASE q = p
      BY <3>2, <3>4, <3>6, <3>8, <2>1, <2>3 DEF Undisturbed, Load
    <3>. QED  BY <3>7, <3>8
  <2>4. CASE config # Garbled /\ ~Busy(t)
    <3>1. t = EndsAs(r, "failed")
      <4>. DEFINE i == session[p].run
                  s == [session[p] EXCEPT !.start = Load(config), !.cfg = Load(config),
                                          !.held = Load(config), !.alone = (opened = {}),
                                          !.bearer = Load(config)[i.server].token]
      <4>1. s.run = session[p].run
        BY DEF Sessions, r
      <4>2. \A goes \in {"login", "request"} : [s EXCEPT !.pc = goes].pc = goes
        BY DEF Sessions, r
      <4>3. t \in {[s EXCEPT !.pc = "login"], [s EXCEPT !.pc = "request"], EndsAs(s, "failed")}
        BY DEF StartsWith
      <4>. HIDE DEF s
      <4>4. t = EndsAs(s, "failed")
        BY <2>4, <4>2, <4>3 DEF Busy
      <4>. QED  BY <4>1, <4>4 DEF EndsAs, r
    <3>. QED  BY <2>1, <2>4, <3>1, GivesUp DEF r
  <2>. QED  BY <2>2, <2>3, <2>4
<1>2. CASE Request(p)
  <2>1. r.pc = "request" /\ UNCHANGED <<config, opened>>
    BY <1>2 DEF Request, r
  <2>2. CASE r.bearer # Nobody /\ Becomes(p, Answered(r)) /\ Busy(Answered(r))
    <3>. DEFINE t == Answered(r)
    <3>1. Busy(r) /\ t.alone = r.alone
      BY <2>1, <2>2, AnsweredAlone DEF Busy
    <3>2. r.alone => t.start = r.start /\ t.run = r.run /\ t.pc # "write" /\ Knows(t)
      BY <1>0, <2>1, <2>2, <3>1, AnsweredKnows
    <3>. HIDE DEF t
    <3>. QED  BY <2>1, <2>2, <3>1, <3>2, GoesOn DEF r, t
  <2>3. CASE r.bearer # Nobody /\ Becomes(p, Answered(r)) /\ ~Busy(Answered(r))
    <3>1. r.run.command = "request" /\ Answered(r) = EndsAs(r, "done")
      <4>. DEFINE saving == [r EXCEPT !.pc = "truncate", !.next = "done"]
      <4>1. ASSUME NEW c PROVE [saving EXCEPT !.cfg = c].pc = "truncate"
        BY DEF Sessions
      <4>2. [r EXCEPT !.pc = "remove"].pc = "remove" /\ [r EXCEPT !.pc = "chosen"].pc = "chosen"
        BY DEF Sessions
      <4>3. r.run.command \in {"request", "login", "logout", "org", "group"}
        BY SessionFields
      <4>4. r.run.command = "login" => Answered(r) = [saving EXCEPT !.cfg = LoggedInAgain(r)]
        BY Zenon DEF Answered
      <4>5. r.run.command = "group" => Answered(r) = [saving EXCEPT !.cfg = SwitchedGroup(r)]
        BY Zenon DEF Answered
      <4>6. r.run.command = "logout" => Answered(r) = [r EXCEPT !.pc = "remove"]
        BY Zenon DEF Answered
      <4>7. r.run.command = "org" => Answered(r) = [r EXCEPT !.pc = "chosen"]
        BY Zenon DEF Answered
      <4>8. r.run.command = "request" => Answered(r) = EndsAs(r, "done")
        BY Zenon DEF Answered
      <4>. HIDE DEF saving
      <4>. QED  BY <2>3, <4>1, <4>2, <4>3, <4>4, <4>5, <4>6, <4>7, <4>8 DEF Busy
    <3>. QED  BY <2>1, <2>3, <3>1, GivesUp DEF r
  <2>4. CASE Becomes(p, [r EXCEPT !.pc = "renew"])
    <3>. DEFINE t == [r EXCEPT !.pc = "renew"]
    <3>1. t.alone = r.alone /\ t.start = r.start /\ t.run = r.run /\ t.pc = "renew"
      BY DEF Sessions
    <3>2. r.alone => Knows(t)
      BY <1>0, <2>1, MovedKnows DEF Busy
    <3>. HIDE DEF t
    <3>3. Busy(t) /\ Busy(r)
      BY <2>1, <3>1 DEF Busy
    <3>. QED  BY <2>1, <2>4, <3>1, <3>2, <3>3, GoesOn DEF r, t
  <2>5. CASE Becomes(p, EndsAs(r, "failed"))
    BY <2>1, <2>5, GivesUp DEF r
  <2>. QED  BY <1>2, <2>2, <2>3, <2>4, <2>5 DEF Request, r
<1>3. CASE ChooseOrg(p)
  <2>. DEFINE t == [r EXCEPT !.pc = "truncate", !.next = "done", !.cfg = SwitchedOrg(r)]
  <2>1. /\ Becomes(p, t)
        /\ r.pc = "chosen" /\ UNCHANGED <<config, opened>>
    BY <1>3 DEF ChooseOrg, r
  <2>2. t.alone = r.alone /\ Busy(r) /\ t.pc \notin {"idle", "done", "failed"}
    BY <2>1 DEF Sessions, Busy
  <2>3. r.alone => t.start = r.start /\ t.run = r.run /\ t.pc # "write" /\ Knows(t)
    BY <1>0, <2>1, <2>2, ChosenKnows
  <2>. HIDE DEF t
  <2>4. Busy(t)
    BY <2>2 DEF Busy
  <2>. QED  BY <2>1, <2>2, <2>3, <2>4, GoesOn DEF r
<1>4. CASE Reload(p)
  <2>. DEFINE c == Load(config)
              t == [r EXCEPT !.pc = "renewing", !.cfg = c]
  <2>1. r.pc = "renew" /\ UNCHANGED <<config, opened>> /\ Busy(r)
    BY <1>4 DEF Reload, r, Busy
  <2>2. CASE config = Garbled \/ c[r.run.server].secret = Nobody
    <3>1. Becomes(p, EndsAs(r, "failed"))
      BY <1>4, <2>2 DEF Reload, r
    <3>. QED  BY <2>1, <3>1, GivesUp DEF r
  <2>3. CASE ~(config = Garbled \/ c[r.run.server].secret = Nobody)
    <3>1. Becomes(p, t)
      BY <1>4, <2>3 DEF Reload, r
    <3>2. t.alone = r.alone /\ t.pc = "renewing"
      BY DEF Sessions
    <3>3. r.alone => t.start = r.start /\ t.run = r.run /\ t.pc # "write" /\ Knows(t)
      BY <1>0, <2>1, ReloadedKnows
    <3>. HIDE DEF t
    <3>4. Busy(t)
      BY <3>2 DEF Busy
    <3>. QED  BY <2>1, <3>1, <3>2, <3>3, <3>4, GoesOn DEF r
  <2>. QED  BY <2>2, <2>3
<1>5. CASE Renew(p)
  <2>. DEFINE t == [r EXCEPT !.pc = "truncate", !.cfg[r.run.server] = Renewed(@),
                             !.bearer = r.cfg[r.run.server].secret, !.tries = @ + 1,
                             !.next = IF r.tries = 0 THEN "request" ELSE "failed"]
  <2>1. /\ Becomes(p, t) \/ Becomes(p, EndsAs(r, "failed"))
        /\ r.pc = "renewing" /\ UNCHANGED <<config, opened>>
    BY <1>5 DEF Renew, r
  <2>2. t.alone = r.alone /\ Busy(r) /\ t.pc \notin {"idle", "done", "failed"}
    BY <2>1 DEF Sessions, Busy
  <2>3. r.alone => t.start = r.start /\ t.run = r.run /\ t.pc # "write" /\ Knows(t)
    BY <1>0, <2>1, <2>2, RenewedKnows
  <2>. HIDE DEF t
  <2>4. Busy(t)
    BY <2>2 DEF Busy
  <2>. QED  BY <2>1, <2>2, <2>3, <2>4, GoesOn, GivesUp DEF r
<1>6. CASE Login(p)
  <2>. DEFINE c == [r.cfg EXCEPT ![r.run.server].token = r.run.account,
                                 ![r.run.server].org = <<r.run.account, "last">>]
              t == [r EXCEPT !.pc = "request", !.cfg = c, !.held = c, !.bearer = r.run.account]
  <2>1. /\ Becomes(p, t) \/ Becomes(p, EndsAs(r, "failed"))
        /\ r.pc = "login" /\ UNCHANGED <<config, opened>>
    BY <1>6 DEF Login, r
  <2>2. t.alone = r.alone /\ Busy(r) /\ t.pc \notin {"idle", "done", "failed"}
    BY <2>1 DEF Sessions, Busy
  <2>3. r.alone => t.start = r.start /\ t.run = r.run /\ t.pc # "write" /\ Knows(t)
    BY <1>0, <2>1, <2>2, LoginKnows
  <2>. HIDE DEF t
  <2>4. Busy(t)
    BY <2>2 DEF Busy
  <2>. QED  BY <2>1, <2>2, <2>3, <2>4, GoesOn, GivesUp DEF r
<1>7. CASE RemoveConfig(p)
  <2>. DEFINE t == EndsAs(r, "done")
  <2>1. BecomesWriting(p, t) /\ config' = Gone /\ r.run.command = "logout"
    BY <1>7 DEF RemoveConfig, r, Renewing
  <2>2. t.pc = "done"
    BY DEF EndsAs, Idle
  <2>. HIDE DEF t
  <2>3. session'[p] = t /\ \A q \in Processes \ {p} : Undisturbed(q)' /\ Left(q)
    BY <2>1, WritesAlone
  <2>4. Undisturbed(p)' /\ Left(p)
    BY <2>1, <2>2, <2>3 DEF Undisturbed, Left, Busy, r
  <2>. QED  BY <2>3, <2>4
<1>8. CASE StartSave(p)
  <2>. DEFINE t == [r EXCEPT !.pc = "write"]
  <2>1. /\ BecomesWriting(p, t) /\ r.pc = "truncate" /\ Busy(r)
        /\ config' = Torn /\ opened' = opened \union {p}
    BY <1>8 DEF StartSave, Truncate, Busy, r
  <2>2. t.pc = "write" /\ t.alone = r.alone
    BY DEF Sessions
  <2>3. r.alone => Knows(t)
    BY <1>0, <2>1, MovedKnows
  <2>. HIDE DEF t
  <2>4. session'[p] = t /\ \A q \in Processes \ {p} : Undisturbed(q)' /\ Left(q)
    BY <2>1, WritesAlone
  <2>5. Undisturbed(p)' /\ Left(p)
    BY <1>0, <2>1, <2>2, <2>3, <2>4 DEF Undisturbed, Left
  <2>. QED  BY <2>4, <2>5
<1>9. CASE FinishSave(p)
  <2>. DEFINE o == Own(r)
  <2>1. r.pc = "write" /\ Busy(r) /\ Write(p, r.cfg)
    BY <1>9 DEF FinishSave, Busy, r
  <2>2. o \in Servers /\ o = r.run.server /\ r.cfg \in Configs /\ r.start \in Configs
    BY SessionFields DEF Own
  <2>3. ASSUME r.alone
        PROVE  /\ config' = r.cfg /\ opened' = {} /\ config' # Garbled /\ Load(config') = r.cfg
               /\ \A s \in Servers \ {o} : r.cfg[s] = r.start[s]
               /\ IF r.next = "done" THEN Leaves(r, "done", r.cfg[o])
                  ELSE r.cfg[o] = Renewed(r.start[o])
    <3>1. config = Torn /\ opened = {p} /\ Knows(r)
      BY <1>0, <2>1, <2>3
    <3>2. config' = r.cfg /\ opened' = {}
      BY <2>1, <3>1 DEF Write, WrittenBy
    <3>3. config' # Garbled /\ Load(config') = r.cfg
      BY <2>2, <3>2, SessionAssumption DEF Load
    <3>. QED  BY <2>1, <3>1, <3>2, <3>3 DEF Knows
  <2>4. CASE r.next = "request"
    <3>. DEFINE t == [r EXCEPT !.pc = "request"]
    <3>1. BecomesWriting(p, t)
      BY <1>9, <2>4 DEF FinishSave, r
    <3>2. /\ t.pc = "request" /\ t.alone = r.alone /\ t.run = r.run /\ t.start = r.start
          /\ t.cfg = r.cfg /\ t.held = r.held /\ t.tries = r.tries /\ t.bearer = r.bearer
      BY DEF Sessions
    <3>. HIDE DEF t
    <3>3. session'[p] = t /\ \A q \in Processes \ {p} : Undisturbed(q)' /\ Left(q)
      BY <3>1, WritesAlone
    <3>4. Left(p)
      BY <3>2, <3>3 DEF Left
    <3>5. AsBefore(t) = AsBefore(r) /\ Own(t) = o
      BY <3>2 DEF AsBefore, Own
    <3>6. r.alone => r.cfg \in AsBefore(r)
      <4>1. SUFFICES ASSUME r.alone PROVE r.cfg = [r.start EXCEPT ![o] = Renewed(r.start[o])]
        BY DEF AsBefore
      <4>. QED  BY <2>2, <2>3, <2>4, <4>1 DEF Configs
    <3>7. r.alone => Knows(t)
      BY <1>0, <2>1, <3>2, <3>5, <3>6 DEF Knows
    <3>8. Undisturbed(p)'
      BY <2>3, <3>2, <3>3, <3>5, <3>6, <3>7 DEF Undisturbed, Load
    <3>. QED  BY <3>3, <3>4, <3>8
  <2>5. CASE r.next # "request"
    <3>. DEFINE t == EndsAs(r, r.next)
    <3>1. BecomesWriting(p, t) /\ r.next \in {"done", "failed"}
      BY <1>9, <2>5, SessionFields DEF FinishSave, r
    <3>2. t.pc = r.next
      BY <3>1 DEF EndsAs, Idle
    <3>. HIDE DEF t
    <3>3. session'[p] = t /\ \A q \in Processes \ {p} : Undisturbed(q)' /\ Left(q)
      BY <3>1, WritesAlone
    <3>4. r.run.command = "logout" => r.next = "failed"
      BY <2>1, <3>1 DEF Renewing
    <3>5. r.alone => Leaves(r, r.next, r.cfg[o])
      BY <2>3, <3>1, LeavesAsBefore
    <3>6. Left(p)
      BY <2>2, <2>3, <3>2, <3>3, <3>4, <3>5 DEF Left, r
    <3>7. Undisturbed(p)'
      BY <3>1, <3>2, <3>3 DEF Undisturbed, Busy
    <3>. QED  BY <3>3, <3>6, <3>7
  <2>. QED  BY <2>4, <2>5
<1>. QED  BY <1>1, <1>2, <1>3, <1>4, <1>5, <1>6, <1>7, <1>8, <1>9

\* No step of a process, its own or of another, breaks what an undisturbed one relies on.
LEMMA IsolatedNext ==
    ASSUME IsolatedInv, [SessionNext]_sessionVars
    PROVE  IsolatedInv' /\ ([\A p \in Processes : Left(p)]_sessionVars)
<1>1. SessionInv'
  BY SessionStepSound DEF IsolatedInv
<1>2. CASE UNCHANGED sessionVars
  <2>1. \A p \in Processes : Undisturbed(p)'
    BY <1>2 DEF IsolatedInv, Undisturbed, sessionVars, Load
  <2>. QED  BY <1>1, <1>2, <2>1 DEF IsolatedInv
<1>3. CASE SessionNext
  <2>1. \A q \in Processes : Undisturbed(q)' /\ Left(q)
    BY <1>3, IsolatedStep DEF SessionNext
  <2>. QED  BY <1>1, <2>1 DEF IsolatedInv
<1>. QED  BY <1>2, <1>3

(* A command during which nobody else wrote the file leaves in it what its       *)
(* message says, its own entry changed as it was asked to, or as it was, at most *)
(* renewed, and the entries of all other servers as it found them; after a       *)
(* logout no file (login.go, logout.go, org.go, group.go, httpclient.go).        *)
THEOREM LeavesAsAsked == SessionSpec => Isolated
<1>1. SessionInit => IsolatedInv
  BY IsolatedInit
<1>2. IsolatedInv /\ [SessionNext]_sessionVars => IsolatedInv'
  BY IsolatedNext
<1>3. IsolatedInv /\ [SessionNext]_sessionVars => [\A p \in Processes : Left(p)]_sessionVars
  BY IsolatedNext
<1>. QED  BY <1>1, <1>2, <1>3, PTL DEF SessionSpec, Isolated, Left

-----------------------------------------------------------------------------
(* The executable.                                                         *)

UpgradeTypeOK ==
    /\ upgrade \in [Upgrades -> [at : {"idle", "look", "open", "copy", "check", "move", "chmod",
                                       "done", "failed", "halfway"},
                                 version : Versions, file : Upgrades]]
    /\ node \in [Upgrades \union {Shipped} -> [whole : BOOLEAN, runs : BOOLEAN,
                                               opener : Upgrades \union {Shipped}]]
    /\ temporary \in [Versions -> Upgrades \union {NoOne}]
    /\ installed \in Upgrades \union {Shipped}
    /\ clash \in BOOLEAN

\* Two runs that are under way are to different versions.
NamesApart ==
    \A u, w \in Upgrades : Under(u) /\ Under(w) /\ Path(u) = Path(w) => u = w

\* At the path of a version is what the run to it creates, or one left that failed.
Temporary ==
    \A v \in Versions : temporary[v] # NoOne =>
        /\ Path(temporary[v]) = v
        /\ upgrade[temporary[v]].at \in {"copy", "check", "move", "failed"}

\* How far a run has brought its file.
Writing ==
    \A u \in Upgrades :
        /\ upgrade[u].at = "open" => temporary[Path(u)] = NoOne
        /\ upgrade[u].at \in {"copy", "check", "move"} =>
              temporary[Path(u)] = u /\ upgrade[u].file = u
        /\ upgrade[u].at = "move" => node[u].whole

\* The executable.
Installed ==
    /\ node[installed].whole
    /\ installed # Shipped => upgrade[installed].at \in {"chmod", "done", "halfway"}
    /\ \A u \in Upgrades :
          upgrade[u].at \in {"chmod", "halfway"} \/ (upgrade[u].at = "done" /\ Path(u) # Current) =>
              installed # Shipped
    /\ (\A u \in Upgrades : upgrade[u].at \notin {"chmod", "halfway"}) => node[installed].runs

UpgradeSound == UpgradeTypeOK /\ (~clash => NamesApart /\ Temporary /\ Writing /\ Installed)

\* The fields of a run and of a file.
LEMMA UpgradeFields ==
    ASSUME UpgradeTypeOK, NEW u \in Upgrades
    PROVE  /\ upgrade[u].at \in {"idle", "look", "open", "copy", "check", "move", "chmod",
                                 "done", "failed", "halfway"}
           /\ Path(u) \in Versions /\ upgrade[u].file \in Upgrades
           /\ temporary[Path(u)] \in Upgrades \union {NoOne}
           /\ node[u].whole \in BOOLEAN /\ u # Shipped /\ u # NoOne
BY UpgradeAssumption DEF UpgradeTypeOK, Path

\* A run goes to another place.
LEMMA StepsTo ==
    ASSUME UpgradeTypeOK, NEW u \in Upgrades,
           NEW at \in {"idle", "look", "open", "copy", "check", "move", "chmod",
                       "done", "failed", "halfway"},
           Steps(u, at)
    PROVE  /\ upgrade' \in [Upgrades -> [at : {"idle", "look", "open", "copy", "check", "move",
                                               "chmod", "done", "failed", "halfway"},
                                         version : Versions, file : Upgrades]]
           /\ upgrade'[u].at = at
           /\ \A w \in Upgrades \ {u} : upgrade'[w] = upgrade[w]
           /\ \A w \in Upgrades : Path(w)' = Path(w) /\ upgrade'[w].file = upgrade[w].file
BY DEF UpgradeTypeOK, Steps, Path

\* Who runs at once, when no run begins.
LEMMA StillNamesApart ==
    ASSUME NamesApart, \A w \in Upgrades : Path(w)' = Path(w) /\ (Under(w)' => Under(w))
    PROVE  NamesApart'
BY DEF NamesApart

\* Nothing at the paths has changed, nor where the one is whose file is there.
LEMMA StillTemporary ==
    ASSUME UpgradeTypeOK, Temporary, temporary' = temporary,
           \A w \in Upgrades : Path(w)' = Path(w),
           \A w \in Upgrades : upgrade[w].at \in {"copy", "check", "move", "failed"} =>
                                  upgrade'[w].at \in {"copy", "check", "move", "failed"}
    PROVE  Temporary'
<1>. SUFFICES ASSUME NEW v \in Versions, temporary[v] # NoOne
              PROVE  /\ Path(temporary[v])' = v
                     /\ upgrade'[temporary[v]].at \in {"copy", "check", "move", "failed"}
  BY DEF Temporary, Path
<1>1. temporary[v] \in Upgrades
  BY DEF UpgradeTypeOK
<1>. QED  BY <1>1 DEF Temporary, Path

\* A run that has not come to the executable yet leaves it.
LEMMA StillInstalled ==
    ASSUME UpgradeTypeOK, Installed, NEW u \in Upgrades,
           \A w \in Upgrades \ {u} : upgrade'[w] = upgrade[w],
           \A w \in Upgrades : Path(w)' = Path(w),
           upgrade[u].at \notin {"chmod", "halfway", "done"},
           upgrade'[u].at \notin {"chmod", "halfway", "done"},
           installed' = installed,
           installed # u => node'[installed] = node[installed]
    PROVE  Installed' /\ installed # u
<1>1. installed # u
  BY UpgradeAssumption DEF Installed
<1>2. node'[installed'] = node[installed]
  BY <1>1
<1>3. installed # Shipped => upgrade'[installed].at \in {"chmod", "done", "halfway"}
  BY <1>1 DEF Installed, UpgradeTypeOK
<1>4. ASSUME NEW w \in Upgrades,
             upgrade'[w].at \in {"chmod", "halfway"}
             \/ (upgrade'[w].at = "done" /\ Path(w)' # Current)
      PROVE  installed # Shipped
  <2>1. w # u
    BY <1>4
  <2>. QED  BY <1>4, <2>1 DEF Installed
<1>5. (\A w \in Upgrades : upgrade'[w].at \notin {"chmod", "halfway"}) =>
         (\A w \in Upgrades : upgrade[w].at \notin {"chmod", "halfway"})
  <2>. SUFFICES ASSUME NEW w \in Upgrades, upgrade'[w].at \notin {"chmod", "halfway"}
                PROVE  upgrade[w].at \notin {"chmod", "halfway"}
    OBVIOUS
  <2>. QED  BY DEF UpgradeTypeOK
<1>. QED  BY <1>1, <1>2, <1>3, <1>4, <1>5 DEF Installed

UpgradeHolds == NamesApart /\ Temporary /\ Writing /\ Installed

\* Every step of a run.
LEMMA UpgradeStep ==
    ASSUME UpgradeSound, NEW u \in Upgrades,
           \/ AskVersion(u) \/ RemoveOld(u) \/ CreateTemporary(u) \/ CopyDownload(u) \/ CheckSum(u)
           \/ MoveOver(u) \/ MakeExecutable(u) \/ StopUpgrade(u)
    PROVE  UpgradeSound'
<1>. UpgradeTypeOK /\ (~clash => UpgradeHolds)
  BY DEF UpgradeSound, UpgradeHolds
<1>a. /\ upgrade[u].at \in {"idle", "look", "open", "copy", "check", "move", "chmod",
                             "done", "failed", "halfway"}
      /\ Path(u) \in Versions /\ upgrade[u].file \in Upgrades
      /\ temporary[Path(u)] \in Upgrades \union {NoOne}
      /\ node[u].whole \in BOOLEAN /\ u # Shipped /\ u # NoOne
  BY UpgradeFields
<1>. SUFFICES UpgradeTypeOK' /\ (~clash' => UpgradeHolds')
  BY DEF UpgradeSound, UpgradeHolds
<1>1. CASE AskVersion(u)
  <2>1. PICK v \in Versions :
           /\ upgrade' = [upgrade EXCEPT ![u] = [at |-> IF v = Current THEN "done" ELSE "look",
                                                version |-> v, file |-> u]]
           /\ clash' = (clash \/ \E w \in Upgrades \ {u} : Under(w) /\ Path(w) = v)
    BY <1>1 DEF AskVersion
  <2>2. upgrade[u].at = "idle" /\ UNCHANGED <<node, temporary, installed>>
    BY <1>1 DEF AskVersion, FilesSame
  <2>3. UpgradeTypeOK'
    BY <2>1, <2>2 DEF UpgradeTypeOK
  <2>4. /\ upgrade'[u].at = IF v = Current THEN "done" ELSE "look"
        /\ Path(u)' = v
        /\ \A w \in Upgrades \ {u} : upgrade'[w] = upgrade[w] /\ Path(w)' = Path(w)
    BY <2>1 DEF UpgradeTypeOK, Path
  <2>5. ASSUME ~clash' PROVE UpgradeHolds'
    <3>1. UpgradeHolds /\ \A w \in Upgrades \ {u} : Under(w) => Path(w) # v
      BY <2>1, <2>5
    <3>2. NamesApart'
      BY <2>4, <3>1 DEF NamesApart, UpgradeHolds, Under
    <3>3. Temporary'
      BY <2>2, <2>4, <3>1 DEF Temporary, UpgradeHolds, UpgradeTypeOK
    <3>4. Writing'
      <4>. SUFFICES ASSUME NEW w \in Upgrades
                    PROVE  /\ upgrade'[w].at = "open" => temporary'[Path(w)'] = NoOne
                           /\ upgrade'[w].at \in {"copy", "check", "move"} =>
                                 temporary'[Path(w)'] = w /\ upgrade'[w].file = w
                           /\ upgrade'[w].at = "move" => node'[w].whole
        BY DEF Writing, Path
      <4>1. CASE w = u
        BY <2>4, <4>1
      <4>2. CASE w # u
        BY <2>2, <2>4, <3>1, <4>2 DEF Writing, UpgradeHolds
      <4>. QED  BY <4>1, <4>2
    <3>5. Installed'
      <4>1. installed # u
        BY <2>2, <3>1, <1>a DEF Installed, UpgradeHolds
      <4>2. installed # Shipped => upgrade'[installed].at \in {"chmod", "done", "halfway"}
        BY <2>4, <3>1, <4>1 DEF Installed, UpgradeHolds, UpgradeTypeOK
      <4>3. ASSUME NEW w \in Upgrades,
                   upgrade'[w].at \in {"chmod", "halfway"}
                   \/ (upgrade'[w].at = "done" /\ Path(w)' # Current)
            PROVE  installed # Shipped
        BY <2>4, <3>1, <4>3 DEF Installed, UpgradeHolds
      <4>4. (\A w \in Upgrades : upgrade'[w].at \notin {"chmod", "halfway"}) =>
               (\A w \in Upgrades : upgrade[w].at \notin {"chmod", "halfway"})
        BY <2>2, <2>4
      <4>. QED  BY <2>2, <3>1, <4>2, <4>3, <4>4 DEF Installed, UpgradeHolds
    <3>. QED  BY <3>2, <3>3, <3>4, <3>5 DEF UpgradeHolds
  <2>. QED  BY <2>3, <2>5
<1>2. CASE RemoveOld(u)
  <2>1. /\ upgrade[u].at = "look" /\ Steps(u, "open") /\ UNCHANGED <<node, installed, clash>>
        /\ temporary' = [temporary EXCEPT ![Path(u)] = NoOne]
    BY <1>2 DEF RemoveOld
  <2>. DEFINE Same(w) == upgrade'[w] = upgrade[w]
  <2>2. /\ upgrade'[u].at = "open" /\ UpgradeTypeOK'
        /\ \A w \in Upgrades \ {u} : upgrade'[w] = upgrade[w]
        /\ \A w \in Upgrades : Path(w)' = Path(w) /\ upgrade'[w].file = upgrade[w].file
    BY <2>1, <1>a, StepsTo DEF UpgradeTypeOK
  <2>3. /\ temporary'[Path(u)] = NoOne
        /\ \A v \in Versions \ {Path(u)} : temporary'[v] = temporary[v]
    BY <2>1, <1>a DEF UpgradeTypeOK
  <2>4. ASSUME ~clash PROVE UpgradeHolds'
    <3>1. UpgradeHolds
      BY <2>4
    <3>2. NamesApart'
      BY <2>1, <2>2, <3>1, StillNamesApart DEF UpgradeHolds, Under
    <3>3. Temporary'
      <4>. SUFFICES ASSUME NEW v \in Versions, temporary'[v] # NoOne
                    PROVE  /\ Path(temporary[v])' = v
                           /\ upgrade'[temporary'[v]].at \in {"copy", "check", "move", "failed"}
        BY DEF Temporary
      <4>1. PICK w : w = temporary[v]
        OBVIOUS
      <4>2. v # Path(u) /\ temporary'[v] = w /\ w # NoOne
        BY <2>3, <4>1
      <4>3. w \in Upgrades
        BY <1>a, <4>1, <4>2 DEF UpgradeTypeOK
      <4>4. Path(w) = v /\ upgrade[w].at \in {"copy", "check", "move", "failed"}
        BY <3>1, <4>1, <4>2 DEF Temporary, UpgradeHolds
      <4>5. w # u
        BY <2>1, <4>4
      <4>6. upgrade'[w] = upgrade[w] /\ Path(w)' = Path(w)
        BY <2>2, <4>3, <4>5
      <4>. QED  BY <4>2, <4>4, <4>6 DEF Path
    <3>4. Writing'
      <4>. SUFFICES ASSUME NEW w \in Upgrades
                    PROVE  /\ upgrade'[w].at = "open" => temporary'[Path(w)'] = NoOne
                           /\ upgrade'[w].at \in {"copy", "check", "move"} =>
                                 temporary'[Path(w)'] = w /\ upgrade'[w].file = w
                           /\ upgrade'[w].at = "move" => node'[w].whole
        BY DEF Writing, Path
      <4>1. CASE w = u
        BY <2>2, <2>3, <4>1
      <4>2. CASE w # u
        <5>1. Under(w) => Path(w) # Path(u)
          BY <2>1, <3>1, <4>2 DEF NamesApart, UpgradeHolds, Under
        <5>2. upgrade[w].at \in {"open", "copy", "check", "move"} => Path(w) # Path(u)
          BY <5>1 DEF Under
        <5>3. Path(w) \in Versions
          BY UpgradeFields
        <5>. QED  BY <2>1, <2>2, <2>3, <3>1, <4>2, <5>2, <5>3 DEF Writing, UpgradeHolds
      <4>. QED  BY <4>1, <4>2
    <3>5. Installed'
      BY <2>1, <2>2, <3>1, StillInstalled DEF UpgradeHolds
    <3>. QED  BY <3>2, <3>3, <3>4, <3>5 DEF UpgradeHolds
  <2>. QED  BY <2>1, <2>2, <2>4
<1>3. CASE CreateTemporary(u)
  <2>. DEFINE f == IF temporary[Path(u)] = NoOne THEN u ELSE temporary[Path(u)]
  <2>1. /\ upgrade[u].at = "open" /\ UNCHANGED <<installed, clash>>
        /\ temporary' = [temporary EXCEPT ![Path(u)] = f]
        /\ node' = [node EXCEPT ![f] = [@ EXCEPT !.whole = FALSE, !.opener = u]]
        /\ upgrade' = [upgrade EXCEPT ![u].at = "copy", ![u].file = f]
    BY <1>3 DEF CreateTemporary
  <2>2. f \in Upgrades /\ f # NoOne /\ f # Shipped
    BY <1>a, UpgradeAssumption
  <2>. HIDE DEF f
  <2>3. /\ upgrade' \in [Upgrades -> [at : {"idle", "look", "open", "copy", "check", "move",
                                            "chmod", "done", "failed", "halfway"},
                                      version : Versions, file : Upgrades]]
        /\ upgrade'[u].at = "copy" /\ upgrade'[u].file = f
        /\ \A w \in Upgrades \ {u} : upgrade'[w] = upgrade[w]
        /\ \A w \in Upgrades : Path(w)' = Path(w)
    BY <2>1, <2>2 DEF UpgradeTypeOK, Path
  <2>4. /\ node' \in [Upgrades \union {Shipped} -> [whole : BOOLEAN, runs : BOOLEAN,
                                                    opener : Upgrades \union {Shipped}]]
        /\ \A g \in (Upgrades \union {Shipped}) \ {f} : node'[g] = node[g]
    BY <2>1, <2>2 DEF UpgradeTypeOK
  <2>5. /\ temporary' \in [Versions -> Upgrades \union {NoOne}]
        /\ temporary'[Path(u)] = f
        /\ \A v \in Versions \ {Path(u)} : temporary'[v] = temporary[v]
    BY <2>1, <2>2, <1>a DEF UpgradeTypeOK
  <2>6. UpgradeTypeOK'
    BY <2>1, <2>3, <2>4, <2>5 DEF UpgradeTypeOK
  <2>7. ASSUME ~clash PROVE UpgradeHolds'
    <3>1. UpgradeHolds
      BY <2>7
    <3>2. f = u
      BY <2>1, <3>1 DEF Writing, UpgradeHolds, f
    <3>3. NamesApart'
      BY <2>1, <2>3, <3>1, StillNamesApart DEF UpgradeHolds, Under
    <3>4. Temporary'
      BY <2>1, <2>3, <2>5, <3>1, <3>2 DEF Temporary, UpgradeHolds, UpgradeTypeOK, Path
    <3>5. Installed'
      BY <2>1, <2>3, <2>4, <3>1, <3>2, StillInstalled DEF UpgradeHolds, UpgradeTypeOK
    <3>6. Writing'
      <4>. SUFFICES ASSUME NEW w \in Upgrades
                    PROVE  /\ upgrade'[w].at = "open" => temporary'[Path(w)'] = NoOne
                           /\ upgrade'[w].at \in {"copy", "check", "move"} =>
                                 temporary'[Path(w)'] = w /\ upgrade'[w].file = w
                           /\ upgrade'[w].at = "move" => node'[w].whole
        BY DEF Writing, Path
      <4>1. CASE w = u
        BY <2>3, <2>5, <3>2, <4>1
      <4>2. CASE w # u
        <5>1. Under(w) => Path(w) # Path(u)
          BY <2>1, <3>1, <4>2 DEF NamesApart, UpgradeHolds, Under
        <5>2. upgrade[w].at \in {"open", "copy", "check", "move"} => Path(w) # Path(u)
          BY <5>1 DEF Under
        <5>3. Path(w) \in Versions
          BY UpgradeFields
        <5>. QED  BY <2>1, <2>3, <2>4, <2>5, <3>1, <3>2, <4>2, <5>2, <5>3 DEF Writing, UpgradeHolds
      <4>. QED  BY <4>1, <4>2
    <3>. QED  BY <3>3, <3>4, <3>5, <3>6 DEF UpgradeHolds
  <2>. QED  BY <2>1, <2>6, <2>7
<1>4. CASE CopyDownload(u)
  <2>. DEFINE f == upgrade[u].file
  <2>1. PICK sound \in BOOLEAN :
           node' = [node EXCEPT ![f].whole = @ \/ (sound /\ node[f].opener = u)]
    BY <1>4 DEF CopyDownload
  <2>2. /\ upgrade[u].at = "copy" /\ Steps(u, "check") /\ UNCHANGED <<temporary, installed, clash>>
    BY <1>4 DEF CopyDownload
  <2>3. f \in Upgrades
    BY <1>a
  <2>. HIDE DEF f
  <2>. DEFINE b == node[f].whole \/ (sound /\ node[f].opener = u)
  <2>4. b \in BOOLEAN /\ node' = [node EXCEPT ![f].whole = b] /\ (node[f].whole => b)
    BY <2>1, <2>3 DEF UpgradeTypeOK
  <2>. HIDE DEF b
  <2>5. /\ node' \in [Upgrades \union {Shipped} -> [whole : BOOLEAN, runs : BOOLEAN,
                                                    opener : Upgrades \union {Shipped}]]
        /\ \A g \in (Upgrades \union {Shipped}) \ {f} : node'[g] = node[g]
    BY <2>3, <2>4 DEF UpgradeTypeOK
  <2>6. /\ upgrade'[u].at = "check" /\ UpgradeTypeOK'
        /\ \A w \in Upgrades \ {u} : upgrade'[w] = upgrade[w]
        /\ \A w \in Upgrades : Path(w)' = Path(w) /\ upgrade'[w].file = upgrade[w].file
    BY <2>2, <2>5, StepsTo DEF UpgradeTypeOK
  <2>7. ASSUME ~clash PROVE UpgradeHolds'
    <3>1. UpgradeHolds
      BY <2>7
    <3>2. f = u
      BY <2>2, <3>1 DEF Writing, UpgradeHolds, f
    <3>3. NamesApart'
      BY <2>2, <2>6, <3>1, StillNamesApart DEF UpgradeHolds, Under
    <3>4. Temporary'
      BY <2>2, <2>6, <3>1, StillTemporary DEF UpgradeHolds
    <3>5. Installed'
      BY <2>2, <2>5, <2>6, <3>1, <3>2, StillInstalled DEF UpgradeHolds, UpgradeTypeOK
    <3>6. Writing'
      <4>. SUFFICES ASSUME NEW w \in Upgrades
                    PROVE  /\ upgrade'[w].at = "open" => temporary'[Path(w)'] = NoOne
                           /\ upgrade'[w].at \in {"copy", "check", "move"} =>
                                 temporary'[Path(w)'] = w /\ upgrade'[w].file = w
                           /\ upgrade'[w].at = "move" => node'[w].whole
        BY DEF Writing, Path
      <4>1. CASE w = u
        BY <2>2, <2>6, <3>1, <4>1 DEF Writing, UpgradeHolds
      <4>2. CASE w # u
        BY <2>2, <2>5, <2>6, <3>1, <3>2, <4>2 DEF Writing, UpgradeHolds
      <4>. QED  BY <4>1, <4>2
    <3>. QED  BY <3>3, <3>4, <3>5, <3>6 DEF UpgradeHolds
  <2>. QED  BY <2>2, <2>6, <2>7
<1>5. CASE CheckSum(u)
  <2>. DEFINE at == IF temporary[Path(u)] # NoOne /\ node[temporary[Path(u)]].whole THEN "move" ELSE "failed"
  <2>1. /\ upgrade[u].at = "check" /\ Steps(u, at) /\ UNCHANGED <<node, temporary, installed, clash>>
    BY <1>5 DEF CheckSum, FilesSame
  <2>2. at \in {"move", "failed"} /\ (at = "move" => node[temporary[Path(u)]].whole)
    OBVIOUS
  <2>. HIDE DEF at
  <2>3. /\ upgrade'[u].at = at /\ UpgradeTypeOK'
        /\ \A w \in Upgrades \ {u} : upgrade'[w] = upgrade[w]
        /\ \A w \in Upgrades : Path(w)' = Path(w) /\ upgrade'[w].file = upgrade[w].file
    BY <2>1, <2>2, StepsTo DEF UpgradeTypeOK
  <2>4. ASSUME ~clash PROVE UpgradeHolds'
    <3>1. UpgradeHolds
      BY <2>4
    <3>2. NamesApart'
      BY <2>1, <2>2, <2>3, <3>1, StillNamesApart DEF UpgradeHolds, Under
    <3>3. Temporary'
      BY <2>1, <2>2, <2>3, <3>1, StillTemporary DEF UpgradeHolds
    <3>4. Installed'
      BY <2>1, <2>2, <2>3, <3>1, StillInstalled DEF UpgradeHolds
    <3>5. Writing'
      <4>. SUFFICES ASSUME NEW w \in Upgrades
                    PROVE  /\ upgrade'[w].at = "open" => temporary'[Path(w)'] = NoOne
                           /\ upgrade'[w].at \in {"copy", "check", "move"} =>
                                 temporary'[Path(w)'] = w /\ upgrade'[w].file = w
                           /\ upgrade'[w].at = "move" => node'[w].whole
        BY DEF Writing, Path
      <4>1. CASE w = u
        BY <2>1, <2>2, <2>3, <3>1, <4>1 DEF Writing, UpgradeHolds
      <4>2. CASE w # u
        BY <2>1, <2>3, <3>1, <4>2 DEF Writing, UpgradeHolds
      <4>. QED  BY <4>1, <4>2
    <3>. QED  BY <3>2, <3>3, <3>4, <3>5 DEF UpgradeHolds
  <2>. QED  BY <2>1, <2>3, <2>4
<1>6. CASE MoveOver(u)
  <2>1. upgrade[u].at = "move" /\ UNCHANGED <<node, clash>>
    BY <1>6 DEF MoveOver
  <2>2. CASE temporary[Path(u)] = NoOne
    <3>1. Steps(u, "failed") /\ UNCHANGED <<temporary, installed>>
      BY <1>6, <2>2 DEF MoveOver
    <3>2. /\ upgrade'[u].at = "failed" /\ UpgradeTypeOK'
          /\ \A w \in Upgrades \ {u} : upgrade'[w] = upgrade[w]
          /\ \A w \in Upgrades : Path(w)' = Path(w) /\ upgrade'[w].file = upgrade[w].file
      BY <2>1, <3>1, StepsTo DEF UpgradeTypeOK
    <3>3. clash
      BY <2>1, <2>2, <1>a DEF UpgradeHolds, Writing
    <3>. QED  BY <2>1, <3>2, <3>3
  <2>3. CASE temporary[Path(u)] # NoOne
    <3>. DEFINE f == temporary[Path(u)]
    <3>1. /\ Steps(u, "chmod") /\ installed' = f
          /\ temporary' = [temporary EXCEPT ![Path(u)] = NoOne]
      BY <1>6, <2>3 DEF MoveOver
    <3>2. f \in Upgrades
      BY <1>a, <2>3
    <3>3. /\ upgrade'[u].at = "chmod" /\ UpgradeTypeOK'
          /\ \A w \in Upgrades \ {u} : upgrade'[w] = upgrade[w]
          /\ \A w \in Upgrades : Path(w)' = Path(w) /\ upgrade'[w].file = upgrade[w].file
      BY <2>1, <3>1, <3>2, <1>a, StepsTo DEF UpgradeTypeOK
    <3>4. /\ temporary'[Path(u)] = NoOne
          /\ \A v \in Versions \ {Path(u)} : temporary'[v] = temporary[v]
      BY <3>1, <1>a DEF UpgradeTypeOK
    <3>5. ASSUME ~clash PROVE UpgradeHolds'
      <4>1. UpgradeHolds
        BY <3>5
      <4>2. f = u /\ node[u].whole
        BY <2>1, <4>1 DEF Writing, UpgradeHolds
      <4>3. NamesApart'
        BY <2>1, <3>3, <4>1, StillNamesApart DEF UpgradeHolds, Under
      <4>4. Temporary'
        <5>. SUFFICES ASSUME NEW v \in Versions, temporary'[v] # NoOne
                      PROVE  /\ upgrade'[temporary'[v]].version = v
                             /\ upgrade'[temporary'[v]].at \in {"copy", "check", "move", "failed"}
          BY DEF Temporary, Path
        <5>1. v # Path(u) /\ temporary'[v] = temporary[v] /\ temporary[v] \in Upgrades
          BY <3>4 DEF UpgradeTypeOK
        <5>2. /\ Path(temporary[v]) = v
              /\ upgrade[temporary[v]].at \in {"copy", "check", "move", "failed"}
          BY <4>1, <5>1 DEF Temporary, UpgradeHolds
        <5>3. temporary[v] # u
          BY <5>1, <5>2
        <5>4. upgrade'[temporary[v]] = upgrade[temporary[v]]
          BY <3>3, <5>1, <5>3
        <5>. QED  BY <5>1, <5>2, <5>4 DEF Path
      <4>5. Writing'
        <5>. SUFFICES ASSUME NEW w \in Upgrades
                      PROVE  /\ upgrade'[w].at = "open" => temporary'[Path(w)'] = NoOne
                             /\ upgrade'[w].at \in {"copy", "check", "move"} =>
                                   temporary'[Path(w)'] = w /\ upgrade'[w].file = w
                             /\ upgrade'[w].at = "move" => node'[w].whole
          BY DEF Writing, Path
        <5>1. CASE w = u
          BY <3>3, <5>1
        <5>2. CASE w # u
          <6>1. Under(w) => Path(w) # Path(u)
            BY <2>1, <4>1, <5>2 DEF NamesApart, UpgradeHolds, Under
          <6>2. upgrade[w].at \in {"open", "copy", "check", "move"} => Path(w) # Path(u)
            BY <6>1 DEF Under
          <6>3. Path(w) \in Versions
            BY UpgradeFields
          <6>. QED  BY <2>1, <3>3, <3>4, <4>1, <5>2, <6>2, <6>3 DEF Writing, UpgradeHolds
        <5>. QED  BY <5>1, <5>2
      <4>6. Installed'
        BY <2>1, <3>1, <3>3, <4>2, <1>a DEF Installed, Path
      <4>. QED  BY <4>3, <4>4, <4>5, <4>6 DEF UpgradeHolds
    <3>. QED  BY <2>1, <3>3, <3>5
  <2>. QED  BY <2>2, <2>3
<1>7. CASE MakeExecutable(u)
  <2>1. /\ upgrade[u].at = "chmod" /\ Steps(u, "done") /\ UNCHANGED <<temporary, installed, clash>>
        /\ node' = [node EXCEPT ![installed].runs = TRUE]
    BY <1>7 DEF MakeExecutable
  <2>2. /\ node' \in [Upgrades \union {Shipped} -> [whole : BOOLEAN, runs : BOOLEAN,
                                                    opener : Upgrades \union {Shipped}]]
        /\ \A g \in Upgrades \union {Shipped} : node'[g].whole = node[g].whole
        /\ node'[installed].runs
    <3>. DEFINE n == [node[installed] EXCEPT !.runs = TRUE]
    <3>1. node' = [node EXCEPT ![installed] = n] /\ installed \in Upgrades \union {Shipped}
      BY <2>1 DEF UpgradeTypeOK
    <3>2. /\ n \in [whole : BOOLEAN, runs : BOOLEAN, opener : Upgrades \union {Shipped}]
          /\ n.whole = node[installed].whole /\ n.runs
      <4>1. node[installed] \in [whole : BOOLEAN, runs : BOOLEAN, opener : Upgrades \union {Shipped}]
        BY <3>1 DEF UpgradeTypeOK
      <4>2. n \in [whole : BOOLEAN, runs : BOOLEAN, opener : Upgrades \union {Shipped}]
        BY <4>1
      <4>3. n.whole = node[installed].whole
        BY <4>1
      <4>4. n.runs
        BY <4>1
      <4>. QED  BY <4>2, <4>3, <4>4
    <3>. HIDE DEF n
    <3>. QED  BY <3>1, <3>2 DEF UpgradeTypeOK
  <2>3. /\ upgrade'[u].at = "done" /\ UpgradeTypeOK'
        /\ \A w \in Upgrades \ {u} : upgrade'[w] = upgrade[w]
        /\ \A w \in Upgrades : Path(w)' = Path(w) /\ upgrade'[w].file = upgrade[w].file
    BY <2>1, <2>2, StepsTo DEF UpgradeTypeOK
  <2>4. ASSUME ~clash PROVE UpgradeHolds'
    <3>1. UpgradeHolds
      BY <2>4
    <3>2. NamesApart'
      BY <2>1, <2>3, <3>1, StillNamesApart DEF UpgradeHolds, Under
    <3>3. Temporary'
      BY <2>1, <2>3, <3>1, StillTemporary DEF UpgradeHolds
    <3>4. Writing'
      <4>. SUFFICES ASSUME NEW w \in Upgrades
                    PROVE  /\ upgrade'[w].at = "open" => temporary'[Path(w)'] = NoOne
                           /\ upgrade'[w].at \in {"copy", "check", "move"} =>
                                 temporary'[Path(w)'] = w /\ upgrade'[w].file = w
                           /\ upgrade'[w].at = "move" => node'[w].whole
        BY DEF Writing, Path
      <4>1. CASE w = u
        BY <2>3, <4>1
      <4>2. CASE w # u
        BY <2>1, <2>2, <2>3, <3>1, <4>2 DEF Writing, UpgradeHolds
      <4>. QED  BY <4>1, <4>2
    <3>5. Installed'
      <4>1. installed' \in Upgrades \union {Shipped} /\ node'[installed'].whole
        BY <2>1, <2>2, <3>1 DEF Installed, UpgradeHolds, UpgradeTypeOK
      <4>2. installed # Shipped
        BY <2>1, <3>1 DEF Installed, UpgradeHolds
      <4>3. upgrade'[installed].at \in {"chmod", "done", "halfway"}
        BY <2>3, <3>1, <4>2 DEF Installed, UpgradeHolds, UpgradeTypeOK
      <4>. QED  BY <2>1, <2>2, <4>1, <4>2, <4>3 DEF Installed
    <3>. QED  BY <3>2, <3>3, <3>4, <3>5 DEF UpgradeHolds
  <2>. QED  BY <2>1, <2>3, <2>4
<1>8. CASE StopUpgrade(u)
  <2>. DEFINE at == IF upgrade[u].at = "chmod" THEN "halfway" ELSE "failed"
  <2>1. /\ Under(u) /\ Steps(u, at) /\ UNCHANGED <<node, temporary, installed, clash>>
    BY <1>8 DEF StopUpgrade, FilesSame
  <2>2. /\ at \in {"halfway", "failed"} /\ (at = "halfway" <=> upgrade[u].at = "chmod")
        /\ upgrade[u].at \notin {"idle", "done", "failed", "halfway"}
    BY <2>1 DEF Under
  <2>. HIDE DEF at
  <2>3. /\ upgrade'[u].at = at /\ UpgradeTypeOK'
        /\ \A w \in Upgrades \ {u} : upgrade'[w] = upgrade[w]
        /\ \A w \in Upgrades : Path(w)' = Path(w) /\ upgrade'[w].file = upgrade[w].file
    BY <2>1, <2>2, StepsTo DEF UpgradeTypeOK
  <2>4. ASSUME ~clash PROVE UpgradeHolds'
    <3>1. UpgradeHolds
      BY <2>4
    <3>2. NamesApart'
      BY <2>1, <2>2, <2>3, <3>1, StillNamesApart DEF UpgradeHolds, Under
    <3>3. Temporary'
      BY <2>1, <2>2, <2>3, <3>1, StillTemporary DEF UpgradeHolds
    <3>4. Writing'
      <4>. SUFFICES ASSUME NEW w \in Upgrades
                    PROVE  /\ upgrade'[w].at = "open" => temporary'[Path(w)'] = NoOne
                           /\ upgrade'[w].at \in {"copy", "check", "move"} =>
                                 temporary'[Path(w)'] = w /\ upgrade'[w].file = w
                           /\ upgrade'[w].at = "move" => node'[w].whole
        BY DEF Writing, Path
      <4>1. CASE w = u
        BY <2>2, <2>3, <4>1
      <4>2. CASE w # u
        BY <2>1, <2>3, <3>1, <4>2 DEF Writing, UpgradeHolds
      <4>. QED  BY <4>1, <4>2
    <3>5. CASE upgrade[u].at = "chmod"
      <4>1. installed # Shipped /\ node[installed].whole
        BY <3>1, <3>5 DEF Installed, UpgradeHolds
      <4>2. upgrade'[installed].at \in {"chmod", "done", "halfway"}
        BY <2>2, <2>3, <3>1, <3>5, <4>1 DEF Installed, UpgradeHolds, UpgradeTypeOK
      <4>3. Installed'
        BY <2>1, <2>2, <2>3, <3>5, <4>1, <4>2 DEF Installed
      <4>. QED  BY <3>2, <3>3, <3>4, <4>3 DEF UpgradeHolds
    <3>6. CASE upgrade[u].at # "chmod"
      <4>1. Installed'
        BY <2>1, <2>2, <2>3, <3>1, <3>6, StillInstalled DEF UpgradeHolds
      <4>. QED  BY <3>2, <3>3, <3>4, <4>1 DEF UpgradeHolds
    <3>. QED  BY <3>5, <3>6
  <2>. QED  BY <2>1, <2>3, <2>4
<1>. QED  BY <1>1, <1>2, <1>3, <1>4, <1>5, <1>6, <1>7, <1>8

\* Before the first upgrade the executable is the one that was shipped.
LEMMA UpgradeBegins ==
    ASSUME UpgradeInit
    PROVE  UpgradeSound
<1>1. UpgradeTypeOK
  BY UpgradeAssumption DEF UpgradeInit, UpgradeTypeOK
<1>2. NamesApart /\ Temporary /\ Writing
  BY UpgradeAssumption DEF UpgradeInit, NamesApart, Temporary, Writing, Under, Path
<1>3. Installed
  BY UpgradeAssumption DEF UpgradeInit, Installed
<1>. QED  BY <1>1, <1>2, <1>3 DEF UpgradeSound

\* Every step of every upgrade keeps it.
LEMMA UpgradeKept ==
    ASSUME UpgradeSound, [UpgradeNext]_upgradeVars
    PROVE  UpgradeSound'
<1>1. CASE UNCHANGED upgradeVars
  BY <1>1 DEF upgradeVars, UpgradeSound, UpgradeTypeOK, NamesApart, Temporary, Writing, Installed, Under, Path
<1>. QED  BY <1>1, UpgradeStep DEF UpgradeNext

(* While no two upgrades to one version run at the same time, the executable is  *)
(* always the one there was or one that has passed the check; it may be executed *)
(* but between the rename and the mode; and an upgrade that is done is installed *)
(* (Download, Check, Replace), for any number of runs and versions.              *)
THEOREM ExecutableKept == UpgradeSpec => []ExecutableIsWhole
<1>1. UpgradeInit => UpgradeSound
  BY UpgradeBegins
<1>2. UpgradeSound /\ [UpgradeNext]_upgradeVars => UpgradeSound'
  BY UpgradeKept
<1>3. UpgradeSound => ExecutableIsWhole
  BY DEF UpgradeSound, Installed, ExecutableIsWhole
<1>. QED  BY <1>1, <1>2, <1>3, PTL DEF UpgradeSpec

-----------------------------------------------------------------------------
(* The log of a build.                                                     *)

\* The lines of the log after the first a, up to the b-th.
Lines(a, b) == [i \in 1 .. b - a |-> a + i]

BuildTypeOK ==
    /\ ci \in [text : Seq(Nat), status : BuildStatus]
    /\ watcher \in [at : {"idle", "send", "sent", "sleep", "closed"},
                    current : [text : Seq(Nat), status : BuildStatus], sent : Nat, broken : BOOLEAN]
    /\ channel \in Seq(Seq(Nat)) /\ screen \in Seq(Nat)
    /\ step \in {"complete", "branch", "commit", "validate", "request", "connect", "print",
                 "done", "failed"}

\* Of the log the goroutine has a beginning, of that a beginning is sent; what
\* was fetched after the end of the build is all.
Fetched ==
    /\ ci.text = Lines(0, Len(ci.text))
    /\ watcher.current.text = Lines(0, Len(watcher.current.text))
    /\ Len(watcher.current.text) <= Len(ci.text)
    /\ watcher.sent <= Len(watcher.current.text)
    /\ watcher.at \in {"sent", "sleep", "closed"} => watcher.sent = Len(watcher.current.text)
    /\ watcher.current.status \in FinalStatus => watcher.current = ci
    /\ watcher.at = "closed" /\ ~watcher.broken => watcher.current.status \in FinalStatus

\* The channel holds what is sent and not printed yet, cut into pieces.
Cut(f) ==
    /\ f[0] = Len(screen) /\ f[Len(channel)] = watcher.sent
    /\ \A i \in 0 .. Len(channel) : f[i] <= watcher.sent
    /\ \A i \in 1 .. Len(channel) : f[i - 1] < f[i] /\ channel[i] = Lines(f[i - 1], f[i])
InPieces ==
    /\ screen = Lines(0, Len(screen))
    /\ \E f \in [0 .. Len(channel) -> Nat] : Cut(f)

\* The goroutine runs once the command prints; the command ends after it.
InStep ==
    /\ step \notin {"print", "done"} => watcher = Silent /\ channel = <<>> /\ screen = <<>>
    /\ step = "print" => watcher.at # "idle"
    /\ step = "done" => watcher.at = "closed"

BuildSound == BuildTypeOK /\ Fetched /\ InPieces /\ InStep

\* What the lines from a to b are.
LEMMA LinesFields ==
    ASSUME NEW a \in Nat, NEW b \in Nat, a <= b
    PROVE  /\ Lines(a, b) \in Seq(Nat) /\ Len(Lines(a, b)) = b - a
           /\ \A i \in 1 .. b - a : Lines(a, b)[i] = a + i
           /\ Lines(a, b) = <<>> <=> a = b
<1>1. Lines(a, b) \in Seq(Nat) /\ Len(Lines(a, b)) = b - a
  BY DEF Lines
<1>2. \A i \in 1 .. b - a : Lines(a, b)[i] = a + i
  BY DEF Lines
<1>3. Lines(a, b) = <<>> <=> a = b
  BY <1>1
<1>. QED  BY <1>1, <1>2, <1>3

\* What the first n lines are.
LEMMA LinesFirst ==
    ASSUME NEW n \in Nat
    PROVE  Lines(0, n) \in Seq(Nat) /\ Len(Lines(0, n)) = n /\ \A i \in 1 .. n : Lines(0, n)[i] = i
<1>1. Lines(0, n) = [i \in 1 .. n |-> i]
  BY DEF Lines
<1>2. [i \in 1 .. n |-> i] \in Seq(Nat) /\ Len([i \in 1 .. n |-> i]) = n
  OBVIOUS
<1>. QED  BY <1>1, <1>2

\* What follows what is sent.
LEMMA LinesAfter ==
    ASSUME NEW n \in Nat, NEW a \in Nat, NEW b \in Nat, a <= b, b <= n
    PROVE  SubSeq(Lines(0, n), a + 1, b) = Lines(a, b)
<1>. DEFINE s == Lines(0, n)
<1>1. s \in Seq(Nat) /\ Len(s) = n /\ \A i \in 1 .. n : s[i] = i
  BY LinesFirst
<1>. HIDE DEF s
<1>2. Len(SubSeq(s, a + 1, b)) = b - a /\ SubSeq(s, a + 1, b) \in Seq(Nat)
  BY <1>1
<1>3. \A i \in 1 .. b - a : SubSeq(s, a + 1, b)[i] = a + i
  BY <1>1
<1>4. Len(Lines(a, b)) = b - a /\ Lines(a, b) \in Seq(Nat) /\ \A i \in 1 .. b - a : Lines(a, b)[i] = a + i
  BY LinesFields
<1>. DEFINE t == Lines(a, b)
            u == SubSeq(s, a + 1, b)
<1>. HIDE DEF t, u
<1>5. u = t
  <2>1. u \in Seq(Nat) /\ t \in Seq(Nat) /\ Len(u) = Len(t) /\ \A i \in 1 .. Len(u) : u[i] = t[i]
    BY <1>2, <1>3, <1>4 DEF t, u
  <2>. QED  BY <2>1, SeqEqual
<1>. QED  BY <1>5 DEF s, t, u

\* What is printed grows by the next piece.
LEMMA LinesJoined ==
    ASSUME NEW a \in Nat, NEW b \in Nat, a <= b
    PROVE  Lines(0, a) \o Lines(a, b) = Lines(0, b)
<1>. DEFINE s == Lines(0, a)
            t == Lines(a, b)
            u == Lines(0, b)
<1>1. s \in Seq(Nat) /\ Len(s) = a /\ \A i \in 1 .. a : s[i] = i
  BY LinesFirst
<1>4. u \in Seq(Nat) /\ Len(u) = b /\ \A i \in 1 .. b : u[i] = i
  BY LinesFirst
<1>5. t \in Seq(Nat) /\ Len(t) = b - a /\ \A i \in 1 .. b - a : t[i] = a + i
  BY LinesFields
<1>. HIDE DEF s, t, u
<1>2. /\ s \o t \in Seq(Nat) /\ Len(s \o t) = Len(s) + Len(t)
      /\ \A i \in 1 .. Len(s) + Len(t) :
            (s \o t)[i] = IF i <= Len(s) THEN s[i] ELSE t[i - Len(s)]
  BY <1>1, <1>5, ConcatProperties
<1>3. \A i \in 1 .. b : (s \o t)[i] = i
  BY <1>1, <1>2, <1>5
<1>6. Len(s \o t) = b
  BY <1>1, <1>2, <1>5
<1>7. s \o t = u
  BY <1>2, <1>3, <1>4, <1>6, SeqEqual
<1>. QED  BY <1>7 DEF s, t, u

\* The first n of the first m lines.
LEMMA LinesBegin ==
    ASSUME NEW m \in Nat, NEW n \in Nat, n <= m
    PROVE  SubSeq(Lines(0, m), 1, n) = Lines(0, n)
<1>1. 0 \in Nat /\ 0 <= n /\ 0 + 1 = 1
  OBVIOUS
<1>2. SubSeq(Lines(0, m), 0 + 1, n) = Lines(0, n)
  BY <1>1, LinesAfter
<1>. QED  BY <1>1, <1>2

\* The log grows by a line.
LEMMA LineAdded ==
    ASSUME NEW n \in Nat
    PROVE  Append(Lines(0, n), n + 1) = Lines(0, n + 1)
<1>. DEFINE m == n + 1
            s == Lines(0, n)
            t == Lines(0, m)
            u == Append(s, m)
<1>1. m \in Nat
  OBVIOUS
<1>2. s \in Seq(Nat) /\ Len(s) = n /\ \A i \in 1 .. n : s[i] = i
  BY LinesFirst
<1>3. t \in Seq(Nat) /\ Len(t) = m /\ \A i \in 1 .. m : t[i] = i
  <2>. HIDE DEF m
  <2>. QED  BY <1>1, LinesFirst
<1>. HIDE DEF s, t
<1>4. u \in Seq(Nat) /\ Len(u) = m /\ \A i \in 1 .. m : u[i] = i
  BY <1>2
<1>. HIDE DEF u, m
<1>5. u = t
  BY <1>3, <1>4, SeqEqual
<1>. QED  BY <1>5 DEF s, t, u, m

\* What the command does before it connects.
Prepares ==
    /\ step \in {"complete", "branch", "commit", "validate", "request"}
    /\ step' \in {"complete", "branch", "commit", "validate", "request", "connect", "failed"}
    /\ UNCHANGED <<ci, watcher, channel, screen>>

\* The steps before the connection leave the log alone.
LEMMA Preparing ==
    ASSUME BuildTypeOK,
           \/ CompleteVersion \/ ReadBranch \/ ReadCommit \/ ValidateVersion \/ RequestBuild
           \/ Checkout
    PROVE  Prepares
<1>1. ASSUME CompleteVersion PROVE Prepares
  <2>1. step = "complete"
    BY <1>1 DEF CompleteVersion
  <2>2. \E s \in {"branch", "request", "validate", "failed"} : Goes(s)
    BY <1>1 DEF CompleteVersion
  <2>. QED  BY <2>1, <2>2 DEF Goes, Prepares
<1>2. ReadBranch => Prepares
  BY DEF ReadBranch, Goes, Prepares
<1>3. ReadCommit => Prepares
  BY DEF ReadCommit, Goes, Prepares
<1>4. ValidateVersion => Prepares
  BY DEF ValidateVersion, Goes, Prepares
<1>5. RequestBuild => Prepares
  BY DEF RequestBuild, Goes, Prepares
<1>6. Checkout => Prepares
  BY DEF Checkout, Prepares
<1>. QED  BY <1>1, <1>2, <1>3, <1>4, <1>5, <1>6

\* The fields of the goroutine.
LEMMA WatcherFields ==
    ASSUME BuildTypeOK
    PROVE  /\ watcher.at \in {"idle", "send", "sent", "sleep", "closed"}
           /\ watcher.current \in [text : Seq(Nat), status : BuildStatus]
           /\ watcher.current.text \in Seq(Nat) /\ Len(watcher.current.text) \in Nat
           /\ watcher.current.status \in BuildStatus
           /\ watcher.sent \in Nat /\ watcher.broken \in BOOLEAN
           /\ ci.text \in Seq(Nat) /\ Len(ci.text) \in Nat /\ ci.status \in BuildStatus
           /\ Len(screen) \in Nat /\ Len(channel) \in Nat
BY DEF BuildTypeOK

\* The pieces are where they were if nothing is sent or printed.
LEMMA StillInPieces ==
    ASSUME InPieces, UNCHANGED <<channel, screen>>, watcher'.sent = watcher.sent
    PROVE  InPieces'
BY DEF InPieces, Cut

\* A build that is started, or watched from here on.
LEMMA LogBegins ==
    ASSUME BuildInit
    PROVE  BuildSound
<1>1. \A n \in Nat : FirstLines(n) = Lines(0, n)
  BY DEF FirstLines, Lines
<1>2. <<>> = Lines(0, 0)
  BY LinesFirst
<1>3. /\ watcher = Silent /\ channel = <<>> /\ screen = <<>> /\ step \in {"complete", "connect"}
  BY DEF BuildInit
<1>4. ci \in [text : Seq(Nat), status : BuildStatus] /\ ci.text = Lines(0, Len(ci.text))
  <2>1. CASE ci = NoLog
    BY <2>1, <1>2 DEF NoLog, BuildStatus
  <2>2. CASE \E n \in Nat, s \in BuildStatus : ci = [text |-> FirstLines(n), status |-> s]
    BY <2>2, <1>1, LinesFirst
  <2>3. 0 .. MaxText \subseteq Nat
    BY BuildAssumption
  <2>. QED  BY <2>1, <2>2, <2>3 DEF BuildInit
<1>5. BuildTypeOK
  BY <1>3, <1>4 DEF BuildTypeOK, Silent, NoLog, BuildStatus
<1>6. Fetched
  BY <1>2, <1>3, <1>4 DEF Fetched, Silent, NoLog, FinalStatus
<1>7. InPieces
  <2>. DEFINE f == [i \in 0 .. 0 |-> 0]
  <2>1. f \in [0 .. Len(channel) -> Nat] /\ Cut(f)
    BY <1>3 DEF Cut, Silent
  <2>. QED  BY <2>1, <1>2, <1>3 DEF InPieces
<1>8. InStep
  BY <1>3 DEF InStep
<1>. QED  BY <1>5, <1>6, <1>7, <1>8 DEF BuildSound

-----------------------------------------------------------------------------
\* Preparing a build keeps it.
LEMMA PreparesSound ==
    ASSUME BuildSound, Prepares
    PROVE  BuildSound'
<1>1. BuildTypeOK' /\ Fetched'
  BY DEF BuildSound, BuildTypeOK, Fetched, Prepares
<1>2. InPieces'
  BY StillInPieces DEF BuildSound, Prepares
<1>3. InStep'
  BY DEF BuildSound, InStep, Prepares
<1>. QED  BY <1>1, <1>2, <1>3 DEF BuildSound

\* The build goes on: its log only grows.
LEMMA CIWorksSound ==
    ASSUME BuildSound, CIWorks
    PROVE  /\ BuildSound' /\ ci' \in [text : Seq(Nat), status : BuildStatus]
           /\ Len(ci'.text) >= Len(ci.text) /\ SubSeq(ci'.text, 1, Len(ci.text)) = ci.text
<1>. DEFINE n == Len(ci.text)
<1>1. /\ UNCHANGED <<watcher, channel, screen, step>> /\ ci.status \notin FinalStatus
      /\ BuildTypeOK /\ Fetched /\ InPieces /\ InStep
  BY DEF BuildSound, CIWorks
<1>2. n \in Nat /\ ci.text = Lines(0, n) /\ ci.text \in Seq(Nat)
  BY <1>1, WatcherFields DEF Fetched
<1>3. CASE ci' = [ci EXCEPT !.text = Append(@, Len(@) + 1)]
  <2>. DEFINE s == Append(ci.text, n + 1)
  <2>1. s = Lines(0, n + 1)
    BY <1>2, LineAdded
  <2>2. s \in Seq(Nat) /\ Len(s) = n + 1
    BY <1>2
  <2>3. ci'.text = s /\ ci'.status = ci.status /\ ci' \in [text : Seq(Nat), status : BuildStatus]
    BY <1>1, <1>3, <2>2 DEF BuildTypeOK
  <2>. HIDE DEF s
  <2>4. BuildTypeOK' /\ Fetched'
    BY <1>1, <1>2, <2>1, <2>2, <2>3, WatcherFields DEF BuildTypeOK, Fetched
  <2>5. SubSeq(ci'.text, 1, n) = ci.text
    <3>1. n + 1 \in Nat /\ n <= n + 1 /\ n \in Nat
      BY <1>2
    <3>2. SubSeq(Lines(0, n + 1), 1, n) = Lines(0, n)
      BY <3>1, LinesBegin
    <3>. QED  BY <1>2, <2>1, <2>3, <3>2
  <2>6. InPieces' /\ InStep'
    BY <1>1, StillInPieces DEF InStep
  <2>. QED  BY <1>2, <2>2, <2>3, <2>4, <2>5, <2>6 DEF BuildSound
<1>4. CASE \E s \in BuildStatus \ {"pending", ci.status} : ci' = [ci EXCEPT !.status = s]
  <2>1. ci'.text = ci.text /\ ci' \in [text : Seq(Nat), status : BuildStatus]
    BY <1>1, <1>4 DEF BuildTypeOK
  <2>2. BuildTypeOK' /\ Fetched'
    BY <1>1, <2>1 DEF BuildTypeOK, Fetched
  <2>3. SubSeq(ci'.text, 1, n) = ci.text
    BY <1>2, <2>1, LinesBegin
  <2>4. InPieces' /\ InStep'
    BY <1>1, StillInPieces DEF InStep
  <2>. QED  BY <1>2, <2>1, <2>2, <2>3, <2>4 DEF BuildSound
<1>. QED  BY <1>3, <1>4 DEF CIWorks

\* The first answer is had before the goroutine starts.
LEMMA ConnectSound ==
    ASSUME BuildSound, Connect
    PROVE  BuildSound'
<1>1. /\ UNCHANGED <<ci, channel, screen>> /\ step = "connect"
      /\ BuildTypeOK /\ Fetched /\ InPieces /\ InStep
  BY DEF BuildSound, Connect
<1>2. CASE step' = "print" /\ watcher' = [watcher EXCEPT !.at = "send", !.current = ci]
  <2>1. /\ watcher'.at = "send" /\ watcher'.current = ci /\ watcher'.sent = watcher.sent
        /\ watcher'.broken = watcher.broken /\ BuildTypeOK'
    BY <1>1, <1>2 DEF BuildTypeOK
  <2>2. watcher.sent = 0
    BY <1>1 DEF InStep, Silent
  <2>3. Fetched'
    BY <1>1, <2>1, <2>2, WatcherFields DEF Fetched
  <2>4. InPieces' /\ InStep'
    BY <1>1, <1>2, <2>1, StillInPieces DEF InStep
  <2>. QED  BY <2>1, <2>3, <2>4 DEF BuildSound
<1>3. CASE step' = "failed" /\ UNCHANGED watcher
  <2>1. BuildTypeOK' /\ Fetched'
    BY <1>1, <1>3 DEF BuildTypeOK, Fetched
  <2>2. InPieces' /\ InStep'
    BY <1>1, <1>3, StillInPieces DEF InStep
  <2>. QED  BY <2>1, <2>2 DEF BuildSound
<1>. QED  BY <1>2, <1>3 DEF Connect

\* What is new is sent as one piece.
LEMMA SendNewSound ==
    ASSUME BuildSound, SendNew
    PROVE  BuildSound' /\ watcher'.broken = watcher.broken
<1>. DEFINE a == watcher.sent
            n == Len(watcher.current.text)
            new == SubSeq(watcher.current.text, a + 1, n)
<1>1. /\ UNCHANGED <<ci, screen, step>> /\ watcher.at = "send"
      /\ BuildTypeOK /\ Fetched /\ InPieces /\ InStep
  BY DEF BuildSound, SendNew
<1>2. /\ a \in Nat /\ n \in Nat /\ a <= n /\ watcher.current.text = Lines(0, n)
      /\ Len(ci.text) \in Nat /\ n <= Len(ci.text)
  BY <1>1, WatcherFields DEF Fetched
<1>3. new = Lines(a, n)
  <2>. HIDE DEF a, n
  <2>1. a \in Nat /\ n \in Nat /\ a <= n /\ n <= n
    BY <1>2
  <2>2. SubSeq(Lines(0, n), a + 1, n) = Lines(a, n)
    BY <2>1, LinesAfter
  <2>. QED  BY <1>2, <2>2
<1>4. new \in Seq(Nat) /\ (new = <<>> <=> a = n)
  <2>. HIDE DEF a, n
  <2>. QED  BY <1>2, <1>3, LinesFields
<1>5. CASE new = <<>>
  <2>1. UNCHANGED channel /\ watcher' = [watcher EXCEPT !.at = "sent"]
    BY <1>5 DEF SendNew
  <2>2. /\ watcher'.at = "sent" /\ watcher'.current = watcher.current /\ watcher'.sent = a
        /\ watcher'.broken = watcher.broken /\ BuildTypeOK'
    BY <1>1, <2>1 DEF BuildTypeOK
  <2>3. Fetched'
    BY <1>1, <1>4, <1>5, <2>2 DEF Fetched
  <2>4. InPieces'
    BY <1>1, <2>1, <2>2, StillInPieces
  <2>5. InStep'
    BY <1>1, <2>1, <2>2 DEF InStep, Silent
  <2>. QED  BY <2>2, <2>3, <2>4, <2>5 DEF BuildSound
<1>6. CASE new # <<>>
  <2>1. /\ channel' = Append(channel, new)
        /\ watcher' = [watcher EXCEPT !.at = "sent", !.sent = n]
    BY <1>6 DEF SendNew
  <2>2. a < n
    BY <1>2, <1>4, <1>6
  <2>. HIDE DEF new
  <2>3. /\ channel' \in Seq(Seq(Nat)) /\ Len(channel') = Len(channel) + 1
        /\ channel'[Len(channel) + 1] = new
        /\ \A i \in 1 .. Len(channel) : channel'[i] = channel[i]
    BY <1>1, <1>4, <2>1 DEF BuildTypeOK
  <2>4. /\ watcher'.at = "sent" /\ watcher'.current = watcher.current /\ watcher'.sent = n
        /\ watcher'.broken = watcher.broken
    BY <1>1, <2>1 DEF BuildTypeOK
  <2>5. BuildTypeOK'
    BY <1>1, <1>2, <2>1, <2>3 DEF BuildTypeOK
  <2>6. Fetched'
    BY <1>1, <1>2, <2>4 DEF Fetched
  <2>7. InStep'
    BY <1>1, <2>1, <2>4 DEF InStep, Silent
  <2>8. InPieces'
    <3>1. PICK f \in [0 .. Len(channel) -> Nat] : Cut(f)
      BY <1>1 DEF InPieces
    <3>2. PICK l \in Nat, b \in Nat, m \in Nat : l = Len(channel) /\ b = a /\ m = n
      BY <1>1, <1>2, WatcherFields
    <3>3. /\ f[0] = Len(screen) /\ f[l] = b
          /\ \A i \in 0 .. l : f[i] <= b
          /\ \A i \in 1 .. l : f[i - 1] < f[i] /\ channel[i] = Lines(f[i - 1], f[i])
      BY <3>1, <3>2 DEF Cut
    <3>4. /\ b < m /\ watcher'.sent = m /\ Len(channel') = l + 1 /\ Len(screen') = Len(screen)
          /\ channel'[l + 1] = Lines(b, m) /\ \A i \in 1 .. l : channel'[i] = channel[i]
      BY <1>1, <1>3, <2>2, <2>3, <2>4, <3>2
    <3>. HIDE DEF a, n
    <3>5. PICK g : g = [i \in 0 .. l + 1 |-> IF i <= l THEN f[i] ELSE m]
      OBVIOUS
    <3>6. /\ g \in [0 .. l + 1 -> Nat] /\ g[l + 1] = m
          /\ \A i \in 0 .. l : g[i] = f[i]
      BY <3>1, <3>2, <3>5
    <3>7. \A i \in 0 .. l + 1 : g[i] <= m
      <4>. SUFFICES ASSUME NEW i \in 0 .. l + 1 PROVE g[i] <= m
        OBVIOUS
      <4>1. CASE i \in 0 .. l
        <5>1. f[i] \in Nat /\ f[i] <= b
          BY <3>1, <3>2, <3>3, <4>1
        <5>. QED  BY <3>2, <3>4, <3>6, <4>1, <5>1
      <4>2. CASE i = l + 1
        BY <3>2, <3>6, <4>2
      <4>. QED  BY <3>2, <4>1, <4>2
    <3>8. \A i \in 1 .. l + 1 : g[i - 1] < g[i] /\ channel'[i] = Lines(g[i - 1], g[i])
      <4>. SUFFICES ASSUME NEW i \in 1 .. l + 1
                    PROVE  g[i - 1] < g[i] /\ channel'[i] = Lines(g[i - 1], g[i])
        OBVIOUS
      <4>1. CASE i \in 1 .. l
        <5>1. g[i] = f[i] /\ g[i - 1] = f[i - 1]
          BY <3>2, <3>6, <4>1
        <5>. QED  BY <3>3, <3>4, <4>1, <5>1
      <4>2. CASE i = l + 1
        <5>1. g[i] = m /\ g[i - 1] = b
          BY <3>2, <3>3, <3>6, <4>2
        <5>. QED  BY <3>4, <4>2, <5>1
      <4>. QED  BY <3>2, <4>1, <4>2
    <3>9. g[0] = f[0]
      BY <3>2, <3>6
    <3>10. Cut(g)'
      BY <3>3, <3>4, <3>6, <3>7, <3>8, <3>9 DEF Cut
    <3>11. screen' = Lines(0, Len(screen'))
      BY <1>1, <3>4 DEF InPieces
    <3>. QED  BY <3>4, <3>6, <3>10, <3>11 DEF InPieces
  <2>. QED  BY <2>4, <2>5, <2>6, <2>7, <2>8 DEF BuildSound
<1>. QED  BY <1>5, <1>6

\* The goroutine ends only after the end of the build.
LEMMA CheckStatusSound ==
    ASSUME BuildSound, CheckStatus
    PROVE  BuildSound' /\ watcher'.broken = watcher.broken
<1>. DEFINE at == IF watcher.current.status \in FinalStatus THEN "closed" ELSE "sleep"
<1>1. /\ UNCHANGED <<ci, channel, screen, step>> /\ watcher.at = "sent"
      /\ watcher' = [watcher EXCEPT !.at = at]
      /\ BuildTypeOK /\ Fetched /\ InPieces /\ InStep
  BY DEF BuildSound, CheckStatus
<1>2. at \in {"closed", "sleep"} /\ (at = "closed" => watcher.current.status \in FinalStatus)
  OBVIOUS
<1>. HIDE DEF at
<1>3. /\ watcher'.at = at /\ watcher'.current = watcher.current /\ watcher'.sent = watcher.sent
      /\ watcher'.broken = watcher.broken /\ BuildTypeOK'
  BY <1>1, <1>2 DEF BuildTypeOK
<1>4. Fetched'
  BY <1>1, <1>2, <1>3 DEF Fetched
<1>5. InPieces' /\ InStep'
  BY <1>1, <1>2, <1>3, StillInPieces DEF InStep, Silent
<1>. QED  BY <1>3, <1>4, <1>5 DEF BuildSound

\* The next answer continues the one before.
LEMMA FetchAgainSound ==
    ASSUME BuildSound, FetchAgain
    PROVE  BuildSound' /\ step # "done"
<1>1. /\ UNCHANGED <<ci, channel, screen, step>> /\ watcher.at = "sleep"
      /\ BuildTypeOK /\ Fetched /\ InPieces /\ InStep
  BY DEF BuildSound, FetchAgain
<1>2. step = "print"
  BY <1>1 DEF InStep, Silent
<1>3. CASE watcher' = [watcher EXCEPT !.at = "send", !.current = ci]
  <2>1. /\ watcher'.at = "send" /\ watcher'.current = ci /\ watcher'.sent = watcher.sent
        /\ watcher'.broken = watcher.broken /\ BuildTypeOK'
    BY <1>1, <1>3 DEF BuildTypeOK
  <2>2. Fetched'
    BY <1>1, <2>1, WatcherFields DEF Fetched
  <2>3. InPieces' /\ InStep'
    BY <1>1, <1>2, <2>1, StillInPieces DEF InStep
  <2>. QED  BY <1>2, <2>1, <2>2, <2>3 DEF BuildSound
<1>4. CASE UNCHANGED watcher
  <2>1. BuildTypeOK' /\ Fetched'
    BY <1>1, <1>4 DEF BuildTypeOK, Fetched
  <2>2. InPieces' /\ InStep'
    BY <1>1, <1>4, StillInPieces DEF InStep
  <2>. QED  BY <1>2, <2>1, <2>2 DEF BuildSound
<1>5. CASE watcher' = [watcher EXCEPT !.at = "closed", !.broken = TRUE]
  <2>1. /\ watcher'.at = "closed" /\ watcher'.current = watcher.current
        /\ watcher'.sent = watcher.sent /\ BuildTypeOK'
    BY <1>1, <1>5 DEF BuildTypeOK
  <2>2. watcher'.broken
    BY <1>1, <1>5 DEF BuildTypeOK
  <2>3. Fetched'
    BY <1>1, <2>1, <2>2 DEF Fetched
  <2>4. InPieces' /\ InStep'
    BY <1>1, <1>2, <2>1, StillInPieces DEF InStep
  <2>. QED  BY <1>2, <2>1, <2>3, <2>4 DEF BuildSound
<1>. QED  BY <1>3, <1>4, <1>5 DEF FetchAgain

\* The first piece continues what is printed.
LEMMA PrintPieceSound ==
    ASSUME BuildSound, PrintPiece
    PROVE  /\ BuildSound'
           /\ \E n \in Len(screen) + 1 .. Len(ci.text) : screen' = SubSeq(ci.text, 1, n)
<1>. DEFINE l == Len(channel)
            m == Len(ci.text)
<1>1. /\ UNCHANGED <<ci, watcher, step>> /\ step = "print" /\ channel # <<>>
      /\ screen' = screen \o Head(channel) /\ channel' = Tail(channel)
      /\ BuildTypeOK /\ Fetched /\ InPieces /\ InStep
  BY DEF BuildSound, PrintPiece
<1>2. PICK f \in [0 .. l -> Nat] : Cut(f)
  BY <1>1 DEF InPieces
<1>3. channel \in Seq(Seq(Nat)) /\ l \in Nat \ {0} /\ Head(channel) = channel[1]
  BY <1>1 DEF BuildTypeOK
<1>4. /\ channel' \in Seq(Seq(Nat)) /\ Len(channel') = l - 1
      /\ \A i \in 1 .. l - 1 : channel'[i] = channel[i + 1]
  BY <1>1, <1>3
<1>5. /\ f[0] = Len(screen) /\ f[l] = watcher.sent
      /\ \A i \in 0 .. l : f[i] <= watcher.sent
      /\ \A i \in 1 .. l : f[i - 1] < f[i] /\ channel[i] = Lines(f[i - 1], f[i])
  BY <1>2 DEF Cut
<1>6. f[0] \in Nat /\ f[1] \in Nat /\ f[0] < f[1] /\ channel[1] = Lines(f[0], f[1])
  <2>1. 1 \in 1 .. l /\ 1 - 1 = 0 /\ 0 \in 0 .. l /\ 1 \in 0 .. l
    BY <1>3
  <2>. QED  BY <1>2, <1>5, <2>1
<1>7. screen = Lines(0, f[0])
  BY <1>1, <1>5 DEF InPieces
<1>8. screen' = Lines(0, f[1])
  <2>1. f[0] <= f[1]
    BY <1>6
  <2>2. Lines(0, f[0]) \o Lines(f[0], f[1]) = Lines(0, f[1])
    BY <1>6, <2>1, LinesJoined
  <2>. QED  BY <1>1, <1>3, <1>6, <1>7, <2>2
<1>9. screen' \in Seq(Nat) /\ Len(screen') = f[1]
  BY <1>6, <1>8, LinesFirst
<1>10. BuildTypeOK'
  BY <1>1, <1>4, <1>9 DEF BuildTypeOK
<1>11. Fetched' /\ InStep'
  BY <1>1 DEF Fetched, InStep
<1>12. InPieces'
  <2>0. l - 1 \in Nat
    BY <1>3
  <2>1. PICK k \in Nat : k = l - 1
    BY <2>0
  <2>2. PICK g : g = [i \in 0 .. k |-> f[i + 1]]
    OBVIOUS
  <2>3. l = k + 1 /\ Len(channel') = k /\ f \in [0 .. k + 1 -> Nat]
    BY <1>2, <1>3, <1>4, <2>1
  <2>4. g \in [0 .. k -> Nat] /\ \A i \in 0 .. k : g[i] = f[i + 1]
    BY <2>1, <2>2, <2>3
  <2>5. g[0] = Len(screen') /\ g[k] = watcher'.sent
    BY <1>1, <1>5, <1>9, <2>1, <2>3, <2>4
  <2>6. \A i \in 0 .. k : g[i] <= watcher'.sent
    <3>. SUFFICES ASSUME NEW i \in 0 .. k PROVE f[i + 1] <= watcher.sent
      BY <1>1, <2>4
    <3>1. i + 1 \in 0 .. l
      BY <2>1, <2>3
    <3>. QED  BY <1>5, <3>1
  <2>7. \A i \in 1 .. k : g[i - 1] < g[i] /\ channel'[i] = Lines(g[i - 1], g[i])
    <3>. SUFFICES ASSUME NEW i \in 1 .. k
                  PROVE  g[i - 1] < g[i] /\ channel'[i] = Lines(g[i - 1], g[i])
      OBVIOUS
    <3>1. g[i - 1] = f[i] /\ g[i] = f[i + 1] /\ channel'[i] = channel[i + 1]
      BY <1>4, <2>1, <2>3, <2>4
    <3>2. i + 1 \in 1 .. l /\ (i + 1) - 1 = i
      BY <2>1, <2>3
    <3>3. f[(i + 1) - 1] < f[i + 1] /\ channel[i + 1] = Lines(f[(i + 1) - 1], f[i + 1])
      BY <1>5, <3>2
    <3>. QED  BY <3>1, <3>2, <3>3
  <2>8. Cut(g)'
    BY <2>3, <2>5, <2>6, <2>7 DEF Cut
  <2>. QED  BY <1>8, <1>9, <2>3, <2>4, <2>8 DEF InPieces
<1>13. f[1] \in Len(screen) + 1 .. m /\ m \in Nat /\ f[1] <= m
  <2>1. 1 \in 0 .. l
    BY <1>3
  <2>2. f[1] <= watcher.sent
    BY <1>5, <2>1
  <2>3. watcher.sent <= m /\ watcher.sent \in Nat /\ m \in Nat
    BY <1>1, WatcherFields DEF Fetched
  <2>. QED  BY <1>5, <1>6, <2>2, <2>3
<1>14. screen' = SubSeq(ci.text, 1, f[1])
  <2>1. ci.text = Lines(0, m)
    BY <1>1 DEF Fetched
  <2>. HIDE DEF m
  <2>. QED  BY <1>6, <1>8, <1>13, <2>1, LinesBegin
<1>. QED  BY <1>10, <1>11, <1>12, <1>13, <1>14 DEF BuildSound

\* The command ends when the goroutine has, and everything is printed.
LEMMA EndOfLogSound ==
    ASSUME BuildSound, EndOfLog
    PROVE  BuildSound' /\ (~watcher.broken => ci.status \in FinalStatus /\ screen = ci.text)
<1>1. /\ UNCHANGED <<ci, watcher, channel, screen>> /\ step = "print" /\ step' = "done"
      /\ watcher.at = "closed" /\ channel = <<>>
      /\ BuildTypeOK /\ Fetched /\ InPieces /\ InStep
  BY DEF BuildSound, EndOfLog
<1>2. BuildTypeOK' /\ Fetched' /\ InStep'
  BY <1>1 DEF BuildTypeOK, Fetched, InStep
<1>3. InPieces'
  BY <1>1, StillInPieces
<1>4. ASSUME ~watcher.broken PROVE ci.status \in FinalStatus /\ screen = ci.text
  <2>1. PICK f \in [0 .. Len(channel) -> Nat] : Cut(f)
    BY <1>1 DEF InPieces
  <2>2. Len(screen) = watcher.sent
    BY <1>1, <2>1 DEF Cut
  <2>. QED  BY <1>1, <1>4, <2>2 DEF Fetched, InPieces
<1>. QED  BY <1>2, <1>3, <1>4 DEF BuildSound

-----------------------------------------------------------------------------
\* What the user is told, as the refinement reads it.
Told ==
    IF step = "failed" \/ (step = "done" /\ watcher.broken) THEN "interrupted"
    ELSE IF step = "done" THEN "complete" ELSE "watching"

Relays == Relay!Produce \/ Relay!Show \/ Relay!Conclude \/ Relay!Interrupt
relayVars == <<ci.text, ci.status, screen, Told>>

\* A step that leaves log and screen alone either tells the user nothing new or
\* interrupts.
LEMMA TellsOnly ==
    ASSUME UNCHANGED <<ci, screen>>,
           Told' = Told \/ (Told = "watching" /\ Told' = "interrupted")
    PROVE  [Relays]_relayVars
<1>1. CASE Told' = Told
  BY <1>1 DEF relayVars
<1>2. CASE Told = "watching" /\ Told' = "interrupted"
  <2>1. Relay!Interrupt
    BY <1>2 DEF Relay!Interrupt, Told
  <2>. QED  BY <2>1 DEF Relays
<1>. QED  BY <1>1, <1>2

\* Every step of the command, the goroutine and the API keeps what is known of
\* them, and is a step of the relay or none.
LEMMA StepRelays ==
    ASSUME BuildSound, [BuildNext]_buildVars
    PROVE  BuildSound' /\ [Relays]_relayVars
<1>1. ASSUME CompleteVersion \/ ReadBranch \/ ReadCommit \/ ValidateVersion \/ RequestBuild \/ Checkout
      PROVE  BuildSound' /\ [Relays]_relayVars
  <2>1. Prepares
    BY <1>1, Preparing DEF BuildSound
  <2>2. UNCHANGED <<ci, screen>> /\ Told = "watching" /\ Told' \in {"watching", "interrupted"}
    BY <2>1 DEF Prepares, Told
  <2>. QED  BY <2>1, <2>2, PreparesSound, TellsOnly
<1>2. ASSUME CIWorks PROVE BuildSound' /\ [Relays]_relayVars
  <2>1. /\ BuildSound' /\ ci'.text \in Seq(Nat) /\ ci'.status \in BuildStatus
        /\ Len(ci'.text) >= Len(ci.text) /\ SubSeq(ci'.text, 1, Len(ci.text)) = ci.text
    <3>1. /\ BuildSound' /\ ci' \in [text : Seq(Nat), status : BuildStatus]
          /\ Len(ci'.text) >= Len(ci.text) /\ SubSeq(ci'.text, 1, Len(ci.text)) = ci.text
      BY <1>2, CIWorksSound
    <3>. QED  BY <3>1
  <2>2. ci.status \notin FinalStatus /\ UNCHANGED <<screen, step, watcher>>
    BY <1>2 DEF CIWorks
  <2>3. Relay!Produce
    BY <2>1, <2>2 DEF Relay!Produce
  <2>. QED  BY <2>1, <2>3 DEF Relays
<1>3. ASSUME Connect PROVE BuildSound' /\ [Relays]_relayVars
  <2>1. UNCHANGED <<ci, screen>> /\ Told = "watching" /\ Told' \in {"watching", "interrupted"}
    BY <1>3 DEF Connect, Told
  <2>. QED  BY <1>3, <2>1, ConnectSound, TellsOnly
<1>4. ASSUME SendNew \/ CheckStatus PROVE BuildSound' /\ [Relays]_relayVars
  <2>1. BuildSound' /\ watcher'.broken = watcher.broken
    BY <1>4, SendNewSound, CheckStatusSound
  <2>2. UNCHANGED <<ci, screen, step>>
    BY <1>4 DEF SendNew, CheckStatus
  <2>. QED  BY <2>1, <2>2, TellsOnly DEF Told
<1>5. ASSUME FetchAgain PROVE BuildSound' /\ [Relays]_relayVars
  <2>1. BuildSound' /\ step # "done"
    BY <1>5, FetchAgainSound
  <2>2. UNCHANGED <<ci, screen, step>>
    BY <1>5 DEF FetchAgain
  <2>. QED  BY <2>1, <2>2, TellsOnly DEF Told
<1>6. ASSUME PrintPiece PROVE BuildSound' /\ [Relays]_relayVars
  <2>1. BuildSound' /\ \E n \in Len(screen) + 1 .. Len(ci.text) : screen' = SubSeq(ci.text, 1, n)
    BY <1>6, PrintPieceSound
  <2>2. UNCHANGED <<ci, watcher, step>> /\ step = "print"
    BY <1>6 DEF PrintPiece
  <2>3. Relay!Show
    BY <2>1, <2>2 DEF Relay!Show
  <2>. QED  BY <2>1, <2>3 DEF Relays
<1>7. ASSUME EndOfLog PROVE BuildSound' /\ [Relays]_relayVars
  <2>1. BuildSound' /\ (~watcher.broken => ci.status \in FinalStatus /\ screen = ci.text)
    BY <1>7, EndOfLogSound
  <2>2. UNCHANGED <<ci, watcher, screen>> /\ step = "print" /\ step' = "done"
    BY <1>7 DEF EndOfLog
  <2>3. CASE watcher.broken
    BY <2>1, <2>2, <2>3, TellsOnly DEF Told
  <2>4. CASE ~watcher.broken
    <3>1. Relay!Conclude
      BY <2>1, <2>2, <2>4 DEF Relay!Conclude
    <3>. QED  BY <2>1, <3>1 DEF Relays
  <2>. QED  BY <2>3, <2>4
<1>8. ASSUME UNCHANGED buildVars PROVE BuildSound' /\ [Relays]_relayVars
  <2>1. UNCHANGED <<ci, watcher, channel, screen, step>>
    BY <1>8 DEF buildVars
  <2>2. BuildTypeOK' /\ Fetched' /\ InStep'
    BY <2>1 DEF BuildSound, BuildTypeOK, Fetched, InStep
  <2>3. InPieces'
    BY <2>1, StillInPieces DEF BuildSound
  <2>. QED  BY <2>1, <2>2, <2>3 DEF BuildSound, relayVars, Told
<1>. QED  BY <1>1, <1>2, <1>3, <1>4, <1>5, <1>6, <1>7, <1>8 DEF BuildNext

\* The watching of a build log (BuildLogWatch, buildLog) keeps its promise, with
\* a channel and a log of any length.
THEOREM LogRelayed == BuildSpec => ImplementsLogRelay
<1>1. BuildInit => BuildSound
  BY LogBegins
<1>2. BuildInit => Relay!RelayInit
  <2>. SUFFICES ASSUME BuildInit PROVE Relay!RelayInit
    OBVIOUS
  <2>1. ci.text \in Seq(Nat) /\ ci.status \in BuildStatus
    BY LogBegins, WatcherFields DEF BuildSound
  <2>. QED  BY <2>1 DEF BuildInit, Relay!RelayInit
<1>3. BuildSound /\ [BuildNext]_buildVars => BuildSound' /\ [Relays]_relayVars
  BY StepRelays
<1>4. [Relays]_relayVars => [Relay!Produce \/ Relay!Show \/ Relay!Conclude \/ Relay!Interrupt]_<<ci.text, ci.status, screen, Told>>
  BY DEF Relays, relayVars
<1>. QED  BY <1>1, <1>2, <1>3, <1>4, PTL DEF BuildSpec, ImplementsLogRelay, Relay!RelaySpec, Told

=============================================================================
