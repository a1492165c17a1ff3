----------------------------- MODULE ClientSession -----------------------------
(***************************************************************************)
(* Who the command line is to the API (pkg/httpclient, pkg/galaxycfg,      *)
(* cmd/login, cmd/logout, cmd/switchCmd).  Every process reads the file    *)
(* ~/.galaxy/config when it starts, an entry per server with the token,    *)
(* the encrypted account, the default organization and the organizations,  *)
(* and saves the whole of what it holds in memory.  A request answered 401 *)
(* logs in again by the saved account.  Nothing locks the file.            *)
(***************************************************************************)
EXTENDS Naturals, FiniteSets

CONSTANTS
    Processes,
    Servers,
    Accounts,
    Nobody,       \* no account
    Gone,         \* the file does not exist
    Torn,         \* it is empty: truncated, and not yet written
    Garbled,      \* it does not parse: two processes wrote it at once
    Invocations   \* Invocations[p]: what process p may be started with

VARIABLES
    config,       \* the file
    opened,       \* the processes that truncated this file and have not written yet
    session       \* session[p]: what process p is doing

sessionVars == <<config, opened, session>>

Orgs == {Nobody} \union Accounts \X {"last", "chosen"}

\* The server's entry.  Token and user are always set together.  orgs: whose
\* organizations are listed; group: the default group of the default one.
Entry == [token : Accounts \union {Nobody}, secret : Accounts \union {Nobody},
          org : Orgs, orgs : Accounts \union {Nobody}, group : {"first", "chosen"}]

NoEntry == [token |-> Nobody, secret |-> Nobody, org |-> Nobody, orgs |-> Nobody, group |-> "first"]

LoggedIn(a) == [token |-> a, secret |-> a, org |-> <<a, "last">>, orgs |-> a, group |-> "first"]

Configs == [Servers -> Entry]
NoConfig == [s \in Servers |-> NoEntry]
Files == Configs \union {Gone, Torn, Garbled}

ASSUME SessionAssumption ==
    /\ Invocations \in [Processes -> SUBSET [command : {"request", "login", "logout", "org", "group"},
                                             server : Servers, account : Accounts]]
    /\ Nobody \notin Accounts
    /\ {Gone, Torn, Garbled} \intersect Configs = {}
    /\ Gone \notin {Torn, Garbled} /\ Torn # Garbled

-----------------------------------------------------------------------------
\* Load of a GalaxyConfig: a missing or empty file is an empty configuration,
\* and GetServer adds the entry of a server that has none.
Load(f) == IF f \in {Gone, Torn} THEN NoConfig ELSE f

\* Save: the file is truncated and then written.
Truncate(p) ==
    /\ config' = Torn
    /\ opened' = opened \union {p}

\* What a write leaves if the file was removed, or another process wrote it,
\* since it was truncated: the longer of two texts sticks out at the end.
WrittenBy(p, c) ==
    IF p \notin opened THEN {config}
    ELSE {c} \union (IF config = Torn THEN {} ELSE {Garbled})

Write(p, c) ==
    /\ config' \in WrittenBy(p, c)
    /\ opened' = opened \ {p}

Sessions == [
    pc : {"idle", "login", "request", "renew", "renewing", "chosen", "truncate", "write", "remove",
          "done", "failed"},
    next : {"request", "done", "failed"},   \* what follows the save
    run : UNION {Invocations[p] : p \in Processes},
    start : Configs,                    \* the file when the process started
    cfg : Configs,                      \* cfgFlags.GalaxyConfig
    held : Configs,                     \* what an earlier statement still refers to
    bearer : Accounts \union {Nobody},  \* whose token the requests carry
    tries : 0 .. 2,
    alone : BOOLEAN]                    \* nobody else wrote since the start

Idle(i) == [pc |-> "idle", next |-> "done", run |-> i, start |-> NoConfig, cfg |-> NoConfig,
            held |-> NoConfig, bearer |-> Nobody, tries |-> 0, alone |-> TRUE]

EndsAs(r, how) == [Idle(r.run) EXCEPT !.pc = how]
Busy(r) == r.pc \notin {"idle", "done", "failed"}

SessionInit ==
    /\ config \in {Gone} \union [Servers -> {NoEntry} \union {LoggedIn(a) : a \in Accounts}]
    /\ opened = {}
    /\ session \in {s \in [Processes -> {Idle(i) : i \in UNION {Invocations[p] : p \in Processes}}] :
                       \A p \in Processes : s[p].run \in Invocations[p]}

\* p goes on as r; everybody else has seen the file written.
Becomes(p, r) == session' = [session EXCEPT ![p] = r]
BecomesWriting(p, r) ==
    session' = [q \in Processes |->
                   IF q = p THEN r
                   ELSE [session[q] EXCEPT !.alone = session[q].alone /\ ~Busy(session[q])]]

-----------------------------------------------------------------------------
(* The process starts.                                                       *)

\* NewGalaxyCommand loads the configuration before any command; switch group
\* takes the default organization out of it and needs one.
StartsWith(p, c, alone) ==
    LET i == session[p].run
        r == [session[p] EXCEPT !.start = c, !.cfg = c, !.held = c, !.alone = alone,
                                !.bearer = c[i.server].token]
    IN IF i.command = "login" THEN [r EXCEPT !.pc = "login"]
       ELSE IF i.command = "group" /\ c[i.server].orgs = Nobody THEN EndsAs(r, "failed")
       ELSE [r EXCEPT !.pc = "request"]

Start(p) ==
    /\ session[p].pc = "idle"
    /\ Becomes(p, IF config = Garbled THEN EndsAs(session[p], "failed")
                  ELSE StartsWith(p, Load(config), opened = {}))
    /\ UNCHANGED <<config, opened>>

-----------------------------------------------------------------------------
(* A request (HttpClient.Request), and what the command does with its answer.*)

\* SelectedOrg and SetOrgId: an organization of the account the token is of.
SwitchedOrg(r) == [r.cfg EXCEPT ![r.run.server].org = <<r.bearer, "chosen">>]

\* SetOrg: the organization taken out at the start replaces the one with its id.
SwitchedGroup(r) ==
    IF r.cfg[r.run.server].orgs = r.held[r.run.server].orgs
    THEN [r.cfg EXCEPT ![r.run.server].group = "chosen"] ELSE r.cfg

\* Variant for the mutation runs: into the configuration it holds by then.
LoggedInOnTop(r) ==
    [r.cfg EXCEPT ![r.run.server].orgs = r.bearer, ![r.run.server].secret = r.run.account,
                  ![r.run.server].group = "first"]

\* LoginSaveGalaxyConfig, once the organizations have arrived: into the
\* configuration it began with, even if a renewal has replaced it since.
LoggedInAgain(r) ==
    [r.held EXCEPT ![r.run.server].orgs = r.bearer, ![r.run.server].secret = r.run.account,
                   ![r.run.server].group = "first"]

Answered(r) ==
    LET saving == [r EXCEPT !.pc = "truncate", !.next = "done"]
    IN CASE r.run.command = "request" -> EndsAs(r, "done")
         [] r.run.command = "logout" -> [r EXCEPT !.pc = "remove"]
         [] r.run.command = "org" -> [r EXCEPT !.pc = "chosen"]
         [] r.run.command = "group" -> [saving EXCEPT !.cfg = SwitchedGroup(r)]
         [] r.run.command = "login" -> [saving EXCEPT !.cfg = LoggedInAgain(r)]

\* A token may be refused at any time; no token always is.
Request(p) ==
    /\ session[p].pc = "request"
    /\ \/ session[p].bearer # Nobody /\ Becomes(p, Answered(session[p]))
       \/ Becomes(p, [session[p] EXCEPT !.pc = "renew"])
       \/ Becomes(p, EndsAs(session[p], "failed"))
    /\ UNCHANGED <<config, opened>>

\* The user picks the organization; what is changed is what is loaded by then.
ChooseOrg(p) ==
    /\ session[p].pc = "chosen"
    /\ Becomes(p, [session[p] EXCEPT !.pc = "truncate", !.next = "done", !.cfg = SwitchedOrg(session[p])])
    /\ UNCHANGED <<config, opened>>

-----------------------------------------------------------------------------
(* The renewal (LoginBySecret).                                              *)

\* Variant for the mutation runs: only the entry of its own server is kept.
ReloadEntry(p) ==
    /\ session[p].pc = "renew"
    /\ LET s == session[p].run.server
           c == [NoConfig EXCEPT ![s] = Load(config)[s]]
       IN Becomes(p, IF config = Garbled \/ c[s].secret = Nobody THEN EndsAs(session[p], "failed")
                     ELSE [session[p] EXCEPT !.pc = "renewing", !.cfg = c])
    /\ UNCHANGED <<config, opened>>

\* It loads the file again, and everything the process does from here on is
\* about what it finds there.
Reload(p) ==
    /\ session[p].pc = "renew"
    /\ LET c == Load(config)
       IN Becomes(p, IF config = Garbled \/ c[session[p].run.server].secret = Nobody
                     THEN EndsAs(session[p], "failed")
                     ELSE [session[p] EXCEPT !.pc = "renewing", !.cfg = c])
    /\ UNCHANGED <<config, opened>>

\* SetToken, SetUser and SetOrgId: what is renewed is of the saved account.
Renewed(e) == [e EXCEPT !.token = e.secret, !.org = <<e.secret, "last">>]

\* The login by the saved account; a request is repeated once.
Renew(p) ==
    /\ session[p].pc = "renewing"
    /\ LET r == session[p]
           s == r.run.server
       IN \/ Becomes(p, [r EXCEPT !.pc = "truncate", !.cfg[s] = Renewed(@), !.bearer = r.cfg[s].secret,
                                  !.tries = @ + 1,
                                  !.next = IF r.tries = 0 THEN "request" ELSE "failed"])
          \/ Becomes(p, EndsAs(r, "failed"))
    /\ UNCHANGED <<config, opened>>

-----------------------------------------------------------------------------
(* The commands that change the file themselves.                             *)

\* The login request of galaxy login (Options.Run), and the first half of
\* LoginSaveGalaxyConfig: the entry it holds now carries the new token.
Login(p) ==
    /\ session[p].pc = "login"
    /\ LET r == session[p]
           c == [r.cfg EXCEPT ![r.run.server].token = r.run.account,
                              ![r.run.server].org = <<r.run.account, "last">>]
       IN \/ Becomes(p, [r EXCEPT !.pc = "request", !.cfg = c, !.held = c, !.bearer = r.run.account])
          \/ Becomes(p, EndsAs(r, "failed"))
    /\ UNCHANGED <<config, opened>>

\* Logout, after POST /logout.
RemoveConfig(p) ==
    /\ session[p].pc = "remove"
    /\ config' = Gone
    /\ opened' = {}
    /\ BecomesWriting(p, EndsAs(session[p], "done"))

StartSave(p) ==
    /\ session[p].pc = "truncate"
    /\ Truncate(p)
    /\ BecomesWriting(p, [session[p] EXCEPT !.pc = "write"])

FinishSave(p) ==
    /\ session[p].pc = "write"
    /\ Write(p, session[p].cfg)
    /\ BecomesWriting(p, IF session[p].next = "request" THEN [session[p] EXCEPT !.pc = "request"]
                         ELSE EndsAs(session[p], session[p].next))

SessionNext ==
    \E p \in Processes :
        \/ Start(p) \/ Request(p) \/ ChooseOrg(p)
        \/ Reload(p) \/ Renew(p) \/ Login(p)
        \/ RemoveConfig(p) \/ StartSave(p) \/ FinishSave(p)

SessionSpec == SessionInit /\ [][SessionNext]_sessionVars

-----------------------------------------------------------------------------
SessionTypeOK ==
    /\ config \in Files
    /\ opened \subseteq Processes
    /\ session \in [Processes -> Sessions]

(* What is saved of one account (user.go, LoginBySecret, LoginSaveGalaxyConfig): *)
(* whatever the processes do at once, and whichever token is refused when, the   *)
(* token, the account that renews it and the default organization of an entry    *)
(* are of one account.  An entry of two would continue as somebody else after    *)
(* the next renewal.                                                             *)
CredentialsAgree ==
    config \in Configs =>
        \A s \in Servers :
            LET e == config[s]
            IN /\ e.token = e.secret
               /\ IF e.token = Nobody THEN e.org = Nobody ELSE e.org \in {e.token} \X {"last", "chosen"}

\* What process r leaves of its own entry, by the command and how it ended.
Leaves(r, how, e) ==
    LET before == r.start[r.run.server]
        asBefore == {before, Renewed(before)}
    IN IF how = "failed" \/ r.run.command = "request" THEN e \in asBefore
       ELSE CASE r.run.command = "logout" -> TRUE
              [] r.run.command = "org" -> \E x \in asBefore : e = [x EXCEPT !.org = <<e.token, "chosen">>]
              [] r.run.command = "group" -> \E x \in asBefore : e = [x EXCEPT !.group = "chosen"]
              [] r.run.command = "login" ->
                    /\ {e.token, e.secret} = {r.run.account} /\ e.org = <<r.run.account, "last">>
                    /\ r.tries = 0 => e.orgs = r.run.account

(* A command during which nobody else wrote the file leaves in it what its       *)
(* message says (login.go, logout.go, org.go, group.go): its own entry changed   *)
(* as it was asked to, or as it was, at most renewed; the entries of all other   *)
(* servers as it found them; and after a logout no file.  Every one of them      *)
(* saves a whole configuration that was read earlier, some after replacing it.   *)
Isolated ==
    [][\A p \in Processes :
          LET r == session[p]
              how == session'[p].pc
          IN Busy(r) /\ r.alone /\ how \in {"done", "failed"} =>
                IF r.run.command = "logout" /\ how = "done" THEN config' = Gone
                ELSE /\ config' # Garbled
                     /\ Leaves(r, how, Load(config')[r.run.server])
                     /\ \A s \in Servers \ {r.run.server} : Load(config')[s] = r.start[s]
      ]_sessionVars

=============================================================================
