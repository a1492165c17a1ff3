------------------------------- MODULE SecureAPI -------------------------------
(***************************************************************************)
(* galaxy docker secure-api (cmd/docker/secure_api.go): apply replaces the *)
(* certificates, daemon.json and a systemd drop-in, restarts Docker,       *)
(* verifies it, and puts everything back when a step fails.  The command   *)
(* may be interrupted anywhere, the host may reboot, and the operator may  *)
(* start the command again.                                                *)
(*                                                                         *)
(* The content of daemon.json is reduced to its listeners and to whether   *)
(* it turns mutual TLS on with the certificates of the command, the        *)
(* certificate directory to the CA, the server and the client part.        *)
(***************************************************************************)
EXTENDS Naturals

CONSTANTS
    Absent,       \* a file or directory that does not exist
    Broken,       \* a daemon.json that is not valid JSON
    Down,         \* dockerd does not run
    MaxRuns       \* how often the command is started

VARIABLES
    disk,         \* the files the command changes
    docker,       \* the configuration dockerd runs with
    flags,        \* the -H flags of docker.service: where they come from
    loopback,     \* --listen-address covers 127.0.0.1
    applyStep,    \* the next step of apply
    restarting,   \* apply has come to the restart: ~ o.noRestart and step 5
    backup,       \* configurationBackup of this run
    outcome,      \* what the run has reported
    runs,         \* runs so far; also the generation of the certificates
    backups,      \* history: what every completed backup directory holds
    original,     \* history: disk before the first run
    before,       \* history: disk when this run began
    wasUp,        \* history: dockerd ran when this run began
    lost          \* history: a restore of this run failed

historyVars == <<backups, original, before, wasUp, lost>>
hostVars == <<disk, docker, flags, loopback>>
secureVars == <<hostVars, applyStep, restarting, backup, outcome, runs, historyVars>>

Host == {"sock", "plain2375", "tls2376", "other"}
CertFile == {"ca", "server", "client"}
Generation == 0..MaxRuns

Daemon == [hosts : SUBSET Host, tls : BOOLEAN]
Certificates == [CertFile -> Generation \union {Absent}]
Disk == [daemon : Daemon \union {Absent, Broken},
         dropIn : {Absent, "clean"},
         certs  : Certificates \union {Absent},
         linked : BOOLEAN]
Running == [hosts : SUBSET Host, tls : BOOLEAN,
            certificate : Generation \union {Absent}]

\* What is absent has no content, and a dockerd that is down no configuration.
ASSUME SecureAssumption ==
    /\ MaxRuns \in Nat
    /\ Absent \notin Daemon \union Certificates
    /\ Down \notin Running

Step == {"idle", "backup", "clear", "install", "daemon", "dropIn", "restart",
         "verify", "undoDaemon", "undoDropIn", "undoCerts", "copyCerts", "undone"}

SecureTypeOK ==
    /\ disk \in Disk
    /\ docker \in Running \union {Down}
    /\ flags \in {"none", "unit", "override"}
    /\ loopback \in BOOLEAN
    /\ applyStep \in Step
    /\ restarting \in BOOLEAN
    /\ backup \in Disk \union {Absent}
    /\ outcome \in {"none", "refused", "stopped", "written", "verified",
                    "rolledBack", "rollbackFailed", "killed"}
    /\ runs \in 0..MaxRuns
    /\ backups \in SUBSET Disk
    /\ original \in Disk /\ before \in Disk
    /\ wasUp \in BOOLEAN /\ lost \in BOOLEAN

-----------------------------------------------------------------------------
(* dockerd under systemd.                                                  *)

NoHosts == [hosts |-> {}, tls |-> FALSE]

\* What daemon.json says; a missing file says nothing.
Settings(d) == IF d.daemon = Absent THEN NoHosts ELSE d.daemon

\* -H flags reach dockerd unless the drop-in of the command replaces ExecStart.
\* A drop-in that sorts after it (systemctl edit writes override.conf) wins.
Flagged(d) == flags = "override" \/ (flags = "unit" /\ d.dropIn = Absent)

\* dockerd starts with valid JSON, listeners from one place only, and the
\* certificates it is told to use.
Startable(d) ==
    /\ d.daemon # Broken
    /\ ~ (Flagged(d) /\ Settings(d).hosts # {})
    /\ Settings(d).tls =>
         /\ d.certs # Absent
         /\ d.certs["ca"] # Absent /\ d.certs["server"] # Absent

\* What a (re)start of dockerd makes of the files d.
Started(d) ==
    IF ~ Startable(d) THEN Down
    ELSE [hosts |-> IF Flagged(d) THEN {"sock", "plain2375"}
                    ELSE IF Settings(d).hosts = {} THEN {"sock"}
                    ELSE Settings(d).hosts,
          tls |-> Settings(d).tls,
          certificate |-> IF Settings(d).tls THEN d.certs["server"] ELSE Absent]

NoFiles == [f \in CertFile |-> Absent]

\* A host with its listeners in the unit, in daemon.json or nowhere, perhaps
\* secured before, perhaps with a daemon.json that nobody has loaded yet.
SecureInit ==
    /\ flags \in {"none", "unit", "override"}
    /\ loopback \in BOOLEAN
    /\ \/ \E d \in {Absent, Broken, NoHosts,
                    [hosts |-> {"sock", "plain2375", "other"}, tls |-> FALSE]} :
             disk = [daemon |-> d, dropIn |-> Absent, certs |-> Absent, linked |-> FALSE]
       \/ \E h \in BOOLEAN :
             disk = [daemon |-> [hosts |-> {"sock", "tls2376"}, tls |-> TRUE],
                     dropIn |-> IF flags = "none" THEN Absent ELSE "clean",
                     certs |-> [f \in CertFile |-> 0], linked |-> h]
    /\ docker \in {Started(disk), Started([disk EXCEPT !.daemon = Absent])}
    /\ applyStep = "idle"
    /\ restarting = FALSE
    /\ backup = Absent
    /\ outcome = "none"
    /\ runs = 0
    /\ backups = {}
    /\ original = disk /\ before = disk
    /\ wasUp = FALSE /\ lost = FALSE

-----------------------------------------------------------------------------
(* The steps of apply.                                                     *)

Return(o) ==
    /\ applyStep' = "idle"
    /\ outcome' = o

\* validate and generateCertificates: an existing directory needs --force, and
\* nothing but a staging directory has been written when one of them fails.
Run ==
    /\ applyStep = "idle"
    /\ runs < MaxRuns
    /\ runs' = runs + 1
    /\ before' = disk
    /\ wasUp' = (docker # Down)
    /\ lost' = FALSE
    /\ restarting' = FALSE
    /\ backup' = Absent
    /\ \/ applyStep' = "backup" /\ outcome' = "none"
       \/ disk.certs # Absent /\ Return("refused")
       \/ Return("stopped")
    /\ UNCHANGED <<hostVars, backups, original>>

\* What createBackup copies: filepath.Walk does not follow a certificate
\* directory that is a symbolic link, so nothing of it is copied.
Copied(d) == IF d.linked THEN [d EXCEPT !.certs = NoFiles] ELSE d

\* Variant for the mutation runs: the backup directory has a fixed name.
CreateBackupInPlace ==
    /\ applyStep = "backup"
    /\ backup' = Copied(disk)
    /\ backups' = {Copied(disk)}
    /\ applyStep' = "clear"
    /\ UNCHANGED <<hostVars, restarting, outcome, runs, original, before, wasUp, lost>>

\* createBackup, into a directory named after the time and the process.
CreateBackup ==
    /\ applyStep = "backup"
    /\ \/ /\ backup' = Copied(disk)
          /\ backups' = backups \union {Copied(disk)}
          /\ applyStep' = "clear"
          /\ UNCHANGED outcome
       \/ Return("stopped") /\ UNCHANGED <<backup, backups>>
    /\ UNCHANGED <<hostVars, restarting, runs, original, before, wasUp, lost>>

\* The part of the certificates that a RemoveAll or a copy leaves when it fails.
Part(certs, F) ==
    IF certs = Absent THEN Absent
    ELSE [f \in CertFile |-> IF f \in F THEN certs[f] ELSE Absent]

\* installCertificates removes the old directory, or the link to it ...
ClearCertificates ==
    /\ applyStep = "clear"
    /\ \/ /\ disk' = [disk EXCEPT !.certs = NoFiles, !.linked = FALSE]
          /\ applyStep' = "install"
       \/ /\ \/ disk' = [disk EXCEPT !.certs = Absent, !.linked = FALSE]
             \/ \E F \in SUBSET CertFile : ~ disk.linked
                  /\ disk' = [disk EXCEPT !.certs = Part(disk.certs, F)]
             \/ UNCHANGED disk
          /\ applyStep' = "undoDaemon"
    /\ UNCHANGED <<docker, flags, loopback, restarting, backup, outcome, runs, historyVars>>

\* ... and copies the server files, in the order of a Go map, before those of
\* the client.
InstallCertificate(f) ==
    /\ applyStep = "install"
    /\ disk.certs[f] = Absent
    /\ f = "client" => disk.certs["ca"] # Absent /\ disk.certs["server"] # Absent
    /\ \/ /\ disk' = [disk EXCEPT !.certs[f] = runs]
          /\ applyStep' = IF f = "client" THEN "daemon" ELSE "install"
       \/ applyStep' = "undoDaemon" /\ UNCHANGED disk
    /\ UNCHANGED <<docker, flags, loopback, restarting, backup, outcome, runs, historyVars>>

\* Variant for the mutation runs: the plain listener is not filtered out.
MergedKeepingPlain(d) ==
    [hosts |-> (d.hosts \ {"sock", "tls2376"}) \union {"sock", "tls2376"}, tls |-> TRUE]

\* The listeners are filtered and completed; foreign ones are kept.
Merged(d) ==
    [hosts |-> (d.hosts \ {"sock", "plain2375", "tls2376"}) \union {"sock", "tls2376"},
     tls |-> TRUE]

\* Variant for the mutation runs: a failed validation returns at once.
ConfigureDaemonInPlace ==
    /\ applyStep = "daemon"
    /\ disk.daemon # Broken
    /\ disk' = [disk EXCEPT !.daemon = Merged(Settings(disk))]
    /\ \/ applyStep' = "dropIn" /\ UNCHANGED outcome
       \/ Return("stopped")
    /\ UNCHANGED <<docker, flags, loopback, restarting, backup, runs, historyVars>>

\* configureDockerDaemon: dockerd --validate looks at the file already replaced.
ConfigureDaemon ==
    /\ applyStep = "daemon"
    /\ \/ /\ disk.daemon # Broken
          /\ disk' = [disk EXCEPT !.daemon = Merged(Settings(disk))]
          /\ applyStep' \in {"dropIn", "undoDaemon"}
       \/ applyStep' = "undoDaemon" /\ UNCHANGED disk
    /\ UNCHANGED <<docker, flags, loopback, restarting, backup, outcome, runs, historyVars>>

\* configureSystemdOverride writes a drop-in for flags it sees, and rewrites one
\* that is there; o.noRestart returns after it.
ConfigureOverride ==
    /\ applyStep = "dropIn"
    /\ \/ /\ disk' = IF Flagged(disk) \/ disk.dropIn # Absent
                       THEN [disk EXCEPT !.dropIn = "clean"] ELSE disk
          /\ \/ applyStep' = "restart" /\ restarting' = TRUE /\ UNCHANGED outcome
             \/ Return("written") /\ UNCHANGED restarting
       \/ /\ applyStep' = "undoDaemon"
          /\ UNCHANGED <<disk, restarting, outcome>>
    /\ UNCHANGED <<docker, flags, loopback, backup, runs, historyVars>>

\* restartDocker: daemon-reload fails and dockerd goes on, or dockerd is stopped
\* and comes up with the new files or not at all.
RestartDocker ==
    /\ applyStep = "restart"
    /\ \/ docker' = docker /\ applyStep' = "undoDaemon"
       \/ docker' = Down /\ applyStep' = "undoDaemon"
       \/ /\ Startable(disk)
          /\ docker' = Started(disk)
          /\ applyStep' = "verify"
    /\ UNCHANGED <<disk, flags, loopback, restarting, backup, outcome, runs, historyVars>>

\* verifyDockerAPI dials 127.0.0.1:2376 with the client certificate on disk.
VerifyDockerAPI ==
    /\ applyStep = "verify"
    /\ \/ /\ loopback
          /\ docker.tls /\ "tls2376" \in docker.hosts
          /\ disk.certs["client"] = docker.certificate
          /\ Return("verified")
       \/ applyStep' = "undoDaemon" /\ UNCHANGED outcome
    /\ UNCHANGED <<hostVars, restarting, backup, runs, historyVars>>

-----------------------------------------------------------------------------
(* restore and rollbackAndRestart.                                         *)

\* A restore that fails is reported by the rollback only; the earlier steps drop
\* its error.
GiveUp ==
    /\ Return(IF restarting THEN "rollbackFailed" ELSE "stopped")
    /\ lost' = TRUE

RestoreDaemon ==
    /\ applyStep = "undoDaemon"
    /\ \/ /\ disk' = [disk EXCEPT !.daemon = backup.daemon]
          /\ applyStep' = "undoDropIn"
          /\ UNCHANGED <<outcome, lost>>
       \/ GiveUp /\ UNCHANGED disk
    /\ UNCHANGED <<docker, flags, loopback, restarting, backup, runs, backups,
                   original, before, wasUp>>

\* Variant for the mutation runs: a drop-in that was not there before stays.
RestoreDropInIfExisted ==
    /\ applyStep = "undoDropIn"
    /\ disk' = IF backup.dropIn = Absent THEN disk ELSE [disk EXCEPT !.dropIn = backup.dropIn]
    /\ applyStep' = "undoCerts"
    /\ UNCHANGED <<docker, flags, loopback, restarting, backup, outcome, runs, historyVars>>

RestoreDropIn ==
    /\ applyStep = "undoDropIn"
    /\ \/ /\ disk' = [disk EXCEPT !.dropIn = backup.dropIn]
          /\ applyStep' = "undoCerts"
          /\ UNCHANGED <<outcome, lost>>
       \/ GiveUp /\ UNCHANGED disk
    /\ UNCHANGED <<docker, flags, loopback, restarting, backup, runs, backups,
                   original, before, wasUp>>

\* The new directory is removed; apply is done with the files if there was none.
RestoreClear ==
    /\ applyStep = "undoCerts"
    /\ \/ /\ disk' = [disk EXCEPT !.certs = Absent, !.linked = FALSE]
          /\ IF backup.certs # Absent THEN applyStep' = "copyCerts" /\ UNCHANGED outcome
             ELSE IF restarting THEN applyStep' = "undone" /\ UNCHANGED outcome
             ELSE Return("stopped")
          /\ UNCHANGED lost
       \/ /\ GiveUp
          /\ \E F \in SUBSET CertFile :
                disk' = IF disk.linked THEN disk
                        ELSE [disk EXCEPT !.certs = Part(disk.certs, F)]
    /\ UNCHANGED <<docker, flags, loopback, restarting, backup, runs, backups,
                   original, before, wasUp>>

\* copyDirectory of the backup, which fails when nothing was copied into it.
RestoreCopy ==
    /\ applyStep = "copyCerts"
    /\ \/ /\ ~ backup.linked
          /\ disk' = [disk EXCEPT !.certs = backup.certs]
          /\ IF restarting THEN applyStep' = "undone" /\ UNCHANGED outcome
             ELSE Return("stopped")
          /\ UNCHANGED lost
       \/ /\ GiveUp
          /\ \E F \in SUBSET CertFile :
                disk' = [disk EXCEPT !.certs =
                           IF backup.linked THEN Absent ELSE Part(backup.certs, F)]
    /\ UNCHANGED <<docker, flags, loopback, restarting, backup, runs, backups,
                   original, before, wasUp>>

\* Variant for the mutation runs: the result of the second restart is dropped.
RestartRestoredUnseen ==
    /\ applyStep = "undone"
    /\ docker' \in {Down, Started(disk)}
    /\ Return("rolledBack")
    /\ UNCHANGED <<disk, flags, loopback, restarting, backup, runs, historyVars>>

\* daemon-reload and restart with the restored files.  systemd may refuse a
\* restart so soon after the failed one.
RestartRestored ==
    /\ applyStep = "undone"
    /\ \/ docker' \in {docker, Down} /\ Return("rollbackFailed")
       \/ /\ Startable(disk)
          /\ docker' = Started(disk)
          /\ Return("rolledBack")
    /\ UNCHANGED <<disk, flags, loopback, restarting, backup, runs, historyVars>>

-----------------------------------------------------------------------------
\* The command is interrupted; nothing in it handles a signal.
Kill ==
    /\ applyStep # "idle"
    /\ Return("killed")
    /\ UNCHANGED <<hostVars, restarting, backup, runs, historyVars>>

\* The host reboots, between two runs or in the middle of one.
Reboot ==
    /\ docker' = Started(disk)
    /\ IF applyStep = "idle" THEN UNCHANGED <<applyStep, outcome>> ELSE Return("killed")
    /\ UNCHANGED <<disk, flags, loopback, restarting, backup, runs, historyVars>>

Apply ==
    \/ CreateBackup \/ ClearCertificates
    \/ \E f \in CertFile : InstallCertificate(f)
    \/ ConfigureDaemon \/ ConfigureOverride \/ RestartDocker \/ VerifyDockerAPI

Rollback ==
    RestoreDaemon \/ RestoreDropIn \/ RestoreClear \/ RestoreCopy \/ RestartRestored

SecureNext == Run \/ Apply \/ Rollback \/ Kill \/ Reboot

SecureSpec == SecureInit /\ [][SecureNext]_secureVars

-----------------------------------------------------------------------------
(* Properties.                                                             *)

Finished(o) == applyStep = "idle" /\ outcome = o

\* "已自动恢复原配置": after a rollback that is reported as complete every file is
\* what it was, and dockerd runs with it.  A run that stops before the restart
\* leaves every file as it was as well, unless its restore failed too (an error
\* that apply drops).
RestoredIsOriginal ==
    /\ Finished("rolledBack") => disk = before /\ docker = Started(before)
    /\ Finished("stopped") /\ ~ lost => disk = before

\* The files from before the first run are in place or in a backup directory,
\* whatever interrupts the command and however often it is run: "在修改前创建
\* 完整备份".  Not true of a certificate directory that is a symbolic link.
OriginalRecoverable ==
    ~ original.linked => disk = original \/ original \in backups

\* A run that reports success leaves dockerd, now and after a reboot, with
\* mutual TLS, without the listener 2375, with the foreign listeners it had in
\* daemon.json, and with the certificates that the client bundle on disk fits.
VerifiedMeansSecure ==
    Finished("verified") =>
        /\ docker = Started(disk)
        /\ docker.tls
        /\ "plain2375" \notin docker.hosts
        /\ "other" \in Settings(before).hosts => "other" \in docker.hosts
        /\ disk.certs["client"] = docker.certificate

\* A run that began with dockerd up does not leave it down unless it says that
\* the rollback failed, and never touches it without reaching the restart.
DownIsReported ==
    [][applyStep # "idle" /\ applyStep' = "idle" /\ wasUp /\ docker' = Down
         => outcome' \in {"rollbackFailed", "killed"}]_secureVars

=============================================================================
