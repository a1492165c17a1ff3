-------------------------- MODULE DockerCommandProofs --------------------------
(***************************************************************************)
(* Two commands that change a Docker host.                                 *)
(*                                                                         *)
(* secure-api (SecureAPI) keeps what it promises, wherever it is           *)
(* interrupted and however often it is started: RestoredIsOriginal,        *)
(* OriginalRecoverable, VerifiedMeansSecure and DownIsReported, for every  *)
(* number of runs.  The properties speak of finished runs.  Progress says  *)
(* what the files are at each step of a run in terms of the files it began *)
(* with, and Recorded what those are in terms of the files before the      *)
(* first run.                                                              *)
(*                                                                         *)
(* The check of a migration (MigrationPlan), for any cluster, any projects *)
(* and any containers.  It goes on after a failure, so nothing can be said *)
(* of the file once one was seen; Course says what the file is as long as  *)
(* there was none.                                                         *)
(***************************************************************************)
EXTENDS SecureAPI, MigrationPlan, TLAPS

-----------------------------------------------------------------------------
(* secure-api.                                                             *)

\* Every certificate on disk is of this run.
AllOfThisRun == \A f \in CertFile : disk.certs[f] = runs

\* The files at each step of apply ...
Advancing ==
    /\ applyStep \in {"backup", "clear"} => disk = before
    /\ applyStep \in {"install", "daemon"} =>
          disk.daemon = before.daemon /\ disk.dropIn = before.dropIn
    /\ applyStep \in {"install", "daemon", "dropIn", "restart", "verify"} =>
          disk.certs \in Certificates /\ ~ disk.linked
    /\ applyStep = "install" =>
          /\ disk.certs["client"] = Absent
          /\ \A f \in CertFile : disk.certs[f] \in {Absent, runs}
    /\ applyStep \in {"daemon", "dropIn", "restart", "verify"} => AllOfThisRun
    /\ applyStep \in {"dropIn", "restart", "verify"} =>
          disk.daemon = Merged(Settings(before)) /\ disk.daemon \in Daemon
    /\ applyStep = "verify" => Startable(disk) /\ docker = Started(disk)

\* ... and of the restore.
Returning ==
    /\ applyStep \in {"undoDropIn", "undoCerts", "copyCerts"} => disk.daemon = before.daemon
    /\ applyStep \in {"undoCerts", "copyCerts"} => disk.dropIn = before.dropIn
    /\ applyStep = "copyCerts" => ~ disk.linked /\ backup.certs # Absent
    /\ applyStep = "undone" => disk = before

\* The backup of this run, and whether the restart was reached.
Backed ==
    /\ applyStep \notin {"idle", "backup"} => backup = Copied(before) /\ backup \in backups
    /\ applyStep \in {"backup", "clear", "install", "daemon", "dropIn"} => ~ restarting
    /\ applyStep \in {"restart", "verify", "undone"} => restarting
    /\ applyStep # "idle" /\ ~ restarting /\ wasUp => docker # Down

\* What a finished run leaves.
Concluded ==
    /\ Finished("rolledBack") => disk = before /\ docker = Started(before)
    /\ Finished("stopped") /\ ~ lost => disk = before
    /\ Finished("verified") =>
          /\ Startable(disk) /\ docker = Started(disk)
          /\ disk.daemon = Merged(Settings(before)) /\ disk.daemon \in Daemon
          /\ disk.certs \in Certificates /\ AllOfThisRun

\* Where the files from before the first run are.
Recorded ==
    ~ original.linked =>
        /\ disk = original \/ original \in backups
        /\ before = original \/ original \in backups

\* A link leads somewhere.
Linked(d) == d.linked => d.certs # Absent

SecureSound ==
    /\ Advancing
    /\ Returning
    /\ Backed
    /\ Concluded
    /\ Recorded
    /\ Linked(disk) /\ Linked(before)
-----------------------------------------------------------------------------
(* Files and configurations.                                               *)

\* A disk is its four parts.
LEMMA DiskParts ==
    ASSUME NEW d \in Disk
    PROVE  /\ d.daemon \in Daemon \union {Absent, Broken}
           /\ d.dropIn \in {Absent, "clean"}
           /\ d.certs \in Certificates \union {Absent}
           /\ d.linked \in BOOLEAN
           /\ \A e \in Disk :
                 d.daemon = e.daemon /\ d.dropIn = e.dropIn /\ d.certs = e.certs /\ d.linked = e.linked
                    => d = e
<1>1. \A e \in Disk : e = [daemon |-> e.daemon, dropIn |-> e.dropIn,
                          certs |-> e.certs, linked |-> e.linked]
  BY DEF Disk
<1>2. /\ d.daemon \in Daemon \union {Absent, Broken}
      /\ d.dropIn \in {Absent, "clean"}
      /\ d.certs \in Certificates \union {Absent}
      /\ d.linked \in BOOLEAN
  BY DEF Disk
<1>3. ASSUME NEW e \in Disk, d.daemon = e.daemon, d.dropIn = e.dropIn,
             d.certs = e.certs, d.linked = e.linked
      PROVE  d = e
  <2>1. d = [daemon |-> e.daemon, dropIn |-> e.dropIn, certs |-> e.certs, linked |-> e.linked]
    BY <1>1, <1>3
  <2>2. QED
    BY <1>1, <2>1
<1>4. QED
  BY <1>2, <1>3

\* Replacing a part of a disk replaces that part, and no other.
LEMMA DiskChanges ==
    ASSUME NEW d \in Disk
    PROVE  /\ \A x \in Daemon \union {Absent, Broken} :
                 LET e == [d EXCEPT !.daemon = x] IN
                 /\ e \in Disk /\ e.daemon = x /\ e.dropIn = d.dropIn
                 /\ e.certs = d.certs /\ e.linked = d.linked
           /\ \A x \in {Absent, "clean"} :
                 LET e == [d EXCEPT !.dropIn = x] IN
                 /\ e \in Disk /\ e.daemon = d.daemon /\ e.dropIn = x
                 /\ e.certs = d.certs /\ e.linked = d.linked
           /\ \A x \in Certificates \union {Absent} :
                 LET e == [d EXCEPT !.certs = x] IN
                 /\ e \in Disk /\ e.daemon = d.daemon /\ e.dropIn = d.dropIn
                 /\ e.certs = x /\ e.linked = d.linked
           /\ \A x \in Certificates \union {Absent} :
                 LET e == [d EXCEPT !.certs = x, !.linked = FALSE] IN
                 /\ e \in Disk /\ e.daemon = d.daemon /\ e.dropIn = d.dropIn
                 /\ e.certs = x /\ e.linked = FALSE
<1>1. d \in [daemon : Daemon \union {Absent, Broken}, dropIn : {Absent, "clean"},
            certs : Certificates \union {Absent}, linked : BOOLEAN]
  BY DEF Disk
<1>2. ASSUME NEW x \in Daemon \union {Absent, Broken}
      PROVE  LET e == [d EXCEPT !.daemon = x] IN
             /\ e \in Disk /\ e.daemon = x /\ e.dropIn = d.dropIn
             /\ e.certs = d.certs /\ e.linked = d.linked
  BY <1>1 DEF Disk
<1>3. ASSUME NEW x \in {Absent, "clean"}
      PROVE  LET e == [d EXCEPT !.dropIn = x] IN
             /\ e \in Disk /\ e.daemon = d.daemon /\ e.dropIn = x
             /\ e.certs = d.certs /\ e.linked = d.linked
  BY <1>1 DEF Disk
<1>4. ASSUME NEW x \in Certificates \union {Absent}
      PROVE  LET e == [d EXCEPT !.certs = x] IN
             /\ e \in Disk /\ e.daemon = d.daemon /\ e.dropIn = d.dropIn
             /\ e.certs = x /\ e.linked = d.linked
  BY <1>1 DEF Disk
<1>5. ASSUME NEW x \in Certificates \union {Absent}
      PROVE  LET e == [d EXCEPT !.certs = x, !.linked = FALSE] IN
             /\ e \in Disk /\ e.daemon = d.daemon /\ e.dropIn = d.dropIn
             /\ e.certs = x /\ e.linked = FALSE
  BY <1>1 DEF Disk
<1>6. QED
  BY <1>2, <1>3, <1>4, <1>5

\* No certificates, some of the certificates and one more certificate are
\* certificates.
LEMMA CertificateParts ==
    /\ NoFiles \in Certificates
    /\ \A F \in SUBSET CertFile, c \in Certificates \union {Absent} :
          Part(c, F) \in Certificates \union {Absent}
    /\ \A c \in Certificates, f \in CertFile, g \in Generation :
          [c EXCEPT ![f] = g] \in Certificates
BY DEF NoFiles, Certificates, Part

\* A backup is a disk; it is the original but for what a link led to.
LEMMA CopiedParts ==
    ASSUME NEW d \in Disk
    PROVE  /\ Copied(d) \in Disk
           /\ Copied(d).daemon = d.daemon /\ Copied(d).dropIn = d.dropIn
           /\ Copied(d).linked = d.linked
           /\ d.linked => Copied(d).certs = NoFiles
           /\ ~ d.linked => Copied(d) = d
<1>1. NoFiles \in Certificates \union {Absent}
  BY CertificateParts
<1>2. CASE d.linked
  <2> DEFINE e == [d EXCEPT !.certs = NoFiles]
  <2>1. /\ e \in Disk /\ e.daemon = d.daemon /\ e.dropIn = d.dropIn
        /\ e.certs = NoFiles /\ e.linked = d.linked
    BY <1>1, DiskChanges, Zenon
  <2>2. Copied(d) = e
    BY <1>2 DEF Copied
  <2>3. QED
    BY <1>2, <2>1, <2>2
<1>3. CASE ~ d.linked
  BY <1>3 DEF Copied
<1>4. QED
  BY <1>2, <1>3

\* What daemon.json says is a configuration, unless it is broken; so is what
\* the command makes of it, which has no plain listener.
LEMMA SettingsTypes ==
    ASSUME NEW d \in Disk
    PROVE  /\ d.daemon # Broken => Settings(d) \in Daemon /\ Merged(Settings(d)) \in Daemon
           /\ Merged(Settings(d)).tls = TRUE
           /\ {"sock", "tls2376"} \subseteq Merged(Settings(d)).hosts
           /\ "plain2375" \notin Merged(Settings(d)).hosts
           /\ "other" \in Settings(d).hosts => "other" \in Merged(Settings(d)).hosts
<1>1. NoHosts \in Daemon
  BY DEF NoHosts, Daemon, Host
<1>2. d.daemon # Broken => Settings(d) \in Daemon
  BY <1>1, DiskParts DEF Settings
<1>3. \A m \in Daemon : Merged(m) \in Daemon
  BY DEF Merged, Daemon, Host
<1>4. QED
  BY <1>2, <1>3 DEF Merged

\* What dockerd is started with is a configuration it runs with, or it is down.
LEMMA StartedTypes ==
    ASSUME NEW d \in Disk
    PROVE  /\ Started(d) \in Running \union {Down}
           /\ Startable(d) => Started(d) \in Running /\ Started(d) # Down
<1>1. CASE ~ Startable(d)
  BY <1>1 DEF Started
<1>2. CASE Startable(d)
  <2>1. Settings(d) \in Daemon
    BY <1>2, SettingsTypes DEF Startable
  <2>2. Settings(d).hosts \in SUBSET Host /\ Settings(d).tls \in BOOLEAN
    BY <2>1 DEF Daemon
  <2>3. Settings(d).tls => d.certs["server"] \in Generation \union {Absent}
    BY <1>2, DiskParts DEF Startable, Certificates, CertFile
  <2>4. Started(d) \in Running
    BY <1>2, <2>2, <2>3 DEF Started, Running, Host
  <2>5. QED
    BY <2>4, SecureAssumption
<1>3. QED
  BY <1>1, <1>2

-----------------------------------------------------------------------------
(* Types.                                                                  *)

\* The backup a run restores from is the disk the run began with, but for what
\* a link led to.
LEMMA BackupParts ==
    ASSUME SecureTypeOK, SecureSound, applyStep \notin {"idle", "backup"}
    PROVE  /\ backup \in Disk /\ backup \in backups
           /\ backup.daemon = before.daemon /\ backup.dropIn = before.dropIn
           /\ backup.linked = before.linked
           /\ before.linked => backup.certs = NoFiles
           /\ ~ before.linked => backup = before
<1>1. before \in Disk /\ backup = Copied(before) /\ backup \in backups
  BY DEF SecureTypeOK, SecureSound, Backed
<1>2. QED
  BY <1>1, CopiedParts

\* The files stay files under every step of apply and of the restore.
LEMMA DiskTypes ==
    ASSUME SecureTypeOK, SecureSound, SecureNext
    PROVE  disk' \in Disk
<1>0. /\ disk \in Disk /\ runs \in Generation
      /\ disk.certs \in Certificates \union {Absent}
  BY DiskParts DEF SecureTypeOK, Generation
<1>1. CASE ClearCertificates
  <2>1. NoFiles \in Certificates \union {Absent} /\ Absent \in Certificates \union {Absent}
    BY CertificateParts
  <2>2. \A F \in SUBSET CertFile : Part(disk.certs, F) \in Certificates \union {Absent}
    BY <1>0, CertificateParts
  <2>3. QED
    BY <1>0, <1>1, <2>1, <2>2 DEF ClearCertificates, Disk
<1>2. ASSUME NEW f \in CertFile, InstallCertificate(f)
      PROVE  disk' \in Disk
  <2>1. disk.certs \in Certificates
    BY <1>2 DEF InstallCertificate, SecureSound, Advancing
  <2> DEFINE c == [disk.certs EXCEPT ![f] = runs]
  <2>2. c \in Certificates \union {Absent}
    BY <1>0, <2>1, CertificateParts
  <2>3. [disk EXCEPT !.certs[f] = runs] = [disk EXCEPT !.certs = c]
    BY <1>0 DEF Disk
  <2>4. [disk EXCEPT !.certs = c] \in Disk
    BY <1>0, <2>2, DiskChanges
  <2>5. QED
    BY <1>0, <1>2, <2>3, <2>4 DEF InstallCertificate
<1>3. CASE ConfigureDaemon
  <2>1. disk.daemon # Broken => Merged(Settings(disk)) \in Daemon \union {Absent, Broken}
    BY <1>0, SettingsTypes
  <2>2. QED
    BY <1>0, <1>3, <2>1 DEF ConfigureDaemon, Disk
<1>4. CASE ConfigureOverride
  BY <1>0, <1>4, DiskChanges DEF ConfigureOverride
<1>5. CASE RestoreDaemon \/ RestoreDropIn
  <2>1. backup \in Disk
    BY <1>5, BackupParts DEF RestoreDaemon, RestoreDropIn
  <2>2. backup.daemon \in Daemon \union {Absent, Broken} /\ backup.dropIn \in {Absent, "clean"}
    BY <2>1, DiskParts
  <2>3. QED
    BY <1>0, <1>5, <2>2 DEF RestoreDaemon, RestoreDropIn, Disk
<1>6. CASE RestoreClear
  <2>1. \A F \in SUBSET CertFile : Part(disk.certs, F) \in Certificates \union {Absent}
    BY <1>0, CertificateParts
  <2>2. QED
    BY <1>0, <1>6, <2>1 DEF RestoreClear, Disk
<1>7. CASE RestoreCopy
  <2>1. backup \in Disk
    BY <1>7, BackupParts DEF RestoreCopy
  <2>2. backup.certs \in Certificates \union {Absent}
    BY <2>1, DiskParts
  <2>3. \A F \in SUBSET CertFile : Part(backup.certs, F) \in Certificates \union {Absent}
    BY <2>2, CertificateParts
  <2>4. QED
    BY <1>0, <1>7, <2>2, <2>3 DEF RestoreCopy, Disk
<1>8. CASE Run \/ CreateBackup \/ RestartDocker \/ VerifyDockerAPI \/ RestartRestored \/ Kill \/ Reboot
  BY <1>0, <1>8 DEF Run, CreateBackup, RestartDocker, VerifyDockerAPI, RestartRestored, Kill, Reboot,
     hostVars
<1>9. QED
  BY <1>1, <1>2, <1>3, <1>4, <1>5, <1>6, <1>7, <1>8 DEF SecureNext, Apply, Rollback

\* Every variable of the command keeps its type.
LEMMA SecureTypeKept ==
    ASSUME SecureTypeOK, SecureSound, [SecureNext]_secureVars
    PROVE  SecureTypeOK'
<1>1. CASE UNCHANGED secureVars
  BY <1>1 DEF secureVars, hostVars, historyVars, SecureTypeOK
<1>2. CASE SecureNext
  <2>1. disk' \in Disk
    BY <1>2, DiskTypes
  <2>2. docker' \in Running \union {Down}
    <3>1. Started(disk) \in Running \union {Down}
      BY StartedTypes DEF SecureTypeOK
    <3>2. docker' \in {docker, Down, Started(disk)}
      BY <1>2 DEF SecureNext, Apply, Rollback, Run, CreateBackup, ClearCertificates,
         InstallCertificate, ConfigureDaemon, ConfigureOverride, RestartDocker, VerifyDockerAPI,
         RestoreDaemon, RestoreDropIn, RestoreClear, RestoreCopy, RestartRestored, Kill, Reboot, hostVars
    <3>3. QED
      BY <3>1, <3>2 DEF SecureTypeOK
  <2>3. flags' = flags /\ loopback' = loopback /\ original' = original
    BY <1>2 DEF SecureNext, Apply, Rollback, Run, CreateBackup, ClearCertificates,
       InstallCertificate, ConfigureDaemon, ConfigureOverride, RestartDocker, VerifyDockerAPI,
       RestoreDaemon, RestoreDropIn, RestoreClear, RestoreCopy, RestartRestored, Kill, Reboot,
       hostVars, historyVars
  <2>4. /\ before' \in {before, disk}
        /\ runs' = runs \/ (runs < MaxRuns /\ runs' = runs + 1)
        /\ backup' \in {backup, Absent, Copied(disk)}
        /\ backups' = backups \/ backups' = backups \union {Copied(disk)}
    BY <1>2 DEF SecureNext, Apply, Rollback, Run, CreateBackup, ClearCertificates,
       InstallCertificate, ConfigureDaemon, ConfigureOverride, RestartDocker, VerifyDockerAPI,
       RestoreDaemon, RestoreDropIn, RestoreClear, RestoreCopy, RestartRestored, Kill, Reboot,
       hostVars, historyVars
  <2>5. /\ before' \in Disk /\ backup' \in Disk \union {Absent} /\ backups' \in SUBSET Disk
        /\ runs' \in 0..MaxRuns
    <3>1. Copied(disk) \in Disk
      BY CopiedParts DEF SecureTypeOK
    <3>2. QED
      BY <2>4, <3>1, SecureAssumption DEF SecureTypeOK
  <2>6. restarting' \in BOOLEAN /\ wasUp' \in BOOLEAN /\ lost' \in BOOLEAN
    <3>1. /\ restarting' \in {restarting, TRUE, FALSE}
          /\ wasUp' \in {wasUp, docker # Down}
          /\ lost' \in {lost, TRUE, FALSE}
      BY <1>2 DEF SecureNext, Apply, Rollback, Run, CreateBackup, ClearCertificates,
         InstallCertificate, ConfigureDaemon, ConfigureOverride, RestartDocker, VerifyDockerAPI,
         RestoreDaemon, RestoreDropIn, RestoreClear, RestoreCopy, RestartRestored, Kill, Reboot,
         GiveUp, historyVars
    <3>2. QED
      BY <3>1 DEF SecureTypeOK
  <2>7. /\ applyStep' \in Step
        /\ outcome' \in {"none", "refused", "stopped", "written", "verified",
                         "rolledBack", "rollbackFailed", "killed"}
    BY <1>2 DEF SecureNext, Apply, Rollback, Run, CreateBackup, ClearCertificates,
       InstallCertificate, ConfigureDaemon, ConfigureOverride, RestartDocker, VerifyDockerAPI,
       RestoreDaemon, RestoreDropIn, RestoreClear, RestoreCopy, RestartRestored, Kill, Reboot,
       GiveUp, Return, Step, SecureTypeOK
  <2>8. QED
    BY <2>1, <2>2, <2>3, <2>5, <2>6, <2>7 DEF SecureTypeOK
<1>3. QED
  BY <1>1, <1>2

-----------------------------------------------------------------------------
(* The steps.                                                              *)

\* A run begins with the files that are there.
LEMMA RunSound ==
    ASSUME SecureTypeOK, SecureSound, Run
    PROVE  SecureSound'
<1>1. /\ applyStep' \in {"backup", "idle"} /\ before' = disk /\ ~ restarting'
      /\ applyStep' = "idle" => outcome' \in {"refused", "stopped"}
      /\ applyStep' = "backup" => outcome' = "none"
      /\ wasUp' = (docker # Down)
      /\ UNCHANGED <<disk, docker, backups, original>>
  BY DEF Run, Return, hostVars
<1>2. Advancing' /\ Returning' /\ Concluded'
  BY <1>1 DEF Advancing, Returning, Concluded, Finished
<1>3. Backed'
  BY <1>1 DEF Backed
<1>4. Recorded' /\ Linked(disk)' /\ Linked(before)'
  BY <1>1 DEF SecureSound, Recorded, Linked
<1>5. QED
  BY <1>2, <1>3, <1>4 DEF SecureSound

\* The backup is of the files the run began with.
LEMMA CreateBackupSound ==
    ASSUME SecureTypeOK, SecureSound, CreateBackup
    PROVE  SecureSound'
<1>1. /\ applyStep = "backup" /\ disk = before /\ ~ restarting
      /\ UNCHANGED <<hostVars, restarting, runs, original, before, wasUp, lost>>
      /\ \/ backup' = Copied(disk) /\ backups' = backups \union {Copied(disk)} /\ applyStep' = "clear"
         \/ applyStep' = "idle" /\ outcome' = "stopped" /\ UNCHANGED backups
  BY DEF CreateBackup, Return, SecureSound, Advancing, Backed
<1>2. Advancing' /\ Returning' /\ Concluded'
  BY <1>1 DEF Advancing, Returning, Concluded, Finished, hostVars
<1>3. Backed'
  BY <1>1 DEF SecureSound, Backed, hostVars
<1>4. Recorded' /\ Linked(disk)' /\ Linked(before)'
  BY <1>1 DEF SecureSound, Recorded, Linked, hostVars
<1>5. QED
  BY <1>2, <1>3, <1>4 DEF SecureSound

\* Once the backup is complete the original is in a backup directory, whatever
\* is done to the files.
LEMMA OriginalBackedUp ==
    ASSUME SecureTypeOK, SecureSound, applyStep \notin {"idle", "backup"}
    PROVE  ~ original.linked => original \in backups
<1>1. ASSUME ~ original.linked, before = original
      PROVE  original \in backups
  BY <1>1, BackupParts
<1>2. QED
  BY <1>1 DEF SecureSound, Recorded

\* A step of apply after the backup, or of the restore, that goes on keeps the
\* backup and the original where they are.
LEMMA BackupStays ==
    ASSUME SecureTypeOK, SecureSound, applyStep \notin {"idle", "backup"},
           UNCHANGED <<backup, backups, original, before, wasUp>>
    PROVE  /\ Recorded' /\ Linked(before)'
           /\ backup' = Copied(before') /\ backup' \in backups'
BY OriginalBackedUp DEF SecureSound, Recorded, Linked, Backed

\* Removing the certificates leaves the other files.
LEMMA ClearSound ==
    ASSUME SecureTypeOK, SecureSound, ClearCertificates
    PROVE  SecureSound'
<1>0. disk \in Disk /\ disk' \in Disk /\ disk = before /\ applyStep = "clear" /\ ~ restarting
  BY DiskTypes DEF SecureTypeOK, SecureSound, Advancing, Backed, ClearCertificates, SecureNext, Apply
<1>1. /\ UNCHANGED <<docker, flags, loopback, restarting, backup, outcome, runs, historyVars>>
      /\ applyStep' \in {"install", "undoDaemon"}
      /\ disk'.daemon = disk.daemon /\ disk'.dropIn = disk.dropIn
      /\ applyStep' = "install" => disk'.certs = NoFiles /\ disk'.linked = FALSE
      /\ disk'.linked => disk'.certs = disk.certs /\ disk.linked
  BY <1>0 DEF ClearCertificates, Disk
<1>2. Advancing' /\ Returning' /\ Concluded'
  <2>1. NoFiles \in Certificates
    BY CertificateParts
  <2>2. \A f \in CertFile : NoFiles[f] = Absent
    BY DEF NoFiles
  <2>3. QED
    BY <1>0, <1>1, <2>1, <2>2
    DEF Advancing, Returning, Concluded, Finished, historyVars, CertFile, Certificates, Generation
<1>3. Backed'
  BY <1>0, <1>1, BackupStays DEF SecureSound, Backed, historyVars
<1>4. Recorded' /\ Linked(disk)' /\ Linked(before)'
  BY <1>0, <1>1, BackupStays DEF SecureSound, Linked, historyVars
<1>5. QED
  BY <1>2, <1>3, <1>4 DEF SecureSound

\* A certificate that is installed is of this run; when that of the client is,
\* all are.
LEMMA InstallSound ==
    ASSUME SecureTypeOK, SecureSound, NEW f \in CertFile, InstallCertificate(f)
    PROVE  SecureSound'
<1>0. /\ disk \in Disk /\ disk' \in Disk /\ applyStep = "install" /\ ~ restarting
      /\ disk.daemon = before.daemon /\ disk.dropIn = before.dropIn
      /\ disk.certs \in Certificates /\ ~ disk.linked
      /\ \A g \in CertFile : disk.certs[g] \in {Absent, runs}
  BY DiskTypes
  DEF SecureTypeOK, SecureSound, Advancing, Backed, InstallCertificate, SecureNext, Apply
<1> DEFINE c == [disk.certs EXCEPT ![f] = runs]
<1>1. /\ UNCHANGED <<docker, flags, loopback, restarting, backup, outcome, runs, historyVars>>
      /\ f = "client" => disk.certs["ca"] # Absent /\ disk.certs["server"] # Absent
      /\ \/ /\ disk' = [disk EXCEPT !.certs[f] = runs]
            /\ applyStep' = IF f = "client" THEN "daemon" ELSE "install"
         \/ applyStep' = "undoDaemon" /\ disk' = disk
  BY DEF InstallCertificate
<1>2. [disk EXCEPT !.certs[f] = runs] = [disk EXCEPT !.certs = c]
  BY <1>0 DEF Disk
<1>3. c \in Certificates
  BY <1>0, CertificateParts DEF SecureTypeOK, Generation
<1>4. /\ \A g \in CertFile : c[g] \in {Absent, runs}
      /\ f # "client" => c["client"] = disk.certs["client"]
      /\ f = "client" => \A g \in CertFile : c[g] = runs
  BY <1>0, <1>1 DEF Certificates, CertFile
<1> HIDE DEF c
<1>5. /\ disk'.daemon = disk.daemon /\ disk'.dropIn = disk.dropIn /\ disk'.linked = disk.linked
      /\ applyStep' = "undoDaemon" \/ disk'.certs = c
  BY <1>0, <1>1, <1>2 DEF Disk
<1>6. disk.certs["client"] = Absent
  BY <1>0 DEF SecureSound, Advancing
<1>7. Advancing' /\ Returning' /\ Concluded'
  BY <1>0, <1>1, <1>3, <1>4, <1>5, <1>6
  DEF Advancing, Returning, Concluded, Finished, AllOfThisRun, historyVars
<1>8. Backed'
  BY <1>0, <1>1, BackupStays DEF SecureSound, Backed, historyVars
<1>9. Recorded' /\ Linked(disk)' /\ Linked(before)'
  BY <1>0, <1>1, <1>5, BackupStays DEF SecureSound, Linked, historyVars
<1>10. QED
  BY <1>7, <1>8, <1>9 DEF SecureSound

\* daemon.json becomes what the command makes of the one the run began with.
LEMMA ConfigureDaemonSound ==
    ASSUME SecureTypeOK, SecureSound, ConfigureDaemon
    PROVE  SecureSound'
<1>0. /\ disk \in Disk /\ disk' \in Disk /\ applyStep = "daemon" /\ ~ restarting
      /\ disk.daemon = before.daemon /\ disk.certs \in Certificates /\ ~ disk.linked /\ AllOfThisRun
  BY DiskTypes
  DEF SecureTypeOK, SecureSound, Advancing, Backed, ConfigureDaemon, SecureNext, Apply
<1>1. /\ UNCHANGED <<docker, flags, loopback, restarting, backup, outcome, runs, historyVars>>
      /\ applyStep' \in {"dropIn", "undoDaemon"}
      /\ applyStep' = "dropIn" => disk'.daemon = Merged(Settings(disk)) /\ disk'.daemon \in Daemon
      /\ disk'.certs = disk.certs /\ disk'.linked = disk.linked
  <2>1. disk.daemon # Broken => Merged(Settings(disk)) \in Daemon
    BY <1>0, SettingsTypes
  <2>2. QED
    BY <1>0, <2>1 DEF ConfigureDaemon, Disk
<1>2. Settings(disk) = Settings(before)
  BY <1>0 DEF Settings
<1>3. Advancing' /\ Returning' /\ Concluded'
  BY <1>0, <1>1, <1>2
  DEF Advancing, Returning, Concluded, Finished, AllOfThisRun, historyVars
<1>4. Backed'
  BY <1>0, <1>1, BackupStays DEF SecureSound, Backed, historyVars
<1>5. Recorded' /\ Linked(disk)' /\ Linked(before)'
  BY <1>0, <1>1, BackupStays DEF SecureSound, Linked, historyVars
<1>6. QED
  BY <1>3, <1>4, <1>5 DEF SecureSound

\* The drop-in is all that its step writes.
LEMMA ConfigureOverrideSound ==
    ASSUME SecureTypeOK, SecureSound, ConfigureOverride
    PROVE  SecureSound'
<1>0. /\ disk \in Disk /\ disk' \in Disk /\ applyStep = "dropIn" /\ ~ restarting
      /\ disk.daemon = Merged(Settings(before)) /\ disk.daemon \in Daemon
      /\ disk.certs \in Certificates /\ ~ disk.linked /\ AllOfThisRun
  BY DiskTypes
  DEF SecureTypeOK, SecureSound, Advancing, Backed, ConfigureOverride, SecureNext, Apply
<1>1. /\ UNCHANGED <<docker, flags, loopback, backup, runs, historyVars>>
      /\ disk'.daemon = disk.daemon /\ disk'.certs = disk.certs /\ disk'.linked = disk.linked
      /\ \/ applyStep' = "restart" /\ restarting'
         \/ applyStep' = "idle" /\ outcome' = "written"
         \/ applyStep' = "undoDaemon" /\ restarting' = restarting
  BY <1>0 DEF ConfigureOverride, Return, Disk
<1>2. Advancing' /\ Returning' /\ Concluded'
  BY <1>0, <1>1
  DEF Advancing, Returning, Concluded, Finished, AllOfThisRun, historyVars
<1>3. Backed'
  BY <1>0, <1>1, BackupStays DEF SecureSound, Backed, historyVars
<1>4. Recorded' /\ Linked(disk)' /\ Linked(before)'
  BY <1>0, <1>1, BackupStays DEF SecureSound, Linked, historyVars
<1>5. QED
  BY <1>2, <1>3, <1>4 DEF SecureSound

\* dockerd comes up with the files of this run, or the restore begins.
LEMMA RestartSound ==
    ASSUME SecureTypeOK, SecureSound, RestartDocker \/ VerifyDockerAPI
    PROVE  SecureSound'
<1>0. /\ applyStep \in {"restart", "verify"} /\ restarting
      /\ disk.daemon = Merged(Settings(before)) /\ disk.daemon \in Daemon
      /\ disk.certs \in Certificates /\ ~ disk.linked /\ AllOfThisRun
      /\ applyStep = "verify" => Startable(disk) /\ docker = Started(disk)
  BY DEF SecureSound, Advancing, Backed, RestartDocker, VerifyDockerAPI
<1>1. /\ UNCHANGED <<disk, flags, loopback, restarting, backup, runs, historyVars>>
      /\ \/ applyStep' = "undoDaemon"
         \/ applyStep' = "verify" /\ Startable(disk) /\ docker' = Started(disk)
         \/ applyStep = "verify" /\ applyStep' = "idle" /\ outcome' = "verified" /\ docker' = docker
  BY DEF RestartDocker, VerifyDockerAPI, Return, hostVars
<1>2. Startable(disk)' = Startable(disk) /\ Started(disk)' = Started(disk)
  BY <1>1 DEF Startable, Started, Flagged, Settings
<1>3. Advancing' /\ Returning' /\ Concluded'
  BY <1>0, <1>1, <1>2
  DEF Advancing, Returning, Concluded, Finished, AllOfThisRun, historyVars
<1>4. Backed'
  BY <1>0, <1>1, BackupStays DEF SecureSound, Backed, historyVars
<1>5. Recorded' /\ Linked(disk)' /\ Linked(before)'
  BY <1>0, <1>1, BackupStays DEF SecureSound, Linked, historyVars
<1>6. QED
  BY <1>3, <1>4, <1>5 DEF SecureSound

\* daemon.json and the drop-in come back as the run found them.
LEMMA RestoreFileSound ==
    ASSUME SecureTypeOK, SecureSound, RestoreDaemon \/ RestoreDropIn
    PROVE  SecureSound'
<1>0. /\ disk \in Disk /\ disk' \in Disk /\ applyStep \in {"undoDaemon", "undoDropIn"}
      /\ applyStep = "undoDropIn" => disk.daemon = before.daemon
      /\ backup.daemon = before.daemon /\ backup.dropIn = before.dropIn
  BY DiskTypes, BackupParts
  DEF SecureTypeOK, SecureSound, Returning, RestoreDaemon, RestoreDropIn, SecureNext, Rollback
<1>1. /\ UNCHANGED <<docker, flags, loopback, restarting, backup, runs, backups, original, before, wasUp>>
      /\ disk'.certs = disk.certs /\ disk'.linked = disk.linked
      /\ \/ applyStep = "undoDaemon" /\ applyStep' = "undoDropIn" /\ disk'.daemon = backup.daemon
         \/ /\ applyStep = "undoDropIn" /\ applyStep' = "undoCerts"
            /\ disk'.dropIn = backup.dropIn /\ disk'.daemon = disk.daemon
         \/ applyStep' = "idle" /\ outcome' \in {"rollbackFailed", "stopped"} /\ lost'
  BY <1>0 DEF RestoreDaemon, RestoreDropIn, GiveUp, Return, Disk
<1>2. Advancing' /\ Returning' /\ Concluded'
  BY <1>0, <1>1 DEF Advancing, Returning, Concluded, Finished
<1>3. Backed'
  BY <1>0, <1>1, BackupStays DEF SecureSound, Backed
<1>4. Recorded' /\ Linked(disk)' /\ Linked(before)'
  BY <1>0, <1>1, BackupStays DEF SecureSound, Linked
<1>5. QED
  BY <1>2, <1>3, <1>4 DEF SecureSound

\* Without certificates in the backup the files are the original ones as soon as
\* the new directory is removed.
LEMMA RestoreClearSound ==
    ASSUME SecureTypeOK, SecureSound, RestoreClear
    PROVE  SecureSound'
<1>0. /\ disk \in Disk /\ disk' \in Disk /\ before \in Disk /\ applyStep = "undoCerts"
      /\ disk.daemon = before.daemon /\ disk.dropIn = before.dropIn
  BY DiskTypes
  DEF SecureTypeOK, SecureSound, Returning, RestoreClear, SecureNext, Rollback
<1>1. /\ UNCHANGED <<docker, flags, loopback, restarting, backup, runs, backups, original, before, wasUp>>
      /\ disk'.daemon = disk.daemon /\ disk'.dropIn = disk.dropIn
      /\ disk'.linked => disk'.certs = disk.certs /\ disk.linked
      /\ \/ /\ disk'.certs = Absent /\ disk'.linked = FALSE
            /\ \/ applyStep' = "copyCerts" /\ backup.certs # Absent
               \/ applyStep' = "undone" /\ backup.certs = Absent /\ restarting
               \/ /\ applyStep' = "idle" /\ outcome' = "stopped" /\ backup.certs = Absent
                  /\ ~ restarting
         \/ /\ applyStep' = "idle" /\ lost'
            /\ outcome' = IF restarting THEN "rollbackFailed" ELSE "stopped"
  BY <1>0 DEF RestoreClear, GiveUp, Return, Disk
<1>2. ASSUME disk'.certs = Absent, disk'.linked = FALSE, backup.certs = Absent
      PROVE  disk' = before
  <2>1. /\ before.linked => backup.certs = NoFiles
        /\ ~ before.linked => backup = before
    BY <1>0, BackupParts
  <2>2. NoFiles # Absent
    BY CertificateParts, SecureAssumption
  <2>3. ~ before.linked /\ before.certs = Absent
    BY <1>2, <2>1, <2>2
  <2>4. before.linked = FALSE
    BY <1>0, <2>3 DEF Disk
  <2>5. QED
    BY <1>0, <1>1, <1>2, <2>3, <2>4, DiskParts
<1>3. Advancing' /\ Returning' /\ Concluded'
  BY <1>0, <1>1, <1>2 DEF Advancing, Returning, Concluded, Finished
<1>4. Backed'
  BY <1>0, <1>1, BackupStays DEF SecureSound, Backed
<1>5. Recorded' /\ Linked(disk)' /\ Linked(before)'
  BY <1>0, <1>1, BackupStays DEF SecureSound, Linked
<1>6. QED
  BY <1>3, <1>4, <1>5 DEF SecureSound

\* With the certificates copied back the files are the original ones.
LEMMA RestoreCopySound ==
    ASSUME SecureTypeOK, SecureSound, RestoreCopy
    PROVE  SecureSound'
<1>0. /\ disk \in Disk /\ disk' \in Disk /\ before \in Disk /\ applyStep = "copyCerts"
      /\ disk.daemon = before.daemon /\ disk.dropIn = before.dropIn
      /\ ~ disk.linked /\ backup.linked = before.linked /\ (~ before.linked => backup = before)
  BY DiskTypes, BackupParts
  DEF SecureTypeOK, SecureSound, Returning, RestoreCopy, SecureNext, Rollback
<1>1. /\ UNCHANGED <<docker, flags, loopback, restarting, backup, runs, backups, original, before, wasUp>>
      /\ disk'.daemon = disk.daemon /\ disk'.dropIn = disk.dropIn /\ disk'.linked = disk.linked
      /\ \/ /\ ~ backup.linked /\ disk'.certs = backup.certs
            /\ \/ applyStep' = "undone" /\ restarting
               \/ applyStep' = "idle" /\ outcome' = "stopped" /\ ~ restarting
         \/ /\ applyStep' = "idle" /\ lost'
            /\ outcome' = IF restarting THEN "rollbackFailed" ELSE "stopped"
  BY <1>0 DEF RestoreCopy, GiveUp, Return, Disk
<1>2. ASSUME ~ backup.linked, disk'.certs = backup.certs
      PROVE  disk' = before
  <2>1. ~ before.linked /\ backup = before
    BY <1>0, <1>2
  <2>2. disk'.linked = before.linked
    BY <1>0, <1>1, <2>1 DEF Disk
  <2>3. QED
    BY <1>0, <1>1, <1>2, <2>1, <2>2, DiskParts
<1>3. Advancing' /\ Returning' /\ Concluded'
  BY <1>0, <1>1, <1>2 DEF Advancing, Returning, Concluded, Finished
<1>4. Backed'
  BY <1>0, <1>1, BackupStays DEF SecureSound, Backed
<1>5. Recorded' /\ Linked(disk)' /\ Linked(before)'
  BY <1>0, <1>1, BackupStays DEF SecureSound, Linked
<1>6. QED
  BY <1>3, <1>4, <1>5 DEF SecureSound

\* The second restart, an interruption and a reboot change no file.
LEMMA RestoredSound ==
    ASSUME SecureTypeOK, SecureSound, RestartRestored \/ Kill \/ Reboot
    PROVE  SecureSound'
<1>1. /\ UNCHANGED <<disk, flags, loopback, restarting, backup, runs, historyVars>>
      /\ \/ applyStep' = "idle" /\ outcome' \in {"rollbackFailed", "killed"}
         \/ applyStep' = "idle" /\ outcome' = "rolledBack" /\ docker' = Started(disk) /\ applyStep = "undone"
         \/ UNCHANGED <<applyStep, outcome>> /\ docker' = Started(disk) /\ applyStep = "idle"
  BY DEF RestartRestored, Kill, Reboot, Return, hostVars
<1>2. Startable(disk)' = Startable(disk) /\ Started(disk)' = Started(disk) /\ Started(before)' = Started(before)
  BY <1>1 DEF Startable, Started, Flagged, Settings, historyVars
<1>3. Advancing' /\ Returning' /\ Backed'
  BY <1>1 DEF Advancing, Returning, Backed, Finished
<1>4. Concluded'
  BY <1>1, <1>2 DEF SecureSound, Concluded, Returning, Finished, AllOfThisRun, historyVars
<1>5. Recorded' /\ Linked(disk)' /\ Linked(before)'
  BY <1>1 DEF SecureSound, Recorded, Linked, historyVars
<1>6. QED
  BY <1>3, <1>4, <1>5 DEF SecureSound

\* The invariant is kept.
LEMMA SecureSoundKept ==
    ASSUME SecureTypeOK, SecureSound, [SecureNext]_secureVars
    PROVE  SecureSound'
<1>1. CASE UNCHANGED secureVars
  BY <1>1 DEF secureVars, hostVars, historyVars, SecureSound, Advancing, Returning, Backed, Concluded,
     Recorded, Linked, Finished, AllOfThisRun, Startable, Started, Flagged, Settings
<1>2. CASE SecureNext
  BY <1>2, RunSound, CreateBackupSound, ClearSound, InstallSound, ConfigureDaemonSound,
     ConfigureOverrideSound, RestartSound, RestoreFileSound, RestoreClearSound, RestoreCopySound,
     RestoredSound
  DEF SecureNext, Apply, Rollback
<1>3. QED
  BY <1>1, <1>2

\* The command starts sound, on each of the hosts.
LEMMA SecureInitSound == SecureInit => SecureTypeOK /\ SecureSound
<1> SUFFICES ASSUME SecureInit PROVE SecureTypeOK /\ SecureSound
  OBVIOUS
<1>1. disk \in Disk /\ Linked(disk)
  <2>1. ASSUME NEW d \in {Absent, Broken, NoHosts,
                          [hosts |-> {"sock", "plain2375", "other"}, tls |-> FALSE]},
               disk = [daemon |-> d, dropIn |-> Absent, certs |-> Absent, linked |-> FALSE]
        PROVE  disk \in Disk /\ Linked(disk)
    <3>1. d \in Daemon \union {Absent, Broken}
      <4>1. /\ [hosts |-> {}, tls |-> FALSE] \in Daemon
            /\ [hosts |-> {"sock", "plain2375", "other"}, tls |-> FALSE] \in Daemon
        BY DEF Daemon, Host
      <4>2. QED
        BY <4>1 DEF NoHosts
    <3>2. QED
      BY <2>1, <3>1 DEF Disk, Linked
  <2>2. ASSUME NEW h \in BOOLEAN,
               disk = [daemon |-> [hosts |-> {"sock", "tls2376"}, tls |-> TRUE],
                       dropIn |-> IF flags = "none" THEN Absent ELSE "clean",
                       certs |-> [f \in CertFile |-> 0], linked |-> h]
        PROVE  disk \in Disk /\ Linked(disk)
    <3>1. [f \in CertFile |-> 0] \in Certificates
      BY SecureAssumption DEF Certificates, Generation
    <3>2. [hosts |-> {"sock", "tls2376"}, tls |-> TRUE] \in Daemon
      BY DEF Daemon, Host
    <3>3. QED
      BY <2>2, <3>1, <3>2, SecureAssumption DEF Disk, Linked
  <2>3. QED
    BY <2>1, <2>2 DEF SecureInit
<1>2. docker \in Running \union {Down}
  <2>1. [disk EXCEPT !.daemon = Absent] \in Disk
    BY <1>1 DEF Disk
  <2>2. QED
    BY <1>1, <2>1, StartedTypes DEF SecureInit
<1>3. SecureTypeOK
  <2>1. runs \in 0..MaxRuns /\ applyStep \in Step
    BY SecureAssumption DEF SecureInit, Step
  <2>2. original \in Disk /\ before \in Disk /\ backups \in SUBSET Disk
    BY <1>1 DEF SecureInit
  <2>3. QED
    BY <1>1, <1>2, <2>1, <2>2 DEF SecureInit, SecureTypeOK
<1>4. SecureSound
  BY <1>1 DEF SecureInit, SecureSound, Advancing, Returning, Backed, Concluded, Finished, Recorded, Linked
<1>5. QED
  BY <1>3, <1>4

-----------------------------------------------------------------------------
(* The theorems.                                                           *)

\* Type correctness and soundness of secure-api, for every number of runs.
THEOREM SecureCorrect == SecureSpec => [](SecureTypeOK /\ SecureSound)
<1>1. SecureTypeOK /\ SecureSound /\ [SecureNext]_secureVars => (SecureTypeOK /\ SecureSound)'
  BY SecureTypeKept, SecureSoundKept
<1>2. QED
  BY <1>1, SecureInitSound, PTL DEF SecureSpec

\* A rollback that is reported as complete has brought every file back, and
\* dockerd runs with them; a run that stops early has changed none.
THEOREM RollbackRestores == SecureSpec => []RestoredIsOriginal
<1>1. SecureSound => RestoredIsOriginal
  BY DEF SecureSound, Concluded, RestoredIsOriginal
<1>2. QED
  BY <1>1, SecureCorrect, PTL

\* The files from before the first run are never lost.
THEOREM OriginalKept == SecureSpec => []OriginalRecoverable
<1>1. SecureSound => OriginalRecoverable
  BY DEF SecureSound, Recorded, OriginalRecoverable
<1>2. QED
  BY <1>1, SecureCorrect, PTL

\* What a successful run verified is what dockerd runs with, after a reboot too.
THEOREM VerifiedIsSecure == SecureSpec => []VerifiedMeansSecure
<1>1. SecureTypeOK /\ SecureSound => VerifiedMeansSecure
  <2> SUFFICES ASSUME SecureTypeOK, SecureSound, Finished("verified")
               PROVE  /\ docker = Started(disk)
                      /\ docker.tls
                      /\ "plain2375" \notin docker.hosts
                      /\ "other" \in Settings(before).hosts => "other" \in docker.hosts
                      /\ disk.certs["client"] = docker.certificate
    BY DEF VerifiedMeansSecure
  <2>1. /\ Startable(disk) /\ docker = Started(disk)
        /\ disk.daemon = Merged(Settings(before)) /\ disk.daemon \in Daemon
        /\ disk.certs \in Certificates /\ AllOfThisRun
    BY DEF SecureSound, Concluded
  <2>2. Settings(disk) = Merged(Settings(before))
    BY <2>1, SecureAssumption DEF Settings
  <2>3. /\ Settings(disk).tls = TRUE /\ {"sock", "tls2376"} \subseteq Settings(disk).hosts
        /\ "plain2375" \notin Settings(disk).hosts
        /\ "other" \in Settings(before).hosts => "other" \in Settings(disk).hosts
    BY <2>2, SettingsTypes DEF SecureTypeOK
  <2>4. Settings(disk).hosts # {} /\ ~ Flagged(disk)
    BY <2>1, <2>3 DEF Startable
  <2>5. /\ docker.hosts = Settings(disk).hosts /\ docker.tls = TRUE
        /\ docker.certificate = disk.certs["server"]
    BY <2>1, <2>3, <2>4 DEF Started
  <2>6. disk.certs["client"] = runs /\ disk.certs["server"] = runs
    BY <2>1 DEF AllOfThisRun, CertFile
  <2>7. QED
    BY <2>1, <2>3, <2>5, <2>6
<1>2. QED
  BY <1>1, SecureCorrect, PTL

\* A run that ends leaves dockerd up if it was, or says that the rollback failed.
THEOREM DownReported == SecureSpec => DownIsReported
<1> DEFINE Reported ==
      applyStep # "idle" /\ applyStep' = "idle" /\ wasUp /\ docker' = Down
         => outcome' \in {"rollbackFailed", "killed"}
<1>1. SecureTypeOK /\ SecureSound /\ [SecureNext]_secureVars => [Reported]_secureVars
  <2> SUFFICES ASSUME SecureTypeOK, SecureSound, SecureNext,
                      applyStep # "idle", applyStep' = "idle", wasUp, docker' = Down
               PROVE  outcome' \in {"rollbackFailed", "killed"}
    OBVIOUS
  <2>1. CASE Apply
    <3>1. CASE CreateBackup \/ ConfigureOverride
      BY <3>1 DEF CreateBackup, ConfigureOverride, hostVars, SecureSound, Backed
    <3>2. CASE VerifyDockerAPI
      <4>1. disk \in Disk /\ Startable(disk) /\ docker = Started(disk) /\ docker' = docker
        BY <3>2 DEF VerifyDockerAPI, hostVars, SecureTypeOK, SecureSound, Advancing
      <4>2. QED
        BY <4>1, StartedTypes
    <3>3. QED
      BY <2>1, <3>1, <3>2
      DEF Apply, ClearCertificates, InstallCertificate, ConfigureDaemon, RestartDocker
  <2>2. CASE Rollback
    BY <2>2, StartedTypes
    DEF Rollback, RestoreDaemon, RestoreDropIn, RestoreClear, RestoreCopy, RestartRestored,
        GiveUp, Return, SecureSound, SecureTypeOK, Backed
  <2>3. CASE Run \/ Kill \/ Reboot
    BY <2>3 DEF Run, Kill, Reboot, Return
  <2>4. QED
    BY <2>1, <2>2, <2>3 DEF SecureNext
<1>2. QED
  BY <1>1, SecureCorrect, PTL DEF SecureSpec, DownIsReported

-----------------------------------------------------------------------------
(* The check of a migration.                                               *)

\* What ResolveConfig asks of a project.
Complete(doc) ==
    /\ ServicesOf(doc) # {}
    /\ \A n \in ServicesOf(doc) : doc.services[n].image

\* Which of the two the check is about, at each of its steps.
SourceKnown ==
    /\ planStep \in {"config", "place", "normalize"} => source \in Documents
    /\ planStep = "generate" => source \in Containers
    /\ planStep \in {"context", "inspect", "report", "ready"}
          => source \in Documents \union Containers

ProjectCourse ==
    ~ failed /\ source \in Documents =>
        /\ planStep \in {"context", "place"} => content = source
        /\ planStep \in {"context", "place", "normalize", "inspect", "report", "ready"}
              => Complete(source)
        /\ planStep \in {"place", "normalize", "inspect", "report", "ready"} => manager
        /\ planStep = "normalize" => content = Placed(source)
        /\ planStep \in {"inspect", "report", "ready"} => content = Numbered(Placed(source))

ContainerCourse ==
    ~ failed /\ source \in Containers =>
        /\ planStep \in {"generate", "inspect", "report", "ready"} => manager
        /\ planStep \in {"inspect", "report", "ready"} =>
              /\ content = Single(Pinned(Convertible(source.service)))
              /\ source.service.image
              /\ ~ Unconvertible(source)

Accepted == ~ failed /\ planStep \in {"report", "ready"} => StackAccepts(content)

Clean == planStep = "ready" => ~ failed

Course ==
    /\ PlanTypeOK
    /\ SourceKnown
    /\ ProjectCourse
    /\ ContainerCourse
    /\ Accepted
    /\ Clean

-----------------------------------------------------------------------------
(* The operators.                                                          *)

\* A project is no container.
LEMMA Disjoint == Documents \cap Containers = {}
<1> SUFFICES ASSUME NEW x \in Documents, x \in Containers PROVE FALSE
    OBVIOUS
<1>1. DOMAIN x = {"name", "services"}
    BY DEF Documents
<1>2. DOMAIN x = {"owner", "modes", "service"}
    BY DEF Containers
<1> QED BY <1>1, <1>2

\* NoPlan and NoService are none of the others.
LEMMA ServicesApart ==
    /\ NoPlan \notin Documents
    /\ NoPlan \notin Containers
    /\ NoService \notin Services
    BY PlanAssumption DEF PlanAssumption

\* Pinning keeps a service a service, and adds one constraint.
LEMMA PinnedService ==
    ASSUME NEW s \in Services
    PROVE  /\ Pinned(s) \in Services
           /\ Pinned(s).image = s.image
           /\ Pinned(s).mounts = s.mounts
           /\ Pinned(s).ports = s.ports
           /\ Pinned(s).constraints = s.constraints \union
                  {[key |-> "node.hostname", op |-> "==", value |-> Hostname]}
<1>1. [key |-> "node.hostname", op |-> "==", value |-> Hostname] \in Constraints
    BY PlanAssumption DEF PlanAssumption, Constraints, Values, Hostname
<1>2. s.constraints \in SUBSET Constraints
    BY DEF Services
<1>3. s.constraints \union {[key |-> "node.hostname", op |-> "==", value |-> Hostname]}
          \in SUBSET Constraints
    BY <1>1, <1>2
<1> QED BY <1>3 DEF Pinned, Services

\* Normalisation touches the ports only.
LEMMA NormalizedService ==
    ASSUME NEW s \in Services
    PROVE  /\ Normalized(s) \in Services
           /\ Normalized(s).image = s.image
           /\ Normalized(s).mounts = s.mounts
           /\ Normalized(s).constraints = s.constraints
           /\ Normalized(s).ports =
                  [p \in PortNumbers |-> IF s.ports[p] = "digits" THEN "number" ELSE s.ports[p]]
<1>1. s.ports \in [PortNumbers -> Unfit \union {"closed", "number"}]
    BY DEF Services, Ports
<1>2. [p \in PortNumbers |-> IF s.ports[p] = "digits" THEN "number" ELSE s.ports[p]] \in Ports
    BY <1>1 DEF Ports
<1> QED BY <1>2 DEF Normalized, Services

\* What can be converted loses nothing by the conversion.
LEMMA ConvertibleService ==
    ASSUME NEW s \in Services
    PROVE  /\ Convertible(s) \in Services
           /\ Convertible(s).image = s.image
           /\ Convertible(s).mounts = s.mounts \ {"npipe"}
           /\ \A p \in PortNumbers :
                 s.ports[p] \notin NoNumber =>
                    Convertible(s).ports[p] = IF s.ports[p] = "closed" THEN "closed" ELSE "number"
<1> DEFINE t == Normalized(s)
           ports == [p \in PortNumbers |-> IF t.ports[p] \in NoNumber THEN "closed" ELSE t.ports[p]]
<1>1. /\ t \in Services /\ t.image = s.image /\ t.mounts = s.mounts
      /\ t.ports = [p \in PortNumbers |-> IF s.ports[p] = "digits" THEN "number" ELSE s.ports[p]]
    BY NormalizedService
<1>2. /\ t.ports \in [PortNumbers -> Unfit \union {"closed", "number"}]
      /\ s.ports \in [PortNumbers -> Unfit \union {"closed", "number"}]
      /\ t.mounts \in SUBSET Mounts
    BY <1>1 DEF Services, Ports
<1>3. ports \in Ports
    BY <1>2 DEF Ports
<1>4. Convertible(s) = [t EXCEPT !.mounts = t.mounts \ {"npipe"}, !.ports = ports,
                                !.constraints = {}]
    BY DEF Convertible
<1> HIDE DEF t, ports
<1>5. /\ Convertible(s) \in Services
      /\ Convertible(s).image = s.image
      /\ Convertible(s).mounts = s.mounts \ {"npipe"}
      /\ Convertible(s).ports = ports
  <2>1. t.mounts \ {"npipe"} \in SUBSET Mounts /\ {} \in SUBSET Constraints
    BY <1>2
  <2>2. /\ Convertible(s).image = t.image
        /\ Convertible(s).mounts = t.mounts \ {"npipe"}
        /\ Convertible(s).ports = ports
    BY <1>1, <1>4 DEF Services
  <2>3. Convertible(s) \in Services
    BY <1>1, <1>3, <1>4, <2>1 DEF Services
  <2>4. QED
    BY <1>1, <2>2, <2>3
<1>6. ASSUME NEW p \in PortNumbers, s.ports[p] \notin NoNumber
      PROVE  ports[p] = IF s.ports[p] = "closed" THEN "closed" ELSE "number"
  <2>1. ports[p] = IF t.ports[p] \in NoNumber THEN "closed" ELSE t.ports[p]
    BY DEF ports
  <2>2. t.ports[p] = IF s.ports[p] = "digits" THEN "number" ELSE s.ports[p]
    BY <1>1
  <2>3. s.ports[p] \in Unfit \union {"closed", "number"}
    BY <1>2
  <2>4. QED
    BY <1>6, <2>1, <2>2, <2>3 DEF NoNumber, Unfit
<1> QED BY <1>5, <1>6

\* Placing keeps a project a project, with the same services.
LEMMA PlacedDocument ==
    ASSUME NEW doc \in Documents
    PROVE  /\ Placed(doc) \in Documents
           /\ \A n \in Names : Placed(doc).services[n] =
                 IF n \in LocalServices(doc) THEN Pinned(doc.services[n]) ELSE doc.services[n]
           /\ ServicesOf(Placed(doc)) = ServicesOf(doc)
<1> DEFINE f == [n \in Names |-> IF n \in LocalServices(doc) THEN Pinned(doc.services[n])
                                 ELSE doc.services[n]]
<1>1. doc.services \in [Names -> Services \union {NoService}]
    BY DEF Documents
<1>2. ASSUME NEW n \in LocalServices(doc) PROVE Pinned(doc.services[n]) \in Services
    BY <1>1, <1>2, PinnedService DEF LocalServices, ServicesOf
<1>3. f \in [Names -> Services \union {NoService}]
    BY <1>1, <1>2
<1>4. Placed(doc) = [doc EXCEPT !.services = f]
    BY DEF Placed
<1> HIDE DEF f
<1>5. Placed(doc) \in Documents /\ Placed(doc).services = f
    BY <1>3, <1>4 DEF Documents
<1>6. ASSUME NEW n \in Names PROVE f[n] # NoService <=> doc.services[n] # NoService
    BY <1>2, ServicesApart DEF f, LocalServices, ServicesOf
<1>7. ServicesOf(Placed(doc)) = ServicesOf(doc)
    BY <1>5, <1>6 DEF ServicesOf
<1> QED BY <1>5, <1>7 DEF f

\* So does normalisation.
LEMMA NumberedDocument ==
    ASSUME NEW doc \in Documents
    PROVE  /\ Numbered(doc) \in Documents
           /\ ServicesOf(Numbered(doc)) = ServicesOf(doc)
           /\ \A n \in ServicesOf(doc) :
                 /\ doc.services[n] \in Services
                 /\ Numbered(doc).services[n] = Normalized(doc.services[n])
<1> DEFINE f == [n \in Names |-> IF doc.services[n] = NoService THEN NoService
                                 ELSE Normalized(doc.services[n])]
<1>1. doc.services \in [Names -> Services \union {NoService}]
    BY DEF Documents
<1>2. ASSUME NEW n \in Names, doc.services[n] # NoService
      PROVE  doc.services[n] \in Services /\ Normalized(doc.services[n]) \in Services
    <2>1. doc.services[n] \in Services
        BY <1>1, <1>2
    <2> QED BY <2>1, NormalizedService
<1>3. f \in [Names -> Services \union {NoService}]
    BY <1>2, Zenon
<1>4. Numbered(doc) = [name |-> FALSE, services |-> f]
    BY DEF Numbered
<1> HIDE DEF f
<1>5. Numbered(doc) \in Documents /\ Numbered(doc).services = f
    BY <1>3, <1>4 DEF Documents
<1>6. ASSUME NEW n \in Names PROVE f[n] # NoService <=> doc.services[n] # NoService
    BY <1>2, ServicesApart DEF f
<1>7. ServicesOf(Numbered(doc)) = ServicesOf(doc)
    BY <1>5, <1>6 DEF ServicesOf
<1>8. ASSUME NEW n \in ServicesOf(doc)
      PROVE  doc.services[n] \in Services /\ f[n] = Normalized(doc.services[n])
    BY <1>2, <1>8 DEF f, ServicesOf
<1> QED BY <1>5, <1>7, <1>8

\* The file of a container has one service.
LEMMA SingleDocument ==
    ASSUME NEW s \in Services
    PROVE  /\ Single(s) \in Documents
           /\ ServicesOf(Single(s)) = {ServiceName}
           /\ Single(s).services[ServiceName] = s
<1>1. ServiceName \in Names
    BY PlanAssumption DEF PlanAssumption, ServiceName
<1> DEFINE f == [n \in Names |-> IF n = ServiceName THEN s ELSE NoService]
<1>2. f \in [Names -> Services \union {NoService}]
    OBVIOUS
<1>3. Single(s) = [name |-> FALSE, services |-> f]
    BY DEF Single
<1>4. Single(s) \in Documents /\ Single(s).services = f
    BY <1>2, <1>3 DEF Documents
<1>5. ServicesOf(Single(s)) = {n \in Names : f[n] # NoService}
    BY <1>4 DEF ServicesOf
<1>6. {n \in Names : f[n] # NoService} = {ServiceName}
    BY <1>1, ServicesApart
<1> QED BY <1>1, <1>4, <1>5, <1>6

-----------------------------------------------------------------------------
(* The steps.                                                              *)

\* Nothing is planned yet.
LEMMA PlanInitCourse == PlanInit => Course
<1> SUFFICES ASSUME PlanInit PROVE Course
    OBVIOUS
<1> USE DEF PlanInit
<1>1. PlanTypeOK BY DEF PlanTypeOK, PlanSteps
<1>2. SourceKnown BY DEF SourceKnown
<1>3. ProjectCourse BY DEF ProjectCourse
<1>4. ContainerCourse BY DEF ContainerCourse
<1>5. Accepted /\ Clean BY DEF Accepted, Clean
<1> QED BY <1>1, <1>2, <1>3, <1>4, <1>5 DEF Course

\* A Compose project is looked at.
LEMMA DiscoverCourse ==
    ASSUME NEW d \in Projects, Course, Discover(d)
    PROVE  Course'
<1>0. d \in Documents
    BY PlanAssumption DEF PlanAssumption
<1>1. PlanTypeOK' BY <1>0 DEF Course, PlanTypeOK, PlanSteps, Discover
<1>2. SourceKnown' BY <1>0 DEF SourceKnown, Discover
<1>3. ProjectCourse' BY DEF ProjectCourse, Discover
<1>4. ContainerCourse' BY DEF ContainerCourse, Discover
<1>5. Accepted' /\ Clean' BY DEF Accepted, Clean, Discover
<1> QED BY <1>1, <1>2, <1>3, <1>4, <1>5 DEF Course

\* A container of its own is looked at.
LEMMA InspectContainerCourse ==
    ASSUME NEW w \in Workloads, Course, InspectContainer(w)
    PROVE  Course'
<1>0. w \in Containers
    BY PlanAssumption DEF PlanAssumption
<1>1. PlanTypeOK' BY <1>0 DEF Course, PlanTypeOK, PlanSteps, InspectContainer
<1>2. SourceKnown' BY <1>0 DEF SourceKnown, InspectContainer
<1>3. ProjectCourse' BY <1>0, Disjoint DEF ProjectCourse, InspectContainer
<1>4. ContainerCourse' BY DEF ContainerCourse, InspectContainer
<1>5. Accepted' /\ Clean' BY DEF Accepted, Clean, InspectContainer
<1> QED BY <1>1, <1>2, <1>3, <1>4, <1>5 DEF Course

\* Compose resolves the project.
LEMMA ResolveConfigCourse ==
    ASSUME Course, ResolveConfig
    PROVE  Course'
<1>0. source \in Documents
    BY DEF Course, SourceKnown, ResolveConfig
<1>1. failed' \in BOOLEAN /\ content' \in {content, source}
    BY DEF ResolveConfig
<1>2. PlanTypeOK' BY <1>0, <1>1 DEF Course, PlanTypeOK, PlanSteps, ResolveConfig
<1>3. SourceKnown' BY <1>0 DEF SourceKnown, ResolveConfig
<1>4. ProjectCourse'
  <2>1. ~ failed' => content' = source /\ Complete(source)
      BY DEF ResolveConfig, Complete
  <2>2. Complete(source)' <=> Complete(source)
      BY DEF ResolveConfig, Complete
  <2> QED BY <2>1, <2>2 DEF ProjectCourse, ResolveConfig
<1>5. ContainerCourse' BY DEF ContainerCourse, ResolveConfig
<1>6. Accepted' /\ Clean' BY DEF Accepted, Clean, ResolveConfig
<1> QED BY <1>2, <1>3, <1>4, <1>5, <1>6 DEF Course

\* Whether the node is a manager.
LEMMA InspectContextCourse ==
    ASSUME Course, InspectContext
    PROVE  Course'
<1>0. source \in Documents \union Containers
    BY DEF Course, SourceKnown, InspectContext
<1>1. failed' = (failed \/ ~ manager') /\ manager' \in BOOLEAN
    BY DEF InspectContext
<1>2. PlanTypeOK' BY <1>0, <1>1 DEF Course, PlanTypeOK, PlanSteps, InspectContext
<1>3. SourceKnown' BY <1>0 DEF SourceKnown, InspectContext, IsProject
<1>4. ProjectCourse'
  <2>1. ProjectCourse BY DEF Course
  <2>2. source' = source /\ content' = content BY DEF InspectContext
  <2>3. Complete(source') <=> Complete(source) BY <2>2
  <2> QED BY <1>1, <2>1, <2>2, <2>3 DEF ProjectCourse, InspectContext, IsProject
<1>5. ContainerCourse'
    BY <1>1 DEF ContainerCourse, InspectContext
<1>6. Accepted' /\ Clean' BY DEF Accepted, Clean, InspectContext
<1> QED BY <1>2, <1>3, <1>4, <1>5, <1>6 DEF Course

\* The services with local data are pinned to that node.
LEMMA PlaceCourse ==
    ASSUME Course, Place
    PROVE  Course'
<1>0. source \in Documents
    BY DEF Course, SourceKnown, Place
<1>1. content \in Documents \union {NoPlan} /\ failed \in BOOLEAN
    BY DEF Course, PlanTypeOK
<1>2. content' \in Documents \union {NoPlan} /\ failed' \in BOOLEAN
    BY <1>1, PlacedDocument DEF Place
<1>3. PlanTypeOK' BY <1>2 DEF Course, PlanTypeOK, PlanSteps, Place
<1>4. SourceKnown' BY <1>0 DEF SourceKnown, Place
<1>5. ProjectCourse'
  <2>1. SUFFICES ASSUME ~ failed'
                 PROVE  Complete(source) /\ manager /\ content' = Placed(source)
      BY <2>1 DEF ProjectCourse, Place
  <2>2. ~ failed
      BY <1>1, <2>1 DEF Place
  <2>3. content = source /\ Complete(source) /\ manager
      BY <1>0, <2>2 DEF Course, ProjectCourse, Place
  <2>4. content # NoPlan
      BY <1>0, <2>3, ServicesApart
  <2> QED BY <2>1, <2>3, <2>4 DEF Place
<1>6. ContainerCourse' BY <1>0, Disjoint DEF ContainerCourse, Place
<1>7. Accepted' /\ Clean' BY DEF Accepted, Clean, Place
<1> QED BY <1>3, <1>4, <1>5, <1>6, <1>7 DEF Course

\* Strings of digits become numbers, the root name goes.
LEMMA NormalizeCourse ==
    ASSUME Course, Normalize
    PROVE  Course'
<1>0. source \in Documents
    BY DEF Course, SourceKnown, Normalize
<1>1. content \in Documents \union {NoPlan} /\ failed \in BOOLEAN
    BY DEF Course, PlanTypeOK
<1>2. content' \in Documents \union {NoPlan} /\ failed' \in BOOLEAN
    BY <1>1, NumberedDocument DEF Normalize
<1>3. PlanTypeOK' BY <1>2 DEF Course, PlanTypeOK, PlanSteps, Normalize
<1>4. SourceKnown' BY <1>0 DEF SourceKnown, Normalize
<1>5. ProjectCourse'
  <2>1. SUFFICES ASSUME ~ failed'
                 PROVE  Complete(source) /\ manager /\ content' = Numbered(Placed(source))
      BY <2>1 DEF ProjectCourse, Normalize
  <2>2. ~ failed
      BY <1>1, <2>1 DEF Normalize
  <2>3. content = Placed(source) /\ Complete(source) /\ manager
      BY <1>0, <2>2 DEF Course, ProjectCourse, Normalize
  <2>4. content # NoPlan
      BY <1>0, <2>3, ServicesApart, PlacedDocument
  <2> QED BY <2>1, <2>3, <2>4 DEF Normalize
<1>6. ContainerCourse' BY <1>0, Disjoint DEF ContainerCourse, Normalize
<1>7. Accepted' /\ Clean' BY DEF Accepted, Clean, Normalize
<1> QED BY <1>3, <1>4, <1>5, <1>6, <1>7 DEF Course

\* The one service a container becomes.
LEMMA GenerateCourse ==
    ASSUME Course, Generate
    PROVE  Course'
<1>0. source \in Containers /\ source.service \in Services
    BY DEF Course, SourceKnown, Generate, Containers
<1>1. content \in Documents \union {NoPlan} /\ failed \in BOOLEAN
    BY DEF Course, PlanTypeOK
<1> DEFINE s == Convertible(source.service)
<1>2. s \in Services /\ Pinned(s) \in Services
    BY <1>0, ConvertibleService, PinnedService
<1>3. Single(s) \in Documents /\ Single(Pinned(s)) \in Documents
    BY <1>2, SingleDocument
<1>4. /\ content' \in {content, Single(s), Single(Pinned(s))}
      /\ ~ failed' => /\ ~ failed
                      /\ source.service.image
                      /\ ~ Unconvertible(source)
                      /\ content' = Single(IF manager THEN Pinned(s) ELSE s)
    BY DEF Generate
<1>5. failed' \in BOOLEAN
    BY <1>1 DEF Generate, Unconvertible, Publishes
<1>6. PlanTypeOK' BY <1>1, <1>3, <1>4, <1>5 DEF Course, PlanTypeOK, PlanSteps, Generate
<1>7. SourceKnown' BY <1>0 DEF SourceKnown, Generate
<1>8. ProjectCourse' BY <1>0, Disjoint DEF ProjectCourse, Generate
<1>9. ContainerCourse'
  <2>1. ~ failed' => manager
      BY <1>0, <1>4 DEF Course, ContainerCourse, Generate
  <2>2. ~ failed' => content' = Single(Pinned(s))
      BY <1>4, <2>1
  <2>3. UNCHANGED <<source, manager>> /\ planStep' = "inspect"
      BY DEF Generate
  <2>4. Unconvertible(source') <=> Unconvertible(source)
      BY <2>3
  <2> QED BY <1>4, <2>1, <2>2, <2>3, <2>4 DEF ContainerCourse
<1>10. Accepted' /\ Clean' BY DEF Accepted, Clean, Generate
<1> QED BY <1>6, <1>7, <1>8, <1>9, <1>10 DEF Course

\* What Swarm itself says of the file.
LEMMA InspectPlanCourse ==
    ASSUME Course, InspectPlan
    PROVE  Course'
<1>0. source \in Documents \union Containers
    BY DEF Course, SourceKnown, InspectPlan
<1>1. content \in Documents \union {NoPlan} /\ failed \in BOOLEAN
    BY DEF Course, PlanTypeOK
<1>2. /\ UNCHANGED <<source, content, manager>>
      /\ planStep = "inspect" /\ planStep' = "report"
      /\ failed' \in BOOLEAN
      /\ ~ failed' => ~ failed /\ (content = NoPlan \/ StackAccepts(content))
    BY <1>1 DEF InspectPlan, StackAccepts, Publishes
<1>3. PlanTypeOK' BY <1>2 DEF Course, PlanTypeOK, PlanSteps
<1>4. SourceKnown' BY <1>0, <1>2 DEF SourceKnown
<1>5. ProjectCourse'
  <2>1. Complete(source') <=> Complete(source) BY <1>2
  <2> QED BY <1>2, <2>1 DEF Course, ProjectCourse
<1>6. ContainerCourse'
  <2>1. Unconvertible(source') <=> Unconvertible(source) BY <1>2
  <2> QED BY <1>2, <2>1 DEF Course, ContainerCourse
<1>7. Accepted'
  <2>1. SUFFICES ASSUME ~ failed' PROVE StackAccepts(content)
      BY <1>2, <2>1 DEF Accepted
  <2>2. CASE source \in Documents
    <3>1. content = Numbered(Placed(source))
        BY <1>2, <2>1, <2>2 DEF Course, ProjectCourse
    <3>2. content # NoPlan
        BY <2>2, <3>1, PlacedDocument, NumberedDocument, ServicesApart
    <3> QED BY <1>2, <2>1, <3>2
  <2>3. CASE source \in Containers
    <3>1. content = Single(Pinned(Convertible(source.service)))
        BY <1>2, <2>1, <2>3 DEF Course, ContainerCourse
    <3>2. content # NoPlan
      <4>1. source.service \in Services BY <2>3 DEF Containers
      <4>2. Pinned(Convertible(source.service)) \in Services
          BY <4>1, ConvertibleService, PinnedService
      <4> QED BY <3>1, <4>2, SingleDocument, ServicesApart
    <3> QED BY <1>2, <2>1, <3>2
  <2> QED BY <1>0, <2>2, <2>3
<1>8. Clean' BY <1>2 DEF Clean
<1> QED BY <1>3, <1>4, <1>5, <1>6, <1>7, <1>8 DEF Course

\* The report is the last step.
LEMMA ReportCourse ==
    ASSUME Course, Report
    PROVE  Course'
<1>1. /\ UNCHANGED <<source, content, failed, manager>>
      /\ planStep = "report"
      /\ planStep' = IF failed THEN "refused" ELSE "ready"
    BY DEF Report
<1>2. PlanTypeOK' BY <1>1 DEF Course, PlanTypeOK, PlanSteps
<1>3. SourceKnown' BY <1>1 DEF Course, SourceKnown
<1>4. ProjectCourse'
  <2>1. Complete(source') <=> Complete(source) BY <1>1
  <2> QED BY <1>1, <2>1 DEF Course, ProjectCourse
<1>5. ContainerCourse'
  <2>1. Unconvertible(source') <=> Unconvertible(source) BY <1>1
  <2> QED BY <1>1, <2>1 DEF Course, ContainerCourse
<1>6. Accepted'
  <2>1. StackAccepts(content') <=> StackAccepts(content) BY <1>1
  <2> QED BY <1>1, <2>1 DEF Course, Accepted
<1>7. Clean' BY <1>1 DEF Clean
<1> QED BY <1>2, <1>3, <1>4, <1>5, <1>6, <1>7 DEF Course

\* Nothing happens.
LEMMA StutterCourse ==
    ASSUME Course, UNCHANGED planVars
    PROVE  Course'
<1> USE DEF planVars
<1>1. PlanTypeOK' BY DEF Course, PlanTypeOK
<1>2. SourceKnown' BY DEF Course, SourceKnown
<1>3. ProjectCourse' BY DEF Course, ProjectCourse, Complete
<1>4. ContainerCourse' BY DEF Course, ContainerCourse, Unconvertible
<1>5. Accepted' BY DEF Course, Accepted, StackAccepts
<1>6. Clean' BY DEF Course, Clean
<1> QED BY <1>1, <1>2, <1>3, <1>4, <1>5, <1>6 DEF Course

\* What the check has at each of its steps, as long as nothing failed: the
\* inductive invariant behind the theorems below.
THEOREM CourseKept == PlanSpec => []Course
<1>1. PlanInit => Course
    BY PlanInitCourse
<1>2. Course /\ [Check]_planVars => Course'
  <2> SUFFICES ASSUME Course, [Check]_planVars PROVE Course'
      OBVIOUS
  <2>1. CASE Check
      BY <2>1, DiscoverCourse, InspectContainerCourse, ResolveConfigCourse,
         InspectContextCourse, PlaceCourse, NormalizeCourse, GenerateCourse,
         InspectPlanCourse, ReportCourse DEF Check
  <2>2. CASE UNCHANGED planVars
      BY <2>2, StutterCourse
  <2> QED BY <2>1, <2>2
<1> QED BY <1>1, <1>2, PTL DEF PlanSpec

-----------------------------------------------------------------------------
(* The properties.                                                         *)

\* A service that is tied to this node runs nowhere else: no other node has
\* its host name.
LEMMA PinnedStaysHere ==
    ASSUME NEW s \in Services
    PROVE  Eligible(Pinned(s)) \subseteq {Here}
<1> DEFINE c == [key |-> "node.hostname", op |-> "==", value |-> Hostname]
<1>1. c \in Pinned(s).constraints
    BY PinnedService
<1>2. SUFFICES ASSUME NEW n \in Nodes, Satisfies(n, c) PROVE n = Here
    BY <1>1, <1>2 DEF Eligible
<1>3. Attribute[n]["node.hostname"] = Hostname
    BY <1>2 DEF Satisfies
<1> QED BY <1>3, PlanAssumption DEF PlanAssumption

\* LocalData is what composeServiceUsesLocalStorage looks for.
LEMMA LocalDataIsUsed ==
    ASSUME NEW s \in Services, LocalData(s) # {}
    PROVE  UsesLocalStorage(s)
    BY DEF LocalData, UsesLocalStorage

\* The file of a project that is ready, service by service.
LEMMA ProjectFile ==
    ASSUME Course, planStep = "ready", source \in Documents,
           NEW n \in ServicesOf(content)
    PROVE  /\ n \in ServicesOf(source)
           /\ source.services[n] \in Services
           /\ Placed(source).services[n] =
                 IF n \in LocalServices(source) THEN Pinned(source.services[n])
                 ELSE source.services[n]
           /\ Placed(source).services[n] \in Services
           /\ content.services[n] = Normalized(Placed(source).services[n])
<1>1. content = Numbered(Placed(source))
    BY DEF Course, ProjectCourse, Clean
<1>2. Placed(source) \in Documents /\ ServicesOf(Placed(source)) = ServicesOf(source)
    BY PlacedDocument
<1>3. n \in ServicesOf(source) /\ n \in ServicesOf(Placed(source)) /\ n \in Names
    BY <1>1, <1>2, NumberedDocument DEF ServicesOf
<1>4. source.services[n] \in Services
    BY <1>3, NumberedDocument
<1>5. /\ Placed(source).services[n] \in Services
      /\ content.services[n] = Normalized(Placed(source).services[n])
    BY <1>1, <1>2, <1>3, NumberedDocument
<1> QED BY <1>3, <1>4, <1>5, PlacedDocument

\* The file of a container that is ready.
LEMMA ContainerFile ==
    ASSUME Course, planStep = "ready", source \in Containers
    PROVE  /\ source.service \in Services
           /\ Convertible(source.service) \in Services
           /\ ServicesOf(content) = {ServiceName}
           /\ content.services[ServiceName] = Pinned(Convertible(source.service))
           /\ source.service.image
           /\ ~ Unconvertible(source)
<1>1. /\ content = Single(Pinned(Convertible(source.service)))
      /\ source.service.image
      /\ ~ Unconvertible(source)
    BY DEF Course, ContainerCourse, Clean
<1>2. source.service \in Services
    BY DEF Containers
<1>3. Convertible(source.service) \in Services
    BY <1>2, ConvertibleService
<1>4. Pinned(Convertible(source.service)) \in Services
    BY <1>3, PinnedService
<1> QED BY <1>1, <1>2, <1>3, <1>4, SingleDocument

\* Every variable of the check keeps its type.
THEOREM PlanTypeCorrect == PlanSpec => []PlanTypeOK
<1>1. Course => PlanTypeOK BY DEF Course
<1> QED BY <1>1, CourseKept, PTL

\* A service with data on this node cannot be started elsewhere by a file that
\* is deployed, whatever constraints it had, and a migrated container neither.
THEOREM DataStays == PlanSpec => []LocalDataStays
<1>1. Course => LocalDataStays
  <2> SUFFICES ASSUME Course, planStep = "ready",
                      NEW n \in ServicesOf(content),
                      ~ IsProject \/ LocalData(Before(n)) # {}
               PROVE  Eligible(content.services[n]) \subseteq {Here}
      BY DEF LocalDataStays
  <2>1. source \in Documents \union Containers
      BY DEF Course, SourceKnown
  <2>2. CASE source \in Documents
    <3>1. LocalData(source.services[n]) # {}
        BY <2>2 DEF IsProject, Before
    <3>2. n \in LocalServices(source)
        BY <2>2, <3>1, ProjectFile, LocalDataIsUsed DEF LocalServices
    <3>3. /\ source.services[n] \in Services
          /\ Pinned(source.services[n]) \in Services
          /\ content.services[n] = Normalized(Pinned(source.services[n]))
        BY <2>2, <3>2, ProjectFile
    <3>4. Eligible(content.services[n]) = Eligible(Pinned(source.services[n]))
        BY <3>3, NormalizedService DEF Eligible
    <3> QED BY <3>3, <3>4, PinnedStaysHere
  <2>3. CASE source \in Containers
      BY <2>3, ContainerFile, PinnedStaysHere
  <2> QED BY <2>1, <2>2, <2>3
<1> QED BY <1>1, CourseKept, PTL

\* A file that is deployed has everything of the source.
THEOREM NothingIsLost == PlanSpec => []NothingLost
<1>1. Course => NothingLost
  <2> SUFFICES ASSUME Course, planStep = "ready" PROVE NothingLost
      BY DEF NothingLost
  <2>1. source \in Documents \union Containers
      BY DEF Course, SourceKnown
  <2>2. CASE source \in Documents
    <3>1. IsProject
        BY <2>2 DEF IsProject
    <3>2. Complete(source) /\ StackAccepts(content)
        BY <2>2 DEF Course, ProjectCourse, Accepted, Clean
    <3>3. ServicesOf(content) = ServicesOf(source)
      <4>1. content = Numbered(Placed(source))
          BY <2>2 DEF Course, ProjectCourse, Clean
      <4> QED BY <2>2, <4>1, PlacedDocument, NumberedDocument
    <3>4. ASSUME NEW n \in ServicesOf(content)
          PROVE  /\ content.services[n].image
                 /\ content.services[n].mounts = source.services[n].mounts
                 /\ content.services[n].ports =
                       [p \in PortNumbers |-> IF source.services[n].ports[p] = "closed"
                                              THEN "closed" ELSE "number"]
                 /\ source.services[n].constraints \subseteq content.services[n].constraints
      <4> DEFINE given == source.services[n]
                 placed == Placed(source).services[n]
                 after == content.services[n]
      <4>1. /\ given \in Services /\ placed \in Services
            /\ after = Normalized(placed)
            /\ placed \in {given, Pinned(given)}
            /\ given.image
          BY <2>2, <3>2, <3>3, <3>4, ProjectFile DEF Complete
      <4>2. /\ placed.image = given.image /\ placed.mounts = given.mounts
            /\ placed.ports = given.ports
            /\ given.constraints \subseteq placed.constraints
        <5>1. CASE placed = given
            BY <5>1, <4>1
        <5>2. CASE placed = Pinned(given)
          <6>1. given \in Services
              BY <4>1
          <6> QED BY <5>2, <6>1, PinnedService
        <5> QED BY <4>1, <5>1, <5>2
      <4>3. /\ after.image = placed.image /\ after.mounts = placed.mounts
            /\ after.constraints = placed.constraints
            /\ after.ports = [p \in PortNumbers |->
                  IF placed.ports[p] = "digits" THEN "number" ELSE placed.ports[p]]
        <5>1. placed \in Services /\ after = Normalized(placed)
            BY <4>1
        <5> HIDE DEF placed, after
        <5> QED BY <5>1, NormalizedService
      <4>4. \A p \in PortNumbers : after.ports[p] \notin Unfit
          BY <3>2 DEF StackAccepts, Publishes
      <4>5. given.ports \in [PortNumbers -> Unfit \union {"closed", "number"}]
          BY <4>1 DEF Services, Ports
      <4> HIDE DEF given, placed, after
      <4>6. after.ports = [p \in PortNumbers |-> IF given.ports[p] = "closed"
                                                  THEN "closed" ELSE "number"]
          BY <4>2, <4>3, <4>4, <4>5 DEF Unfit
      <4>7. /\ after.image /\ after.mounts = given.mounts
            /\ given.constraints \subseteq after.constraints
          BY <4>1, <4>2, <4>3
      <4> QED BY <4>6, <4>7 DEF given, after
    <3> QED BY <3>1, <3>2, <3>3, <3>4 DEF NothingLost, Before, Complete
  <2>3. CASE source \in Containers
    <3>1. ~ IsProject
        BY <2>3, Disjoint DEF IsProject
    <3>2. /\ source.service \in Services
          /\ Convertible(source.service) \in Services
          /\ ServicesOf(content) = {ServiceName}
          /\ content.services[ServiceName] = Pinned(Convertible(source.service))
          /\ source.service.image
          /\ ~ Unconvertible(source)
        BY <2>3, ContainerFile
    <3>3. /\ "npipe" \notin source.service.mounts
          /\ \A p \in PortNumbers : source.service.ports[p] \notin NoNumber
        BY <3>2 DEF Unconvertible, Publishes
    <3> DEFINE s == source.service
               t == Convertible(source.service)
    <3>4. /\ t.image = s.image /\ t.mounts = s.mounts
          /\ \A p \in PortNumbers :
                t.ports[p] = IF s.ports[p] = "closed" THEN "closed" ELSE "number"
      <4>1. /\ t.image = s.image /\ t.mounts = s.mounts \ {"npipe"}
            /\ \A p \in PortNumbers :
                  s.ports[p] \notin NoNumber =>
                     t.ports[p] = IF s.ports[p] = "closed" THEN "closed" ELSE "number"
          BY <3>2, ConvertibleService
      <4>2. s.mounts \ {"npipe"} = s.mounts
          BY <3>3
      <4> HIDE DEF t
      <4> QED BY <3>3, <4>1, <4>2
    <3>5. t.ports = [p \in PortNumbers |-> IF s.ports[p] = "closed" THEN "closed" ELSE "number"]
      <4>1. t.ports \in [PortNumbers -> Unfit \union {"closed", "number"}]
          BY <3>2 DEF Services, Ports
      <4> QED BY <3>4, <4>1
    <3>6. /\ Pinned(t).image = t.image /\ Pinned(t).mounts = t.mounts
          /\ Pinned(t).ports = t.ports
        BY <3>2, PinnedService
    <3> QED BY <3>1, <3>2, <3>4, <3>5, <3>6 DEF NothingLost, Before
  <2> QED BY <2>1, <2>2, <2>3
<1> QED BY <1>1, CourseKept, PTL

=============================================================================
