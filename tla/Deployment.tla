------------------------------ MODULE Deployment -------------------------------
(***************************************************************************)
(* One node seen from the shell: the files, the binary, the certificate    *)
(* and the systemd service that the panel's scripts change over SSH.       *)
(*                                                                         *)
(* A push writes a temporary file, checks it with the node's binary and    *)
(* runs the atomic deploy script; an installation replaces the binary and  *)
(* restores it when the service does not run the new one; both hold the    *)
(* node's push lock.  A certificate renewal restarts the service without   *)
(* the lock.  Scripts run line by line, and a file being written is torn   *)
(* until it is whole.  The service may crash and is started again by       *)
(* systemd, the node may reboot, its disk may be full, and the connection  *)
(* may break: the panel then gives the lock back, and the script it leaves *)
(* behind runs on and may meet the next one.                               *)
(***************************************************************************)
EXTENDS Integers

CONSTANTS
  Configs,    \* generated configurations
  Versions,   \* releases of sing-box
  Accepts,    \* <<v, c>>: release v can run configuration c
  Handlers,   \* requests of the panel served at the same time
  MaxCerts,   \* bound: certificates issued in a run
  Torn,       \* a file that is only half written
  None        \* no file, no release

ASSUME DeploymentAssumption ==
  /\ {None, Torn} \cap (Configs \cup Versions) = {} /\ None # Torn
  /\ Accepts \subseteq Versions \X Configs
  /\ MaxCerts \in Nat

VARIABLES
  config,     \* config.json
  tmp,        \* /tmp/singbox-panel-config.json
  backup,     \* /tmp/singbox-panel-config.json.backup
  bin,        \* the release at the binary's path
  staged,     \* the release at bin.new
  previous,   \* the release at bin.previous
  unit,       \* the systemd unit exists and is enabled
  cert,       \* the certificate on disk, numbered in the order of issue
  due,        \* fewer than certRenewBeforeDays days are left on it
  service,    \* the service and what its process has loaded
  op,         \* op[h]: the request handler h serves and its script
  report,     \* history: the last push, as AtomicPush describes it
  mixed,      \* history: scripts have met since a push last ended well alone
  cut         \* history: a cp of config.json has been cut short since then

files   == <<config, tmp, backup>>
release == <<bin, staged, previous, unit>>
tls     == <<cert, due>>
past    == <<report, mixed, cut>>
vars    == <<files, release, tls, service, op, past>>

Files        == Configs \cup {Torn}
MaybeFile    == Files \cup {None}
MaybeVersion == Versions \cup {None}

(***************************************************************************)
(* "retry": the process has exited or could not be started, and systemd    *)
(* tries again (Restart=always).                                           *)
(***************************************************************************)
Stopped(state) == [state |-> state, bin |-> None, cert |-> 0]

Service ==
  {Stopped("down"), Stopped("retry")}
    \cup [state : {"up"}, bin : Versions, cert : 0..MaxCerts]

(***************************************************************************)
(* `want' is the configuration or the release asked for.  `was' is the     *)
(* release before an installation.  `seen' is the certificate a renewal    *)
(* has read.  `had' and `ran' are the shell variables had_previous (or     *)
(* had_binary) and was_running.  A script ends with the exit status "ok"   *)
(* or "bad", finds nothing to do ("fresh"), or dies in a reboot.  `lost':  *)
(* the panel is not connected any more.                                    *)
(***************************************************************************)
PushPcs    == {"write", "writing", "check", "backup", "keeping", "copy",
               "copying", "restart", "restore", "restoring", "restartOld"}
InstallPcs == {"fetch", "keep", "swap", "restartNew", "probe", "undo",
               "restartPrevious"}
RenewPcs   == {"read", "gate", "issue", "reload"}
EndPcs     == {"ok", "bad", "fresh", "dead"}

Idle == [kind |-> "none", pc |-> "idle", want |-> None, was |-> None,
         seen |-> 0, had |-> FALSE, ran |-> FALSE, lost |-> FALSE]

Op == [kind : {"none", "push", "install", "renew"},
       pc : {"idle"} \cup PushPcs \cup InstallPcs \cup RenewPcs \cup EndPcs,
       want : Configs \cup Versions \cup {None}, was : MaybeVersion,
       seen : 0..MaxCerts, had : BOOLEAN, ran : BOOLEAN, lost : BOOLEAN]

Done(a) == [config |-> None, before |-> None, answer |-> a]

Report ==
  {Done(a) : a \in {"pushed", "failed", "lost", "met"}}
    \cup [config : Configs, before : MaybeFile, answer : {"none", "lost"}]

\* The last scripts that began under the lock met, or one of them still runs.
Met == report.answer = "met"

\* Type invariant: the files, the service and the operations; and a script that
\* met no other and is about to restore something has it.
TypeOK ==
  /\ config \in MaybeFile /\ tmp \in MaybeFile /\ backup \in MaybeFile
  /\ bin \in MaybeVersion /\ staged \in MaybeVersion /\ previous \in MaybeVersion
  /\ unit \in BOOLEAN
  /\ cert \in 0..MaxCerts /\ due \in BOOLEAN
  /\ service \in Service
  /\ op \in [Handlers -> Op]
  /\ report \in Report /\ mixed \in BOOLEAN /\ cut \in BOOLEAN
  /\ \A h \in Handlers : op[h].had /\ ~Met =>
       /\ op[h].pc = "restore" => backup # None
       /\ op[h].pc = "undo" => previous # None

Runs(v, c) == <<v, c>> \in Accepts

\* A node as the panel finds it: new, or set up earlier.
Init ==
  /\ \/ config = None /\ bin = None /\ unit = FALSE /\ service = Stopped("down")
     \/ /\ \E p \in Accepts : bin = p[1] /\ config = p[2]
        /\ unit = TRUE
        /\ service = [state |-> "up", bin |-> bin, cert |-> 0]
  /\ tmp = None /\ backup = None /\ staged = None /\ previous = None
  /\ cert = 0 /\ due = FALSE
  /\ op = [h \in Handlers |-> Idle]
  /\ report = Done("failed") /\ mixed = FALSE /\ cut = FALSE

At(h, pc) == op[h].pc = pc
Goto(h, pc) == op' = [op EXCEPT ![h].pc = pc]

-----------------------------------------------------------------------------
(***************************************************************************)
(* The service.  The unit is of Type=simple: `systemctl restart' succeeds  *)
(* once the process has been started, whether or not it lives.  It fails,  *)
(* and leaves the service stopped, when there is nothing to start, and     *)
(* whenever systemd has reasons of its own.                                *)
(***************************************************************************)
Up == [state |-> "up", bin |-> bin, cert |-> cert]

\* The process reads the file that is there and stays up if it can run it.
Lives == Runs(bin, config)

Startable == unit /\ bin # None

RestartSucceeds ==
  /\ Startable
  /\ \/ service' = Stopped("retry")
     \/ Lives /\ service' = Up

RestartFails ==
  \/ service' = Stopped("down")
  \/ Startable /\ service' = Stopped("retry")

Crash ==
  /\ service.state = "up"
  /\ service' = Stopped("retry")
  /\ UNCHANGED <<files, release, tls, op, past>>

Retry ==
  /\ service.state = "retry" /\ Lives
  /\ service' = Up
  /\ UNCHANGED <<files, release, tls, op, past>>

-----------------------------------------------------------------------------
(***************************************************************************)
(* Requests.  Pushes and installations of a node exclude each other, but   *)
(* the lock is given back as soon as the panel answers, and a broken       *)
(* connection is an answer: the script behind it may still be running, and *)
(* the next one meets it.                                                  *)
(***************************************************************************)

\* Faulty variant: an installation does not take the push lock.
TakesLockToPush(kind) == kind = "push"

TakesLock(kind) == kind \in {"push", "install"}

Locking == {g \in Handlers : TakesLock(op[g].kind)}

\* The slot of a script that has ended is cleared (Over) before another begins.
LockFree(kind) ==
  TakesLock(kind) => \A g \in Locking : op[g].lost /\ op[g].pc \notin EndPcs

Meets(kind) == TakesLock(kind) /\ Locking # {}

Begin(h, kind, want, was, pc) ==
  /\ op[h] = Idle
  /\ LockFree(kind)
  /\ op' = [op EXCEPT ![h] = [Idle EXCEPT !.kind = kind, !.want = want,
                                          !.was = was, !.pc = pc]]
  /\ mixed' = (mixed \/ Meets(kind))
  /\ UNCHANGED <<files, release, tls, service, cut>>

StartPush(h, c) ==
  /\ Begin(h, "push", c, None, "write")
  /\ report' = IF Meets("push") THEN Done("met")
               ELSE [config |-> c, before |-> config, answer |-> "none"]

StartInstall(h, v) ==
  /\ Begin(h, "install", v, bin, "fetch")
  /\ report' = IF Meets("install") THEN Done("met")
               ELSE IF Met THEN Done("lost") ELSE report

StartRenew(h) ==
  /\ Begin(h, "renew", None, None, "read")
  /\ UNCHANGED report

\* An error before anything is changed, or the exit status of the script.
Ends(h, status) ==
  /\ Goto(h, status)
  /\ UNCHANGED <<files, release, tls, service, past>>

-----------------------------------------------------------------------------
(***************************************************************************)
(* The push: sshWriteFile, the check, and the script of                    *)
(* buildAtomicDeployCommand, which runs under `set -e'.  A redirection and *)
(* cp truncate the file they write, and fill it later.                     *)
(***************************************************************************)
OpenTmp(h) ==
  /\ At(h, "write")
  /\ tmp' = Torn
  /\ Goto(h, "writing")
  /\ UNCHANGED <<config, backup, release, tls, service, past>>

WriteTmp(h) ==
  /\ At(h, "writing")
  /\ tmp' = op[h].want
  /\ Goto(h, "check")
  /\ UNCHANGED <<config, backup, release, tls, service, past>>

Check(h) ==
  /\ At(h, "check")
  /\ Goto(h, IF Runs(bin, tmp) THEN "backup" ELSE "bad")
  /\ UNCHANGED <<files, release, tls, service, past>>

\* There is no connection, no session or no room for the temporary file, or
\* mkdir fails.
CannotStart(h) ==
  op[h].pc \in {"write", "writing", "check", "backup"} /\ Ends(h, "bad")

\* Faulty variant: the script takes it that there is a file to keep.
OpenWithoutLooking(h) ==
  /\ At(h, "backup")
  /\ op' = [op EXCEPT ![h].pc = "copy", ![h].had = TRUE]
  /\ backup' = config
  /\ UNCHANGED <<config, tmp, release, tls, service, past>>

OpenBackup(h) ==
  /\ At(h, "backup")
  /\ \/ config # None /\ backup' = Torn /\ Goto(h, "keeping")
     \/ config = None /\ Goto(h, "copy") /\ UNCHANGED backup
  /\ UNCHANGED <<config, tmp, release, tls, service, past>>

\* What cp makes of a file.  One that another script removes meanwhile may have
\* been anything.
Copied(file) == IF file = None THEN Files ELSE {file}

FillBackup(h) ==
  /\ At(h, "keeping")
  /\ backup' \in Copied(config)
  /\ op' = [op EXCEPT ![h].pc = "copy", ![h].had = TRUE]
  /\ UNCHANGED <<config, tmp, release, tls, service, past>>

\* cp opens what it reads first: if there is no such file, nothing is lost.
OpenConfig(h) ==
  /\ At(h, "copy")
  /\ \/ tmp # None /\ config' = Torn /\ Goto(h, "copying")
     \/ tmp = None /\ Goto(h, "bad") /\ UNCHANGED config
  /\ UNCHANGED <<tmp, backup, release, tls, service, past>>

FillConfig(h) ==
  /\ At(h, "copying")
  /\ config' \in Copied(tmp)
  /\ Goto(h, "restart")
  /\ UNCHANGED <<tmp, backup, release, tls, service, past>>

\* The file config.json is in the hands of cp.
Copying(h) == op[h].pc \in {"copying", "restoring"}

\* cp fails, for lack of space say, and `set -e' ends the script where it is.
CopyFails(h) ==
  /\ At(h, "keeping") \/ Copying(h)
  /\ cut' = (cut \/ Copying(h))
  /\ Goto(h, "bad")
  /\ UNCHANGED <<files, release, tls, service, report, mixed>>

\* The temporary file is removed on the way to the restart.
Restart(h) ==
  /\ At(h, "restart")
  /\ tmp' = None
  /\ \/ /\ RestartSucceeds /\ backup' = None /\ Goto(h, "ok")
        /\ mixed' = (mixed /\ Met) /\ cut' = (cut /\ Met)
     \/ /\ RestartFails /\ Goto(h, "restore")
        /\ UNCHANGED <<backup, mixed, cut>>
  /\ UNCHANGED <<config, release, tls, report>>

\* Faulty variant: the backup is restored if there is one, whether or not there
\* was a file before.
RestoreAlways(h) ==
  /\ At(h, "restore")
  /\ \/ backup # None /\ config' = Torn /\ Goto(h, "restoring")
     \/ backup = None /\ Goto(h, "restartOld") /\ UNCHANGED config
  /\ UNCHANGED <<tmp, backup, release, tls, service, past>>

\* A backup that another script has removed cannot be copied.
Restore(h) ==
  /\ At(h, "restore")
  /\ \/ op[h].had /\ backup # None /\ config' = Torn /\ Goto(h, "restoring")
     \/ op[h].had /\ backup = None /\ UNCHANGED config /\ Goto(h, "bad")
     \/ ~op[h].had /\ config' = None /\ Goto(h, "restartOld")
  /\ UNCHANGED <<tmp, backup, release, tls, service, past>>

Restored(h) ==
  /\ At(h, "restoring")
  /\ config' \in Copied(backup)
  /\ Goto(h, "restartOld")
  /\ UNCHANGED <<tmp, backup, release, tls, service, past>>

RestartOld(h) ==
  /\ At(h, "restartOld")
  /\ RestartSucceeds \/ RestartFails
  /\ backup' = None
  /\ Goto(h, "bad")
  /\ UNCHANGED <<config, tmp, release, tls, past>>

PushStep(h) ==
  \/ OpenTmp(h) \/ WriteTmp(h) \/ Check(h) \/ CannotStart(h)
  \/ OpenBackup(h) \/ FillBackup(h) \/ OpenConfig(h) \/ FillConfig(h)
  \/ CopyFails(h) \/ Restart(h) \/ Restore(h) \/ Restored(h) \/ RestartOld(h)

-----------------------------------------------------------------------------
(***************************************************************************)
(* The installation: verifiedInstallScript.                                *)
(***************************************************************************)

\* The candidate is downloaded, reports the version asked for and accepts the
\* configuration the node has; a file that is empty is not looked at.
FetchPasses(h) ==
  /\ At(h, "fetch")
  /\ config \in Configs => Runs(op[h].want, config)
  /\ Goto(h, "keep")
  /\ UNCHANGED <<files, release, tls, service, past>>

\* Something fails ahead of the swap, the copy of the binary included.
FetchFails(h) == op[h].pc \in {"fetch", "keep"} /\ Ends(h, "bad")

\* The binary there is goes to bin.previous, the candidate to bin.new.
Keep(h) ==
  /\ At(h, "keep")
  /\ op' = [op EXCEPT ![h].pc = "swap", ![h].had = (bin # None),
                      ![h].ran = (service.state = "up")]
  /\ previous' = IF bin # None THEN bin ELSE previous
  /\ staged' = op[h].want
  /\ UNCHANGED <<files, bin, unit, tls, service, past>>

\* The last line of the script asks the binary in place for its version.
LastLine(h, v) == IF v = op[h].want THEN "ok" ELSE "bad"

\* rename(2): there is a whole binary at the path at any time, and the running
\* process keeps the old inode.
Swap(h) ==
  /\ At(h, "swap")
  /\ \/ /\ staged # None /\ bin' = staged /\ staged' = None
        /\ Goto(h, IF op[h].ran THEN "restartNew" ELSE LastLine(h, staged))
     \/ /\ staged = None /\ Goto(h, "bad") /\ UNCHANGED <<bin, staged>>
  /\ UNCHANGED <<files, previous, unit, tls, service, past>>

RestartNew(h) ==
  /\ At(h, "restartNew")
  /\ \/ RestartSucceeds /\ Goto(h, "probe")
     \/ RestartFails /\ Goto(h, "undo")
  /\ UNCHANGED <<files, release, tls, past>>

\* running_new_binary, two seconds later.
Probe(h) ==
  /\ At(h, "probe")
  /\ Goto(h, IF service.state = "up" /\ service.bin = bin
               THEN LastLine(h, bin) ELSE "undo")
  /\ UNCHANGED <<files, release, tls, service, past>>

\* Faulty variant: the new binary stays.
KeepNew(h) ==
  /\ At(h, "undo")
  /\ Goto(h, IF op[h].had THEN "restartPrevious" ELSE "bad")
  /\ UNCHANGED <<files, release, tls, service, past>>

Undo(h) ==
  /\ At(h, "undo")
  /\ \/ /\ op[h].had /\ previous # None
        /\ bin' = previous /\ previous' = None
        /\ Goto(h, "restartPrevious")
     \/ /\ ~op[h].had \/ previous = None
        /\ UNCHANGED <<bin, previous>> /\ Goto(h, "bad")
  /\ UNCHANGED <<files, staged, unit, tls, service, past>>

RestartPrevious(h) ==
  /\ At(h, "restartPrevious")
  /\ RestartSucceeds \/ RestartFails
  /\ Goto(h, "bad")
  /\ UNCHANGED <<files, release, tls, past>>

InstallStep(h) ==
  \/ FetchPasses(h) \/ FetchFails(h) \/ Keep(h) \/ Swap(h)
  \/ RestartNew(h) \/ Probe(h) \/ Undo(h) \/ RestartPrevious(h)

-----------------------------------------------------------------------------
(***************************************************************************)
(* The renewal of the certificate of one inbound: HandleCertRenew and      *)
(* renewCertScript.  It does not take the push lock.                       *)
(***************************************************************************)
ReadBefore(h) ==
  /\ At(h, "read")
  /\ op' = [op EXCEPT ![h].seen = cert, ![h].pc = "gate"]
  /\ UNCHANGED <<files, release, tls, service, past>>

\* openssl -checkend: a certificate that is fresh is left alone, unless the
\* request said `force'.
Gate(h) ==
  /\ At(h, "gate")
  /\ \E force \in BOOLEAN : Goto(h, IF due \/ force THEN "issue" ELSE "fresh")
  /\ UNCHANGED <<files, release, tls, service, past>>

\* acme.sh installs the certificate it was issued and runs the reload command,
\* whose failure is ignored; or it issues none.
Issue(h) ==
  /\ At(h, "issue") /\ cert < MaxCerts
  /\ cert' = cert + 1 /\ due' = FALSE
  /\ Goto(h, "reload")
  /\ UNCHANGED <<files, release, service, past>>

IssueFails(h) == At(h, "issue") /\ Ends(h, "ok")

\* Faulty variant: the service keeps the certificate it has.
ReloadNothing(h) == At(h, "reload") /\ Ends(h, "ok")

Reload(h) ==
  /\ At(h, "reload")
  /\ RestartSucceeds \/ RestartFails
  /\ Goto(h, "ok")
  /\ UNCHANGED <<files, release, tls, past>>

RenewStep(h) ==
  ReadBefore(h) \/ Gate(h) \/ Issue(h) \/ IssueFails(h) \/ Reload(h)

-----------------------------------------------------------------------------
(***************************************************************************)
(* The panel's end of the connection.                                      *)
(***************************************************************************)

\* The renewal is judged by the certificate read back from the node.
Verdict(h) ==
  CASE op[h].pc = "bad" -> "failed"
    [] op[h].pc = "fresh" -> "fresh"
    [] op[h].pc = "ok" /\ op[h].kind = "push" -> "pushed"
    [] op[h].pc = "ok" /\ op[h].kind = "install" -> "installed"
    [] op[h].pc = "ok" /\ op[h].kind = "renew" ->
         IF cert # op[h].seen THEN "renewed" ELSE "failed"

\* After an installation the panel writes and enables the unit if there is
\* none, and does not look whether that worked.
Answer(h) ==
  /\ ~op[h].lost /\ op[h].pc \in {"ok", "bad", "fresh"}
  /\ op' = [op EXCEPT ![h] = Idle]
  /\ report' = IF op[h].kind = "push" /\ ~Met THEN Done(Verdict(h)) ELSE report
  /\ unit' \in IF Verdict(h) = "installed" THEN {unit, TRUE} ELSE {unit}
  /\ UNCHANGED <<files, bin, staged, previous, tls, service, mixed, cut>>

\* The connection breaks, or the panel dies, or it notices that the node has
\* rebooted.  What the panel does itself stops there, and the lock is free; a
\* script it may have started runs on.
CutAt(pc) ==
  CASE pc \in {"write", "writing", "check", "read"} -> {"dead"}
    [] pc \in {"backup", "fetch", "gate"} -> {pc, "dead"}
    [] OTHER -> {pc}

Cut(h) ==
  /\ op[h] # Idle /\ ~op[h].lost
  /\ \E pc \in CutAt(op[h].pc) :
       op' = [op EXCEPT ![h].lost = TRUE, ![h].pc = pc]
  /\ report' = IF op[h].kind = "push" /\ ~Met
                 THEN [report EXCEPT !.answer = "lost"] ELSE report
  /\ UNCHANGED <<files, release, tls, service, mixed, cut>>

\* A script that outlived its connection has ended.
Over(h) ==
  /\ op[h].lost /\ op[h].pc \in EndPcs
  /\ op' = [op EXCEPT ![h] = Idle]
  /\ report' = IF op[h].kind = "push" /\ ~Met THEN Done("lost") ELSE report
  /\ UNCHANGED <<files, release, tls, service, mixed, cut>>

\* Scripts die with the machine, wherever they are; the service starts with the
\* files it finds.  /tmp may or may not survive.
Reboot ==
  /\ op' = [h \in Handlers |->
       IF op[h].pc \in {"idle"} \cup EndPcs THEN op[h]
                                          ELSE [op[h] EXCEPT !.pc = "dead"]]
  /\ service' \in IF Startable
                    THEN {Stopped("retry")} \cup (IF Lives THEN {Up} ELSE {})
                    ELSE {Stopped("down")}
  /\ \/ UNCHANGED <<tmp, backup>>
     \/ tmp' = None /\ backup' = None
  /\ cut' = (cut \/ \E h \in Handlers : Copying(h))
  /\ UNCHANGED <<config, release, tls, report, mixed>>

Expire ==
  /\ cert < MaxCerts /\ ~due
  /\ due' = TRUE
  /\ UNCHANGED <<files, release, cert, service, op, past>>

ScriptStep(h) == PushStep(h) \/ InstallStep(h) \/ RenewStep(h)

Request(h) ==
  \/ \E c \in Configs : StartPush(h, c)
  \/ \E v \in Versions : StartInstall(h, v)
  \/ StartRenew(h)

Next ==
  \/ \E h \in Handlers : \/ Request(h) \/ ScriptStep(h)
                         \/ Answer(h) \/ Cut(h) \/ Over(h)
  \/ Crash \/ Retry \/ Reboot \/ Expire

Spec == Init /\ [][Next]_vars

-----------------------------------------------------------------------------
(***************************************************************************)
(* Properties.                                                             *)
(***************************************************************************)

\* Until two scripts meet, the configuration and the binary fit, whatever
\* restarts the service and when: a push checks the new file with the binary
\* that is there, an upgrade the new binary with the file that is there, and the
\* push lock keeps the two checks from crossing.  A file that is only half
\* written is in the hands of cp, or a reboot or a full disk has cut cp short.
\* A push that meets no other and ends well makes good for what came before.
FilesFitTogether ==
  ~mixed =>
    /\ bin # None /\ config \in Configs => Runs(bin, config)
    /\ config = Torn => cut \/ \E h \in Handlers : Copying(h)

\* "Config push with validation" (README.md): the configuration that is there is
\* one that the binary runs.  A script left behind by a broken connection copies
\* what the next push has just written, before that push has it checked.
DeployedIsValidated ==
  bin # None /\ config \in Configs => Runs(bin, config)

Answered(h, a) == Answer(h) /\ Verdict(h) = a

\* "A running service must actually run the new version, or restore its previous
\* binary" (handler/install.go), and the answers of an installation that meets no
\* other script say which: after a success the service that was running does not
\* run anything else; after a failure the binary that was there is back, in place
\* and in the service it had replaced.
UpgradesAreAllOrNothing ==
  [][\A h \in Handlers :
       /\ Answered(h, "installed") /\ ~Met =>
            /\ bin = op[h].want
            /\ op[h].ran /\ service.state = "up" => service.bin = op[h].want
       /\ op[h].kind = "install" /\ Answered(h, "failed") /\ op[h].was # None /\ ~Met =>
            /\ bin = op[h].was
            /\ op[h].ran /\ service.state = "up" => service.bin = op[h].was]_vars

\* A certificate reported as renewed is not only on disk: the service is not
\* left running with the one before, unless another renewal of the node is
\* about to restart it.
RenewedIsServed ==
  [][\A h \in Handlers :
       Answered(h, "renewed") =>
         \/ service.state = "up" => service.cert > op[h].seen
         \/ \E g \in Handlers : op[g].pc = "reload"]_vars

\* What the node would be left with if every script ended well from here: a new
\* file counts once the service has been restarted with it.
Undecided(h) == op[h].pc \in {"copying", "restart", "restore", "restoring"}

InForce ==
  IF \E h \in Handlers : Undecided(h)
    THEN LET h == CHOOSE g \in Handlers : Undecided(g)
         IN  IF op[h].had THEN backup ELSE None
    ELSE config

\* The scripts keep the promise the rest of the panel relies on.
Abstract == INSTANCE AtomicPush WITH inForce <- InForce, push <- report

PushIsAtomic == Abstract!Spec

=============================================================================
