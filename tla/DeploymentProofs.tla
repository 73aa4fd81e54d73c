--------------------------- MODULE DeploymentProofs ----------------------------
(***************************************************************************)
(* The scripts keep their promises, for any configurations, releases and   *)
(* handlers: whatever crashes, reboots, full disks and lost connections    *)
(* come between their lines, the files on the node fit together until two  *)
(* scripts meet, a push that meets no other is atomic, an upgrade that     *)
(* meets no other is all or nothing, and a renewed certificate is served.  *)
(***************************************************************************)
EXTENDS Deployment, TLAPS

-----------------------------------------------------------------------------
(***************************************************************************)
(* The inductive invariant.  Everything that a script has checked, it has  *)
(* checked while no other script was there, so that what it checked is     *)
(* still there when it uses it; this has to be said line by line.  Of      *)
(* scripts that have met only the types are known, and that a renewed      *)
(* certificate is served, which takes no lock.                             *)
(***************************************************************************)
Pcs == {"idle"} \cup PushPcs \cup InstallPcs \cup RenewPcs \cup EndPcs

Types ==
  /\ config \in MaybeFile /\ tmp \in MaybeFile /\ backup \in MaybeFile
  /\ bin \in MaybeVersion /\ staged \in MaybeVersion /\ previous \in MaybeVersion
  /\ unit \in BOOLEAN
  /\ cert \in 0..MaxCerts /\ due \in BOOLEAN
  /\ service \in Service
  /\ op \in [Handlers -> Op]
  /\ report \in Report /\ mixed \in BOOLEAN /\ cut \in BOOLEAN

\* One operation at a time under the lock, a script that outlived its connection
\* included.
Exclusive ==
  \A g, h \in Handlers : TakesLock(op[g].kind) /\ TakesLock(op[h].kind) => g = h

PcFits(h) ==
  /\ op[h].pc \in PushPcs => op[h].kind = "push"
  /\ op[h].pc \in InstallPcs => op[h].kind = "install"
  /\ op[h].pc \in RenewPcs \cup {"fresh"} => op[h].kind = "renew"
  /\ op[h].pc = "idle" => op[h] = Idle
  /\ op[h].kind = "none" => op[h] = Idle
  /\ op[h].kind = "push" => op[h].want \in Configs
  /\ op[h].kind = "install" => op[h].want \in Versions
  /\ op[h].seen <= cert

Fits(v, c) == v # None /\ c \in Configs => Runs(v, c)

\* A push: what it wants is what it reports, and what it found is in config.json
\* or in the backup.
PushFits(h) ==
  op[h].kind = "push" =>
    /\ report.config = op[h].want
    /\ report.answer = IF op[h].lost THEN "lost" ELSE "none"
    /\ op[h].pc # "ok" /\ ~mixed =>
         Fits(bin, report.before) /\ (report.before = Torn => cut)
    /\ op[h].pc \in {"write", "writing", "check", "backup", "keeping", "copy",
                     "restartOld"} => config = report.before
    /\ op[h].pc \in {"write", "writing", "check", "backup", "keeping"} => ~op[h].had
    /\ op[h].pc \in {"check", "backup", "keeping", "copy", "copying"} =>
         tmp = op[h].want
    /\ op[h].pc = "keeping" => config # None
    /\ op[h].pc \in {"backup", "keeping", "copy", "copying", "restart", "restore",
                     "restoring", "ok"} => Runs(bin, op[h].want)
    /\ op[h].pc \in {"copy", "copying", "restart", "restore", "restoring"} =>
         /\ report.before = IF op[h].had THEN backup ELSE None
         /\ op[h].had => backup # None
    /\ op[h].pc \in {"copying", "restoring"} => config = Torn
    /\ op[h].pc = "restoring" => op[h].had
    /\ op[h].pc \in {"restart", "restore", "ok"} => config = op[h].want
    /\ op[h].pc = "bad" => config = report.before \/ (config = Torn /\ cut)
    /\ op[h].pc = "dead" =>
         config \in {report.before, op[h].want} \/ (config = Torn /\ cut)

\* The service does not run anything but release v.
RunsOnly(v) == service.state = "up" => service.bin = v

\* An installation: both releases run the configuration there is, and the one
\* before is kept.
InstallFits(h) ==
  op[h].kind = "install" =>
    /\ op[h].pc \in {"fetch", "keep"} => ~op[h].ran
    /\ op[h].pc \in {"fetch", "keep", "swap", "restartPrevious"} => bin = op[h].was
    /\ op[h].pc \in {"keep", "swap"} => Fits(op[h].want, config)
    /\ op[h].pc = "swap" => staged = op[h].want
    /\ op[h].pc \in {"restartNew", "probe", "undo"} =>
         bin = op[h].want /\ (~mixed => Fits(op[h].was, config))
    /\ op[h].pc \in {"swap", "restartNew", "probe", "undo"} =>
         /\ op[h].had <=> op[h].was # None
         /\ op[h].had => previous = op[h].was
    /\ op[h].pc = "ok" => bin = op[h].want /\ (op[h].ran => RunsOnly(bin))
    /\ op[h].pc = "bad" /\ op[h].was # None =>
         bin = op[h].was /\ (op[h].ran => RunsOnly(bin))

NoPushReport ==
  (\A h \in Handlers : op[h].kind # "push") => report.config = None

\* The service serves the certificate on disk, or is about to be restarted.
CertIsServed ==
  service.state = "up" =>
    service.cert = cert \/ \E g \in Handlers : op[g].pc = "reload"

\* No script has met the one that is there.
Alone ==
  /\ Exclusive /\ NoPushReport
  /\ \A h \in Handlers : PushFits(h) /\ InstallFits(h)

Inv ==
  /\ Types /\ CertIsServed /\ FilesFitTogether
  /\ \A h \in Handlers : PcFits(h)
  /\ Met => mixed
  /\ ~Met => Alone

-----------------------------------------------------------------------------
(***************************************************************************)
(* Facts about the service and the operations.                             *)
(***************************************************************************)
LEMMA ConstantFacts ==
  /\ MaxCerts \in Nat
  /\ None \notin Configs /\ None \notin Versions /\ None # Torn
  /\ Torn \notin Configs /\ Torn \notin Versions
  /\ Accepts \subseteq Versions \X Configs
  /\ None \in MaybeFile /\ Torn \in MaybeFile /\ None \in MaybeVersion
  /\ \A c \in Configs : c \in MaybeFile
BY DeploymentAssumption DEF DeploymentAssumption, MaybeFile, Files, MaybeVersion

\* A release runs whole configurations only.
LEMMA RunsFacts ==
  ASSUME NEW v, NEW c, Runs(v, c)
  PROVE  v \in Versions /\ c \in Configs /\ v # None
BY ConstantFacts DEF Runs

LEMMA ServiceFacts ==
  ASSUME Types
  PROVE  /\ Stopped("down") \in Service /\ Stopped("retry") \in Service
         /\ Stopped("down").state # "up" /\ Stopped("retry").state # "up"
         /\ bin # None => Up \in Service
         /\ Up.state = "up" /\ Up.bin = bin /\ Up.cert = cert
BY DEF Types, Service, Stopped, Up, MaybeVersion

\* A restart, whatever comes of it, leaves nothing running but what is there.
LEMMA RestartFacts ==
  ASSUME Types, RestartSucceeds \/ RestartFails
  PROVE  /\ service' \in Service
         /\ service'.state = "up" => service'.bin = bin /\ service'.cert = cert
BY ServiceFacts, RunsFacts DEF RestartSucceeds, RestartFails, Lives

LEMMA GotoFacts ==
  ASSUME Types, NEW h \in Handlers, NEW pc \in Pcs, Goto(h, pc)
  PROVE  /\ op' \in [Handlers -> Op]
         /\ \A g \in Handlers : g # h => op'[g] = op[g]
         /\ op'[h].pc = pc /\ op'[h].kind = op[h].kind /\ op'[h].want = op[h].want
         /\ op'[h].was = op[h].was /\ op'[h].seen = op[h].seen /\ op'[h].had = op[h].had
         /\ op'[h].ran = op[h].ran /\ op'[h].lost = op[h].lost
<1>1. op \in [Handlers -> Op] /\ op[h] \in Op
  BY DEF Types
<1>2. [op[h] EXCEPT !.pc = pc] \in Op
  BY <1>1 DEF Op, Pcs
<1>3. op' = [op EXCEPT ![h] = [op[h] EXCEPT !.pc = pc]]
  BY DEF Goto
<1> QED
  BY <1>1, <1>2, <1>3 DEF Op

LEMMA IdleFacts ==
  ASSUME MaxCerts \in Nat
  PROVE  /\ Idle \in Op /\ Idle.kind = "none" /\ Idle.pc = "idle" /\ Idle.seen = 0
         /\ ~TakesLock(Idle.kind)
<1>1. 0 \in 0..MaxCerts
  OBVIOUS
<1>2. None \in MaybeVersion
  BY DEF MaybeVersion
<1> QED
  BY <1>1, <1>2 DEF Idle, Op, TakesLock

-----------------------------------------------------------------------------
(***************************************************************************)
(* Two kinds of step: of a script under the lock, whose files nobody else  *)
(* minds unless they have met, and of anything else, which leaves the      *)
(* files alone.                                                            *)
(***************************************************************************)
LEMMA LockedStep ==
  ASSUME Inv, NEW h \in Handlers, TakesLock(op[h].kind), op'[h].kind = op[h].kind,
         \A g \in Handlers : g # h => op'[g] = op[g],
         cert' = cert, Met' = Met, Types',
         PcFits(h)', FilesFitTogether', CertIsServed', Met => mixed',
         ~Met => (PushFits(h) /\ InstallFits(h) /\ NoPushReport)'
  PROVE  Inv'
<1> USE DEF Inv
<1>1. \A g \in Handlers : PcFits(g)'
  <2>1. ASSUME NEW g \in Handlers, g # h
        PROVE  PcFits(g)'
    BY <2>1 DEF PcFits
  <2> QED
    BY <2>1
<1>2. ASSUME ~Met
      PROVE  Alone'
  <2>1. Exclusive'
    BY <1>2 DEF Exclusive, Alone
  <2>2. ASSUME NEW g \in Handlers, g # h
        PROVE  (PushFits(g) /\ InstallFits(g))'
    <3>1. op'[g] = op[g] /\ ~TakesLock(op[g].kind)
      BY <1>2, <2>2 DEF Exclusive, Alone
    <3>2. op'[g].kind # "push" /\ op'[g].kind # "install"
      BY <3>1 DEF TakesLock
    <3> QED
      BY <3>2 DEF PushFits, InstallFits
  <2> QED
    BY <1>2, <2>1, <2>2 DEF Alone
<1> QED
  BY <1>1, <1>2

\* A handler whose request does not move, while the files and the release stay.
LEMMA OthersFit ==
  ASSUME Inv, NEW g \in Handlers, op'[g] = op[g],
         UNCHANGED <<files, bin, staged, previous, mixed, cut>>,
         op[g].kind = "push" => report' = report,
         RunsOnly(bin) => RunsOnly(bin)',
         cert <= cert', Types'
  PROVE  PcFits(g)' /\ (~Met => PushFits(g)' /\ InstallFits(g)')
<1> USE DEF Inv
<1>1. UNCHANGED <<config, tmp, backup, bin, staged, previous, mixed, cut>>
  BY DEF files
<1>2. PcFits(g)'
  <2>1. op[g].seen <= cert /\ op[g].seen \in Int /\ cert \in Int /\ cert' \in Int
    BY ConstantFacts DEF PcFits, Types, Op
  <2>2. op[g].seen <= cert'
    BY <2>1
  <2> QED
    BY <2>2 DEF PcFits
<1>3. ~Met => PushFits(g)'
  BY <1>1 DEF PushFits, Fits, Alone
<1>4. ~Met => InstallFits(g)'
  BY <1>1 DEF InstallFits, Fits, Alone
<1> QED
  BY <1>2, <1>3, <1>4

\* A step of an operation without the lock, or of none.
LEMMA UnlockedStep ==
  ASSUME Inv, NEW h \in Handlers, ~TakesLock(op[h].kind), op'[h].kind = op[h].kind,
         \A g \in Handlers : g # h => op'[g] = op[g],
         UNCHANGED <<files, release, past>>,
         RunsOnly(bin) => RunsOnly(bin)',
         cert <= cert', Types', PcFits(h)', CertIsServed'
  PROVE  Inv'
<1> USE DEF Inv
<1>1. /\ UNCHANGED <<config, bin, report, mixed, cut>>
      /\ UNCHANGED <<files, bin, staged, previous, mixed, cut>>
  BY DEF files, release, past
<1>2. Exclusive' <=> Exclusive
  BY DEF Exclusive
<1>3. NoPushReport' <=> NoPushReport
  BY <1>1 DEF NoPushReport
<1>4. FilesFitTogether'
  <2>1. ~Copying(h)
    BY DEF PcFits, PushPcs, Copying, TakesLock
  <2>2. \A g \in Handlers : Copying(g) => g # h /\ Copying(g)'
    BY <2>1 DEF Copying
  <2> QED
    BY <1>1, <2>2 DEF FilesFitTogether, Runs
<1>5. PushFits(h)' /\ InstallFits(h)'
  BY DEF PushFits, InstallFits, TakesLock
<1>6. \A g \in Handlers : g # h => PcFits(g)' /\ (~Met => PushFits(g)' /\ InstallFits(g)')
  BY <1>1, OthersFit
<1>7. Met' = Met
  BY <1>1 DEF Met
<1> QED
  BY <1>1, <1>2, <1>3, <1>4, <1>5, <1>6, <1>7 DEF Alone

LEMMA DoneFacts ==
  ASSUME NEW a \in {"pushed", "failed", "lost", "met"}
  PROVE  Done(a) \in Report /\ Done(a).config = None /\ Done(a).answer = a
BY DEF Done, Report

LEMMA InitInv == Init => Inv
<1> SUFFICES ASSUME Init PROVE Inv
  OBVIOUS
<1>1. /\ op \in [Handlers -> Op]
      /\ \A h \in Handlers : op[h] = Idle /\ op[h].kind = "none" /\ op[h].pc = "idle"
                             /\ op[h].seen = 0 /\ ~TakesLock(op[h].kind)
  BY ConstantFacts, IdleFacts DEF Init
<1>2. /\ report \in Report /\ report.config = None /\ ~Met
      /\ mixed = FALSE /\ cut = FALSE
  BY DoneFacts DEF Init, Met
<1>3. /\ cert = 0 /\ cert \in 0..MaxCerts /\ due \in BOOLEAN
      /\ tmp \in MaybeFile /\ backup \in MaybeFile
      /\ staged \in MaybeVersion /\ previous \in MaybeVersion
  <2>1. cert = 0 /\ due = FALSE /\ tmp = None /\ backup = None /\ staged = None /\ previous = None
    BY DEF Init
  <2>2. 0 \in 0..MaxCerts
    BY ConstantFacts
  <2> QED
    BY <2>1, <2>2, ConstantFacts
<1>4. (\A h \in Handlers : PcFits(h)) /\ Alone
  BY <1>1, <1>2, <1>3
     DEF Alone, Exclusive, PcFits, PushFits, InstallFits, NoPushReport,
         PushPcs, InstallPcs, RenewPcs
<1>5. CASE config = None /\ bin = None /\ unit = FALSE /\ service = Stopped("down")
  <2>1. service \in Service /\ config \in MaybeFile /\ bin \in MaybeVersion /\ unit \in BOOLEAN
    BY <1>5, ConstantFacts DEF Service
  <2>2. Types
    BY <1>1, <1>2, <1>3, <2>1 DEF Types
  <2>3. CertIsServed /\ FilesFitTogether
    BY <1>5, ConstantFacts DEF CertIsServed, FilesFitTogether, Stopped
  <2> QED
    BY <1>2, <1>4, <2>2, <2>3 DEF Inv
<1>6. ASSUME NEW p \in Accepts, bin = p[1], config = p[2], unit = TRUE,
             service = [state |-> "up", bin |-> bin, cert |-> 0]
      PROVE  Inv
  <2>1. bin \in Versions /\ config \in Configs /\ p = <<bin, config>>
    BY <1>6, ConstantFacts
  <2>2. service \in Service
    BY <1>3, <1>6, <2>1 DEF Service
  <2>3. Types
    BY <1>1, <1>2, <1>3, <1>6, <2>1, <2>2, ConstantFacts DEF Types, MaybeVersion
  <2>4. CertIsServed /\ FilesFitTogether
    BY <1>3, <1>6, <2>1, ConstantFacts DEF CertIsServed, FilesFitTogether, Runs
  <2> QED
    BY <1>2, <1>4, <2>3, <2>4 DEF Inv
<1> QED
  BY <1>5, <1>6 DEF Init

-----------------------------------------------------------------------------
(***************************************************************************)
(* The push.                                                               *)
(***************************************************************************)

\* What the lines of a push have in common.
LEMMA PushFacts ==
  ASSUME Inv, NEW h \in Handlers, op[h].pc \in PushPcs
  PROVE  /\ op[h].kind = "push" /\ TakesLock(op[h].kind)
         /\ op \in [Handlers -> Op] /\ op[h] \in Op
         /\ op[h].want \in Configs /\ op[h].want \in MaybeFile
         /\ op[h].want # None /\ op[h].want # Torn
         /\ op[h].seen <= cert
         /\ config \in MaybeFile /\ backup \in MaybeFile /\ tmp \in MaybeFile
         /\ service \in Service /\ mixed \in BOOLEAN /\ cut \in BOOLEAN
         /\ op[h].pc \notin InstallPcs /\ op[h].pc \notin RenewPcs
         /\ Types
         /\ ~Met => PushFits(h)
BY ConstantFacts
   DEF Inv, PcFits, Types, Alone, TakesLock, PushPcs, InstallPcs, RenewPcs

\* A line of a push that leaves the release, the certificate and the report.
LEMMA PushLine ==
  ASSUME Inv, NEW h \in Handlers, op[h].pc \in PushPcs,
         NEW pc \in PushPcs \cup {"ok", "bad"},
         op' \in [Handlers -> Op], \A g \in Handlers : g # h => op'[g] = op[g],
         op'[h].pc = pc, op'[h].kind = op[h].kind, op'[h].want = op[h].want,
         op'[h].seen = op[h].seen,
         config' \in MaybeFile, tmp' \in MaybeFile, backup' \in MaybeFile,
         service' \in Service, mixed' \in BOOLEAN, cut' \in BOOLEAN,
         service'.state = "up" => service' = service \/ service'.cert = cert,
         UNCHANGED <<release, tls, report>>,
         Met => mixed', ~Met => PushFits(h)'
  PROVE  Inv'
<1> USE DEF Inv
<1>1. UNCHANGED <<bin, staged, previous, unit, cert, due, report>> /\ Met' = Met
  BY DEF release, tls, Met
<1>2. Types'
  BY <1>1 DEF Types
<1>3. op[h].pc # "reload"
  BY PushFacts DEF RenewPcs
<1>4. op'[h].pc \notin InstallPcs \cup RenewPcs \cup {"fresh", "idle"}
  BY DEF PushPcs, InstallPcs, RenewPcs
<1>5. PcFits(h)' /\ InstallFits(h)' /\ NoPushReport'
  BY <1>1, <1>4, PushFacts DEF PcFits, InstallFits, NoPushReport
<1>6. CertIsServed'
  BY <1>1, <1>3 DEF CertIsServed
<1>7. FilesFitTogether'
  <2> SUFFICES ASSUME ~mixed'
               PROVE  /\ bin # None /\ config' \in Configs => Runs(bin, config')
                      /\ config' = Torn => cut' \/ \E g \in Handlers : Copying(g)'
    BY <1>1 DEF FilesFitTogether, Runs
  <2>1. /\ ~Met /\ PushFits(h)' /\ op'[h].kind = "push"
        /\ op'[h].want \in Configs /\ op'[h].want # Torn
    BY PushFacts
  <2>2. CASE pc \in {"copying", "restoring"}
    <3>1. config' = Torn /\ Copying(h)'
      BY <2>1, <2>2 DEF PushFits, Copying
    <3> QED
      BY <3>1, ConstantFacts
  <2>3. CASE pc \in {"restart", "restore", "ok"}
    <3>1. config' = op'[h].want /\ Runs(bin, op'[h].want)
      BY <1>1, <2>1, <2>3 DEF PushFits, Runs
    <3> QED
      BY <2>1, <3>1
  <2>4. CASE pc \in {"write", "writing", "check", "backup", "keeping", "copy",
                     "restartOld", "bad"}
    <3>1. /\ Fits(bin, report.before) /\ (report.before = Torn => cut')
          /\ config' = report.before \/ (config' = Torn /\ cut')
      BY <1>1, <2>1, <2>4 DEF PushFits, Fits, Runs
    <3> QED
      BY <3>1, ConstantFacts DEF Fits
  <2> QED
    BY <2>2, <2>3, <2>4 DEF PushPcs
<1> QED
  BY <1>1, <1>2, <1>5, <1>6, <1>7, PushFacts, LockedStep

\* The lines up to the script, and those that end it where it is.
LEMMA BeforeScriptKeepsInv ==
  ASSUME Inv, NEW h \in Handlers,
         OpenTmp(h) \/ WriteTmp(h) \/ Check(h) \/ CannotStart(h)
  PROVE  Inv'
<1>1. op[h].pc \in {"write", "writing", "check", "backup"} /\ op[h].pc \in PushPcs
  BY DEF OpenTmp, WriteTmp, Check, CannotStart, At, PushPcs
<1>2. PICK pc \in {"writing", "check", "backup", "bad"} :
        /\ Goto(h, pc)
        /\ UNCHANGED <<config, backup, release, tls, service, past>>
        /\ tmp' \in {tmp, Torn, op[h].want}
        /\ pc = "check" => tmp' = op[h].want
        /\ pc = "backup" => op[h].pc = "check" /\ tmp' = tmp /\ Runs(bin, tmp)
  BY DEF OpenTmp, WriteTmp, Check, CannotStart, At, Ends, files
<1>3. pc \in PushPcs \cup {"ok", "bad"} /\ pc \in Pcs
  BY DEF Pcs, PushPcs, EndPcs
<1>4. /\ op' \in [Handlers -> Op] /\ \A g \in Handlers : g # h => op'[g] = op[g]
      /\ op'[h].pc = pc /\ op'[h].kind = op[h].kind /\ op'[h].want = op[h].want
      /\ op'[h].seen = op[h].seen /\ op'[h].lost = op[h].lost /\ op'[h].had = op[h].had
  BY <1>1, <1>2, <1>3, PushFacts, GotoFacts
<1>5. /\ UNCHANGED <<config, backup, bin, service, report, mixed, cut>>
      /\ UNCHANGED <<release, tls, report>>
  BY <1>2 DEF release, past
<1>6. tmp' \in MaybeFile
  BY <1>1, <1>2, PushFacts, ConstantFacts
<1>7. ~Met => PushFits(h)'
  BY <1>1, <1>2, <1>4, <1>5, PushFacts DEF PushFits, Fits, Runs
<1>8. Met => mixed'
  BY <1>5 DEF Inv
<1> QED
  BY <1>1, <1>3, <1>4, <1>5, <1>6, <1>7, <1>8, PushFacts, PushLine

LEMMA OpenBackupKeepsInv ==
  ASSUME Inv, NEW h \in Handlers, OpenBackup(h)
  PROVE  Inv'
<1>1. op[h].pc = "backup" /\ op[h].pc \in PushPcs
  BY DEF OpenBackup, At, PushPcs
<1>2. PICK pc \in {"keeping", "copy"} :
        /\ Goto(h, pc)
        /\ UNCHANGED <<config, tmp, release, tls, service, past>>
        /\ pc = "keeping" => config # None /\ backup' = Torn
        /\ pc = "copy" => config = None /\ backup' = backup
  BY DEF OpenBackup
<1>3. pc \in PushPcs \cup {"ok", "bad"} /\ pc \in Pcs
  BY DEF Pcs, PushPcs, EndPcs
<1>4. /\ op' \in [Handlers -> Op] /\ \A g \in Handlers : g # h => op'[g] = op[g]
      /\ op'[h].pc = pc /\ op'[h].kind = op[h].kind /\ op'[h].want = op[h].want
      /\ op'[h].seen = op[h].seen /\ op'[h].lost = op[h].lost /\ op'[h].had = op[h].had
  BY <1>1, <1>2, <1>3, PushFacts, GotoFacts
<1>5. /\ UNCHANGED <<config, tmp, bin, service, report, mixed, cut>>
      /\ UNCHANGED <<release, tls, report>>
  BY <1>2 DEF release, past
<1>6. backup' \in MaybeFile
  BY <1>1, <1>2, PushFacts, ConstantFacts
<1>7. ~Met => PushFits(h)'
  BY <1>1, <1>2, <1>4, <1>5, PushFacts DEF PushFits, Fits, Runs
<1>8. Met => mixed'
  BY <1>5 DEF Inv
<1> QED
  BY <1>1, <1>3, <1>4, <1>5, <1>6, <1>7, <1>8, PushFacts, PushLine

LEMMA CopiedFacts ==
  ASSUME NEW file \in MaybeFile, NEW copy \in Copied(file)
  PROVE  copy \in MaybeFile /\ (file # None => copy = file) /\ copy # None
BY ConstantFacts DEF Copied, MaybeFile, Files

LEMMA FillBackupKeepsInv ==
  ASSUME Inv, NEW h \in Handlers, FillBackup(h)
  PROVE  Inv'
<1>1. op[h].pc = "keeping" /\ op[h].pc \in PushPcs
  BY DEF FillBackup, At, PushPcs
<1>2. /\ op' = [op EXCEPT ![h] = [op[h] EXCEPT !.pc = "copy", !.had = TRUE]]
      /\ backup' \in Copied(config)
      /\ UNCHANGED <<config, tmp, bin, service, report, mixed, cut>>
      /\ UNCHANGED <<release, tls, report>>
  BY PushFacts, <1>1 DEF FillBackup, release, past
<1>3. "copy" \in PushPcs \cup {"ok", "bad"}
  BY DEF PushPcs
<1> DEFINE o == [op[h] EXCEPT !.pc = "copy", !.had = TRUE]
<1>8. o \in Op /\ o.pc = "copy" /\ o.had /\ o.had = TRUE
      /\ o.kind = op[h].kind /\ o.want = op[h].want /\ o.seen = op[h].seen /\ o.lost = op[h].lost
  BY <1>1, PushFacts DEF Op, PushPcs
<1>4. /\ op' \in [Handlers -> Op] /\ \A g \in Handlers : g # h => op'[g] = op[g]
      /\ op'[h].pc = "copy" /\ op'[h].kind = op[h].kind /\ op'[h].want = op[h].want
      /\ op'[h].seen = op[h].seen /\ op'[h].lost = op[h].lost /\ op'[h].had = TRUE
  BY <1>1, <1>2, <1>8, PushFacts
<1>5. /\ backup' \in MaybeFile /\ backup' # None
      /\ config # None => backup' = config
  BY <1>1, <1>2, PushFacts, CopiedFacts
<1>6. ~Met => PushFits(h)'
  BY <1>1, <1>2, <1>4, <1>5, PushFacts DEF PushFits, Fits, Runs
<1>7. Met => mixed'
  BY <1>2 DEF Inv
<1> QED
  BY <1>1, <1>2, <1>3, <1>4, <1>5, <1>6, <1>7, PushFacts, PushLine

\* The new file is put in place.
LEMMA CopyKeepsInv ==
  ASSUME Inv, NEW h \in Handlers, OpenConfig(h) \/ FillConfig(h)
  PROVE  Inv'
<1>1. op[h].pc \in {"copy", "copying"} /\ op[h].pc \in PushPcs
  BY DEF OpenConfig, FillConfig, At, PushPcs
<1>2. PICK pc \in {"copying", "restart", "bad"} :
        /\ Goto(h, pc)
        /\ UNCHANGED <<tmp, backup, release, tls, service, past>>
        /\ pc = "copying" => op[h].pc = "copy" /\ config' = Torn
        /\ pc = "restart" => op[h].pc = "copying" /\ config' \in Copied(tmp)
        /\ pc = "bad" => op[h].pc = "copy" /\ tmp = None /\ config' = config
  BY DEF OpenConfig, FillConfig, At
<1>3. pc \in PushPcs \cup {"ok", "bad"} /\ pc \in Pcs
  BY DEF Pcs, PushPcs, EndPcs
<1>4. /\ op' \in [Handlers -> Op] /\ \A g \in Handlers : g # h => op'[g] = op[g]
      /\ op'[h].pc = pc /\ op'[h].kind = op[h].kind /\ op'[h].want = op[h].want
      /\ op'[h].seen = op[h].seen /\ op'[h].lost = op[h].lost /\ op'[h].had = op[h].had
  BY <1>1, <1>2, <1>3, PushFacts, GotoFacts
<1>5. /\ UNCHANGED <<tmp, backup, bin, service, report, mixed, cut>>
      /\ UNCHANGED <<release, tls, report>>
  BY <1>2 DEF release, past
<1>6. /\ config' \in MaybeFile
      /\ pc = "restart" /\ tmp # None => config' = tmp
  BY <1>1, <1>2, PushFacts, CopiedFacts, ConstantFacts
<1>7. ~Met => PushFits(h)'
  <2> SUFFICES ASSUME ~Met PROVE PushFits(h)'
    OBVIOUS
  <2>1. tmp = op[h].want /\ tmp # None /\ PushFits(h)
    BY <1>1, PushFacts DEF PushFits
  <2> QED
    BY <1>1, <1>2, <1>4, <1>5, <1>6, <2>1, PushFacts DEF PushFits, Fits, Runs
<1>8. Met => mixed'
  BY <1>5 DEF Inv
<1> QED
  BY <1>1, <1>3, <1>4, <1>5, <1>6, <1>7, <1>8, PushFacts, PushLine

LEMMA CopyFailsKeepsInv ==
  ASSUME Inv, NEW h \in Handlers, CopyFails(h)
  PROVE  Inv'
<1>1. op[h].pc \in {"keeping", "copying", "restoring"} /\ op[h].pc \in PushPcs
  BY DEF CopyFails, Copying, At, PushPcs
<1>2. /\ Goto(h, "bad")
      /\ cut' \in BOOLEAN /\ (cut => cut') /\ (op[h].pc # "keeping" => cut')
      /\ UNCHANGED <<config, tmp, backup, bin, service, report, mixed>>
      /\ UNCHANGED <<release, tls, report>>
  BY <1>1, PushFacts DEF CopyFails, Copying, files, release
<1>3. "bad" \in PushPcs \cup {"ok", "bad"} /\ "bad" \in Pcs
  BY DEF Pcs, EndPcs
<1>4. /\ op' \in [Handlers -> Op] /\ \A g \in Handlers : g # h => op'[g] = op[g]
      /\ op'[h].pc = "bad" /\ op'[h].kind = op[h].kind /\ op'[h].want = op[h].want
      /\ op'[h].seen = op[h].seen /\ op'[h].lost = op[h].lost /\ op'[h].had = op[h].had
  BY <1>1, <1>2, <1>3, PushFacts, GotoFacts
<1>5. ~Met => PushFits(h)'
  BY <1>1, <1>2, <1>4, PushFacts DEF PushFits, Fits, Runs
<1>6. Met => mixed'
  BY <1>2 DEF Inv
<1> QED
  BY <1>1, <1>2, <1>3, <1>4, <1>5, <1>6, PushFacts, PushLine

\* The service restarts, with the new file; the script goes on or gives up.
LEMMA RestartKeepsInv ==
  ASSUME Inv, NEW h \in Handlers, Restart(h)
  PROVE  Inv'
<1>1. op[h].pc = "restart" /\ op[h].pc \in PushPcs
  BY DEF Restart, At, PushPcs
<1>2. PICK pc \in {"ok", "restore"} :
        /\ Goto(h, pc)
        /\ RestartSucceeds \/ RestartFails
        /\ pc = "ok" => backup' = None /\ mixed' = (mixed /\ Met) /\ cut' = (cut /\ Met)
        /\ pc = "restore" => UNCHANGED <<backup, mixed, cut>>
        /\ tmp' = None
        /\ UNCHANGED <<config, release, tls, report>>
  BY DEF Restart
<1>3. pc \in PushPcs \cup {"ok", "bad"} /\ pc \in Pcs
  BY DEF Pcs, PushPcs, EndPcs
<1>4. /\ op' \in [Handlers -> Op] /\ \A g \in Handlers : g # h => op'[g] = op[g]
      /\ op'[h].pc = pc /\ op'[h].kind = op[h].kind /\ op'[h].want = op[h].want
      /\ op'[h].seen = op[h].seen /\ op'[h].lost = op[h].lost /\ op'[h].had = op[h].had
  BY <1>1, <1>2, <1>3, PushFacts, GotoFacts
<1>5. UNCHANGED <<config, bin, report>> /\ UNCHANGED <<release, tls, report>>
  BY <1>2 DEF release
<1>6. /\ tmp' \in MaybeFile /\ backup' \in MaybeFile
      /\ mixed' \in BOOLEAN /\ cut' \in BOOLEAN
      /\ service' \in Service
      /\ service'.state = "up" => service'.cert = cert
  BY <1>1, <1>2, PushFacts, RestartFacts, ConstantFacts
<1>7. ~Met => PushFits(h)'
  BY <1>1, <1>2, <1>4, <1>5, PushFacts DEF PushFits, Fits, Runs
<1>8. ASSUME Met
      PROVE  mixed'
  <2>1. mixed = TRUE /\ Met = TRUE
    BY <1>1, <1>8, PushFacts DEF Inv, Met
  <2>2. mixed' = (mixed /\ Met) \/ mixed' = mixed
    BY <1>2
  <2> QED
    BY <2>1, <2>2
<1> QED
  BY <1>1, <1>3, <1>4, <1>5, <1>6, <1>7, <1>8, PushFacts, PushLine

LEMMA RestoreKeepsInv ==
  ASSUME Inv, NEW h \in Handlers, Restore(h) \/ Restored(h)
  PROVE  Inv'
<1>1. op[h].pc \in {"restore", "restoring"} /\ op[h].pc \in PushPcs
  BY DEF Restore, Restored, At, PushPcs
<1>2. PICK pc \in {"restoring", "restartOld", "bad"} :
        /\ Goto(h, pc)
        /\ UNCHANGED <<tmp, backup, release, tls, service, past>>
        /\ pc = "restoring" => op[h].pc = "restore" /\ op[h].had /\ config' = Torn
        /\ pc = "bad" =>
             op[h].pc = "restore" /\ op[h].had /\ backup = None /\ config' = config
        /\ pc = "restartOld" =>
             \/ op[h].pc = "restore" /\ ~op[h].had /\ config' = None
             \/ op[h].pc = "restoring" /\ config' \in Copied(backup)
  BY DEF Restore, Restored, At
<1>3. pc \in PushPcs \cup {"ok", "bad"} /\ pc \in Pcs
  BY DEF Pcs, PushPcs, EndPcs
<1>4. /\ op' \in [Handlers -> Op] /\ \A g \in Handlers : g # h => op'[g] = op[g]
      /\ op'[h].pc = pc /\ op'[h].kind = op[h].kind /\ op'[h].want = op[h].want
      /\ op'[h].seen = op[h].seen /\ op'[h].lost = op[h].lost /\ op'[h].had = op[h].had
  BY <1>1, <1>2, <1>3, PushFacts, GotoFacts
<1>5. /\ UNCHANGED <<tmp, backup, bin, service, report, mixed, cut>>
      /\ UNCHANGED <<release, tls, report>>
  BY <1>2 DEF release, past
<1>6. /\ config' \in MaybeFile
      /\ pc = "restartOld" /\ op[h].pc = "restoring" /\ backup # None => config' = backup
  BY <1>1, <1>2, PushFacts, CopiedFacts, ConstantFacts
<1>7. ~Met => PushFits(h)'
  <2> SUFFICES ASSUME ~Met PROVE PushFits(h)'
    OBVIOUS
  <2>1. PushFits(h) /\ pc # "bad"
    BY <1>1, <1>2, PushFacts DEF PushFits
  <2>2. pc = "restartOld" => config' = report.before
    BY <1>1, <1>2, <1>6, <2>1, PushFacts DEF PushFits
  <2> QED
    BY <1>1, <1>2, <1>4, <1>5, <2>1, <2>2, PushFacts DEF PushFits, Fits, Runs
<1>8. Met => mixed'
  BY <1>5 DEF Inv
<1> QED
  BY <1>1, <1>3, <1>4, <1>5, <1>6, <1>7, <1>8, PushFacts, PushLine

LEMMA RestartOldKeepsInv ==
  ASSUME Inv, NEW h \in Handlers, RestartOld(h)
  PROVE  Inv'
<1>1. op[h].pc = "restartOld" /\ op[h].pc \in PushPcs
  BY DEF RestartOld, At, PushPcs
<1>2. /\ Goto(h, "bad")
      /\ RestartSucceeds \/ RestartFails
      /\ backup' = None
      /\ UNCHANGED <<config, tmp, bin, report, mixed, cut>> /\ UNCHANGED <<release, tls, report>>
  BY DEF RestartOld, release, past
<1>3. "bad" \in PushPcs \cup {"ok", "bad"} /\ "bad" \in Pcs
  BY DEF Pcs, EndPcs
<1>4. /\ op' \in [Handlers -> Op] /\ \A g \in Handlers : g # h => op'[g] = op[g]
      /\ op'[h].pc = "bad" /\ op'[h].kind = op[h].kind /\ op'[h].want = op[h].want
      /\ op'[h].seen = op[h].seen /\ op'[h].lost = op[h].lost /\ op'[h].had = op[h].had
  BY <1>1, <1>2, <1>3, PushFacts, GotoFacts
<1>5. /\ backup' \in MaybeFile /\ service' \in Service
      /\ service'.state = "up" => service'.cert = cert
  BY <1>1, <1>2, PushFacts, RestartFacts, ConstantFacts
<1>6. ~Met => PushFits(h)'
  BY <1>1, <1>2, <1>4, PushFacts DEF PushFits, Fits, Runs
<1>7. Met => mixed'
  BY <1>2 DEF Inv
<1> QED
  BY <1>1, <1>2, <1>3, <1>4, <1>5, <1>6, <1>7, PushFacts, PushLine

-----------------------------------------------------------------------------
(***************************************************************************)
(* The installation.                                                       *)
(***************************************************************************)
LEMMA InstallFacts ==
  ASSUME Inv, NEW h \in Handlers, op[h].pc \in InstallPcs
  PROVE  /\ op[h].kind = "install" /\ TakesLock(op[h].kind)
         /\ op[h] \in Op /\ op \in [Handlers -> Op]
         /\ op[h].want \in Versions /\ op[h].want # None /\ op[h].seen <= cert
         /\ op[h].was \in MaybeVersion /\ bin \in MaybeVersion
         /\ staged \in MaybeVersion /\ previous \in MaybeVersion /\ service \in Service
         /\ op[h].had \in BOOLEAN /\ op[h].ran \in BOOLEAN
         /\ op[h].pc \notin PushPcs /\ op[h].pc \notin RenewPcs
         /\ Types /\ (Met => mixed)
         /\ ~Met => InstallFits(h)
BY ConstantFacts
   DEF Inv, PcFits, Types, Op, TakesLock, Alone, PushPcs, InstallPcs, RenewPcs

\* A line of an installation that leaves the files, the certificate and the report.
LEMMA InstallLine ==
  ASSUME Inv, NEW h \in Handlers, op[h].pc \in InstallPcs,
         NEW pc \in InstallPcs \cup {"ok", "bad"},
         op' \in [Handlers -> Op], \A g \in Handlers : g # h => op'[g] = op[g],
         op'[h].pc = pc, op'[h].kind = op[h].kind, op'[h].want = op[h].want,
         op'[h].seen = op[h].seen,
         bin' \in MaybeVersion, staged' \in MaybeVersion, previous' \in MaybeVersion,
         service' \in Service,
         service'.state = "up" => service' = service \/ service'.cert = cert,
         UNCHANGED <<files, unit, tls, past>>,
         ~mixed => Fits(bin', config),
         ~Met => InstallFits(h)'
  PROVE  Inv'
<1> USE DEF Inv
<1>1. /\ UNCHANGED <<config, tmp, backup, unit, cert, due, report, mixed, cut>>
      /\ Met' = Met
  BY DEF files, tls, past, Met
<1>2. Types'
  BY <1>1 DEF Types
<1>3. op'[h].pc \notin PushPcs \cup RenewPcs \cup {"fresh", "idle"} /\ op[h].pc # "reload"
  BY DEF PushPcs, InstallPcs, RenewPcs
<1>4. PcFits(h)' /\ PushFits(h)'
  BY <1>1, <1>3, InstallFacts DEF PcFits, PushFits
<1>7. ~Met => NoPushReport'
  BY <1>1, InstallFacts DEF NoPushReport, Alone
<1>5. CertIsServed'
  BY <1>1, <1>3 DEF CertIsServed
<1>6. FilesFitTogether'
  <2>1. ~Copying(h)
    BY DEF InstallPcs, Copying
  <2>2. \A g \in Handlers : Copying(g) => Copying(g)'
    BY <2>1 DEF Copying
  <2> QED
    BY <1>1, <2>2 DEF FilesFitTogether, Fits, Runs
<1> QED
  BY <1>1, <1>2, <1>4, <1>5, <1>6, <1>7, InstallFacts, LockedStep

\* Before two scripts meet, the binary and the file there is fit.
LEMMA BinFits ==
  ASSUME Inv, ~mixed
  PROVE  Fits(bin, config)
BY DEF Inv, FilesFitTogether, Fits

LEMMA FetchKeepsInv ==
  ASSUME Inv, NEW h \in Handlers, FetchPasses(h) \/ FetchFails(h)
  PROVE  Inv'
<1>1. op[h].pc \in InstallPcs /\ op[h].pc \in {"fetch", "keep"}
  BY DEF FetchPasses, FetchFails, At, InstallPcs
<1>2. PICK pc \in {"keep", "bad"} :
        /\ Goto(h, pc)
        /\ pc = "keep" => (config \in Configs => Runs(op[h].want, config))
        /\ UNCHANGED <<files, release, tls, service, past>>
  BY DEF FetchPasses, FetchFails, Ends
<1>3. pc \in Pcs /\ pc \in InstallPcs \cup {"ok", "bad"}
  BY DEF Pcs, InstallPcs, EndPcs
<1>4. /\ op' \in [Handlers -> Op] /\ \A g \in Handlers : g # h => op'[g] = op[g]
      /\ op'[h].pc = pc /\ op'[h].kind = op[h].kind /\ op'[h].want = op[h].want
      /\ op'[h].seen = op[h].seen /\ op'[h].was = op[h].was /\ op'[h].ran = op[h].ran
      /\ op'[h].had = op[h].had
  BY <1>1, <1>2, <1>3, InstallFacts, GotoFacts
<1>5. /\ UNCHANGED <<config, bin, staged, previous, service>>
      /\ UNCHANGED <<files, unit, tls, past>>
  BY <1>2 DEF release, files
<1>6. /\ bin' \in MaybeVersion /\ staged' \in MaybeVersion /\ previous' \in MaybeVersion
      /\ service' \in Service /\ (~mixed => Fits(bin', config))
  BY <1>1, <1>5, InstallFacts, BinFits
<1>7. ~Met => InstallFits(h)'
  BY <1>1, <1>2, <1>4, <1>5, InstallFacts DEF InstallFits, Fits, Runs
<1> QED
  BY <1>1, <1>3, <1>4, <1>5, <1>6, <1>7, InstallLine

LEMMA KeepKeepsInv ==
  ASSUME Inv, NEW h \in Handlers, Keep(h)
  PROVE  Inv'
<1>1. op[h].pc \in InstallPcs /\ op[h].pc = "keep"
  BY DEF Keep, At, InstallPcs
<1> DEFINE o == [op[h] EXCEPT !.pc = "swap", !.had = (bin # None),
                              !.ran = (service.state = "up")]
<1>2. /\ op' = [op EXCEPT ![h] = o]
      /\ UNCHANGED <<config, bin, service>> /\ UNCHANGED <<files, unit, tls, past>>
      /\ previous' = IF bin # None THEN bin ELSE previous
      /\ staged' = op[h].want
  BY <1>1, InstallFacts DEF Keep, files
<1>3. o \in Op
  BY ZenonT(30), <1>1, InstallFacts DEF Op, InstallPcs
<1>4. /\ o.pc = "swap" /\ o.kind = op[h].kind /\ o.want = op[h].want /\ o.was = op[h].was
      /\ o.seen = op[h].seen /\ o.had = (bin # None)
  BY <1>1, InstallFacts DEF Op
<1> HIDE DEF o
<1>5. /\ op' \in [Handlers -> Op] /\ \A g \in Handlers : g # h => op'[g] = op[g]
      /\ op'[h] = o
  BY <1>1, <1>2, <1>3, InstallFacts
<1>6. /\ bin' \in MaybeVersion /\ staged' \in MaybeVersion /\ previous' \in MaybeVersion
      /\ service' \in Service /\ (~mixed => Fits(bin', config))
  BY <1>1, <1>2, InstallFacts, BinFits DEF MaybeVersion
<1>7. ~Met => InstallFits(h)'
  BY <1>1, <1>2, <1>4, <1>5, InstallFacts DEF InstallFits, Fits, Runs
<1> QED
  BY <1>1, <1>2, <1>4, <1>5, <1>6, <1>7, InstallLine DEF InstallPcs

\* What an installation that has met no other knows as it replaces the binary.
LEMMA KeptFacts ==
  ASSUME Inv, NEW h \in Handlers, op[h].pc \in {"swap", "restartNew", "probe", "undo"}, ~Met
  PROVE  /\ op[h].had <=> op[h].was # None
         /\ op[h].had => previous = op[h].was
         /\ op[h].pc = "swap" => bin = op[h].was /\ staged = op[h].want
                                 /\ Fits(op[h].want, config)
         /\ op[h].pc # "swap" => bin = op[h].want
         /\ ~mixed => Fits(op[h].was, config)
<1>1. op[h].pc \in InstallPcs
  BY DEF InstallPcs
<1> QED
  BY <1>1, InstallFacts, BinFits DEF InstallFits

LEMMA SwapKeepsInv ==
  ASSUME Inv, NEW h \in Handlers, Swap(h)
  PROVE  Inv'
<1>1. op[h].pc \in InstallPcs /\ op[h].pc = "swap"
  BY DEF Swap, At, InstallPcs
<1>2. PICK pc \in {"restartNew", "ok", "bad"} :
        /\ Goto(h, pc)
        /\ UNCHANGED <<config, previous, service>> /\ UNCHANGED <<files, unit, tls, past>>
        /\ \/ /\ staged # None /\ bin' = staged /\ staged' = None
              /\ pc = IF op[h].ran THEN "restartNew" ELSE LastLine(h, staged)
           \/ staged = None /\ UNCHANGED <<bin, staged>> /\ pc = "bad"
  BY DEF Swap, LastLine, files
<1>3. pc \in Pcs /\ pc \in InstallPcs \cup {"ok", "bad"}
  BY DEF Pcs, InstallPcs, EndPcs
<1>4. /\ op' \in [Handlers -> Op] /\ \A g \in Handlers : g # h => op'[g] = op[g]
      /\ op'[h].pc = pc /\ op'[h].kind = op[h].kind /\ op'[h].want = op[h].want
      /\ op'[h].seen = op[h].seen /\ op'[h].was = op[h].was /\ op'[h].ran = op[h].ran
      /\ op'[h].had = op[h].had
  BY <1>1, <1>2, <1>3, InstallFacts, GotoFacts
<1>5. /\ bin' \in MaybeVersion /\ staged' \in MaybeVersion /\ previous' \in MaybeVersion
      /\ service' \in Service
  BY <1>1, <1>2, InstallFacts DEF MaybeVersion
<1>6. ASSUME ~Met
      PROVE  /\ bin' = op[h].want /\ pc = IF op[h].ran THEN "restartNew" ELSE "ok"
             /\ Fits(op[h].want, config)
  BY <1>1, <1>2, <1>6, KeptFacts, InstallFacts DEF LastLine
<1>7. ASSUME ~Met
      PROVE  InstallFits(h)'
  <2>1. /\ op[h].had <=> op[h].was # None
        /\ op[h].had => previous = op[h].was
        /\ ~mixed => Fits(op[h].was, config)
    BY <1>1, <1>7, KeptFacts
  <2>2. UNCHANGED <<config, previous, mixed>>
    BY <1>2 DEF past
  <2>3. pc = "restartNew" \/ (pc = "ok" /\ ~op[h].ran)
    BY <1>6, <1>7
  <2>4. (~mixed => Fits(op[h].was, config))'
    BY <1>4, <2>1, <2>2 DEF Fits, Runs
  <2> QED
    BY <1>4, <1>6, <1>7, <2>1, <2>2, <2>3, <2>4 DEF InstallFits
<1>8. ~mixed => Fits(bin', config)
  BY <1>1, <1>6, InstallFacts
<1> QED
  BY <1>1, <1>2, <1>3, <1>4, <1>5, <1>7, <1>8, InstallLine

LEMMA UndoKeepsInv ==
  ASSUME Inv, NEW h \in Handlers, Undo(h)
  PROVE  Inv'
<1>1. op[h].pc \in InstallPcs /\ op[h].pc = "undo"
  BY DEF Undo, At, InstallPcs
<1>2. PICK pc \in {"restartPrevious", "bad"} :
        /\ Goto(h, pc)
        /\ UNCHANGED <<config, staged, service>> /\ UNCHANGED <<files, unit, tls, past>>
        /\ \/ /\ op[h].had /\ previous # None /\ bin' = previous /\ previous' = None
              /\ pc = "restartPrevious"
           \/ (~op[h].had \/ previous = None) /\ UNCHANGED <<bin, previous>> /\ pc = "bad"
  BY DEF Undo, files
<1>3. pc \in Pcs /\ pc \in InstallPcs \cup {"ok", "bad"}
  BY DEF Pcs, InstallPcs, EndPcs
<1>4. /\ op' \in [Handlers -> Op] /\ \A g \in Handlers : g # h => op'[g] = op[g]
      /\ op'[h].pc = pc /\ op'[h].kind = op[h].kind /\ op'[h].want = op[h].want
      /\ op'[h].seen = op[h].seen /\ op'[h].was = op[h].was /\ op'[h].ran = op[h].ran
      /\ op'[h].had = op[h].had
  BY <1>1, <1>2, <1>3, InstallFacts, GotoFacts
<1>5. /\ bin' \in MaybeVersion /\ staged' \in MaybeVersion /\ previous' \in MaybeVersion
      /\ service' \in Service
  BY <1>1, <1>2, InstallFacts DEF MaybeVersion
<1>6. ASSUME ~Met
      PROVE  /\ op[h].was # None => bin' = op[h].was /\ pc = "restartPrevious"
             /\ op[h].was = None => bin' = bin /\ pc = "bad"
             /\ ~mixed => Fits(bin', config)
  BY <1>1, <1>2, <1>6, KeptFacts, BinFits
<1>7. ~Met => InstallFits(h)'
  BY <1>1, <1>2, <1>4, <1>6, KeptFacts, InstallFacts DEF InstallFits
<1>8. ~mixed => Fits(bin', config)
  BY <1>1, <1>6, InstallFacts
<1> QED
  BY <1>1, <1>2, <1>3, <1>4, <1>5, <1>7, <1>8, InstallLine

\* The service restarts with the binary there is, or is looked at.
LEMMA RestartNewKeepsInv ==
  ASSUME Inv, NEW h \in Handlers, RestartNew(h) \/ Probe(h) \/ RestartPrevious(h)
  PROVE  Inv'
<1>1. op[h].pc \in InstallPcs /\ op[h].pc \in {"restartNew", "probe", "restartPrevious"}
  BY DEF RestartNew, Probe, RestartPrevious, At, InstallPcs
<1>2. PICK pc \in {"probe", "undo", "ok", "bad"} :
        /\ Goto(h, pc)
        /\ op[h].pc = "restartPrevious" => pc = "bad"
        /\ op[h].pc = "restartNew" => pc \in {"probe", "undo"}
        /\ op[h].pc = "probe" => pc \in {LastLine(h, bin), "undo"}
        /\ pc = "ok" => service' = service /\ RunsOnly(bin)
        /\ RestartSucceeds \/ RestartFails \/ service' = service
        /\ op[h].pc = "restartPrevious" => RestartSucceeds \/ RestartFails
        /\ UNCHANGED <<files, release, tls, past>>
  BY DEF RestartNew, Probe, RestartPrevious, At, RunsOnly, LastLine
<1>3. pc \in Pcs /\ pc \in InstallPcs \cup {"ok", "bad"}
  BY DEF Pcs, InstallPcs, EndPcs
<1>4. /\ op' \in [Handlers -> Op] /\ \A g \in Handlers : g # h => op'[g] = op[g]
      /\ op'[h].pc = pc /\ op'[h].kind = op[h].kind /\ op'[h].want = op[h].want
      /\ op'[h].seen = op[h].seen /\ op'[h].was = op[h].was /\ op'[h].ran = op[h].ran
      /\ op'[h].had = op[h].had
  BY <1>1, <1>2, <1>3, InstallFacts, GotoFacts
<1>5. /\ UNCHANGED <<config, bin, staged, previous>>
      /\ UNCHANGED <<files, unit, tls, past>>
  BY <1>2 DEF release, files
<1>6. /\ bin' \in MaybeVersion /\ staged' \in MaybeVersion /\ previous' \in MaybeVersion
      /\ service' \in Service
      /\ service'.state = "up" => service' = service \/ service'.cert = cert
      /\ op[h].pc = "restartPrevious" => RunsOnly(bin)'
      /\ pc = "ok" => RunsOnly(bin)'
      /\ ~mixed => Fits(bin', config)
  BY <1>1, <1>2, <1>5, InstallFacts, RestartFacts, BinFits DEF RunsOnly
<1>7. ~Met /\ op[h].pc = "probe" => pc \in {"ok", "undo"}
  BY <1>1, <1>2, KeptFacts DEF LastLine
<1>8. ASSUME ~Met
      PROVE  InstallFits(h)'
  <2>1. InstallFits(h) /\ UNCHANGED <<config, mixed>>
    BY <1>1, <1>2, <1>5, <1>8, InstallFacts DEF past
  <2>2. CASE op[h].pc = "restartPrevious"
    BY <1>2, <1>4, <1>5, <1>6, <2>1, <2>2, InstallFacts DEF InstallFits
  <2>3. CASE op[h].pc \in {"restartNew", "probe"}
    <3>1. pc \in {"probe", "undo", "ok"}
      BY <1>2, <1>7, <1>8, <2>3
    <3>2. /\ op[h].had <=> op[h].was # None
          /\ op[h].had => previous = op[h].was
          /\ bin = op[h].want
      BY <1>8, <2>3, KeptFacts
    <3>3. (~mixed => Fits(op[h].was, config))'
      BY <1>4, <1>8, <2>1, <2>3, KeptFacts DEF Fits, Runs
    <3> QED
      BY <1>1, <1>4, <1>5, <1>6, <3>1, <3>2, <3>3, InstallFacts DEF InstallFits
  <2> QED
    BY <1>1, <2>2, <2>3
<1> QED
  BY <1>1, <1>3, <1>4, <1>5, <1>6, <1>8, InstallLine

-----------------------------------------------------------------------------
(***************************************************************************)
(* The renewal.                                                            *)
(***************************************************************************)
LEMMA RenewFacts ==
  ASSUME Inv, NEW h \in Handlers, op[h].pc \in RenewPcs
  PROVE  /\ op[h].kind = "renew" /\ ~TakesLock(op[h].kind)
         /\ op[h] \in Op /\ op[h].seen <= cert /\ op[h] # Idle
         /\ op[h].seen \in Int /\ cert \in Int /\ MaxCerts \in Nat
         /\ Types
BY ConstantFacts DEF Inv, PcFits, Types, Op, TakesLock, RenewPcs, Idle

\* A line that leaves the certificate as it is.
LEMMA RenewLineKeepsInv ==
  ASSUME Inv, NEW h \in Handlers,
         ReadBefore(h) \/ Gate(h) \/ IssueFails(h) \/ Reload(h)
  PROVE  Inv'
<1>1. op[h].pc \in RenewPcs
  BY DEF ReadBefore, Gate, IssueFails, Reload, At, RenewPcs
<1>2. PICK pc \in {"gate", "issue", "fresh", "ok"}, seen \in {op[h].seen, cert} :
        /\ op' = [op EXCEPT ![h] = [op[h] EXCEPT !.pc = pc, !.seen = seen]]
        /\ UNCHANGED <<files, release, tls, past>>
        /\ service' = service \/ RestartSucceeds \/ RestartFails
        /\ op[h].pc = "reload" => RestartSucceeds \/ RestartFails
  <2>1. CASE ReadBefore(h)
    BY <2>1 DEF ReadBefore, At
  <2>2. CASE Gate(h) \/ IssueFails(h) \/ Reload(h)
    <3>1. op \in [Handlers -> Op] /\ op[h] \in Op
      BY DEF Inv, Types
    <3>2. \A pc : [op[h] EXCEPT !.pc = pc] = [op[h] EXCEPT !.pc = pc, !.seen = op[h].seen]
      BY <3>1 DEF Op
    <3> QED
      BY <2>2, <3>2 DEF Gate, IssueFails, Ends, Reload, At, Goto
  <2> QED
    BY <2>1, <2>2
<1>3. pc \in Pcs /\ pc \notin PushPcs \cup InstallPcs \cup {"idle"}
  BY DEF Pcs, RenewPcs, EndPcs, PushPcs, InstallPcs
<1>4. /\ [op[h] EXCEPT !.pc = pc, !.seen = seen] \in Op
      /\ op[h].kind = "renew"
  BY <1>1, <1>3, RenewFacts DEF Op, Pcs, Types
<1>5. /\ op' \in [Handlers -> Op] /\ \A g \in Handlers : g # h => op'[g] = op[g]
      /\ op'[h].pc = pc /\ op'[h].kind = "renew" /\ op'[h].seen = seen
  BY <1>1, <1>2, <1>4, RenewFacts DEF Types, Op
<1>6. UNCHANGED <<bin, cert>> /\ UNCHANGED <<files, release, past>>
  BY <1>2 DEF release, tls
<1>7. /\ service' \in Service
      /\ service'.state = "up" => service' = service \/ service'.bin = bin
      /\ service'.state = "up" => service' = service \/ service'.cert = cert
      /\ op[h].pc = "reload" => (service'.state = "up" => service'.cert = cert)
  BY <1>1, <1>2, RenewFacts, RestartFacts DEF Types
<1>8. Types'
  BY <1>1, <1>2, <1>5, <1>7, RenewFacts DEF Types, files, release, tls, past
<1>9. PcFits(h)'
  BY <1>1, <1>3, <1>5, <1>6, RenewFacts DEF PcFits, Idle
<1>10. CertIsServed'
  BY <1>5, <1>6, <1>7 DEF CertIsServed, Inv
<1>11. RunsOnly(bin) => RunsOnly(bin)'
  BY <1>6, <1>7 DEF RunsOnly
<1> QED
  BY <1>1, <1>5, <1>6, <1>8, <1>9, <1>10, <1>11, RenewFacts, UnlockedStep

LEMMA IssueKeepsInv ==
  ASSUME Inv, NEW h \in Handlers, Issue(h)
  PROVE  Inv'
<1>1. op[h].pc \in RenewPcs /\ Types
  BY DEF Issue, At, RenewPcs, Inv
<1>2. /\ Goto(h, "reload") /\ cert < MaxCerts /\ cert' = cert + 1 /\ due' = FALSE
      /\ UNCHANGED <<files, release, service, past>> /\ UNCHANGED <<bin, service>>
  BY DEF Issue, release
<1>3. "reload" \in Pcs
  BY DEF Pcs, RenewPcs
<1>4. /\ op' \in [Handlers -> Op] /\ \A g \in Handlers : g # h => op'[g] = op[g]
      /\ op'[h].pc = "reload" /\ op'[h].kind = op[h].kind /\ op'[h].seen = op[h].seen
  BY <1>1, <1>2, <1>3, GotoFacts
<1>5. cert <= cert' /\ cert' \in 0..MaxCerts /\ op[h].seen <= cert'
  BY <1>1, <1>2, RenewFacts DEF Types
<1>6. Types'
  BY <1>1, <1>2, <1>4, <1>5 DEF Types, files, release, past
<1>7. PcFits(h)'
  BY <1>1, <1>4, <1>5, RenewFacts DEF PcFits, PushPcs, InstallPcs
<1>8. CertIsServed'
  BY <1>4 DEF CertIsServed
<1>9. RunsOnly(bin) => RunsOnly(bin)'
  BY <1>2 DEF RunsOnly
<1> QED
  BY <1>1, <1>2, <1>4, <1>5, <1>6, <1>7, <1>8, <1>9, RenewFacts, UnlockedStep

-----------------------------------------------------------------------------
(***************************************************************************)
(* Requests begin.                                                         *)
(***************************************************************************)
LEMMA IdleOps ==
  ASSUME Inv, NEW h \in Handlers, op[h] = Idle
  PROVE  /\ op[h].kind = "none" /\ op[h].pc = "idle" /\ ~TakesLock(op[h].kind)
         /\ op[h] \in Op /\ ~Copying(h)
<1>1. op[h] \in Op
  BY DEF Inv, Types
<1>2. Idle.kind = "none" /\ Idle.pc = "idle"
  BY DEF Idle
<1> QED
  BY <1>1, <1>2 DEF TakesLock, Copying

\* A push or an installation begins, with the lock or as another script is left.
LEMMA BeginKeepsInv ==
  ASSUME Inv, NEW h \in Handlers, op[h] = Idle,
         op' \in [Handlers -> Op], \A g \in Handlers : g # h => op'[g] = op[g],
         op'[h].kind \in {"push", "install"},
         UNCHANGED <<files, release, tls, service, cut>>,
         mixed' = (mixed \/ Locking # {}),
         report' \in Report, Met' <=> Locking # {},
         PcFits(h)',
         Locking = {} => (PushFits(h) /\ InstallFits(h) /\ NoPushReport)'
  PROVE  Inv'
<1> USE DEF Inv
<1>1. UNCHANGED <<config, tmp, backup, bin, staged, previous, unit, cert, due, service, cut>>
  BY DEF files, release, tls
<1>2. mixed' \in BOOLEAN /\ (mixed => mixed') /\ (Met' => mixed')
  BY DEF Types
<1>3. Types'
  BY <1>1, <1>2 DEF Types
<1>4. \A g \in Handlers : PcFits(g)'
  <2>1. ASSUME NEW g \in Handlers, g # h
        PROVE  PcFits(g)'
    BY <1>1, <2>1 DEF PcFits
  <2> QED
    BY <2>1
<1>5. CertIsServed' /\ FilesFitTogether'
  <2>1. op[h].pc # "reload" /\ ~Copying(h)
    BY IdleOps
  <2>2. \A g \in Handlers : Copying(g) => Copying(g)'
    BY <2>1 DEF Copying
  <2> QED
    BY <1>1, <1>2, <2>1, <2>2 DEF FilesFitTogether, CertIsServed, Runs
<1>6. ASSUME ~Met'
      PROVE  Alone'
  <2>1. \A g \in Handlers : ~TakesLock(op[g].kind)
    BY <1>6 DEF Locking
  <2>2. Exclusive'
    BY <2>1 DEF Exclusive
  <2>3. ASSUME NEW g \in Handlers, g # h
        PROVE  (PushFits(g) /\ InstallFits(g))'
    <3>1. op'[g].kind # "push" /\ op'[g].kind # "install"
      BY <2>1, <2>3 DEF TakesLock
    <3> QED
      BY <3>1 DEF PushFits, InstallFits
  <2> QED
    BY <1>6, <2>2, <2>3 DEF Alone
<1> QED
  BY <1>2, <1>3, <1>4, <1>5, <1>6

LEMMA StartPushKeepsInv ==
  ASSUME Inv, NEW h \in Handlers, NEW c \in Configs, StartPush(h, c)
  PROVE  Inv'
<1> DEFINE o == [Idle EXCEPT !.kind = "push", !.want = c, !.was = None, !.pc = "write"]
<1>1. /\ op[h] = Idle /\ op' = [op EXCEPT ![h] = o]
      /\ UNCHANGED <<files, release, tls, service, cut>>
      /\ mixed' = (mixed \/ Locking # {})
      /\ report' = IF Locking # {} THEN Done("met")
                   ELSE [config |-> c, before |-> config, answer |-> "none"]
  BY DEF StartPush, Begin, Meets, TakesLock
<1>2. UNCHANGED <<config, bin, cert, cut>>
  BY <1>1 DEF files, release, tls
<1>3. Types
  BY DEF Inv
<1>4. /\ o \in Op /\ o.kind = "push" /\ o.pc = "write" /\ o.want = c /\ o.seen = 0
      /\ o.lost = FALSE /\ o.had = FALSE
  <2>1. Idle \in Op /\ None \in MaybeVersion
    BY ConstantFacts, IdleFacts
  <2> QED
    BY <2>1 DEF Idle, Op, PushPcs
<1> HIDE DEF o
<1>5. /\ op' \in [Handlers -> Op] /\ op'[h] = o
      /\ \A g \in Handlers : g # h => op'[g] = op[g]
  BY <1>1, <1>3, <1>4 DEF Types
<1>6. report' \in Report /\ (Met' <=> Locking # {})
  <2>1. config \in MaybeFile
    BY <1>3 DEF Types
  <2> QED
    BY <1>1, <2>1, DoneFacts DEF Report, Met
<1>7. PcFits(h)'
  <2>1. 0 <= cert
    BY <1>3 DEF Types
  <2> QED
    BY <1>2, <1>4, <1>5, <2>1 DEF PcFits, PushPcs, InstallPcs, RenewPcs, Idle
<1>8. ASSUME Locking = {}
      PROVE  (PushFits(h) /\ InstallFits(h) /\ NoPushReport)'
  <2>1. \A g \in Handlers : ~Copying(g)
    BY <1>8 DEF Locking, TakesLock, Copying, Inv, PcFits, PushPcs
  <2>2. ~mixed => Fits(bin, config) /\ (config = Torn => cut)
    BY <2>1 DEF Inv, FilesFitTogether, Fits
  <2>3. /\ report'.config = c /\ report'.before = config /\ report'.answer = "none"
        /\ mixed' = mixed
    BY <1>1, <1>3, <1>8 DEF Types
  <2>4. PushFits(h)'
    BY <1>2, <1>4, <1>5, <2>2, <2>3 DEF PushFits, Fits, Runs
  <2> QED
    BY <1>4, <1>5, <2>4 DEF InstallFits, NoPushReport
<1> QED
  BY <1>1, <1>4, <1>5, <1>6, <1>7, <1>8, BeginKeepsInv

LEMMA StartInstallKeepsInv ==
  ASSUME Inv, NEW h \in Handlers, NEW v \in Versions, StartInstall(h, v)
  PROVE  Inv'
<1> DEFINE o == [Idle EXCEPT !.kind = "install", !.want = v, !.was = bin, !.pc = "fetch"]
<1>1. /\ op[h] = Idle /\ op' = [op EXCEPT ![h] = o]
      /\ UNCHANGED <<files, release, tls, service, cut>>
      /\ mixed' = (mixed \/ Locking # {})
      /\ report' = IF Locking # {} THEN Done("met")
                   ELSE IF Met THEN Done("lost") ELSE report
  BY DEF StartInstall, Begin, Meets, TakesLock
<1>2. UNCHANGED <<config, bin, cert, cut>>
  BY <1>1 DEF files, release, tls
<1>3. Types
  BY DEF Inv
<1>4. /\ o \in Op /\ o.kind = "install" /\ o.pc = "fetch" /\ o.want = v /\ o.seen = 0
      /\ o.was = bin /\ o.ran = FALSE
  <2>1. Idle \in Op /\ bin \in MaybeVersion
    BY <1>3, ConstantFacts, IdleFacts DEF Types
  <2> QED
    BY <2>1 DEF Idle, Op, InstallPcs
<1> HIDE DEF o
<1>5. /\ op' \in [Handlers -> Op] /\ op'[h] = o
      /\ \A g \in Handlers : g # h => op'[g] = op[g]
  BY <1>1, <1>3, <1>4 DEF Types
<1>6. report' \in Report /\ (Met' <=> Locking # {})
  BY <1>1, <1>3, DoneFacts DEF Types, Met
<1>7. PcFits(h)'
  <2>1. 0 <= cert
    BY <1>3 DEF Types
  <2> QED
    BY <1>2, <1>4, <1>5, <2>1 DEF PcFits, PushPcs, InstallPcs, RenewPcs, Idle
<1>8. ASSUME Locking = {}
      PROVE  (PushFits(h) /\ InstallFits(h) /\ NoPushReport)'
  <2>1. \A g \in Handlers : op[g].kind # "push"
    BY <1>8 DEF Locking, TakesLock
  <2>2. report'.config = None
    BY <1>1, <1>8, <2>1, DoneFacts DEF Inv, Alone, NoPushReport
  <2> QED
    BY <1>2, <1>4, <1>5, <2>2 DEF PushFits, InstallFits, NoPushReport
<1> QED
  BY <1>1, <1>4, <1>5, <1>6, <1>7, <1>8, BeginKeepsInv

LEMMA StartRenewKeepsInv ==
  ASSUME Inv, NEW h \in Handlers, StartRenew(h)
  PROVE  Inv'
<1> DEFINE o == [Idle EXCEPT !.kind = "renew", !.want = None, !.was = None, !.pc = "read"]
<1>1. /\ op[h] = Idle /\ op' = [op EXCEPT ![h] = o]
      /\ UNCHANGED <<files, release, tls, service, report, cut>>
      /\ mixed' = (mixed \/ FALSE)
  BY DEF StartRenew, Begin, Meets, TakesLock
<1>2. Types
  BY DEF Inv
<1>3. /\ UNCHANGED <<config, tmp, backup, bin, staged, previous, unit, cert, due, service,
                     report, mixed, cut>>
      /\ UNCHANGED <<files, bin, staged, previous, mixed, cut>>
  BY <1>1, <1>2 DEF files, release, tls, Types
<1>4. o \in Op /\ o.kind = "renew" /\ o.pc = "read" /\ o.seen = 0
  <2>1. Idle \in Op /\ None \in MaybeVersion
    BY ConstantFacts, IdleFacts
  <2> QED
    BY <2>1 DEF Idle, Op, RenewPcs
<1> HIDE DEF o
<1>5. /\ op' \in [Handlers -> Op] /\ op'[h] = o
      /\ \A g \in Handlers : g # h => op'[g] = op[g]
  BY <1>1, <1>2, <1>4 DEF Types
<1>6. Types'
  BY <1>2, <1>3, <1>5 DEF Types
<1>7. op[h].kind # "push" /\ op[h].pc # "reload" /\ ~TakesLock(op[h].kind) /\ ~Copying(h)
  BY <1>1, IdleOps
<1>8. CertIsServed' /\ FilesFitTogether'
  <2>1. \A g \in Handlers : Copying(g) => Copying(g)'
    BY <1>5, <1>7 DEF Copying
  <2> QED
    BY <1>3, <1>4, <1>5, <1>7, <2>1 DEF FilesFitTogether, CertIsServed, Inv, Runs
<1>9. (PcFits(h) /\ PushFits(h) /\ InstallFits(h))'
  <2>1. 0 <= cert
    BY <1>2 DEF Types
  <2> QED
    BY <1>3, <1>4, <1>5, <2>1
       DEF PcFits, PushFits, InstallFits, PushPcs, InstallPcs, RenewPcs, Idle
<1>10. ASSUME NEW g \in Handlers, g # h
       PROVE  PcFits(g)' /\ (~Met => PushFits(g)' /\ InstallFits(g)')
  <2>1. cert <= cert' /\ (RunsOnly(bin) => RunsOnly(bin)')
    BY <1>2, <1>3 DEF Types, RunsOnly
  <2> QED
    BY <1>3, <1>5, <1>6, <1>10, <2>1, OthersFit
<1>11. Met' = Met /\ (~Met => Exclusive' /\ NoPushReport')
  BY <1>3, <1>4, <1>5, <1>7 DEF Met, Exclusive, NoPushReport, Inv, Alone, TakesLock
<1> QED
  BY <1>3, <1>6, <1>8, <1>9, <1>10, <1>11 DEF Inv, Alone

-----------------------------------------------------------------------------
(***************************************************************************)
(* Requests end, connections break, the machine reboots.                   *)
(***************************************************************************)
LEMMA EndOfRequest ==
  ASSUME Inv, NEW h \in Handlers, op' = [op EXCEPT ![h] = Idle],
         op[h].pc # "reload", ~Copying(h),
         UNCHANGED <<files, bin, staged, previous, tls, service, mixed, cut>>,
         unit' \in BOOLEAN,
         report' \in Report,
         IF op[h].kind = "push" /\ ~Met THEN report'.config = None /\ ~Met'
                                        ELSE report' = report
  PROVE  Inv'
<1> USE DEF Inv
<1>1. /\ UNCHANGED <<config, tmp, backup, bin, staged, previous, cert, due, service, mixed, cut>>
      /\ UNCHANGED <<files, bin, staged, previous, mixed, cut>>
  BY DEF files, tls
<1>2. /\ Idle \in Op /\ Idle.kind = "none" /\ Idle.pc = "idle" /\ Idle.seen = 0
      /\ ~TakesLock(Idle.kind)
  BY ConstantFacts, IdleFacts
<1>3. /\ op' \in [Handlers -> Op] /\ op'[h] = Idle
      /\ \A g \in Handlers : g # h => op'[g] = op[g]
  BY <1>2 DEF Types
<1>4. Types'
  BY <1>1, <1>3 DEF Types
<1>5. Met' = Met
  BY DEF Met
<1>6. (PcFits(h) /\ PushFits(h) /\ InstallFits(h))'
  <2>1. 0 <= cert
    BY DEF Types
  <2> QED
    BY <1>1, <1>2, <1>3, <2>1
       DEF PcFits, PushFits, InstallFits, PushPcs, InstallPcs, RenewPcs
<1>7. \A g \in Handlers : PcFits(g)'
  <2>1. ASSUME NEW g \in Handlers, g # h
        PROVE  PcFits(g)'
    BY <1>1, <1>3, <2>1 DEF PcFits
  <2> QED
    BY <1>6, <2>1
<1>8. ASSUME ~Met
      PROVE  Alone'
  <2>1. ASSUME NEW g \in Handlers, g # h
        PROVE  PushFits(g)' /\ InstallFits(g)'
    <3>1. op[g].kind = "push" => report' = report
      BY <1>8, <2>1 DEF Alone, Exclusive, TakesLock
    <3>2. cert <= cert' /\ (RunsOnly(bin) => RunsOnly(bin)')
      BY <1>1 DEF RunsOnly, Types
    <3> QED
      BY <1>1, <1>3, <1>4, <1>8, <2>1, <3>1, <3>2, OthersFit
  <2>2. Exclusive'
    BY <1>2, <1>3, <1>8 DEF Exclusive, Alone
  <2>3. NoPushReport'
    BY <1>3, <1>8 DEF NoPushReport, Alone
  <2> QED
    BY <1>6, <2>1, <2>2, <2>3 DEF Alone
<1>9. FilesFitTogether' /\ CertIsServed'
  <2>1. \A g \in Handlers : Copying(g) => Copying(g)'
    BY <1>3 DEF Copying
  <2> QED
    BY <1>1, <1>3, <2>1 DEF FilesFitTogether, CertIsServed, Runs
<1> QED
  BY <1>1, <1>4, <1>5, <1>7, <1>8, <1>9

\* What a push is answered.
LEMMA PushVerdict ==
  ASSUME NEW h \in Handlers, op[h].kind = "push", op[h].pc \in {"ok", "bad"}
  PROVE  Verdict(h) = IF op[h].pc = "ok" THEN "pushed" ELSE "failed"
<1>1. CASE op[h].pc = "ok"
  BY <1>1 DEF Verdict
<1>2. CASE op[h].pc = "bad"
  BY <1>2 DEF Verdict
<1> QED
  BY <1>1, <1>2

LEMMA AnswerKeepsInv ==
  ASSUME Inv, NEW h \in Handlers, Answer(h)
  PROVE  Inv'
<1>1. /\ op' = [op EXCEPT ![h] = Idle] /\ op[h].pc \in {"ok", "bad", "fresh"}
      /\ op[h].pc # "reload" /\ ~Copying(h)
      /\ UNCHANGED <<files, bin, staged, previous, tls, service, mixed, cut>>
      /\ report' = IF op[h].kind = "push" /\ ~Met THEN Done(Verdict(h)) ELSE report
      /\ unit' \in {unit, TRUE}
  BY DEF Answer, Copying
<1>2. unit' \in BOOLEAN /\ report \in Report
  BY <1>1 DEF Inv, Types
<1>3. CASE op[h].kind = "push" /\ ~Met
  <2>1. op[h].pc \in {"ok", "bad"}
    BY <1>1, <1>3 DEF Inv, PcFits
  <2>2. Verdict(h) \in {"pushed", "failed"}
    BY <1>3, <2>1, PushVerdict
  <2>3. report' \in Report /\ report'.config = None /\ ~Met'
    BY <1>1, <1>3, <2>2, DoneFacts DEF Met
  <2> QED
    BY <1>1, <1>2, <1>3, <2>3, EndOfRequest
<1>4. CASE ~(op[h].kind = "push" /\ ~Met)
  BY <1>1, <1>2, <1>4, EndOfRequest
<1> QED
  BY <1>3, <1>4

LEMMA OverKeepsInv ==
  ASSUME Inv, NEW h \in Handlers, Over(h)
  PROVE  Inv'
<1>1. /\ op' = [op EXCEPT ![h] = Idle] /\ op[h].pc # "reload" /\ ~Copying(h)
      /\ UNCHANGED <<files, release, tls, service, mixed, cut>>
      /\ report' = IF op[h].kind = "push" /\ ~Met THEN Done("lost") ELSE report
  BY DEF Over, EndPcs, Copying
<1>2. /\ unit' \in BOOLEAN /\ report \in Report
      /\ UNCHANGED <<files, bin, staged, previous, tls, service, mixed, cut>>
  BY <1>1 DEF Inv, Types, release
<1>3. op[h].kind = "push" /\ ~Met => report' \in Report /\ report'.config = None /\ ~Met'
  BY <1>1, DoneFacts DEF Met
<1> QED
  BY <1>1, <1>2, <1>3, EndOfRequest

\* A lost connection takes a script with it only if it has not changed a thing.
LEMMA CutFacts ==
  ASSUME Inv, NEW h \in Handlers, Cut(h)
  PROVE  \E pc \in {op[h].pc, "dead"} :
           /\ pc = "dead" => op[h].pc \in {"write", "writing", "check", "read", "backup",
                                           "fetch", "gate", "dead"}
           /\ op' \in [Handlers -> Op]
           /\ \A g \in Handlers : g # h => op'[g] = op[g]
           /\ op'[h].pc = pc /\ op'[h].kind = op[h].kind /\ op'[h].want = op[h].want
           /\ op'[h].was = op[h].was /\ op'[h].seen = op[h].seen /\ op'[h].had = op[h].had
           /\ op'[h].ran = op[h].ran /\ op'[h].lost = TRUE
<1>1. PICK pc \in CutAt(op[h].pc) :
        op' = [op EXCEPT ![h] = [op[h] EXCEPT !.lost = TRUE, !.pc = pc]]
  BY DEF Cut, Inv, Types
<1>2. /\ pc \in {op[h].pc, "dead"}
      /\ pc = "dead" => op[h].pc \in {"write", "writing", "check", "read", "backup",
                                      "fetch", "gate", "dead"}
  BY DEF CutAt
<1>3. op \in [Handlers -> Op] /\ op[h] \in Op
  BY DEF Inv, Types
<1>4. op[h].pc \in Pcs /\ pc \in Pcs
  BY <1>2, <1>3 DEF Op, Pcs, EndPcs
<1>5. [op[h] EXCEPT !.lost = TRUE, !.pc = pc] \in Op
  BY <1>3, <1>4 DEF Op, Pcs
<1> QED
  BY <1>1, <1>2, <1>3, <1>5 DEF Op

LEMMA CutKeepsInv ==
  ASSUME Inv, NEW h \in Handlers, Cut(h)
  PROVE  Inv'
<1> USE DEF Inv
<1>1. PICK pc \in {op[h].pc, "dead"} :
           /\ pc = "dead" => op[h].pc \in {"write", "writing", "check", "read", "backup",
                                           "fetch", "gate", "dead"}
           /\ op' \in [Handlers -> Op]
           /\ \A g \in Handlers : g # h => op'[g] = op[g]
           /\ op'[h].pc = pc /\ op'[h].kind = op[h].kind /\ op'[h].want = op[h].want
           /\ op'[h].was = op[h].was /\ op'[h].seen = op[h].seen /\ op'[h].had = op[h].had
           /\ op'[h].ran = op[h].ran /\ op'[h].lost = TRUE
  BY CutFacts
<1>2. /\ op[h] # Idle
      /\ report' = IF op[h].kind = "push" /\ ~Met
                     THEN [report EXCEPT !.answer = "lost"] ELSE report
      /\ UNCHANGED <<files, release, tls, service, mixed, cut>>
  BY DEF Cut
<1>3. /\ UNCHANGED <<config, tmp, backup, bin, staged, previous, unit, cert, due, service,
                     mixed, cut>>
      /\ UNCHANGED <<files, release>>
  BY <1>2 DEF files, release, tls
<1>4. op[h].kind = "push" /\ ~Met =>
        /\ PushFits(h)
        /\ report' \in Report /\ report'.config = report.config
        /\ report'.before = report.before /\ report'.answer = "lost"
  <2> SUFFICES ASSUME op[h].kind = "push", ~Met
               PROVE  /\ PushFits(h)
                      /\ report' \in Report /\ report'.config = report.config
                      /\ report'.before = report.before /\ report'.answer = "lost"
    OBVIOUS
  <2>1. PushFits(h) /\ report.config \in Configs /\ None \notin Configs
    BY ConstantFacts DEF PcFits, PushFits, Alone
  <2>2. report \in [config : Configs, before : MaybeFile, answer : {"none", "lost"}]
    BY <2>1 DEF Types, Report, Done
  <2> QED
    BY <1>2, <2>1, <2>2 DEF Report
<1>5. report' \in Report /\ Met' = Met
  BY <1>2, <1>4 DEF Types, Met
<1>6. Types'
  BY <1>1, <1>3, <1>5 DEF Types
<1>7. PcFits(h)'
  BY <1>1, <1>2, <1>3 DEF PcFits, Idle, PushPcs, InstallPcs, RenewPcs
<1>8. ASSUME ~Met
      PROVE  PushFits(h)'
  <2> SUFFICES ASSUME op[h].kind = "push" PROVE PushFits(h)'
    BY <1>1 DEF PushFits
  <2>1. CASE pc = op[h].pc
    BY <1>1, <1>3, <1>4, <1>8, <2>1 DEF PushFits, Fits, Runs
  <2>2. CASE pc = "dead" /\ op[h].pc # "dead"
    <3>1. op[h].pc \in {"write", "writing", "check", "backup"}
      BY <1>1, <2>2 DEF PcFits, RenewPcs, InstallPcs
    <3> QED
      BY <1>1, <1>3, <1>4, <1>8, <2>2, <3>1 DEF PushFits, Fits, Runs
  <2> QED
    BY <2>1, <2>2
<1>9. ASSUME ~Met
      PROVE  InstallFits(h)'
  BY <1>1, <1>3, <1>9 DEF InstallFits, RunsOnly, Fits, Runs, Alone
<1>10. op[h].pc = "reload" => op'[h].pc = "reload"
  BY <1>1
<1>11. Copying(h) => Copying(h)'
  BY <1>1 DEF Copying
<1>12. CertIsServed' /\ FilesFitTogether'
  <2>1. \A g \in Handlers : Copying(g) => Copying(g)'
    BY <1>1, <1>11 DEF Copying
  <2>2. \A g \in Handlers : op[g].pc = "reload" => op'[g].pc = "reload"
    BY <1>1, <1>10
  <2> QED
    BY <1>3, <2>1, <2>2 DEF CertIsServed, FilesFitTogether, Runs
<1>13. CASE TakesLock(op[h].kind)
  <2>1. ~Met => NoPushReport'
    BY <1>1, <1>2, <1>13 DEF NoPushReport, Alone
  <2>2. Met => mixed'
    BY <1>3
  <2> QED
    BY <1>1, <1>3, <1>5, <1>6, <1>7, <1>8, <1>9, <1>12, <1>13, <2>1, <2>2, LockedStep
<1>14. CASE ~TakesLock(op[h].kind)
  <2>1. op[h].kind # "push" /\ report' = report
    BY <1>2, <1>14 DEF TakesLock
  <2>2. cert <= cert' /\ (RunsOnly(bin) => RunsOnly(bin)')
    BY <1>3 DEF RunsOnly, Types
  <2>3. UNCHANGED <<files, release, past>>
    BY <1>3, <2>1 DEF past
  <2> QED
    BY <1>1, <1>6, <1>7, <1>12, <1>14, <2>2, <2>3, UnlockedStep
<1> QED
  BY <1>13, <1>14

\* The service, or the certificate, changes; no script moves.
LEMMA WorldKeepsInv ==
  ASSUME Inv, Crash \/ Retry \/ Expire
  PROVE  Inv'
<1> USE DEF Inv
<1>1. /\ UNCHANGED <<files, release, cert, op, past>>
      /\ service' = service \/ service' = Stopped("retry") \/ (Lives /\ service' = Up)
      /\ due' \in {due, TRUE}
  BY DEF Crash, Retry, Expire, tls
<1>2. /\ UNCHANGED <<config, tmp, backup, bin, staged, previous, unit, cert, op, report,
                     mixed, cut>>
      /\ UNCHANGED <<files, bin, staged, previous, mixed, cut>>
  BY <1>1 DEF files, release, past
<1>3. /\ service' \in Service
      /\ service'.state = "up" => service' = service \/ service'.bin = bin
      /\ service'.state = "up" => service' = service \/ service'.cert = cert
  BY <1>1, ServiceFacts, RunsFacts DEF Lives, Types
<1>4. Types'
  <2>1. due' \in BOOLEAN
    BY <1>1 DEF Types
  <2> QED
    BY <1>2, <1>3, <2>1 DEF Types
<1>5. cert <= cert' /\ (RunsOnly(bin) => RunsOnly(bin)')
  BY <1>2, <1>3 DEF RunsOnly, Types
<1>6. \A g \in Handlers : PcFits(g)' /\ (~Met => PushFits(g)' /\ InstallFits(g)')
  BY <1>2, <1>4, <1>5, OthersFit
<1>7. /\ FilesFitTogether' /\ CertIsServed' /\ Met' = Met
      /\ ~Met => Exclusive' /\ NoPushReport'
  BY <1>2, <1>3
     DEF Exclusive, NoPushReport, FilesFitTogether, CertIsServed, Alone, Met, Copying, Runs
<1> QED
  BY <1>2, <1>4, <1>6, <1>7 DEF Alone

LEMMA RebootFacts ==
  ASSUME Inv, Reboot
  PROVE  /\ op' \in [Handlers -> Op]
         /\ \A g \in Handlers :
              /\ op'[g].pc = IF op[g].pc \in {"idle"} \cup EndPcs THEN op[g].pc ELSE "dead"
              /\ op'[g].kind = op[g].kind /\ op'[g].want = op[g].want
              /\ op'[g].was = op[g].was /\ op'[g].seen = op[g].seen
              /\ op'[g].had = op[g].had /\ op'[g].ran = op[g].ran
              /\ op'[g].lost = op[g].lost
              /\ op[g] = Idle => op'[g] = Idle
<1>1. op' = [h \in Handlers |-> IF op[h].pc \in {"idle"} \cup EndPcs THEN op[h]
                                ELSE [op[h] EXCEPT !.pc = "dead"]]
  BY DEF Reboot
<1>2. \A g \in Handlers : op[g] \in Op
  BY DEF Inv, Types
<1>3. \A g \in Handlers : [op[g] EXCEPT !.pc = "dead"] \in Op
  BY <1>2 DEF Op, EndPcs
<1>4. Idle.pc = "idle"
  BY DEF Idle
<1> QED
  BY <1>1, <1>2, <1>3, <1>4 DEF Op

LEMMA RebootKeepsInv ==
  ASSUME Inv, Reboot
  PROVE  Inv'
<1> USE DEF Inv
<1>1. /\ UNCHANGED <<config, release, tls, report, mixed>>
      /\ service' = Stopped("retry") \/ service' = Stopped("down") \/ (Lives /\ service' = Up)
      /\ tmp' \in {tmp, None} /\ backup' \in {backup, None}
      /\ cut' = (cut \/ \E h \in Handlers : Copying(h))
  BY DEF Reboot
<1>2. UNCHANGED <<config, bin, staged, previous, unit, cert, due, report, mixed>> /\ Met' = Met
  BY <1>1 DEF release, tls, Met
<1>3. /\ service' \in Service
      /\ service'.state = "up" => service'.bin = bin /\ service'.cert = cert
  BY <1>1, ServiceFacts, RunsFacts DEF Lives, Types
<1>4. cut' \in BOOLEAN /\ (cut => cut') /\ (\A g \in Handlers : Copying(g) => cut')
  BY <1>1 DEF Types
<1>5. Types'
  BY <1>1, <1>2, <1>3, <1>4, RebootFacts, ConstantFacts DEF Types
<1>6. RunsOnly(bin)'
  BY <1>2, <1>3 DEF RunsOnly
<1>7. ASSUME NEW g \in Handlers
      PROVE  PcFits(g)'
  BY <1>2, RebootFacts DEF PcFits, PushPcs, InstallPcs, RenewPcs, EndPcs
<1>8. ASSUME NEW g \in Handlers, ~Met
      PROVE  PushFits(g)' /\ InstallFits(g)'
  <2>1. op[g] \in Op
    BY DEF Types
  <2>2. PushFits(g)'
    <3> SUFFICES ASSUME op[g].kind = "push" PROVE PushFits(g)'
      BY RebootFacts DEF PushFits
    <3>1. op[g].pc \in PushPcs \cup {"ok", "bad", "dead"}
      BY <2>1 DEF PcFits, Op, PushPcs, InstallPcs, RenewPcs, EndPcs, Idle
    <3>2. op'[g].pc = IF op[g].pc \in {"ok", "bad", "dead"} THEN op[g].pc ELSE "dead"
      BY <3>1, RebootFacts DEF EndPcs, PushPcs
    <3>3. PushFits(g)
      BY <1>8 DEF Alone
    <3>4. op'[g].pc = "dead" =>
            config \in {report.before, op[g].want} \/ (config = Torn /\ cut')
      <4>1. CASE op[g].pc \in {"copying", "restoring"}
        BY <1>4, <3>3, <4>1 DEF PushFits, Copying
      <4>2. CASE op[g].pc \notin {"copying", "restoring"}
        BY <1>4, <3>1, <3>2, <3>3, <4>2 DEF PushFits, PushPcs
      <4> QED
        BY <4>1, <4>2
    <3>5. (op[g].pc # "ok" /\ ~mixed => Fits(bin, report.before) /\ (report.before = Torn => cut))'
      BY <1>2, <1>4, <3>1, <3>2, <3>3 DEF PushFits, Fits, Runs
    <3> QED
      BY <1>2, <1>4, <3>2, <3>3, <3>4, <3>5, RebootFacts DEF PushFits, Runs
  <2>3. InstallFits(g)'
    <3> SUFFICES ASSUME op[g].kind = "install" PROVE InstallFits(g)'
      BY RebootFacts DEF InstallFits
    <3>1. op'[g].pc \notin InstallPcs /\ (op'[g].pc # "dead" => op'[g].pc = op[g].pc)
      BY <2>1, RebootFacts DEF PcFits, Op, PushPcs, InstallPcs, RenewPcs, EndPcs, Idle
    <3>2. InstallFits(g)
      BY <1>8 DEF Alone
    <3> QED
      BY <1>2, <1>6, <3>1, <3>2, RebootFacts DEF InstallFits, InstallPcs
  <2> QED
    BY <2>2, <2>3
<1>9. CertIsServed' /\ FilesFitTogether'
  BY <1>2, <1>3, <1>4 DEF FilesFitTogether, CertIsServed, Runs
<1>10. ~Met => Exclusive' /\ NoPushReport'
  BY <1>2, RebootFacts DEF Exclusive, NoPushReport, Alone
<1> QED
  BY <1>2, <1>5, <1>7, <1>8, <1>9, <1>10 DEF Alone

LEMMA NextKeepsInv ==
  ASSUME Inv, [Next]_vars
  PROVE  Inv'
<1>1. ASSUME NEW h \in Handlers, Request(h)
      PROVE  Inv'
  BY <1>1, StartPushKeepsInv, StartInstallKeepsInv, StartRenewKeepsInv DEF Request
<1>2. ASSUME NEW h \in Handlers, PushStep(h)
      PROVE  Inv'
  BY <1>2, BeforeScriptKeepsInv, OpenBackupKeepsInv, FillBackupKeepsInv, CopyKeepsInv,
     CopyFailsKeepsInv, RestartKeepsInv, RestoreKeepsInv, RestartOldKeepsInv
     DEF PushStep
<1>3. ASSUME NEW h \in Handlers, InstallStep(h)
      PROVE  Inv'
  BY <1>3, FetchKeepsInv, KeepKeepsInv, SwapKeepsInv, RestartNewKeepsInv, UndoKeepsInv
     DEF InstallStep
<1>4. ASSUME NEW h \in Handlers, RenewStep(h)
      PROVE  Inv'
  BY <1>4, RenewLineKeepsInv, IssueKeepsInv DEF RenewStep
<1>5. ASSUME NEW h \in Handlers, Answer(h) \/ Cut(h) \/ Over(h)
      PROVE  Inv'
  BY <1>5, AnswerKeepsInv, CutKeepsInv, OverKeepsInv
<1>6. CASE Crash \/ Retry \/ Expire
  BY <1>6, WorldKeepsInv
<1>7. CASE Reboot
  BY <1>7, RebootKeepsInv
<1>8. CASE UNCHANGED vars
  <2>1. UNCHANGED <<config, tmp, backup, bin, staged, previous, unit, cert, due, service, op,
                    report, mixed, cut>>
    BY <1>8 DEF vars, files, release, tls, past
  <2>2. Types' /\ Met' = Met
    BY <2>1 DEF Inv, Types, Met
  <2>3. /\ CertIsServed' /\ FilesFitTogether' /\ (\A h \in Handlers : PcFits(h)')
        /\ Met => mixed'
    BY <2>1 DEF Inv, PcFits, FilesFitTogether, CertIsServed, Runs, Copying
  <2>4. ~Met => Exclusive' /\ NoPushReport'
    BY <2>1 DEF Inv, Alone, Exclusive, NoPushReport
  <2>5. \A h \in Handlers : ~Met => PushFits(h)' /\ InstallFits(h)'
    BY <2>1 DEF Inv, Alone, PushFits, InstallFits, RunsOnly, Fits, Runs
  <2> QED
    BY <2>2, <2>3, <2>4, <2>5 DEF Inv, Alone
<1> QED
  BY <1>1, <1>2, <1>3, <1>4, <1>5, <1>6, <1>7, <1>8 DEF Next, ScriptStep

LEMMA InvHolds == Spec => []Inv
<1>1. Inv /\ [Next]_vars => Inv'
  BY NextKeepsInv
<1> QED
  BY <1>1, InitInv, PTL DEF Spec

-----------------------------------------------------------------------------
(***************************************************************************)
(* What is in force, in terms of the push under way.                       *)
(***************************************************************************)

LEMMA ReportFacts ==
  ASSUME NEW r \in Report, r.config = None \/ r.answer = "met"
  PROVE  r = Done(r.answer)
<1>1. r \notin [config : Configs, before : MaybeFile, answer : {"none", "lost"}]
  BY ConstantFacts
<1>2. PICK a \in {"pushed", "failed", "lost", "met"} : r = Done(a)
  BY <1>1 DEF Report
<1> QED
  BY <1>2, DoneFacts

\* While there is no push, what is in config.json is in force.
RestInForce ==
  (\A h \in Handlers : op[h].kind # "push") =>
    InForce = config /\ report = Done(report.answer)

LEMMA NothingUndecided == Inv => RestInForce
<1> SUFFICES ASSUME Inv, \A h \in Handlers : op[h].kind # "push"
             PROVE  InForce = config /\ report = Done(report.answer)
  BY DEF RestInForce
<1>1. \A g \in Handlers : ~Undecided(g)
  BY DEF Inv, PcFits, Undecided, PushPcs
<1>2. report \in Report
  BY DEF Inv, Types
<1>3. report.config = None \/ report.answer = "met"
  BY DEF Inv, Alone, NoPushReport, Met
<1> QED
  BY <1>1, <1>2, <1>3, ReportFacts DEF InForce

\* At most one push is half done.
LEMMA InForceWhileUndecided ==
  ASSUME Inv, ~Met, NEW h \in Handlers, Undecided(h)
  PROVE  InForce = IF op[h].had THEN backup ELSE None
<1>1. \A g \in Handlers : Undecided(g) => g = h
  BY DEF Inv, PcFits, Alone, Exclusive, TakesLock, Undecided, PushPcs
<1>2. (CHOOSE g \in Handlers : Undecided(g)) = h
  BY <1>1
<1> QED
  BY <1>2 DEF InForce

\* While a push is under way, what it found stays in force until it has made up
\* its mind; a script that died has left one or the other, or half of it.
PushInForce ==
  \A h \in Handlers : op[h].kind = "push" =>
    /\ report.config = op[h].want /\ op[h].want \in Configs
    /\ report.answer = IF op[h].lost THEN "lost" ELSE "none"
    /\ op[h].pc \in PushPcs => InForce = report.before
    /\ op[h].pc = "bad" => InForce = config /\ config \in {report.before, Torn}
    /\ op[h].pc = "ok" => InForce = op[h].want
    /\ op[h].pc = "dead" =>
         InForce = config /\ config \in {report.before, op[h].want, Torn}
    /\ op[h].pc \in PushPcs \cup {"ok", "bad", "dead"}

LEMMA InForceFits ==
  ASSUME Inv, ~Met
  PROVE  PushInForce
<1> SUFFICES ASSUME NEW h \in Handlers, op[h].kind = "push"
             PROVE  /\ report.config = op[h].want /\ op[h].want \in Configs
                    /\ report.answer = IF op[h].lost THEN "lost" ELSE "none"
                    /\ op[h].pc \in PushPcs => InForce = report.before
                    /\ op[h].pc = "bad" => InForce = config /\ config \in {report.before, Torn}
                    /\ op[h].pc = "ok" => InForce = op[h].want
                    /\ op[h].pc = "dead" =>
                         InForce = config /\ config \in {report.before, op[h].want, Torn}
                    /\ op[h].pc \in PushPcs \cup {"ok", "bad", "dead"}
  BY DEF PushInForce
<1>1. PushFits(h) /\ PcFits(h) /\ op[h] \in Op
  BY DEF Inv, Types, Alone
<1>2. op[h].pc \in PushPcs \cup {"ok", "bad", "dead"}
  BY <1>1 DEF PcFits, Op, PushPcs, InstallPcs, RenewPcs, EndPcs, Idle
<1>3. CASE Undecided(h)
  <2>1. InForce = IF op[h].had THEN backup ELSE None
    BY <1>3, InForceWhileUndecided
  <2>2. op[h].pc \in {"copying", "restart", "restore", "restoring"}
    BY <1>3 DEF Undecided
  <2>3. InForce = report.before
    BY <1>1, <2>1, <2>2 DEF PushFits
  <2> QED
    BY <1>1, <1>2, <2>2, <2>3 DEF PushFits, PcFits
<1>4. CASE ~Undecided(h)
  <2>1. \A g \in Handlers : ~Undecided(g)
    BY <1>4 DEF Inv, PcFits, Alone, Exclusive, TakesLock, Undecided, PushPcs
  <2>2. InForce = config
    BY <2>1 DEF InForce
  <2>3. op[h].pc \in PushPcs =>
          op[h].pc \in {"write", "writing", "check", "backup", "keeping", "copy", "restartOld"}
    BY <1>4 DEF Undecided, PushPcs
  <2> QED
    BY <1>1, <1>2, <2>2, <2>3 DEF PushFits, PcFits
<1> QED
  BY <1>3, <1>4

-----------------------------------------------------------------------------
(***************************************************************************)
(* Every step of the scripts is a step of AtomicPush, or none.             *)
(***************************************************************************)
LEMMA InitRefines == Init => Abstract!Init
<1> SUFFICES ASSUME Init PROVE Abstract!Init
  OBVIOUS
<1>1. Inv /\ \A h \in Handlers : op[h].kind # "push"
  BY InitInv DEF Init, Idle
<1>2. InForce = config /\ config \in MaybeFile
  BY <1>1, NothingUndecided DEF Inv, Types, RestInForce
<1>3. report = Done("failed")
  BY DEF Init
<1> QED
  BY <1>2, <1>3 DEF Abstract!Init, Abstract!MaybeFile, MaybeFile, Files, Abstract!Done, Done

\* Of scripts that have met nothing is promised.
LEMMA MeetRefines ==
  ASSUME Inv', Met'
  PROVE  Abstract!Meet
<1>1. report' \in Report /\ config' \in MaybeFile /\ backup' \in MaybeFile
  BY DEF Inv, Types
<1>2. report' = Done("met")
  BY <1>1, ReportFacts DEF Met
<1>3. InForce' \in MaybeFile
  BY <1>1, ConstantFacts DEF InForce
<1> QED
  BY <1>2, <1>3 DEF Abstract!Meet, Abstract!MaybeFile, MaybeFile, Files, Abstract!Done, Done

\* A push that meets no other begins.
LEMMA BeginRefines ==
  ASSUME Inv, PushInForce', ~Met', NEW h \in Handlers, NEW c \in Configs, StartPush(h, c)
  PROVE  Abstract!Begin(c)
<1> DEFINE o == [Idle EXCEPT !.kind = "push", !.want = c, !.was = None, !.pc = "write"]
<1>1. /\ Locking = {} /\ op' = [op EXCEPT ![h] = o]
      /\ report' = [config |-> c, before |-> config, answer |-> "none"]
  <2>1. Locking = {}
    BY DoneFacts DEF StartPush, Meets, TakesLock, Met
  <2> QED
    BY <2>1 DEF StartPush, Begin, Meets
<1>2. InForce = config /\ report = Done(report.answer)
  <2>1. \A g \in Handlers : op[g].kind # "push"
    BY <1>1 DEF Locking, TakesLock
  <2> QED
    BY <2>1, NothingUndecided DEF RestInForce
<1>3. o.kind = "push" /\ o.pc = "write"
  BY DEF Idle
<1> HIDE DEF o
<1>4. op'[h] = o
  BY <1>1 DEF Inv, Types
<1>5. InForce' = report'.before
  BY <1>3, <1>4 DEF PushInForce, PushPcs
<1> QED
  BY <1>1, <1>2, <1>5 DEF Abstract!Begin, Abstract!Done, Done

\* A step that is none of a push's, and leaves config.json.
LEMMA QuietRefines ==
  ASSUME PushInForce, RestInForce, PushInForce', RestInForce',
         config' = config, report' = report,
         \A h \in Handlers : op[h].kind = "push" \/ op'[h].kind = "push" => op'[h] = op[h]
  PROVE  UNCHANGED <<InForce, report>>
<1>1. CASE \E h \in Handlers : op[h].kind = "push"
  <2>1. PICK h \in Handlers : op[h].kind = "push"
    BY <1>1
  <2>2. op'[h] = op[h]
    BY <2>1
  <2>3. CASE op[h].pc \in PushPcs
    BY <2>1, <2>2, <2>3 DEF PushInForce
  <2>4. CASE op[h].pc = "ok"
    BY <2>1, <2>2, <2>4 DEF PushInForce
  <2>5. CASE op[h].pc \in {"bad", "dead"}
    BY <2>1, <2>2, <2>5 DEF PushInForce
  <2> QED
    BY <2>1, <2>3, <2>4, <2>5 DEF PushInForce
<1>2. CASE \A h \in Handlers : op[h].kind # "push"
  BY <1>2 DEF RestInForce
<1> QED
  BY <1>1, <1>2

\* A line of a push leaves what is in force, or lands, or leaves half a file.
LEMMA PushStepRefines ==
  ASSUME Inv, PushInForce, PushInForce', NEW h \in Handlers, PushStep(h)
  PROVE  Abstract!Land \/ Abstract!Break \/ UNCHANGED <<InForce, report>>
<1>1. /\ op[h].pc \in PushPcs
      /\ \E pc \in PushPcs \cup {"ok", "bad"} :
           op'[h] = [op[h] EXCEPT !.pc = pc] \/ op'[h] = [op[h] EXCEPT !.pc = pc, !.had = TRUE]
      /\ report' = report
  <2>1. op \in [Handlers -> Op]
    BY DEF Inv, Types
  <2>2. CASE OpenTmp(h) \/ WriteTmp(h) \/ Check(h) \/ CannotStart(h)
    BY <2>1, <2>2 DEF OpenTmp, WriteTmp, Check, CannotStart, Ends, At, Goto, PushPcs, past
  <2>3. CASE OpenBackup(h) \/ FillBackup(h) \/ CopyFails(h)
    BY <2>1, <2>3 DEF OpenBackup, FillBackup, CopyFails, Copying, At, Goto, PushPcs, past
  <2>4. CASE OpenConfig(h) \/ FillConfig(h)
    BY <2>1, <2>4 DEF OpenConfig, FillConfig, At, Goto, PushPcs, past
  <2>5. CASE Restart(h) \/ Restore(h) \/ Restored(h) \/ RestartOld(h)
    BY <2>1, <2>5 DEF Restart, Restore, Restored, RestartOld, At, Goto, PushPcs, past
  <2> QED
    BY <2>2, <2>3, <2>4, <2>5 DEF PushStep
<1>2. op[h].kind = "push" /\ op[h] \in Op
  BY <1>1 DEF Inv, Types, PcFits
<1>3. /\ op'[h].kind = "push" /\ op'[h].want = op[h].want
      /\ op'[h].pc \in PushPcs \cup {"ok", "bad"}
  BY <1>1, <1>2 DEF Op
<1>4. InForce = report.before /\ report.config = op[h].want /\ op[h].want \in Configs
      /\ report.answer \in {"none", "lost"} /\ report.config # None
  BY <1>1, <1>2, ConstantFacts DEF PushInForce
<1>5. CASE op'[h].pc \in PushPcs
  BY <1>1, <1>3, <1>4, <1>5 DEF PushInForce
<1>6. CASE op'[h].pc = "bad"
  <2>1. InForce' \in {report.before, Torn}
    BY <1>1, <1>3, <1>6 DEF PushInForce
  <2> QED
    BY <1>1, <1>4, <2>1 DEF Abstract!Break
<1>7. CASE op'[h].pc = "ok"
  <2>1. InForce' = report.config
    BY <1>3, <1>4, <1>7 DEF PushInForce
  <2> QED
    BY <1>1, <1>4, <2>1 DEF Abstract!Land
<1> QED
  BY <1>3, <1>5, <1>6, <1>7

\* The lines of the other scripts, and the requests that are no push, are quiet.
LEMMA OthersStay ==
  ASSUME Inv, NEW h \in Handlers, NEW v,
         \/ StartInstall(h, v) \/ StartRenew(h)
         \/ InstallStep(h) \/ RenewStep(h)
  PROVE  /\ \A g \in Handlers : op[g].kind = "push" \/ op'[g].kind = "push" => op'[g] = op[g]
         /\ config' = config
         /\ report' = report \/ StartInstall(h, v)
<1>1. op \in [Handlers -> Op] /\ op[h] \in Op
  BY DEF Inv, Types
<1>2. \A g \in Handlers : g # h => op'[g] = op[g]
  BY <1>1 DEF StartInstall, StartRenew, Begin, InstallStep, FetchPasses, FetchFails, Keep, Swap,
              RestartNew, Probe, Undo, RestartPrevious, RenewStep, ReadBefore, Gate, Issue,
              IssueFails, Reload, Ends, Goto
<1>3. config' = config /\ (report' = report \/ StartInstall(h, v))
  BY DEF StartInstall, StartRenew, Begin, InstallStep, FetchPasses, FetchFails, Keep, Swap,
         RestartNew, Probe, Undo, RestartPrevious, RenewStep, ReadBefore, Gate, Issue,
         IssueFails, Reload, Ends, files, past
<1>4. op[h].kind # "push" /\ op'[h].kind # "push"
  <2>1. CASE StartInstall(h, v) \/ StartRenew(h)
    <3>1. op[h] = Idle /\ op'[h].kind \in {"install", "renew"}
      BY <1>1, <2>1 DEF StartInstall, StartRenew, Begin, Idle
    <3> QED
      BY <3>1, IdleOps
  <2>2. CASE InstallStep(h) \/ RenewStep(h)
    <3>1. op[h].pc \in InstallPcs \cup RenewPcs
      BY <2>2 DEF InstallStep, FetchPasses, FetchFails, Keep, Swap,
                  RestartNew, Probe, Undo, RestartPrevious, RenewStep, ReadBefore, Gate, Issue,
                  IssueFails, Reload, At, InstallPcs, RenewPcs
    <3>2. op[h].kind \in {"install", "renew"}
      BY <3>1 DEF Inv, PcFits
    <3>3. op'[h].kind = op[h].kind
      BY <1>1, <2>2 DEF InstallStep, FetchPasses, FetchFails, Keep, Swap,
                  RestartNew, Probe, Undo, RestartPrevious, RenewStep, ReadBefore, Gate, Issue,
                  IssueFails, Reload, Ends, Goto, Op
    <3> QED
      BY <3>2, <3>3
  <2> QED
    BY <2>1, <2>2
<1> QED
  BY <1>2, <1>3, <1>4

\* An installation begins alone: those that had met are over.
LEMMA PartRefines ==
  ASSUME Inv, RestInForce', Met, ~Met', NEW h \in Handlers, NEW v, StartInstall(h, v)
  PROVE  Abstract!Part
<1>1. Locking = {} /\ report' = Done("lost")
  <2>1. Locking = {}
    BY DoneFacts DEF StartInstall, Meets, TakesLock, Met
  <2> QED
    BY <2>1 DEF StartInstall, Meets
<1>2. \A g \in Handlers : op[g].kind # "push"
  BY <1>1 DEF Locking, TakesLock
<1>3. InForce = config /\ report = Done("met")
  BY <1>2, NothingUndecided DEF RestInForce, Met
<1>4. config' = config /\ \A g \in Handlers : op'[g].kind # "push"
  BY <1>2, OthersStay
<1>5. InForce' = config
  BY <1>4 DEF RestInForce
<1> QED
  BY <1>1, <1>3, <1>5 DEF Abstract!Part, Abstract!Done, Done

\* The end of a push is told, or settled; the end of another request is quiet.
LEMMA EndRefines ==
  ASSUME Inv, ~Met, PushInForce, RestInForce, PushInForce', RestInForce',
         NEW h \in Handlers, Answer(h) \/ Over(h)
  PROVE  \/ Abstract!Succeed \/ Abstract!Fail \/ Abstract!Settle
         \/ UNCHANGED <<InForce, report>>
<1>1. /\ op' = [op EXCEPT ![h] = Idle] /\ config' = config
      /\ op[h].kind # "push" => report' = report
  BY DEF Answer, Over, files
<1>2. /\ op'[h] = Idle /\ Idle.kind = "none"
      /\ \A g \in Handlers : g # h => op'[g] = op[g]
  BY <1>1 DEF Inv, Types, Idle
<1>3. CASE op[h].kind # "push"
  BY <1>1, <1>2, <1>3, QuietRefines
<1>4. CASE op[h].kind = "push"
  <2>1. \A g \in Handlers : op'[g].kind # "push"
    BY <1>2, <1>4 DEF Inv, Alone, Exclusive, TakesLock
  <2>2. InForce' = config
    BY <1>1, <2>1 DEF RestInForce
  <2>3. /\ report.config \in Configs /\ report.config # None
        /\ report.answer = IF op[h].lost THEN "lost" ELSE "none"
    BY <1>4, ConstantFacts DEF PushInForce
  <2>4. PushFits(h) /\ op[h].pc # "fresh"
    BY <1>4 DEF Inv, PcFits, Alone
  <2>5. op[h].pc \in {"ok", "bad", "dead"}
    BY <1>4, <2>4 DEF Answer, Over, EndPcs
  <2>6. InForce' = InForce
    BY <1>4, <2>2, <2>4, <2>5 DEF PushInForce, PushFits
  <2>7. CASE Over(h)
    <3>1. report' = Done("lost")
      BY <1>4, <2>7 DEF Over
    <3> QED
      BY <2>3, <2>6, <3>1 DEF Abstract!Settle, Abstract!Done, Done
  <2>8. CASE Answer(h)
    <3>1. /\ op[h].pc \in {"ok", "bad"} /\ report.answer = "none"
          /\ report' = Done(Verdict(h))
      BY <1>4, <2>3, <2>4, <2>8 DEF Answer
    <3>2. CASE op[h].pc = "ok"
      <4>1. report' = Done("pushed")
        BY <1>4, <3>1, <3>2, PushVerdict
      <4>2. InForce = report.config
        BY <1>4, <3>2 DEF PushInForce
      <4> QED
        BY <2>6, <3>1, <4>1, <4>2 DEF Abstract!Succeed, Abstract!Done, Done
    <3>3. CASE op[h].pc = "bad"
      <4>1. report' = Done("failed")
        BY <1>4, <3>1, <3>3, PushVerdict
      <4>2. InForce \in {report.before, Torn}
        BY <1>4, <3>3 DEF PushInForce
      <4> QED
        BY <2>6, <3>1, <4>1, <4>2 DEF Abstract!Fail, Abstract!Done, Done
    <3> QED
      BY <3>1, <3>2, <3>3
  <2> QED
    BY <2>7, <2>8
<1> QED
  BY <1>3, <1>4

LEMMA CutRefines ==
  ASSUME Inv, ~Met, PushInForce, RestInForce, PushInForce', RestInForce',
         NEW h \in Handlers, Cut(h)
  PROVE  Abstract!Lose \/ UNCHANGED <<InForce, report>>
<1>1. PICK pc \in {op[h].pc, "dead"} :
           /\ pc = "dead" => op[h].pc \in {"write", "writing", "check", "read", "backup",
                                           "fetch", "gate", "dead"}
           /\ op' \in [Handlers -> Op]
           /\ \A g \in Handlers : g # h => op'[g] = op[g]
           /\ op'[h].pc = pc /\ op'[h].kind = op[h].kind /\ op'[h].want = op[h].want
           /\ op'[h].was = op[h].was /\ op'[h].seen = op[h].seen /\ op'[h].had = op[h].had
           /\ op'[h].ran = op[h].ran /\ op'[h].lost = TRUE
  BY CutFacts
<1>2. /\ config' = config /\ ~op[h].lost
      /\ report' = IF op[h].kind = "push" THEN [report EXCEPT !.answer = "lost"] ELSE report
  BY DEF Cut, files
<1>3. CASE op[h].kind # "push"
  BY <1>1, <1>2, <1>3, QuietRefines
<1>4. CASE op[h].kind = "push"
  <2>1. report' = [report EXCEPT !.answer = "lost"] /\ report.answer = "none"
    BY <1>2, <1>4 DEF PushInForce
  <2>2. report.config \in Configs /\ None \notin Configs
    BY <1>4, ConstantFacts DEF PushInForce
  <2>3. report'.before = report.before /\ report'.config = report.config
    BY <2>1, <2>2 DEF Inv, Types, Report, Done
  <2>4. InForce' = InForce
    <3>1. CASE pc \in PushPcs \cup {"ok"}
      BY <1>1, <1>4, <2>3, <3>1 DEF PushInForce, PushPcs
    <3>2. CASE pc = "dead" /\ op[h].pc # "dead"
      <4>1. op[h].pc \in {"write", "writing", "check", "backup"}
        BY <1>1, <1>4, <3>2 DEF PushInForce, PushPcs
      <4>2. InForce = config
        BY <1>4, <4>1 DEF PushInForce, PushFits, PushPcs, Inv, Alone
      <4>3. InForce' = config'
        BY <1>1, <1>4, <3>2 DEF PushInForce
      <4> QED
        BY <1>2, <4>2, <4>3
    <3>3. CASE pc = op[h].pc /\ pc \in {"bad", "dead"}
      BY <1>1, <1>2, <1>4, <3>3 DEF PushInForce
    <3>4. op[h].pc \in PushPcs \cup {"ok", "bad", "dead"}
      BY <1>4 DEF PushInForce
    <3> QED
      BY <3>1, <3>2, <3>3, <3>4
  <2> QED
    BY <2>1, <2>4 DEF Abstract!Lose
<1> QED
  BY <1>3, <1>4

\* A reboot kills a push wherever it is: it has landed, or it has not, or half.
LEMMA RebootRefines ==
  ASSUME Inv, PushInForce, RestInForce, PushInForce', RestInForce', Reboot
  PROVE  Abstract!Land \/ Abstract!Break \/ UNCHANGED <<InForce, report>>
<1>1. config' = config /\ report' = report
  BY DEF Reboot
<1>2. CASE \A h \in Handlers : op[h].kind # "push"
  BY <1>1, <1>2, RebootFacts DEF RestInForce
<1>3. ASSUME NEW h \in Handlers, op[h].kind = "push"
      PROVE  Abstract!Land \/ Abstract!Break \/ UNCHANGED <<InForce, report>>
  <2>1. /\ op'[h].kind = "push" /\ op'[h].want = op[h].want
        /\ report.config = op[h].want /\ report.config # None
        /\ report.answer \in {"none", "lost"}
        /\ op[h].pc \in PushPcs \cup {"ok", "bad", "dead"}
    BY <1>3, RebootFacts, ConstantFacts DEF PushInForce
  <2>2. CASE op[h].pc \in PushPcs
    <3>1. op'[h].pc = "dead"
      BY <2>2, RebootFacts DEF PushPcs, EndPcs
    <3>2. /\ InForce = report.before /\ InForce' = config
          /\ config \in {report.before, op[h].want, Torn}
      BY <1>1, <1>3, <2>1, <2>2, <3>1 DEF PushInForce
    <3> QED
      BY <1>1, <2>1, <3>2 DEF Abstract!Land, Abstract!Break
  <2>3. CASE op[h].pc \in {"ok", "bad", "dead"}
    <3>1. op'[h].pc = op[h].pc
      BY <2>3, RebootFacts DEF EndPcs
    <3> QED
      BY <1>1, <1>3, <2>1, <2>3, <3>1 DEF PushInForce
  <2> QED
    BY <2>1, <2>2, <2>3
<1> QED
  BY <1>2, <1>3

\* Only a request that begins ends what is left of those that had met.
LEMMA OnlyRequestsPart ==
  ASSUME Met, ~Met', [Next]_vars
  PROVE  \E h \in Handlers : \/ \E c \in Configs : StartPush(h, c)
                             \/ \E v \in Versions : StartInstall(h, v)
<1>1. report' # report
  BY DEF Met
<1>2. ~(Crash \/ Retry \/ Reboot \/ Expire \/ UNCHANGED vars)
  BY <1>1 DEF Crash, Retry, Reboot, Expire, vars, past
<1>3. ASSUME NEW h \in Handlers
      PROVE  ~(ScriptStep(h) \/ Answer(h) \/ Cut(h) \/ Over(h) \/ StartRenew(h))
  <2>1. ~PushStep(h)
    BY <1>1 DEF PushStep, OpenTmp, WriteTmp, Check, CannotStart, OpenBackup, FillBackup,
       OpenConfig, FillConfig, CopyFails, Restart, Restore, Restored, RestartOld, Ends, past
  <2>2. ~InstallStep(h)
    BY <1>1 DEF InstallStep, FetchPasses, FetchFails, Keep, Swap, RestartNew, Probe, Undo,
       RestartPrevious, Ends, past
  <2>3. ~RenewStep(h)
    BY <1>1 DEF RenewStep, ReadBefore, Gate, Issue, IssueFails, Reload, Ends, past
  <2>4. ~(Answer(h) \/ Cut(h) \/ Over(h) \/ StartRenew(h))
    BY <1>1 DEF Answer, Cut, Over, StartRenew
  <2> QED
    BY <2>1, <2>2, <2>3, <2>4 DEF ScriptStep
<1> QED
  BY <1>2, <1>3 DEF Next, Request

LEMMA StepRefines ==
  ASSUME Inv, Inv', RestInForce, RestInForce', ~Met => PushInForce, ~Met' => PushInForce',
         [Next]_vars
  PROVE  [Abstract!Next]_<<InForce, report>>
<1>1. CASE Met'
  BY <1>1, MeetRefines DEF Abstract!Next
<1>2. ASSUME ~Met', NEW h \in Handlers, NEW c \in Configs, StartPush(h, c)
      PROVE  [Abstract!Next]_<<InForce, report>>
  BY <1>2, BeginRefines DEF Abstract!Next
<1>3. ASSUME Met, ~Met', NEW h \in Handlers, NEW v \in Versions, StartInstall(h, v)
      PROVE  [Abstract!Next]_<<InForce, report>>
  BY <1>3, PartRefines DEF Abstract!Next
<1>4. CASE ~Met /\ ~Met'
  <2>1. ASSUME NEW h \in Handlers, NEW v,
               StartInstall(h, v) \/ StartRenew(h) \/ InstallStep(h) \/ RenewStep(h)
        PROVE  [Abstract!Next]_<<InForce, report>>
    <3>1. /\ \A g \in Handlers : op[g].kind = "push" \/ op'[g].kind = "push" => op'[g] = op[g]
          /\ config' = config /\ (report' = report \/ StartInstall(h, v))
      BY <2>1, OthersStay
    <3>2. report' = report
      BY <1>4, <3>1, DoneFacts DEF StartInstall, Met
    <3> QED
      BY <1>4, <3>1, <3>2, QuietRefines
  <2>2. ASSUME NEW h \in Handlers, PushStep(h)
        PROVE  [Abstract!Next]_<<InForce, report>>
    BY <1>4, <2>2, PushStepRefines DEF Abstract!Next
  <2>3. ASSUME NEW h \in Handlers, Answer(h) \/ Over(h)
        PROVE  [Abstract!Next]_<<InForce, report>>
    BY <1>4, <2>3, EndRefines DEF Abstract!Next
  <2>4. ASSUME NEW h \in Handlers, Cut(h)
        PROVE  [Abstract!Next]_<<InForce, report>>
    BY <1>4, <2>4, CutRefines DEF Abstract!Next
  <2>5. CASE Reboot
    BY <1>4, <2>5, RebootRefines DEF Abstract!Next
  <2>6. CASE Crash \/ Retry \/ Expire \/ UNCHANGED vars
    <3>1. config' = config /\ report' = report /\ op' = op
      BY <2>6 DEF Crash, Retry, Expire, vars, files, past
    <3> QED
      BY <1>4, <3>1, QuietRefines
  <2> QED
    BY <1>2, <1>4, <2>1, <2>2, <2>3, <2>4, <2>5, <2>6 DEF Next, ScriptStep, Request
<1> QED
  BY <1>1, <1>2, <1>3, <1>4, OnlyRequestsPart

-----------------------------------------------------------------------------
(***************************************************************************)
(* The theorems.                                                           *)
(***************************************************************************)

\* The files, the service and the operations are what they should be, and a
\* script that has met no other and is about to restore a file or a binary has
\* one to restore (buildAtomicDeployCommand, verifiedInstallScript).
THEOREM TypeCorrect == Spec => []TypeOK
<1>1. ASSUME Inv PROVE TypeOK
  <2>1. ASSUME NEW h \in Handlers, op[h].had, ~Met
        PROVE  /\ op[h].pc = "restore" => backup # None
               /\ op[h].pc = "undo" => previous # None
    <3>1. PcFits(h) /\ PushFits(h) /\ InstallFits(h)
      BY <1>1, <2>1 DEF Inv, Alone
    <3>2. CASE op[h].pc = "restore"
      BY <2>1, <3>1, <3>2 DEF PcFits, PushFits, PushPcs
    <3>3. CASE op[h].pc = "undo"
      BY <2>1, <3>1, <3>3 DEF PcFits, InstallFits, InstallPcs
    <3> QED
      BY <3>2, <3>3
  <2> QED
    BY <1>1, <2>1 DEF Inv, Types, TypeOK
<1> QED
  BY <1>1, InvHolds, PTL

\* Until two scripts meet, the configuration on the node is one that the binary on
\* the node runs, and a file that is half written is in the hands of cp or was cut
\* short by a reboot or a full disk: pushes and installations check one with the
\* other while no other script runs.  This ends where a lost connection gives the
\* lock back with the script still running (pushNodeConfig, sshRun), and begins
\* again with the next push that meets no other and ends well.
THEOREM FilesAlwaysFit == Spec => []FilesFitTogether
<1>1. Inv => FilesFitTogether
  BY DEF Inv
<1> QED
  BY <1>1, InvHolds, PTL

\* The atomic deploy script keeps the promise of AtomicPush, which is one to pushes
\* that meet no other script, whatever crashes, reboots, full disks and broken
\* connections interrupt it.
THEOREM ScriptsRefineAtomicPush == Spec => PushIsAtomic
<1>1. Inv => RestInForce /\ (~Met => PushInForce)
  BY NothingUndecided, InForceFits
<1>2. Inv /\ Inv' /\ (RestInForce /\ (~Met => PushInForce))
        /\ (RestInForce /\ (~Met => PushInForce))' /\ [Next]_vars
        => [Abstract!Next]_<<InForce, report>>
  BY StepRefines
<1>3. Spec => Abstract!Init /\ [][Abstract!Next]_<<InForce, report>>
  BY <1>1, <1>2, InvHolds, InitRefines, PTL DEF Spec
<1> QED
  BY <1>3 DEF PushIsAtomic, Abstract!Spec, Abstract!vars

\* An installation that has met no other script and is answered "installed" has not
\* left another release running, and one that failed has put the release back that
\* was there (verifiedInstallScript's running_new_binary and its rollback).
THEOREM UpgradesKeepTheirWord == Spec => UpgradesAreAllOrNothing
<1> DEFINE Kept(h) ==
      /\ Answered(h, "installed") /\ ~Met =>
           /\ bin = op[h].want
           /\ op[h].ran /\ service.state = "up" => service.bin = op[h].want
      /\ op[h].kind = "install" /\ Answered(h, "failed") /\ op[h].was # None /\ ~Met =>
           /\ bin = op[h].was
           /\ op[h].ran /\ service.state = "up" => service.bin = op[h].was
<1>1. ASSUME Inv, NEW h \in Handlers
      PROVE  Kept(h)
  <2>1. (~Met => InstallFits(h)) /\ PcFits(h)
    BY <1>1 DEF Inv, Alone
  <2>2. ASSUME Answered(h, "installed")
        PROVE  op[h].kind = "install" /\ op[h].pc = "ok"
    <3>1. op[h].pc \in {"ok", "bad", "fresh"} /\ Verdict(h) = "installed"
      BY <2>2 DEF Answered, Answer
    <3>2. op[h].kind \in {"push", "install", "renew"}
      BY <1>1, <2>1, <3>1 DEF Inv, Types, Op, PcFits, Idle
    <3>3. CASE op[h].pc \in {"bad", "fresh"}
      <4>1. Verdict(h) \in {"failed", "fresh"}
        BY <3>3 DEF Verdict
      <4> QED
        BY <3>1, <4>1
    <3>4. CASE op[h].pc = "ok" /\ op[h].kind = "push"
      <4>1. Verdict(h) = "pushed"
        BY <3>4 DEF Verdict
      <4> QED
        BY <3>1, <4>1
    <3>5. CASE op[h].pc = "ok" /\ op[h].kind = "renew"
      <4>1. Verdict(h) \in {"renewed", "failed"}
        BY <3>5 DEF Verdict
      <4> QED
        BY <3>1, <4>1
    <3> QED
      BY <3>1, <3>2, <3>3, <3>4, <3>5
  <2>3. ASSUME op[h].kind = "install", Answered(h, "failed")
        PROVE  op[h].pc = "bad"
    <3>1. op[h].pc \in {"ok", "bad", "fresh"} /\ Verdict(h) = "failed"
      BY <2>3 DEF Answered, Answer
    <3>2. op[h].pc # "fresh"
      BY <2>1, <2>3 DEF PcFits
    <3>3. CASE op[h].pc = "ok"
      <4>1. Verdict(h) = "installed"
        BY <2>3, <3>3 DEF Verdict
      <4> QED
        BY <3>1, <4>1
    <3> QED
      BY <3>1, <3>2, <3>3
  <2> QED
    BY <2>1, <2>2, <2>3 DEF InstallFits, RunsOnly
<1>2. Inv => \A h \in Handlers : Kept(h)
  BY <1>1
<1> HIDE DEF Kept
<1>3. Inv /\ [Next]_vars => [\A h \in Handlers : Kept(h)]_vars
  BY <1>2
<1>4. Spec => [][\A h \in Handlers : Kept(h)]_vars
  BY <1>3, InvHolds, PTL DEF Spec
<1> QED
  BY <1>4 DEF UpgradesAreAllOrNothing, Kept

\* A renewal answered as done has been loaded by the service, if it runs, or is
\* about to be: renewCertScript reloads what it installed.
THEOREM RenewalsAreServed == Spec => RenewedIsServed
<1> DEFINE Served(h) ==
      Answered(h, "renewed") =>
        \/ service.state = "up" => service.cert > op[h].seen
        \/ \E g \in Handlers : op[g].pc = "reload"
<1>1. ASSUME Inv, NEW h \in Handlers, Answered(h, "renewed"),
             service.state = "up", ~ \E g \in Handlers : op[g].pc = "reload"
      PROVE  service.cert > op[h].seen
  <2>1. op[h].pc \in {"ok", "bad", "fresh"} /\ Verdict(h) = "renewed"
    BY <1>1 DEF Answered, Answer
  <2>2. op[h].kind \in {"push", "install", "renew"} /\ PcFits(h)
    BY <1>1, <2>1 DEF Inv, Types, Op, PcFits, Idle
  <2>3. cert # op[h].seen
    <3>1. CASE op[h].pc \in {"bad", "fresh"}
      <4>1. Verdict(h) \in {"failed", "fresh"}
        BY <3>1 DEF Verdict
      <4> QED
        BY <2>1, <4>1
    <3>2. CASE op[h].pc = "ok" /\ op[h].kind = "push"
      <4>1. Verdict(h) = "pushed"
        BY <3>2 DEF Verdict
      <4> QED
        BY <2>1, <4>1
    <3>3. CASE op[h].pc = "ok" /\ op[h].kind = "install"
      <4>1. Verdict(h) = "installed"
        BY <3>3 DEF Verdict
      <4> QED
        BY <2>1, <4>1
    <3>4. CASE op[h].pc = "ok" /\ op[h].kind = "renew"
      <4>1. Verdict(h) = IF cert # op[h].seen THEN "renewed" ELSE "failed"
        BY <3>4 DEF Verdict
      <4> QED
        BY <2>1, <4>1
    <3> QED
      BY <2>1, <2>2, <3>1, <3>2, <3>3, <3>4
  <2>4. /\ service.cert = cert /\ op[h].seen <= cert
        /\ cert \in Int /\ op[h].seen \in Int
    BY <1>1, <2>2, ConstantFacts DEF Inv, CertIsServed, Types, Op, PcFits
  <2> QED
    BY <2>3, <2>4
<1>2. Inv => \A h \in Handlers : Served(h)
  BY <1>1
<1> HIDE DEF Served
<1>3. Inv /\ [Next]_vars => [\A h \in Handlers : Served(h)]_vars
  BY <1>2
<1>4. Spec => [][\A h \in Handlers : Served(h)]_vars
  BY <1>3, InvHolds, PTL DEF Spec
<1> QED
  BY <1>4 DEF RenewedIsServed, Served

=============================================================================
