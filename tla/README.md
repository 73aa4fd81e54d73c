# singbox-panel: specification and verification

singbox-panel is a Go program that manages a fleet of proxy nodes. It keeps users, nodes, inbounds and
assignments in SQLite, generates a sing-box configuration for every node it manages and pushes it over SSH; it
polls the nodes for their users' traffic, and it can set a node up from nothing. This directory models the parts
of it where several goroutines, a database and remote machines have to agree.

| module | what it is |
|---|---|
| `ConfigSync` | requests that edit users, assignments and inbounds, and the pushes that publish them |
| `ConfigSyncProofs`, `ConfigSyncUserProofs` | theorems about `ConfigSync`, for every value of its constants |
| `AtomicPush` | what a push of a configuration promises the rest of the panel |
| `Deployment`, `DeploymentProofs` | the shell scripts of pushes, upgrades and certificate renewals on one node; implements `AtomicPush` |
| `SSHPool`, `SSHPoolProofs` | the pool of SSH connections |
| `TrafficPolling`, `TrafficPollingProofs` | the traffic poller; extends `SSHPool`, whose calls its polls and guards make |
| `Ledger`, `LedgerProofs` | traffic counters and samples against the calendar: monthly resets, retention, usage queries |
| `AutoSetup`, `AutoSetupProofs` | one-click setup of a node: ports, credentials, rollback |
| `SumFacts` | least and greatest members, and sums over finite sets: facts the proofs share |
| `MC*` and their `.cfg` | the instances TLC checks |

Source paths are relative to `src/`. `PROJECT.json` maps each definition to the lines it models, lists the
hazards with the properties meant for them, and gives for every property a plausible bug that breaks it; the
bugs are the operators commented "Faulty variant" and belong to no specification.

## 1. Inventory

**Node configuration synchronisation** (`handler/sync.go`, `handler/config.go`, `handler/batch.go`).
State: one mutex per node, and what the nodes run. `SyncNodes` pushes nodes in ascending order; `syncNode`
takes the node's push lock, makes three separate queries (`UsersForNode`, `ListEnabled`, `ListInbounds`),
uploads the file, has the node check it, and runs a script that puts it in place, restarts the service and restores
the backup if that fails. Hard: commits of other requests between the queries and the push; a push that fails, or
that succeeds and is reported as failed; a script that outlives its connection, and with it the lock; a rollback
that has to reach the nodes which already took the change. Correct when: a node serves what the database says once
nobody is working on it; a 200 means published; a reported rollback left nothing behind; everybody is answered.

**User accounts** (`handler/user.go`, `model/user.go`). State: the `users` rows. Create, update (with or
without assignments), delete, reset the counters, each with a rollback of its own. Hard: unique names taken
between an edit and its rollback; reads after the commit that fail; comparing the rows before and after to
decide whether to push. The monthly reset and the expiry work lazily, when somebody looks.

**Access assignments** (`handler/auth.go`, `model/access.go`). State: `user_access`. Grant, revoke, replace.
The nodes to push are the difference between two reads around the commit, without a lock.

**Nodes and inbounds** (`handler/node.go`, `model/node.go`). State: `nodes`, `node_inbounds`. Inbound create,
update and delete push the node and roll back; node create, update, delete and reorder push nothing or all.

**Reality camouflage target** (`handler/reality.go`). Changes one field of an inbound and pushes; on failure it
reverts the row and does not push again. Also ranks candidate sites by probing them from a node.

**Traffic accounting** (`handler/traffic.go`, `handler/v2raystats.go`, `model/traffic.go`, `handler/stats.go`).
State: `users.traffic_used_bytes`, `traffic_logs`, the counters inside sing-box. A cycle a minute, a goroutine
per node, eight slots, a deadline after which the guard leaves and the poll runs on. Reading the counters clears
them. Hard: late polls beside the next cycle's; two ledgers written by two statements whose errors are dropped; users
that are created, renamed and deleted between the reading of the table and the charge.
The counters start again once a month, when somebody fetches the user's subscription, and when an operator resets
them; the samples are kept for three calendar months in panel time. Correct when: no byte is counted twice in
either ledger, or charged to somebody else, every cycle ends, connections do not leak; nobody is charged for what came
before the last reset; a usage answer misses nothing that is still kept.

**SSH connection pool** (`handler/sshpool.go`). State: a map under a mutex. Lookup, probe, dial, store and close
are separate steps. Correct when: a caller gets a live connection to what it asked for; the map holds no closed
connection; none is forgotten open.

**Auto-setup and port selection** (`handler/setup.go`, `handler/setup_profile.go`). State: the rows and the
domain of a node, what the run has reserved. Chooses protocols by mode, then per protocol a port, credentials
and a handshake target, writes rows one at a time, pushes once; undoes everything on an error. No lock spans it.
Correct when: no two inbounds collide; credentials in use survive; a rerun changes nothing; a failure leaves no
trace.

**Reprovisioning** (`handler/reprovision.go`): auto-setup over a fleet, one node after another, reporting per node.

**Config generator and subscriptions** (`singbox/*.go`, `handler/subscription.go`): pure functions from rows to
JSON, YAML and links, with unique tags.

**Certificates** (`handler/cert.go`, `handler/validate.go`). State: certificate and key on the node. A renewal reads
the certificate, runs a script that leaves a fresh one alone or has a new one issued, installed and the service
restarted, and reads it again to judge. It does not take the push lock. Correct when: a certificate reported as
renewed is the one being served.

**Node operations** (`handler/nodeops.go`, `handler/install.go`, `handler/nodetune.go`). State: the binary, its
`.previous`, the unit. An upgrade validates the candidate, replaces the binary by a rename, restarts the service
and looks which binary it runs; if it is not the new one the previous binary comes back. Status, version and
kernel tuning only show the output of commands. Correct when: an upgrade is all or nothing and never leaves a
binary that cannot run the node's configuration.

**SSH host keys** (`handler/hostkey.go`): pin on first contact, refuse a change, forget.

**Login, JWT and self-service** (`handler/auth.go`, `handler/stats.go`). **Process, database, build information**
(`main.go`, `db/db.go`, `config/config.go`, `buildinfo/buildinfo.go`). **Web interface** (`web/`).

How they interact: handlers call the stores (SQLite serialises statements, nothing serialises handlers) and
`SyncNodes`; the push lock is the only lock they share. The poller shares with them the `users` rows and the
nodes, and nothing else; a push restarts sing-box and with it the counters. Pushes, upgrades and renewals meet on
the node itself, in its files and its service; the push lock orders the first two. Start-up reconciles nothing.

## 2. ConfigSync

State: `life`, `row`, `access`, `inbound`, `minted` are the tables; `served` and `listening` are what each node
runs; `lock` the push locks; `job[h]` the locals of request goroutine `h`; `abandoned` is history: the pairs
(node, user or inbound) that failed requests and crashes left out of step, taken off when a push happens to put
them right.

A request is `Begin` (first read), `ReadAssignments`, `Commit` or `Refuse`, `Reload` and `Aim` (the reads
after the commit, which decide the targets), then for each target `TakeLock`, `QueryAllowed`, `QueryUsers`,
`QueryInbounds` and one of `Push`, `PushFails`, `PushAnswerLost`, `SkipNode`; then `Answer`, or `Undo` and the
same nodes again with phase "restore". Deletion pushes first and drops the rows last (`DeleteRows`). A
retarget reverts without a second push (`RevertTarget`). `UndoFails`, `ForgetEdit` and `RevertUnpushed` are the
error paths on which the handler answers without pushing. `Crash` clears memory, not tables or nodes.

Data abstracted: a row keeps name, enabled (the flag together with the expiry), limit, use and note; an inbound is
its settings; a configuration is which user is served under which name and which inbounds listen. The deploy script
is one step with four outcomes (took it; kept the old one; took it and the answer was lost; not attempted): that it
has no others, as long as no two scripts meet on the node, is what `Deployment` is for.

The module is about edits. Traffic that takes a user over the limit, a monthly reset and an expiry date that passes
change what a configuration would be as well, and push nothing; they are not here (9), so `UsersFollowDatabase` says
nothing of them.

*The note.* `restoreUser` (`handler/user.go:258`) writes back every field of the row but the note, which
`applyUserUpdate` commits with the rest. `RolledBackEditLeavesOnlyItsNote` therefore says which row a rolled-back edit
leaves: the one it found, with the request's note if it brought one (`FoundRow`). README.md:185 says "the database
change is rolled back".

*Bounds.* Two handlers that serve requests without end: every pair of requests of an instance meets in every
order of their steps, and a third request sees whatever state the pair leaves. Two nodes distinguish "some
pushed, some not"; two users and two names make the rollback of a name collide.

| run | checks | shows |
|---|---|---|
| `faults` | `TypeOK`, `UsersFollowDatabase`, `InboundsFollowDatabase`, `RolledBackEditLeavesOnlyItsNote`, `NoStalePush`, `AnsweredEditIsPublished` | 2.25M states; failing store, failing pushes, lost replies, crashes, a node of another proxy type, a manual push |
| `accounts` | `UsersFollowDatabase`, `RolledBackEditLeavesOnlyItsNote`, `NoStalePush`, `EveryRequestIsAnswered` | 0.3M; accounts created, switched off, renamed crosswise, deleted, while edits roll back; nodes that hang |
| `same_user` | `AnsweredEditIsPublished` | **violated**: two edits of one user at a time |
| `retarget` | `RevertedTargetAgrees` | **violated**: a lost answer and no second push |

*One edit per user.* `OneEditPerUser` is an assumption about operators, a guard in `Begin`. Under it the user
properties hold; `same_user` switches it off and one of them fails, so the assumption is needed and is named.
The code does not enforce it. Inbounds carry no such assumption: requests for one inbound race freely.

*Fairness.* A handler's steps are weakly fair except the push itself: `sshConnect` bounds the TCP connect, but
`sshRun` has no deadline, so a wedged node may keep its handler (and its push lock) for ever.
`EveryRequestIsAnswered` therefore says what the code does guarantee: a request goes unanswered only if one of the
nodes it has to push itself hangs for good, in its own push or in another's. `TakeLock` is strongly fair:
`sync.Mutex` hands a contended lock to its waiters in order once they starve. Nothing is assumed of operators or
faults.

## 3. Deployment, and the push it implements

`Deployment` is one node seen from the shell. `config`, `tmp`, `backup` are the three files of a push, `bin`, `staged`
(`bin.new`), `previous` and `unit` the binaries and the systemd unit, `cert` and `due` the certificate, `service` the
process with the binary and the certificate it has loaded. `op[h]` is a request and the script it runs; each line that
another script, a crash or a restart can tell from the next is an action, and a line that writes a file is two, for a
redirection and `cp` truncate the file first (`Torn`) and fill it later:

| code | actions |
|---|---|
| `sshWriteFile`, `sing-box check` | `OpenTmp`, `WriteTmp`, `Check`, `CannotStart` |
| `buildAtomicDeployCommand` | `OpenBackup`, `FillBackup`, `OpenConfig`, `FillConfig`, `CopyFails`, `Restart`, `Restore`, `Restored`, `RestartOld` |
| `install`, `verifiedInstallScript` | `FetchPasses`, `FetchFails`, `Keep`, `Swap`, `RestartNew`, `Probe`, `Undo`, `RestartPrevious` |
| `HandleCertRenew`, `renewCertScript` | `ReadBefore`, `Gate`, `Issue`, `IssueFails`, `Reload` |
| the panel's end | `StartPush`, `StartInstall`, `StartRenew`, `Answer`, `Cut`, `Over` |
| the machine | `Crash`, `Retry`, `Reboot`, `Expire` |

The unit is of `Type=simple`, so `systemctl restart` may succeed for a process that dies at once, and may fail for
reasons of systemd's own; `RestartSucceeds` and `RestartFails` allow all of it. A restart that fails leaves the service
stopped or for systemd to retry, never running as it was before. `CopyFails` is a full disk: `set -e` ends the script
where it is, with half a `config.json`, before the branch that would restore the backup. A reboot kills every script
where it is and may or may not clear `/tmp`.

*The lock and the scripts.* `Cut` breaks the connection at any moment: what the panel does itself stops, the push lock
is free again (`syncNode` and `install` return, `handler/config.go:175-178`, `handler/nodeops.go:254-256`), a script
already running goes on and nobody learns its exit status. The next push or installation may begin beside it
(`Meets`), with the same temporary file and the same backup. From then on the last report is "met" (`Met`) until one
begins that meets nobody, and `mixed` stays true until such a push has ended well; `cut` remembers a `cp` of
`config.json` that a reboot or a full disk has cut short.

`AtomicPush` is the promise: what is in force on a node changes only to the configuration being pushed, at most
once, and an answer "pushed" or "failed" is true. It has two limits, and they are actions of it: a machine that stops
in the middle may be left with half a file (`Break`), and of operations that meet nothing is promised until they are
over (`Meet`, `Part`). `PushIsAtomic` states that `Deployment` implements it under the mapping `inForce <- InForce`,
`push <- report`, where a new file counts only once the service has been restarted with it: between `OpenConfig` and
the end of the script the configuration in force is the backup. A reboot there makes the new file count after all, and
the promise still holds because the answer of that push is "lost".

| run | checks | shows |
|---|---|---|
| `deploy` | `TypeOK`, `FilesFitTogether`, `PushIsAtomic`, `UpgradesAreAllOrNothing`, `RenewedIsServed` | 3.2M states; two requests at a time, two releases, a configuration that only one of them accepts, every fault above |
| `overlap` | `DeployedIsValidated` | **violated**: the script of a lost connection installs the next push's file before that push has had it checked |

What holds, then: until two scripts meet, the binary and the configuration fit whatever restarts the service and
when; once they have met they may not, and a push that meets no other and ends well makes good for it. The trace of
`overlap`: a push reaches its `cp` and loses its connection; the next push writes a configuration the installed
release does not run to the temporary file; the first script's `cp` installs it. If the second push is then answered
as failed, its configuration is in place all the same. `ConfigSync`, which takes a push whose answer was lost to have
landed or not before the next push of that node, builds on the case without overlap.

*Bounds.* Two handlers: two pushes or upgrades of which the first has lost its connection, or one of them and a
renewal, or two renewals. One certificate to issue; two releases and two configurations of which one pair does not fit,
the smallest instance in which a check can fail. While `mixed` is true no renewal begins and no certificate expires
(`CertificateBound`). `VIEW` identifies states that differ only in what will be overwritten before it is read. The proofs (8)
have none of these bounds.

*Left out.* Data that had not reached the disk when the power failed; `was_running` read while systemd is between two
restarts counts as not running, as `is-active` says; one certificate per node and one inbound per renewal; the DNS
lookup that may refuse a renewal before its script runs. acme.sh's own cron job is a renewal whose connection is lost.

## 4. SSHPool and TrafficPolling

`SSHPool`: `entries` is the map, `conn` the connections, `call[g]` where goroutine `g` is inside `get`, `drop`
or `Close`. The steps the mutex separates are separate actions. Connections are reused once nobody refers to
them, so the model needs no bound on dials. Operators edit nodes at any time, so `StartGet` may ask for any
target. `Use` lets callers do anything the pool's interface allows; `TrafficPolling` uses it as the poller does.

`TrafficPolling` adds the cycle (`PollAll`, `CycleEnds`), a guard per node (`TakeSlot`, `Answered`, `TimesOut`,
`GuardDone`) and polls (`QueryAnswered`, `AnswerLost`, `QueryFails`, `SkipUnknown`, `Charge`, `Record`,
`PollEnds`) that take the pool's steps inside `get` and `drop`. `Charge` and `Record` are the two statements, and
either may fail without anybody noticing. `poll[g].known` is the table of names of the poll's own cycle, which may be
older than the current one. Operators create, rename and delete users at any time (`CreateUser`, `Rename`,
`DeleteUser`); a push leaves on the node any users the table has ever listed (`Configurations`), for a request
generates from rows it has read earlier and may leave anybody out. `EditNode` changes an address that polls of the
current cycle go on using. The histories: `carried` is what each user has moved, `charged` and `sampled` what has ever
been added to the row and inserted as samples, `lost` and `unsampled` what no row and no sample will ever show, `had`
who has had which name.

`TrafficIsConserved` and `SamplesAreConserved` are equations: `carried` is what one ledger has, what is lost for it,
what the nodes have and what polls have in hand. A byte counted twice, dropped silently or charged to the wrong
account breaks them. They speak of users whose names were never another user's (`Undisputed`): counters carry names,
and a name stands for whoever had it when the cycle began, so when an account takes a name another one has given up,
its first bytes may go to the other. Nothing in the repository says they must not.

The ledgers are histories because other things take bytes out of them again: resets, pruning, the deletion of a user
or a node. A row and the samples therefore differ in ordinary use, and no property compares the two.

| run | checks | shows |
|---|---|---|
| `polling` | `PollingTypeOK`, `TrafficIsConserved`, `SamplesAreConserved`, `ClientLeadsToNode`, `PooledAreNotClosed` | 1.55M states; two polls of a node overlap; a user is renamed or deleted, or another created, and statements fail; or the node gets another address |
| `cycles` | `NothingLeaks`, `EveryCycleEnds` | 0.6M; two nodes share one slot, and polls hang |
| `leak` | `NothingLeaks` | **violated** when the node is edited between overlapping polls |

`ClientLeadsToNode` is about the parameters the poll was started with: a poll whose cycle began before an edit of the
node goes on using the old address.

*Bounds.* `MaxCarried = 1`: with one byte per user and node, a byte counted twice or dropped already shows, since
counting adds what was read and never looks at the amount. Two polls suffice for a late one beside its
successor. `polling` starts either with a user on a node that keeps its address, or with a node to edit and no users:
the product of the two would be too large, and the ledgers do not depend on the address. From the first beginning
operators take one step (`PollingBounds`); two names suffice for a rename between the reading of the table and the
charge. What the bounds leave out is in the proofs.

*Fairness.* The ticker ticks, timers fire, and guards run on, in the pool too. Polls get no fairness in `cycles`: a
dial or a keepalive has no deadline beyond the TCP connect, so a poll may hang for ever, and `EveryCycleEnds` holds
all the same because the guard's timer frees the slot. An instance has finitely many poll goroutines, the code has
not: the property excuses a guard that is queued when they have all been used up.

## 5. Ledger

`row[u]` is the user's counter and the date of its last reset, `samples` the rows of `traffic_logs` by instant,
`clock` the time in UTC, `op[h]` a request between two of its statements. `AddTraffic` and `Record` are a report;
`GetBySubToken` and `CheckTrafficReset` a subscription, which resets the counter from the row it has read and then
decides with it (`IsActive`); `ReadBefore`, `ResetTraffic`, `ResetEnds` and `RestoreTraffic` the operator's reset
and its rollback; `ParseUsageQuery` and `Usage` a query; `Prune` the retention loop. The history variables keep
what was charged since each day and what was ever recorded.

The calendar is a parameter: any numbering of days by months in which a month has at least `LastResetDay` days.
Days of the counters begin at midnight UTC; days of the samples, and the cutoff, `Zone` ticks earlier (later, west
of UTC, where `Zone` is negative; the run is east of it, the proofs cover both). The offset is fixed and less than a
day. That is true of the default `Asia/Shanghai`; with daylight saving time `offsetModifier` applies today's offset to
samples of another season while `Prune` uses that day's, and they differ by an hour at the boundary.

| run | checks | shows |
|---|---|---|
| `ledger` | `TypeOK`, `NeverOvercharged`, `UsageIsComplete`, `RefusedOnlyOverLimit` | 2.2M states; four months of two days, two of them kept, panel time half a day ahead |

*Bounds.* Two handlers, one user (users do not meet in these tables), two bytes, months of two days with the reset
on the second: the run starts in the third month and crosses two month ends in each zone, the least for a request
that begins before a reset date and ends after it while another one resets.

`NeverOvercharged` compares the counter with what was added since the date in the row, `RefusedOnlyOverLimit` with
what was added since the last reset date that has come; a counter nobody has reset yet may hold several months.

What the run does not claim: that everything added is charged. A rollback writes back the counter it read, over
what a poll has added since, and a reset decided on an old row clears what came after. Both undercharge; nothing in
the code says otherwise. Deleting a user or a node deletes its samples, although the comment at
`model/traffic.go:73` speaks of rows that survive it.

## 6. AutoSetup

One node, several setups (`Jobs`), pushes of any other request (`OtherPush`), and sing-box stopping (`Stop`).
`rows`, `minted`, `domain` are the tables, `running` and `up` the node, `job[j]` the locals of
`HandleAutoSetup`. A setup is `Start` (modes, DNS, what is asked for), `List` (the domain migration guard and
the snapshot everything later is computed from), per protocol `Draft` (port, secret, target) and then
`CreateRow`, `UpdateRow`, `SkipUnchanged` or `ProtocolFails`; `LoopDone`, `Rename`, `Push`; on failure
`Uncreate` and `Restore` row by row, `EndUndo`, and after a tried push `PushBack`.

Outcomes of probes (DNS at the protocol, certificate, key pair, handshake target) are inputs. A statement may fail
before or after it took effect, in the rollback too: a setup whose restoring of the domain or of a row fails answers
"undoFailed" and pushes nothing (`EndUndo`). A push is one step,
since `ConfigSync` already looks inside it; what can collide is in the model: two inbounds of one network on one
port do not start, yet `sing-box check` binds nothing, so such a push may be reported as done. A secret is named
after the setup that generated it, so replacing one shows. The history variables: `alone` (no other setup or push
met this one), `unread` (ids inserted and never read back), `left` (ids a setup gave up on), `settled` (the
request of the last setup, if it succeeded alone on a node in step: with ids in `left` the node is not "already
correct", and a port it still holds may stand in the way of a rerun). A request that lists a protocol twice is
rejected at the start. The properties excuse what they name: a setup that another
publication meets half-way and that then fails with 422 puts rows back and pushes nothing, so the node stays
ahead of the rows; such ids are in `left` until the next push.

| run | checks | shows |
|---|---|---|
| `setup` | `TypeOK`, `NodeFollowsRows`, `PortsDoNotCollide`, `DomainBoundRowsFollowDomain`, `RerunKeepsEverything`, `CredentialsAreStable`, `FailedSetupLeavesNoTrace` | 2.55M; two setups, one after the other or interleaved, under seven faults |
| `ports` | `PortsDoNotCollide` | **violated** when Reality is listed before HTTPUpgrade |

*Bounds.* Two jobs, each served once; three requests (the suggestion of mode "auto" with obfuscation, mode "cdn"
with a migration, an explicit Hysteria2 with a migration); five inbound ids, two more than a node with all three
protocols has; two starting nodes, a fresh one and one with a Reality inbound. A foreign program holds 8443/tcp,
so the second choice of port is already taken. `CHECK_DEADLOCK FALSE` in both: a job ends with its answer, and
when all are answered and sing-box is down nothing need follow.

One thing the runs do not claim: if sing-box is *stopped* when setup is rerun, an HTTPUpgrade inbound that is
left as it is reserves no port and 443 looks free, so Reality may be moved onto it. `PortsDoNotCollide` asks for
sing-box to be up.

## 7. Where the code and what it says part

| run | source | in short |
|---|---|---|
| `same_user` | `handler/user.go:124` | the nodes to push are the union of the assignments read ahead of the commit and after it; a concurrent grant falls before the one and is undone by the other, its node is in neither, and the update still answers 200 |
| `retarget` | `handler/reality.go:210` | the row is reverted without a push, so after a lost answer the node and the row disagree, which the comment says it avoids |
| `leak` | `handler/sshpool.go:84` | an entry with another target is overwritten without closing its connection |
| `overlap` | `handler/config.go:329` | one temporary file for all pushes of a node, and a lock given back while the script runs: a file is installed that no check has passed |
| `ports` | `handler/setup.go:430` | HTTPUpgrade's default 443 ignores the ports this run reserved |

Two more, which need no run: a rolled-back edit keeps the note it brought (`handler/user.go:258` against README.md:185;
the properties about rollbacks name the exception), and nothing pushes a node when a poll takes a user over the limit
(`handler/traffic.go:189` against README.md:46), so the user is served until an unrelated request pushes the node.

## 8. What is proved

`ConfigSyncProofs` proves `TypeCorrect`: `Spec => []TypeOK`. `ConfigSyncUserProofs` proves, for any finite or
infinite sets of users, nodes, inbounds, handlers and requests and every set of faults,

    OneEditPerUser => (Spec => []UsersFollowDatabase)          UsersAreFollowed
    OneEditPerUser => (Spec => []NoStalePush)                  PushesAreNotStale
    OneEditPerUser => (Spec => []AnsweredEditIsPublished)      AnsweredMeansPublished
    OneEditPerUser => (Spec => []RolledBackEditLeavesOnlyItsNote)
                                                               RollbackLeavesOnlyTheNote

from `ConstantsAssumption` and `RequestsAssumption` (the shapes of the constants and of the requests; TLC
evaluates both in every run). None of the four is inductive. The invariant `IInv` adds to the types:

- `LocksExclude`: a handler inside `syncNode` holds that node's lock, so at most one is there;
- `OneEditor`: no two handlers edit one user;
- `NewUsersHaveNoAccess`: an id not yet handed out is on no node, so creating a user changes no configuration;
- `Memory`: what an editor remembers (`before`, `beforeNodes`, the row it read back) is related to the tables as
  they are now: only this editor has written the user since, so undoing restores what was there but for the note, and
  any node outside its targets is unaffected by its change;
- `Fresh`: what a handler inside `syncNode` has read of a user is what the database says, or the user's editor
  will still push this node (or has failed and left the pair in `abandoned`);
- `NodesFollow`: the property itself.

`Fresh` is the heart of it. A commit between two queries spoils the reader's configuration, but the committer has
the node among its targets (`Memory`), has not pushed it yet, and cannot until the reader lets go of the lock
(`LocksExclude`). So a push may put something stale on a node, never last.

Each action has a lemma of its own. The actions that change nothing but their handler's locals share `QuietStep`;
`TargetsCover` and `RestoreCovers` say that a change, or its undoing, makes no difference on a node outside the
targets, which carries the actions that write the tables; `PushedStep` and `NotPushedStep` the ends of a push.

`ConfigSyncProofs` also proves `InboundsAreFollowed`: `Spec => []InboundsFollowDatabase`, of operators who edit
as they please: any number of requests may race on one inbound. `Memory` has no counterpart, since a rollback may
well overwrite what another request wrote. Instead an inbound concerns one node, its own (`OwnNodes`), and every
request for it pushes that node after its commit and again after its rollback; so whatever the tables hold at the
end, whoever wrote them last still owes the node a push, or failed it and put the pair in `abandoned`. Its `Fresh`
says of a configuration about to be pushed that it has the inbound as the tables do, or that *another* handler
owes the node: the reader's own request cannot be the excuse, for its push is the one that would go wrong.

`DeploymentProofs`, for any number of handlers, releases, configurations and certificates and any relation
`Fits` between releases and configurations, from `DeploymentAssumption`:

    Spec => []TypeOK                     TypeCorrect
    Spec => []FilesFitTogether           FilesAlwaysFit
    Spec => PushIsAtomic                 ScriptsRefineAtomicPush
    Spec => UpgradesAreAllOrNothing      UpgradesKeepTheirWord
    Spec => RenewedIsServed              RenewalsAreServed

All but the last are about scripts that meet no other: `FilesFitTogether` says `~mixed =>`, the other two `~Met =>`, and
the refinement goes through `AtomicPush!Meet`, after which nothing is promised. Whether scripts meet is not assumed
away: they do, in `Spec`, and what the theorems say is exact, as run `overlap` shows for the first.

The invariant has the same shape. `Inv` holds always: the types, `CertIsServed` (a running service has the certificate
on disk unless a renewal is about to restart it), `FilesFitTogether`, and that scripts have met only if `mixed` says
so. As long as no two have met it adds `Alone`: only one lock-taking script is there (`Exclusive`), no push is owed a
report when none runs (`NoPushReport`), and each line of a push and of an upgrade can rely on which of the new and the
old file is in place, that a file being written is the one it writes, and that what it would restore fits the binary it
would be restored beside (`PushFits`, `InstallFits`). The step that leaves "met" (an operation that begins with no other
script there) has to establish `Alone` from nothing, which is why the report and the two histories say what they say.
The refinement takes one step lemma per action: a step of `AtomicPush!Next`, or a stutter because neither `InForce` nor
`report` moves (`PushInForce` and `RestInForce` say when `InForce` moves); `MeetRefines` covers whatever happens while
scripts have met, `PartRefines` the end of that.

`LedgerProofs`, for any calendar that meets `CalendarAssumption`, any fixed offset of the panel's clock of less than a
day, east or west of UTC, and any number of users and handlers: `TypeCorrect`, `ChargesAreHonest`
(`NeverOvercharged`), `RefusalsAreJust` (`RefusedOnlyOverLimit`), `UsageMissesNothing` (`UsageIsComplete`). The first rests on what a request between two
statements remembers: a row it read is never older than the counter's last reset except when a reset came since,
and then the counter has started from nothing. The last is arithmetic about the calendar, in lemmas of its own
(`ExpectedResetHasCome`, `MonthsOfDays`).

`SSHPoolProofs`: `TypeCorrect`, `ClientsLeadToTheirNode` and `PoolHoldsNothingClosed`, for any goroutines,
targets and connections. The last two are not inductive; the invariant adds that the connection a call holds outside
the mutex to store or to close is nobody else's (`HeldIsNotPooled`, `HeldOnce`), which is why closing it
cannot close one in the map and storing it cannot store a closed one. The module also says of each step when it
loses sight of an open connection (the `...LeaksNothing` lemmas): only where `get` stores over an entry of another target.

`TrafficPollingProofs`, for any nodes, names, guards, polls and faults, from `PollingAssumption` (these sets are
finite; byte counts are unbounded):

    PollingSpec => Spec                                 PollingUsesThePool
    PollingSpec => []PollingTypeOK                      PollingTypeCorrect
    PollingSpec => []TrafficIsConserved                 NoByteIsLost
    PollingSpec => []SamplesAreConserved                NoSampleIsMissing
    "edit" \notin Operations =>
      (PollingSpec => []NothingLeaks)                   NothingLeaksUntilEdited

The first says that the poller calls the pool only in the ways `Use` allows; the pool's theorems then hold of the
poller (`PollsReachTheirNode`, `PollerPoolHoldsNothingClosed`). The two conservation laws are equations between sums
over nodes, polls and samples, and every action moves bytes from one term to another: `SumFacts` gives what the sum of a
function over a finite set does when the function changes at one point or the set grows by one. Its facts would
usually come by induction over the set; here they come from a smallest counterexample (`SmallestSet`, with
`LeastExists` for its size), which needs no induction theorem. The invariants beside the equations: whoever a
table, a poll or a node has under a name has had that name (`TablesHad`, `PollsHad`, `NodesHad`, the last with the fact
that a node counts only for whom it serves), so that a name of an undisputed user can stand for nobody else, in
however old a table, however often users are renamed. The leak theorem needs its hypothesis, as run `leak` shows; under it all parameters that were ever read
for a node are the same (`OneTarget`), and no store overwrites.

`AutoSetupProofs`, for any number of setups, any requests, ports and domains and every set of faults, from
`ConstantsAssumption` and `InputsAssumption` (inbounds are numbered from 1 as SQLite numbers them; TLC evaluates
both):

    Spec => []TypeOK                                TypeCorrect
    Spec => []NodeFollowsRows                       RowsAreFollowed
    Spec => FailedSetupLeavesNoTrace                FailureLeavesNoTrace
    CredentialsIssued =>
      (Spec => CredentialsAreStable)                CredentialsStay
    OneInboundOfEach => (DomainBoundRowsFollowDomain /\ Spec
      => []DomainBoundRowsFollowDomain)             DomainsFollow
    PortsCanBeKeptApart => (DomainBoundRowsFollowDomain /\ Spec
      => []PortsDoNotCollide)                       PortsAreKeptApart
    ProbesAreAnswered =>
      (Spec => []RerunKeepsEverything)              RerunsKeepEverything

`TypeOK` takes work here: that a draft is a row goes through the choice of the port, which must exist (a least
free port, a last listed inbound), and of the credential. The invariant adds `Unused` (ids not handed out are in no
table and no snapshot), `BookKept` (what each step of a setup has to undo), `Accounted` (where node and database
differ on an id, a setup in progress has it in `Hold`, or it is in `left`) and `Undisturbed` (a setup that nothing
met finds the rows, the node and the domain as it left them, `Faithful`). `SetupMoves` says which steps of a setup
keep all this; every action goes through it or, where it meets other setups, through `MetFacts`.

The other four each take an invariant of their own on top of that one, which TLC checked before it was proved.

- `CredentialInv`: everything known of an inbound (its row, what the node runs, what any setup listed) agrees on its
  protocol and credential, and so does a draft (`DraftFits`). `CredentialsIssued` asks that the inbounds a node has at
  first have the credentials the panel issues (`handler/node.go:230`): an HTTPUpgrade inbound without a path, say,
  would get one, and two setups side by side would each give it a different one.
- `DomainInv`: half-way through a migration an inbound is either done and on the new domain, or as it was found and
  still to do (`Moving`). `OneInboundOfEach` is needed: setup keeps one inbound of each protocol in mind (a map keyed
  by protocol, `handler/setup.go`), while `HandleCreateInbound` lets an operator add a second, which a migration would
  leave behind. That the node is in order before its first setup is a hypothesis of the theorem as well.
- `PortInv`: until Reality has its port, an HTTPUpgrade inbound's port is one the node was found with or one this
  setup has reserved, and both `selectListenPort` avoids (`Planned`). `PortsCanBeKeptApart` asks for what run `ports`
  shows to be necessary, that HTTPUpgrade comes before Reality, and that `randomPort` returns no port that
  HTTPUpgrade may have (20000 to 49999 against 443 and what operators name for it).
- `RerunInv`: once a setup has settled a node, each protocol's last inbound is what the request asks for, and every
  port that `selectListenPort` prefers to its port is taken (`Preferred`). While a setup works its way there
  (`Progress`), the ports it has avoided stay taken: by what it leaves alone, or by what it wrote. The delicate point
  is a port coming free: the inbounds of one network on one node are Reality and HTTPUpgrade, so what moves while
  Reality is settled can only be HTTPUpgrade, and it keeps its port unless the request names one. Hence
  `ProbesAreAnswered`: no request names HTTPUpgrade's port, and probes answer, since a probe that failed the first
  time may have left an inbound on a port that a rerun, with an answer, improves. (Run `setup` has failing probes
  too and passes, because none of its nodes starts with an inbound beside a free port that `conventionalPorts` prefers.)

Out of the prover's reach and left to TLC: liveness under fairness (`EveryRequestIsAnswered`, `EveryCycleEnds`).
Every other property that a passing run checks is also a theorem, under the hypotheses named here.

## 9. What is not modelled, and the plan

Not modelled, because they keep no shared state or only print: the JSON, YAML and link layouts; token signing;
status and tuning commands; the ranking of candidate targets; the web interface.

Not modelled, because a handler's critical section is all there is: host key pinning takes one mutex per
operation; `Reprovision` is a sequential loop over upgrades and auto-setups, each modelled on its own.

Simplified inside what is modelled:

- nodes are neither created nor deleted beside pushes. The deletion handler looks at the rows, pushes nothing to the
  node and deletes without looking again; orphaned rows reach no configuration;
- `UndoFails` and its like are modelled for every request kind. The access kind "replace", which takes the branches
  of "grant" and the node set of "updateWithAccess", is in the proofs but in no instance TLC runs, and so is
  `CloseAll` of the pool, which the panel calls on its way out;
- what changes a configuration without an edit (traffic over the limit, a monthly reset, an expiry date that passes) is
  pushed by nobody and is not in `ConfigSync`; its effect on the counters and on subscriptions is in `Ledger`;
- the overlap of a deploy script with a later one is in `Deployment` only: `ConfigSync` takes a lost push to have landed
  or not by the time the next push of that node begins;
- `IsActive` (`<`) and `ListEnabled` (`>`) differ at the very instant of expiry; the models take the two as one
  comparison;
- two TLS inbounds of a node that share a certificate: the second verdict of a renewal is "fresh" while its
  `Before` was read ahead of the loop (`handler/cert.go:326`); the model has one inbound per renewal.

Next: an abstract specification of publishing (edits that take effect on every node or on none) with `ConfigSync`
shown to implement it.
