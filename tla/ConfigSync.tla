------------------------------ MODULE ConfigSync ------------------------------
(***************************************************************************)
(* How the panel keeps the sing-box configuration of its nodes in step     *)
(* with its database.                                                      *)
(*                                                                         *)
(* Every request that changes what a node should serve (an edit of a user, *)
(* of the nodes a user may use, of an inbound) runs in its own goroutine:  *)
(* it reads a snapshot to roll back to, commits its change to SQLite,      *)
(* works out which nodes the change affects, and regenerates and pushes    *)
(* the configuration of those nodes one at a time, each under that node's  *)
(* push lock.  If a push fails it rolls the database change back and       *)
(* pushes the same nodes again.  A configuration is generated from three   *)
(* separate queries, and other requests commit between them.               *)
(*                                                                         *)
(* This module is about edits.  The other ways a node falls behind the     *)
(* database - traffic charged to a row, the monthly reset, an expiry date  *)
(* that passes - push nothing and are not here; the counters they change   *)
(* are the subject of Ledger.  A lost push lands at once or not at all,    *)
(* as AtomicPush has it while no two scripts meet on the node.             *)
(***************************************************************************)
EXTENDS Integers, FiniteSets

CONSTANTS
  Users,          \* user ids
  Names,          \* user names, as they appear in a generated configuration
  Limits,         \* traffic limits in use; 0 is "unlimited"
  Notes,          \* what an operator may note about a user
  Nodes,          \* node ids
  Managed,        \* the nodes whose proxy_type is "singbox"
  Inbounds,       \* inbound ids
  InboundNode,    \* the node each inbound belongs to
  Settings,       \* what an inbound listens with (port, SNI, keys)
  Handlers,       \* request goroutines
  Requests,       \* the requests operators send
  Keep,           \* a field the request leaves out (a nil pointer)
  None,           \* no name / no inbound / no lock holder
  Faults,         \* which faults may happen: subset of FaultKinds
  OneEditPerUser  \* operators never edit the same user at the same time

UserKinds    == {"update", "updateWithAccess", "grant", "revoke", "replace",
                 "delete", "reset"}
InboundKinds == {"createInbound", "deleteInbound", "retarget"}
FaultKinds   == {"store", "push", "lostReply", "crash"}

(***************************************************************************)
(* The fields of the user row an update may set: a nil pointer in          *)
(* model.UpdateUserReq leaves the column alone.  `enabled' stands for the  *)
(* enabled flag together with the expiry date, which the queries test      *)
(* side by side.                                                           *)
(***************************************************************************)
ASSUME ConstantsAssumption ==
  /\ Nodes \subseteq Nat
  /\ Managed \subseteq Nodes
  /\ Limits \subseteq Nat
  /\ InboundNode \in [Inbounds -> Nodes]
  /\ Keep \notin Names /\ Keep \notin Limits /\ Keep \notin 0..1
  /\ Keep \notin Notes
  /\ None \notin Names \cup Settings \cup Handlers \cup Nodes
  /\ Users \cap Inbounds = {}
  /\ Faults \subseteq FaultKinds
  /\ OneEditPerUser \in BOOLEAN

ASSUME RequestsAssumption ==
  \A r \in Requests :
    \/ /\ r.kind \in UserKinds
       /\ r.user \in Users
       /\ r.kind \in {"update", "updateWithAccess"} =>
            /\ r.name \in Names \cup {Keep}
            /\ r.enabled \in (0..1) \cup {Keep}
            /\ r.limit \in Limits \cup {Keep}
            /\ r.note \in Notes \cup {Keep}
       /\ r.kind \in {"updateWithAccess", "grant", "revoke", "replace"} =>
            r.nodes \in SUBSET Nodes
    \/ /\ r.kind \in InboundKinds
       /\ r.inbound \in Inbounds
       /\ r.kind \in {"createInbound", "retarget"} => r.setting \in Settings
    \/ /\ r.kind = "push"
       /\ r.nodes \in SUBSET Nodes

VARIABLES
  life,        \* life[u]: "new" (id not handed out), "live" or "gone"
  row,         \* row[u]: the users row
  access,      \* access[u]: the nodes of the user_access rows of u
  inbound,     \* inbound[i]: the settings of row i of node_inbounds, or None
  minted,      \* inbound ids handed out (AUTOINCREMENT never reuses one)
  served,      \* served[n][u]: the name node n runs user u under, or None
  listening,   \* listening[n][i]: the settings node n runs inbound i with
  lock,        \* lock[n]: who holds the push lock of n, or None
  job,         \* job[h]: the local state of request goroutine h
  abandoned    \* history: the <<node, user or inbound>> pairs that failed
               \* requests and crashes left out of step

database == <<life, row, access, inbound, minted>>
nodes    == <<served, listening>>
vars     == <<database, nodes, lock, job, abandoned>>

UserRow == [name : Names, enabled : 0..1, limit : Limits, used : Nat, note : Notes]

(***************************************************************************)
(* The local state of a handler.                                           *)
(*   pc           where it is:                                             *)
(*                  idle       no request                                  *)
(*                  loaded     the user row has been read                  *)
(*                  ready      everything to roll back to has been read    *)
(*                  committed  the change is in the database               *)
(*                  reread     the row was read back after the change      *)
(*                  sync       between two nodes of SyncNodes              *)
(*                  locked, allowed, listed, generated                     *)
(*                             inside syncNode, holding a push lock        *)
(*                  undo       the last step of a deletion failed          *)
(*   before, beforeNodes, inboundWas                                       *)
(*                what the rollback puts back                              *)
(*   user         the row an update read back after its change             *)
(*   targets      the nodes the change affects; todo: those still to push  *)
(*   failed       the nodes whose push did not answer "pushed"             *)
(*   phase        "apply" the change, or "restore" after the rollback      *)
(*   node         the node syncNode is working on                          *)
(*   ids, names, settings   the three queries behind one configuration     *)
(***************************************************************************)
Pcs == {"idle", "loaded", "ready", "committed", "reread", "sync", "locked",
        "allowed", "listed", "generated", "undo"}

NoRequest == [kind |-> "none"]
NoRow     == [name |-> None, enabled |-> 0, limit |-> 0, used |-> 0, note |-> None]

Idle ==
  [pc |-> "idle", req |-> NoRequest, before |-> NoRow, beforeNodes |-> {},
   inboundWas |-> None, user |-> NoRow, targets |-> {}, todo |-> {},
   failed |-> {}, phase |-> "apply", node |-> None, ids |-> {},
   names |-> [u \in Users |-> None], settings |-> [i \in Inbounds |-> None]]

Job ==
  [pc : Pcs, req : Requests \cup {NoRequest}, before : UserRow \cup {NoRow},
   beforeNodes : SUBSET Nodes, inboundWas : Settings \cup {None},
   user : UserRow \cup {NoRow}, targets : SUBSET Nodes, todo : SUBSET Nodes,
   failed : SUBSET Nodes, phase : {"apply", "restore"},
   node : Nodes \cup {None}, ids : SUBSET Users,
   names : [Users -> Names \cup {None}],
   settings : [Inbounds -> Settings \cup {None}]]

\* Type invariant: the tables, the nodes and every handler's locals.
TypeOK ==
  /\ life \in [Users -> {"new", "live", "gone"}]
  /\ row \in [Users -> UserRow]
  /\ access \in [Users -> SUBSET Nodes]
  /\ inbound \in [Inbounds -> Settings \cup {None}]
  /\ minted \in SUBSET Inbounds
  /\ served \in [Nodes -> [Users -> Names \cup {None}]]
  /\ listening \in [Nodes -> [Inbounds -> Settings \cup {None}]]
  /\ lock \in [Nodes -> Handlers \cup {None}]
  /\ job \in [Handlers -> Job]
  /\ abandoned \in SUBSET (Nodes \X (Users \cup Inbounds))

-----------------------------------------------------------------------------
(***************************************************************************)
(* The queries behind a configuration.                                     *)
(***************************************************************************)

\* The rows UsersForNode returns: enabled, not over the traffic limit, and
\* with access to the node.
UsersForNode(n) ==
  {u \in Users : /\ life[u] = "live"
                 /\ n \in access[u]
                 /\ row[u].enabled = 1
                 /\ row[u].limit = 0 \/ row[u].used < row[u].limit}

\* ListEnabled as a function: the name of every enabled user.
ListEnabled ==
  [u \in Users |-> IF life[u] = "live" /\ row[u].enabled = 1
                     THEN row[u].name ELSE None]

\* ListInbounds(n), as a function of every inbound id.
ListInbounds(n) ==
  [i \in Inbounds |-> IF InboundNode[i] = n THEN inbound[i] ELSE None]

\* The users of a generated configuration: listed, and allowed on the node.
\* A user missing from either query is left out.
GeneratedUsers(ids, names) ==
  [u \in Users |-> IF u \in ids THEN names[u] ELSE None]

\* What node n ought to run now.
WantUsers(n) == GeneratedUsers(UsersForNode(n), ListEnabled)
WantInbounds(n) == ListInbounds(n)

-----------------------------------------------------------------------------
(***************************************************************************)
(* What a request writes, and which nodes it affects.                      *)
(***************************************************************************)

IsUserEdit(r)    == r.kind \in UserKinds
IsInboundEdit(r) == r.kind \in InboundKinds
IsUpdate(r)      == r.kind \in {"update", "updateWithAccess"}
IsAccessEdit(r)  == r.kind \in {"grant", "revoke", "replace"}

\* Faulty variant: a field the request leaves out is written all the same.
GivenBlindly(field, default) == field

Given(field, default) == IF field = Keep THEN default ELSE field

\* applyUserUpdate: only the fields the request carries are written.
ApplyUserUpdate(r, old) ==
  [name    |-> Given(r.name, old.name),
   enabled |-> Given(r.enabled, old.enabled),
   limit   |-> Given(r.limit, old.limit),
   used    |-> old.used,
   note    |-> Given(r.note, old.note)]

RowAfter(r) ==
  LET old == row[r.user]
  IN  CASE IsUpdate(r)       -> ApplyUserUpdate(r, old)
        [] r.kind = "delete" -> [old EXCEPT !.enabled = 0]
        [] r.kind = "reset"  -> [old EXCEPT !.used = 0]
        [] OTHER             -> old

AccessAfter(r) ==
  LET old == access[r.user]
  IN  CASE r.kind \in {"updateWithAccess", "replace"} -> r.nodes
        [] r.kind = "grant"  -> old \cup r.nodes
        [] r.kind = "revoke" -> old \ r.nodes
        [] r.kind = "delete" -> {}
        [] OTHER             -> old

InboundAfter(r) ==
  IF r.kind = "deleteInbound" THEN None ELSE r.setting

\* users.name is UNIQUE.
NameTaken(u, name) ==
  \E v \in Users \ {u} : life[v] = "live" /\ row[v].name = name

\* The statements of a request succeed: the user still exists (Revoke does not
\* ask) and keeps a unique name; the inbound to delete or to retarget is still
\* there.
Accepted(r) ==
  \/ r.kind = "revoke"
  \/ /\ IsUserEdit(r)
     /\ life[r.user] = "live"
     /\ ~NameTaken(r.user, RowAfter(r).name)
  \/ r.kind = "createInbound" /\ r.inbound \notin minted
  \/ r.kind \in {"deleteInbound", "retarget"} /\ inbound[r.inbound] # None

\* Faulty variant: switching a user off is not taken for a change.
UserConfigChangedButEnabled(before, after) ==
  before.name # after.name \/ before.limit # after.limit

UserConfigChanged(before, after) ==
  \/ before.name # after.name
  \/ before.enabled # after.enabled
  \/ before.limit # after.limit

\* Faulty variant: the nodes a user loses are not pushed.
GrantedIDs(before, after) == after \ before

ChangedIDs(before, after) == (before \ after) \cup (after \ before)
UnionIDs(before, after)   == before \cup after

\* The nodes a request pushes, from the assignments and the rows read before
\* and after its commit.
TargetsOf(r, before, after, old, new) ==
  CASE r.kind = "updateWithAccess"   -> UnionIDs(before, after)
    [] r.kind = "update"              -> IF UserConfigChanged(old, new)
                                           THEN UnionIDs(before, after)
                                           ELSE ChangedIDs(before, after)
    [] IsAccessEdit(r)                -> ChangedIDs(before, after)
    [] r.kind \in {"delete", "reset"} -> before
    [] IsInboundEdit(r)               -> {InboundNode[r.inbound]}
    [] r.kind = "push"                -> r.nodes

\* Which user or inbound a handler is editing.
Edits(h, x) ==
  \/ IsUserEdit(job[h].req) /\ job[h].req.user = x
  \/ IsInboundEdit(job[h].req) /\ job[h].req.inbound = x

-----------------------------------------------------------------------------
(***************************************************************************)
(* Which nodes a request in flight still has to regenerate.                *)
(***************************************************************************)

Syncing == {"sync", "locked", "allowed", "listed", "generated"}

\* The nodes a committed change will be pushed to: those the handler is about
\* to compute, or those left in its list.
Pending(h, n) ==
  LET j == job[h] IN
  \/ /\ j.pc = "committed"
     /\ n \in IF IsUserEdit(j.req)
               THEN TargetsOf(j.req, j.beforeNodes, access[j.req.user],
                              j.before, row[j.req.user])
               ELSE {InboundNode[j.req.inbound]}
  \/ /\ j.pc = "reread"
     /\ n \in TargetsOf(j.req, j.beforeNodes, access[j.req.user],
                        j.before, j.user)
  \/ /\ j.pc \in Syncing
     /\ n \in j.todo

\* A node whose push failed is pushed again after the rollback.
Owes(h, n) ==
  \/ Pending(h, n)
  \/ /\ job[h].pc \in Syncing
     /\ job[h].phase = "apply"
     /\ n \in job[h].failed

\* The pairs that get out of anybody's reach when these handlers stop here.
DebtsOf(hs) ==
  {p \in Nodes \X (Users \cup Inbounds) :
     \E h \in hs : Edits(h, p[2]) /\ Owes(h, p[1])}

-----------------------------------------------------------------------------
(***************************************************************************)
(* Initially the panel is quiet and every managed node runs what the       *)
(* database says.                                                          *)
(***************************************************************************)
Init ==
  /\ life \in [Users -> {"new", "live"}]
  /\ row \in [Users -> [name : Names, enabled : 0..1, limit : Limits, used : Limits,
                       note : Notes]]
  /\ access \in [Users -> SUBSET Nodes]
  /\ \A u \in Users : life[u] = "new" => access[u] = {}
  /\ \A u, v \in Users :
       u # v /\ life[u] = "live" /\ life[v] = "live" => row[u].name # row[v].name
  /\ inbound \in [Inbounds -> Settings \cup {None}]
  /\ minted = {i \in Inbounds : inbound[i] # None}
  /\ served = [n \in Nodes |-> WantUsers(n)]
  /\ listening = [n \in Nodes |-> WantInbounds(n)]
  /\ lock = [n \in Nodes |-> None]
  /\ job = [h \in Handlers |-> Idle]
  /\ abandoned = {}

\* The request is answered; nothing of it stays in memory.
Return(h) == job' = [job EXCEPT ![h] = Idle]

\* POST /api/users, POST /api/register: the new user has no access yet, so no
\* node is pushed.
CreateUser(u) ==
  /\ life[u] = "new"
  /\ \E name \in Names, enabled \in 0..1, limit \in Limits, note \in Notes :
       /\ ~NameTaken(u, name)
       /\ row' = [row EXCEPT ![u] = [name |-> name, enabled |-> enabled,
                                     limit |-> limit, used |-> 0, note |-> note]]
  /\ life' = [life EXCEPT ![u] = "live"]
  /\ UNCHANGED <<access, inbound, minted, nodes, lock, job, abandoned>>

\* A request arrives and the handler makes its first read: the user, the
\* assignments (all an access edit rolls back to), or the inbound.  An edit of
\* a user or an inbound that does not exist is refused at once.
Begin(h, r) ==
  /\ job[h].pc = "idle"
  /\ OneEditPerUser /\ IsUserEdit(r) =>
       \A g \in Handlers : ~Edits(g, r.user)
  /\ \/ /\ IsUserEdit(r) /\ ~IsAccessEdit(r)
        /\ life[r.user] = "live"
        /\ job' = [job EXCEPT ![h] =
                     [Idle EXCEPT !.pc = "loaded", !.req = r,
                                  !.before = row[r.user]]]
     \/ /\ IsAccessEdit(r)
        /\ job' = [job EXCEPT ![h] =
                     [Idle EXCEPT !.pc = "ready", !.req = r,
                                  !.beforeNodes = access[r.user]]]
     \/ /\ IsInboundEdit(r)
        /\ r.kind \in {"createInbound", "deleteInbound"} =>
             InboundNode[r.inbound] \in Managed
        /\ Accepted(r)
        /\ r.kind = "retarget" => inbound[r.inbound] # r.setting
        /\ job' = [job EXCEPT ![h] =
                     [Idle EXCEPT !.pc = "ready", !.req = r,
                                  !.inboundWas = inbound[r.inbound]]]
     \/ /\ r.kind = "push"
        /\ job' = [job EXCEPT ![h] =
                     [Idle EXCEPT !.pc = "sync", !.req = r,
                                  !.targets = r.nodes, !.todo = r.nodes]]
  /\ UNCHANGED <<database, nodes, lock, abandoned>>

\* The assignments to roll back to, read in a query of their own.
ReadAssignments(h) ==
  /\ job[h].pc = "loaded"
  /\ job' = [job EXCEPT ![h].pc = "ready",
                        ![h].beforeNodes = access[job[h].req.user]]
  /\ UNCHANGED <<database, nodes, lock, abandoned>>

\* One transaction (or one statement) makes the change.
Commit(h) ==
  LET r == job[h].req IN
  /\ job[h].pc = "ready"
  /\ Accepted(r)
  /\ IF IsUserEdit(r)
       THEN /\ row' = [row EXCEPT ![r.user] = RowAfter(r)]
            /\ access' = [access EXCEPT ![r.user] = AccessAfter(r)]
            /\ UNCHANGED <<inbound, minted>>
       ELSE /\ inbound' = [inbound EXCEPT ![r.inbound] = InboundAfter(r)]
            /\ minted' = minted \cup {r.inbound}
            /\ UNCHANGED <<row, access>>
  /\ job' = [job EXCEPT ![h].pc = IF IsAccessEdit(r) THEN "reread"
                                                     ELSE "committed"]
  /\ UNCHANGED <<life, nodes, lock, abandoned>>

\* The transaction fails and leaves nothing behind: the user is gone, the
\* name is taken, the inbound is not there any more, or SQLite gives up.
Refuse(h) ==
  /\ job[h].pc = "ready"
  /\ ~Accepted(job[h].req) \/ "store" \in Faults
  /\ Return(h)
  /\ UNCHANGED <<database, nodes, lock, abandoned>>

\* The read that follows the commit.  An update keeps the row it reads, to
\* compare it with the one it started from; the other requests know their
\* targets.
Reload(h) ==
  LET r == job[h].req
      targets == TargetsOf(r, job[h].beforeNodes, {}, NoRow, NoRow)
  IN
  /\ job[h].pc = "committed"
  /\ job' = IF IsUpdate(r)
              THEN [job EXCEPT ![h].pc = "reread", ![h].user = row[r.user]]
              ELSE [job EXCEPT ![h].pc = "sync", ![h].targets = targets,
                               ![h].todo = targets]
  /\ UNCHANGED <<database, nodes, lock, abandoned>>

\* The assignments after the change decide which nodes it affects.
Aim(h) ==
  LET r == job[h].req
      targets == TargetsOf(r, job[h].beforeNodes, access[r.user],
                           job[h].before, job[h].user)
  IN
  /\ job[h].pc = "reread"
  /\ job' = [job EXCEPT ![h].pc = "sync", ![h].targets = targets,
                        ![h].todo = targets]
  /\ UNCHANGED <<database, nodes, lock, abandoned>>

-----------------------------------------------------------------------------
(***************************************************************************)
(* SyncNodes and syncNode: the nodes in ascending order, each under its    *)
(* push lock.  One failing node does not keep the others from being        *)
(* pushed.                                                                 *)
(***************************************************************************)

\* Faulty variant: pushes to one node do not exclude each other.
TakeLockAnyway(h, n) ==
  /\ job[h].pc = "sync"
  /\ n \in job[h].todo
  /\ \A m \in job[h].todo : n <= m
  /\ lock' = [lock EXCEPT ![n] = h]
  /\ job' = [job EXCEPT ![h].pc = "locked", ![h].node = n]
  /\ UNCHANGED <<database, nodes, abandoned>>

TakeLock(h, n) ==
  /\ job[h].pc = "sync"
  /\ n \in job[h].todo
  /\ \A m \in job[h].todo : n <= m
  /\ lock[n] = None
  /\ lock' = [lock EXCEPT ![n] = h]
  /\ job' = [job EXCEPT ![h].pc = "locked", ![h].node = n]
  /\ UNCHANGED <<database, nodes, abandoned>>

\* The three queries of generateConfig.
QueryAllowed(h, n) ==
  /\ job[h].pc = "locked" /\ job[h].node = n
  /\ n \in Managed
  /\ job' = [job EXCEPT ![h].pc = "allowed", ![h].ids = UsersForNode(n)]
  /\ UNCHANGED <<database, nodes, lock, abandoned>>

QueryUsers(h, n) ==
  /\ job[h].pc = "allowed" /\ job[h].node = n
  /\ job' = [job EXCEPT ![h].pc = "listed", ![h].names = ListEnabled]
  /\ UNCHANGED <<database, nodes, lock, abandoned>>

QueryInbounds(h, n) ==
  /\ job[h].pc = "listed" /\ job[h].node = n
  /\ job' = [job EXCEPT ![h].pc = "generated", ![h].settings = ListInbounds(n)]
  /\ UNCHANGED <<database, nodes, lock, abandoned>>

\* Faulty variants: a failed push is not recorded; its lock is not released.
LeaveNodeSilently(h, n, ok) ==
  /\ lock' = [lock EXCEPT ![n] = None]
  /\ job' = [job EXCEPT
               ![h].pc = "sync",
               ![h].node = None,
               ![h].todo = @ \ {n},
               ![h].ids = {},
               ![h].names = Idle.names,
               ![h].settings = Idle.settings]

LeaveNodeLocked(h, n, ok) ==
  /\ lock' = IF ok THEN [lock EXCEPT ![n] = None] ELSE lock
  /\ job' = [job EXCEPT
               ![h].pc = "sync",
               ![h].node = None,
               ![h].todo = @ \ {n},
               ![h].failed = IF ok THEN @ ELSE @ \cup {n},
               ![h].ids = {},
               ![h].names = Idle.names,
               ![h].settings = Idle.settings]

\* syncNode returns and releases the lock; ok is "the status is pushed".
LeaveNode(h, n, ok) ==
  /\ lock' = [lock EXCEPT ![n] = None]
  /\ job' = [job EXCEPT
               ![h].pc = "sync",
               ![h].node = None,
               ![h].todo = @ \ {n},
               ![h].failed = IF ok THEN @ ELSE @ \cup {n},
               ![h].ids = {},
               ![h].names = Idle.names,
               ![h].settings = Idle.settings]

\* The pairs of node n that a failed restore leaves to nobody.
GivenUp(h, n) ==
  IF job[h].phase = "restore"
    THEN {p \in {n} \X (Users \cup Inbounds) : Edits(h, p[2])} ELSE {}

\* The push succeeds: the node runs the generated configuration.
Push(h, n) ==
  /\ job[h].pc = "generated" /\ job[h].node = n
  /\ served' = [served EXCEPT ![n] = GeneratedUsers(job[h].ids, job[h].names)]
  /\ listening' = [listening EXCEPT ![n] = job[h].settings]
  /\ abandoned' = {p \in abandoned :
                     \/ p[1] # n
                     \/ p[2] \in Users /\ served'[n][p[2]] # WantUsers(n)[p[2]]
                     \/ p[2] \in Inbounds
                          /\ listening'[n][p[2]] # WantInbounds(n)[p[2]]}
  /\ LeaveNode(h, n, TRUE)
  /\ UNCHANGED database

\* The push fails and the node keeps what it ran: no connection, the check of
\* the new file fails, or the restart fails and the script restores the backup.
PushFails(h, n) ==
  /\ "push" \in Faults
  /\ job[h].pc = "generated" /\ job[h].node = n
  /\ abandoned' = abandoned \cup GivenUp(h, n)
  /\ LeaveNode(h, n, FALSE)
  /\ UNCHANGED <<database, nodes>>

\* The script ran to its end but the SSH connection broke before its exit
\* status came back: the node runs the new configuration, the handler sees an
\* error.
PushAnswerLost(h, n) ==
  /\ "lostReply" \in Faults
  /\ job[h].pc = "generated" /\ job[h].node = n
  /\ served' = [served EXCEPT ![n] = GeneratedUsers(job[h].ids, job[h].names)]
  /\ listening' = [listening EXCEPT ![n] = job[h].settings]
  /\ abandoned' = abandoned \cup GivenUp(h, n)
  /\ LeaveNode(h, n, FALSE)
  /\ UNCHANGED database

\* syncNode gives up before it pushes: the node is not a sing-box node
\* ("skipped" is no success either), or a query fails.
SkipNode(h, n) ==
  /\ job[h].node = n
  /\ \/ job[h].pc = "locked" /\ n \notin Managed
     \/ job[h].pc \in {"locked", "allowed", "listed"} /\ "store" \in Faults
  /\ abandoned' = abandoned \cup GivenUp(h, n)
  /\ LeaveNode(h, n, FALSE)
  /\ UNCHANGED <<database, nodes>>

-----------------------------------------------------------------------------
(***************************************************************************)
(* What a handler does when SyncNodes returns.                             *)
(***************************************************************************)

SyncDone(h)   == job[h].pc = "sync" /\ job[h].todo = {}
Succeeded(h)  == SyncDone(h) /\ job[h].phase = "apply" /\ job[h].failed = {}
RolledBack(h) == SyncDone(h) /\ job[h].phase = "restore"

\* The request is answered: 200, the per-node results of a push, or 502 after
\* the rollback.
Answer(h) ==
  /\ \/ Succeeded(h) /\ job[h].req.kind # "delete"
     \/ RolledBack(h)
     \/ SyncDone(h) /\ job[h].req.kind = "push"
  /\ Return(h)
  /\ UNCHANGED <<database, nodes, lock, abandoned>>

\* DeleteWithRelatedData: the nodes no longer serve the user, the rows go.
DeleteRows(h) ==
  LET u == job[h].req.user IN
  /\ Succeeded(h) /\ job[h].req.kind = "delete"
  /\ life[u] = "live"
  /\ life' = [life EXCEPT ![u] = "gone"]
  /\ access' = [access EXCEPT ![u] = {}]
  /\ Return(h)
  /\ UNCHANGED <<row, inbound, minted, nodes, lock, abandoned>>

\* The rows cannot be deleted: the deletion is rolled back.
DeleteRowsFails(h) ==
  /\ Succeeded(h) /\ job[h].req.kind = "delete"
  /\ life[job[h].req.user] # "live" \/ "store" \in Faults
  /\ job' = [job EXCEPT ![h].pc = "undo"]
  /\ UNCHANGED <<database, nodes, lock, abandoned>>

MustUndo(h) ==
  \/ job[h].pc = "undo"
  \/ /\ SyncDone(h)
     /\ job[h].phase = "apply" /\ job[h].failed # {}
     /\ job[h].req.kind # "push"

\* Faulty variant: restoreUser does not write the old name back.
RestoredRowKeepingName(h) ==
  LET r == job[h].req  now == row[r.user]  was == job[h].before IN
  CASE IsUpdate(r) \/ r.kind = "delete" -> [was EXCEPT !.used = now.used,
                                                       !.note = now.note,
                                                       !.name = now.name]
    [] r.kind = "reset"                 -> [now EXCEPT !.used = was.used]
    [] OTHER                            -> now

\* restoreUser writes back name, flag, expiry and limit, but neither the
\* counters nor the note; RestoreTraffic the counters; the access handlers
\* write back the assignments only.
RestoredRow(h) ==
  LET r == job[h].req  now == row[r.user]  was == job[h].before IN
  CASE IsUpdate(r) \/ r.kind = "delete" -> [was EXCEPT !.used = now.used,
                                                       !.note = now.note]
    [] r.kind = "reset"                 -> [now EXCEPT !.used = was.used]
    [] OTHER                            -> now

\* Faulty variant: the row is restored, the assignments are not.
AccessLeft(h) == access[job[h].req.user]

RestoredAccess(h) ==
  IF job[h].req.kind = "reset" THEN access[job[h].req.user]
                               ELSE job[h].beforeNodes

RestoredInbound(h) ==
  IF job[h].req.kind = "createInbound" THEN None ELSE job[h].inboundWas

\* The rollback's statements can succeed: the user is still there, its old name
\* was not taken meanwhile; the inbound is (or is not) there as expected.
CanRestore(h) ==
  LET r == job[h].req IN
  \/ r.kind = "reset"
  \/ /\ IsUserEdit(r)
     /\ life[r.user] = "live"
     /\ ~NameTaken(r.user, RestoredRow(h).name)
  \/ r.kind = "deleteInbound" /\ inbound[r.inbound] = None
  \/ r.kind \in {"createInbound", "retarget"} /\ inbound[r.inbound] # None

RestoreRows(h) ==
  LET r == job[h].req IN
  /\ CanRestore(h)
  /\ IF IsUserEdit(r)
       THEN /\ row' = [row EXCEPT ![r.user] = RestoredRow(h)]
            /\ access' = [access EXCEPT ![r.user] = RestoredAccess(h)]
            /\ UNCHANGED <<life, inbound, minted>>
       ELSE /\ inbound' = [inbound EXCEPT ![r.inbound] = RestoredInbound(h)]
            /\ UNCHANGED <<life, row, access, minted>>

\* Faulty variant: the rollback does not push the nodes again.
UndoWithoutPush(h) ==
  /\ MustUndo(h) /\ job[h].req.kind # "retarget"
  /\ RestoreRows(h)
  /\ Return(h)
  /\ UNCHANGED <<nodes, lock, abandoned>>

\* The change is rolled back in the database, and the same nodes are pushed
\* again.
Undo(h) ==
  /\ MustUndo(h) /\ job[h].req.kind # "retarget"
  /\ RestoreRows(h)
  /\ job' = [job EXCEPT ![h].pc = "sync", ![h].phase = "restore",
                        ![h].todo = job[h].targets, ![h].failed = {}]
  /\ UNCHANGED <<nodes, lock, abandoned>>

\* The pairs a handler leaves behind when it stops short of its last push.
LeftBehind(h) ==
  {p \in job[h].targets \X (Users \cup Inbounds) : Edits(h, p[2])}

\* HandleRealityTarget reverts the inbound and answers without a second push.
RevertTarget(h) ==
  /\ MustUndo(h) /\ job[h].req.kind = "retarget"
  /\ RestoreRows(h)
  /\ abandoned' = abandoned \cup LeftBehind(h)
  /\ Return(h)
  /\ UNCHANGED <<nodes, lock>>

\* The rollback itself fails (500).  With a failing store the rows may have
\* been restored all the same: the read that follows the commit failed.
UndoFails(h) ==
  /\ MustUndo(h)
  /\ \/ /\ ~CanRestore(h) \/ "store" \in Faults
        /\ UNCHANGED database
     \/ "store" \in Faults /\ RestoreRows(h)
  /\ abandoned' = abandoned \cup LeftBehind(h)
  /\ Return(h)
  /\ UNCHANGED <<nodes, lock>>

-----------------------------------------------------------------------------
(***************************************************************************)
(* A read that follows the commit fails, and the handler answers without   *)
(* ever pushing.                                                           *)
(***************************************************************************)

\* The read is the tail of the store call, so the handler takes the committed
\* change for a failed one and leaves it in the database.
ForgetEdit(h) ==
  /\ "store" \in Faults
  /\ job[h].pc = "committed"
  /\ job[h].req.kind \notin {"reset", "deleteInbound"}
  /\ abandoned' = abandoned \cup DebtsOf({h})
  /\ Return(h)
  /\ UNCHANGED <<database, nodes, lock>>

\* The read is the handler's own, so it restores the rows, but it neither
\* pushes nor looks at whether the restore succeeded.
RevertUnpushed(h) ==
  /\ "store" \in Faults
  /\ \/ job[h].pc = "reread"
     \/ job[h].pc = "committed" /\ job[h].req.kind = "reset"
  /\ RestoreRows(h) \/ UNCHANGED database
  /\ abandoned' = abandoned \cup DebtsOf({h})
  /\ Return(h)
  /\ UNCHANGED <<nodes, lock>>

\* The panel process dies.  The database and the nodes stay as they are; no
\* start-up code compares them.
Crash ==
  /\ "crash" \in Faults
  /\ \E h \in Handlers : job[h].pc # "idle"
  /\ job' = [h \in Handlers |-> Idle]
  /\ lock' = [n \in Nodes |-> None]
  /\ abandoned' = abandoned \cup DebtsOf(Handlers)
  /\ UNCHANGED <<database, nodes>>

-----------------------------------------------------------------------------
SyncNode(h, n) ==
  \/ TakeLock(h, n)
  \/ QueryAllowed(h, n) \/ QueryUsers(h, n) \/ QueryInbounds(h, n)
  \/ Push(h, n) \/ PushFails(h, n) \/ PushAnswerLost(h, n) \/ SkipNode(h, n)

Step(h) ==
  \/ ReadAssignments(h) \/ Commit(h) \/ Refuse(h) \/ Reload(h) \/ Aim(h)
  \/ \E n \in Nodes : SyncNode(h, n)
  \/ Answer(h) \/ DeleteRows(h) \/ DeleteRowsFails(h)
  \/ Undo(h) \/ RevertTarget(h) \/ UndoFails(h)
  \/ ForgetEdit(h) \/ RevertUnpushed(h)

Next ==
  \/ \E u \in Users : CreateUser(u)
  \/ \E h \in Handlers, r \in Requests : Begin(h, r)
  \/ \E h \in Handlers : Step(h)
  \/ Crash

Spec == Init /\ [][Next]_vars

-----------------------------------------------------------------------------
(***************************************************************************)
(* Fairness.  A handler is a goroutine that runs on whenever it can;       *)
(* sync.Mutex hands a contended lock to its waiters in turn (starvation    *)
(* mode), so a handler waiting for a push lock gets it.  Nothing bounds    *)
(* the SSH commands of a push (only the TCP connect has a timeout): a node *)
(* may keep its handler in "generated" for ever.  Nothing obliges an       *)
(* operator to send a request or the process to crash.                     *)
(***************************************************************************)
Pushing(h, n) == job[h].pc = "generated" /\ job[h].node = n

Fairness ==
  \A h \in Handlers :
    /\ WF_vars(job[h].pc # "generated" /\ Step(h))
    /\ \A n \in Nodes : SF_vars(TakeLock(h, n))

FairSpec == Spec /\ Fairness

-----------------------------------------------------------------------------
(***************************************************************************)
(* Properties.                                                             *)
(***************************************************************************)

\* The row a request found, with the note of the request where it carries one.
FoundRow(r, was) ==
  IF IsUpdate(r) THEN [was EXCEPT !.note = Given(r.note, @)] ELSE was

UserInStep(n, u)    == served[n][u] = WantUsers(n)[u]
InboundInStep(n, i) == listening[n][i] = WantInbounds(n)[i]

\* A managed node serves a user exactly as the database says, unless the
\* request editing that very user still has to push the node, or a failed
\* request or a crash left the pair behind.  Requests for other users, however
\* they interleave with the three queries and the push, never undo it.
UsersFollowDatabase ==
  \A n \in Managed, u \in Users :
    \/ UserInStep(n, u)
    \/ <<n, u>> \in abandoned
    \/ \E h \in Handlers : Edits(h, u) /\ Owes(h, n)

\* The same for inbounds; here several requests may race on one inbound.
InboundsFollowDatabase ==
  \A n \in Managed, i \in Inbounds :
    \/ InboundInStep(n, i)
    \/ <<n, i>> \in abandoned
    \/ \E h \in Handlers : Edits(h, i) /\ Owes(h, n)

\* A configuration is generated from three queries made at different moments,
\* and pushed later still.  Whatever it gets wrong about a user when it is
\* pushed, another request that is still to push the node is about to correct:
\* no push leaves the node for good with something older than it had (unless
\* that request has failed and left the pair behind).
NoStalePush ==
  \A h \in Handlers, n \in Managed :
    job[h].node = n /\ job[h].pc = "generated" =>
      \A u \in Users :
        \/ GeneratedUsers(job[h].ids, job[h].names)[u] = WantUsers(n)[u]
        \/ \E g \in Handlers \ {h} : Edits(g, u) /\ Pending(g, n)
        \/ <<n, u>> \in abandoned

\* A user edit is answered with success only when every managed node serves
\* the user as the database now says (README: "affected node configs are
\* regenerated and pushed before the response returns"), except where another
\* request for the user is still on its way to the node.
AnsweredEditIsPublished ==
  \A h \in Handlers :
    Succeeded(h) /\ IsUserEdit(job[h].req) =>
      \A n \in Managed :
        LET u == job[h].req.user IN
        \/ UserInStep(n, u)
        \/ <<n, u>> \in abandoned
        \/ \E g \in Handlers \ {h} : Edits(g, u) /\ Owes(g, n)

\* When a failed edit is reported as rolled back, nothing of it is left but the
\* note it carried, which restoreUser forgets (README: "if any push fails, the
\* database change is rolled back"): the rest of the row and the assignments
\* are those the request found, and every managed node serves the user that way.
RolledBackEditLeavesOnlyItsNote ==
  \A h \in Handlers :
    RolledBack(h) /\ job[h].failed = {} /\ IsUserEdit(job[h].req) =>
      LET r == job[h].req  u == r.user IN
      /\ IsAccessEdit(r) \/ row[u] = FoundRow(r, job[h].before)
      /\ access[u] = job[h].beforeNodes
      /\ \A n \in Managed : UserInStep(n, u) \/ <<n, u>> \in abandoned

\* HandleRealityTarget reverts a failed change "rather than leaving the two
\* disagreeing": when it answers, the node runs what the database says.
RevertedTargetAgrees ==
  [][\A h \in Handlers :
       RevertTarget(h) => \A i \in Inbounds, n \in Managed :
                            Edits(h, i) => InboundInStep(n, i)']_vars

\* Every request is answered, whatever fails and however the requests contend
\* for the push locks, unless a node it has to push itself hangs for ever in
\* somebody's push: handlers never wait for one another in a circle, and a node
\* that hangs holds up nobody who does not push it.
EveryRequestIsAnswered ==
  \A h \in Handlers :
    \/ job[h].pc # "idle" ~> job[h].pc = "idle"
    \/ \E g \in Handlers, n \in Nodes :
         <>[](Pushing(g, n) /\ n \in job[h].targets)

=============================================================================
