--------------------------- MODULE ConfigSyncProofs ---------------------------
(***************************************************************************)
(* What holds of ConfigSync for every number of users, nodes, inbounds and *)
(* handlers, every set of requests and every combination of faults.        *)
(***************************************************************************)
EXTENDS ConfigSync, TLAPS

Generating == {"locked", "allowed", "listed", "generated"}

(***************************************************************************)
(* What a handler holds at each point of its way, beyond the types.        *)
(***************************************************************************)
JobOK(j) ==
  /\ j.pc # "idle" => j.req \in Requests
  /\ j.pc = "idle" => j.req = NoRequest
  /\ j.pc \in {"loaded", "reread"} => IsUserEdit(j.req)
  /\ j.pc = "undo" => j.req.kind = "delete"
  /\ IsUserEdit(j.req) /\ ~IsAccessEdit(j.req) => j.before \in UserRow
  /\ j.pc \in Generating => j.node \in j.todo
  /\ j.pc \notin Generating => j.node = None

TypeInv ==
  /\ TypeOK
  /\ \A h \in Handlers : JobOK(job[h])

-----------------------------------------------------------------------------
(***************************************************************************)
(* Requests.                                                               *)
(***************************************************************************)

\* The fields a request of each kind carries, by name of the predicates the
\* handlers are written with.
LEMMA RequestFields ==
  ASSUME NEW r \in Requests
  PROVE  /\ IsUserEdit(r) => r.user \in Users
         /\ IsUpdate(r) => /\ r.name \in Names \cup {Keep}
                           /\ r.enabled \in (0..1) \cup {Keep}
                           /\ r.limit \in Limits \cup {Keep}
                           /\ r.note \in Notes \cup {Keep}
         /\ IsAccessEdit(r) \/ r.kind \in {"updateWithAccess", "push"} =>
              r.nodes \in SUBSET Nodes
         /\ IsInboundEdit(r) => r.inbound \in Inbounds
         /\ r.kind \in {"createInbound", "retarget"} => r.setting \in Settings
         /\ IsUserEdit(r) \/ IsInboundEdit(r) \/ r.kind = "push"
  BY RequestsAssumption DEF UserKinds, InboundKinds, IsUserEdit, IsUpdate,
       IsAccessEdit, IsInboundEdit

\* Keep is no value of any field, so Given yields a value of the column.
LEMMA UpdatedRow ==
  ASSUME NEW r \in Requests, IsUpdate(r), NEW old \in UserRow
  PROVE  ApplyUserUpdate(r, old) \in UserRow
  BY RequestFields DEF ApplyUserUpdate, Given, UserRow

LEMMA RowAfterType ==
  ASSUME TypeOK, NEW r \in Requests, IsUserEdit(r)
  PROVE  RowAfter(r) \in UserRow
<1>1. r.user \in Users /\ row[r.user] \in UserRow
  BY RequestFields DEF TypeOK
<1>2. CASE IsUpdate(r)
  <2>1. r.kind # "delete" /\ r.kind # "reset"
    BY <1>2 DEF IsUpdate
  <2>2. RowAfter(r) = ApplyUserUpdate(r, row[r.user])
    BY <1>2, <2>1 DEF RowAfter
  <2> QED
    BY <1>1, <1>2, <2>2, UpdatedRow
<1>3. CASE ~IsUpdate(r)
  BY <1>1, <1>3 DEF RowAfter, IsUpdate, UserRow
<1> QED
  BY <1>2, <1>3

LEMMA AccessAfterType ==
  ASSUME TypeOK, NEW r \in Requests, IsUserEdit(r)
  PROVE  AccessAfter(r) \in SUBSET Nodes
  BY RequestFields DEF TypeOK, AccessAfter, IsAccessEdit

LEMMA TargetsType ==
  ASSUME NEW r \in Requests, NEW before \in SUBSET Nodes,
         NEW after \in SUBSET Nodes, NEW old, NEW new
  PROVE  TargetsOf(r, before, after, old, new) \in SUBSET Nodes
<1>1. IsInboundEdit(r) => InboundNode[r.inbound] \in Nodes
  BY RequestFields, ConstantsAssumption
<1>2. r.kind \in {"updateWithAccess", "push"} \/ IsAccessEdit(r)
        => r.nodes \in SUBSET Nodes
  BY RequestFields
<1>3. r.kind \in UserKinds \cup InboundKinds \cup {"push"}
  BY RequestsAssumption
<1> QED
  BY <1>1, <1>2, <1>3 DEF TargetsOf, UnionIDs, ChangedIDs, IsAccessEdit,
       IsInboundEdit, UserKinds, InboundKinds

-----------------------------------------------------------------------------
(***************************************************************************)
(* Type correctness.  Most steps change one handler and little else.       *)
(***************************************************************************)

TablesOK ==
  /\ life \in [Users -> {"new", "live", "gone"}]
  /\ row \in [Users -> UserRow]
  /\ access \in [Users -> SUBSET Nodes]
  /\ inbound \in [Inbounds -> Settings \cup {None}]
  /\ minted \in SUBSET Inbounds

NodesOK ==
  /\ served \in [Nodes -> [Users -> Names \cup {None}]]
  /\ listening \in [Nodes -> [Inbounds -> Settings \cup {None}]]

GhostOK == abandoned \in SUBSET (Nodes \X (Users \cup Inbounds))

LEMMA IdleOK == Idle \in Job /\ JobOK(Idle)
  BY DEF Idle, Job, JobOK, Pcs, NoRequest, NoRow, IsUserEdit, UserKinds,
       Generating

\* A step of one handler keeps the types when the handler's new locals are
\* sound and what else it changes is well typed.
LEMMA OneHandlerMoves ==
  ASSUME TypeInv, NEW h \in Handlers, NEW j,
         job' = [job EXCEPT ![h] = j], j \in Job, JobOK(j),
         TablesOK', NodesOK', GhostOK',
         lock' \in [Nodes -> Handlers \cup {None}]
  PROVE  TypeInv'
<1>1. job' \in [Handlers -> Job]
  BY DEF TypeInv, TypeOK
<1>2. \A g \in Handlers : JobOK(job[g])'
  <2> TAKE g \in Handlers
  <2>1. CASE g = h
    BY <2>1 DEF TypeInv, TypeOK, JobOK
  <2>2. CASE g # h
    BY <2>2 DEF TypeInv, TypeOK, JobOK
  <2> QED BY <2>1, <2>2
<1> QED
  BY <1>1, <1>2 DEF TypeInv, TypeOK, TablesOK, NodesOK, GhostOK

LEMMA TypeInvParts ==
  ASSUME TypeInv
  PROVE  /\ TypeOK /\ TablesOK /\ NodesOK /\ GhostOK
         /\ lock \in [Nodes -> Handlers \cup {None}]
         /\ \A h \in Handlers : job[h] \in Job /\ JobOK(job[h])
  BY DEF TypeInv, TypeOK, TablesOK, NodesOK, GhostOK

LEMMA WantTypes ==
  ASSUME TypeOK, NEW n \in Nodes
  PROVE  /\ UsersForNode(n) \in SUBSET Users
         /\ ListEnabled \in [Users -> Names \cup {None}]
         /\ ListInbounds(n) \in [Inbounds -> Settings \cup {None}]
  BY DEF TypeOK, UserRow, UsersForNode, ListEnabled, ListInbounds

LEMMA GeneratedType ==
  ASSUME NEW ids, NEW names \in [Users -> Names \cup {None}]
  PROVE  GeneratedUsers(ids, names) \in [Users -> Names \cup {None}]
  BY DEF GeneratedUsers

LEMMA InitTypeInv == Init => TypeInv
<1> SUFFICES ASSUME Init PROVE TypeInv
  OBVIOUS
<1>1. TablesOK
  <2>1. row \in [Users -> UserRow]
    BY ConstantsAssumption DEF Init, UserRow
  <2>2. minted \in SUBSET Inbounds
    BY DEF Init
  <2> QED
    BY <2>1, <2>2 DEF Init, TablesOK
<1>2. served \in [Nodes -> [Users -> Names \cup {None}]]
  <2>1. ListEnabled \in [Users -> Names \cup {None}]
    BY <1>1 DEF TablesOK, ListEnabled, UserRow
  <2> QED
    BY <2>1, GeneratedType DEF Init, WantUsers
<1>3. listening \in [Nodes -> [Inbounds -> Settings \cup {None}]]
  BY <1>1 DEF Init, TablesOK, WantInbounds, ListInbounds
<1>4. \A h \in Handlers : job[h] \in Job /\ JobOK(job[h])
  BY IdleOK DEF Init
<1> QED
  BY <1>1, <1>2, <1>3, <1>4 DEF Init, TypeInv, TypeOK, TablesOK

\* What the steps of a request may rely on.
LEMMA ActiveJob ==
  ASSUME TypeInv, NEW h \in Handlers, job[h].pc # "idle"
  PROVE  job[h].req \in Requests
  BY TypeInvParts DEF JobOK

LEMMA CreateUserTypes ==
  ASSUME TypeInv, NEW u \in Users, CreateUser(u)
  PROVE  TypeInv'
<1>1. row' \in [Users -> UserRow] /\ life' \in [Users -> {"new", "live", "gone"}]
  BY ConstantsAssumption DEF TypeInv, TypeOK, CreateUser, UserRow
<1> QED
  BY <1>1 DEF TypeInv, TypeOK, CreateUser, nodes

LEMMA BeginTypes ==
  ASSUME TypeInv, NEW h \in Handlers, NEW r \in Requests, Begin(h, r)
  PROVE  TypeInv'
<1>1. TablesOK' /\ NodesOK' /\ GhostOK' /\ lock' \in [Nodes -> Handlers \cup {None}]
  BY TypeInvParts DEF Begin, database, nodes, TablesOK, NodesOK, GhostOK
<1>2. CASE IsUserEdit(r) /\ ~IsAccessEdit(r) /\ job' = [job EXCEPT ![h] =
             [Idle EXCEPT !.pc = "loaded", !.req = r, !.before = row[r.user]]]
  <2> DEFINE j == [Idle EXCEPT !.pc = "loaded", !.req = r, !.before = row[r.user]]
  <2>1. row[r.user] \in UserRow
    BY <1>2, RequestFields, TypeInvParts DEF TablesOK
  <2>2. j \in Job /\ JobOK(j)
    BY <1>2, <2>1, IdleOK DEF Job, JobOK, Idle, Pcs, Generating
  <2> QED
    BY <1>1, <1>2, <2>2, OneHandlerMoves
<1>3. CASE IsAccessEdit(r) /\ job' = [job EXCEPT ![h] =
             [Idle EXCEPT !.pc = "ready", !.req = r, !.beforeNodes = access[r.user]]]
  <2> DEFINE j == [Idle EXCEPT !.pc = "ready", !.req = r,
                               !.beforeNodes = access[r.user]]
  <2>1. access[r.user] \in SUBSET Nodes
    <3>1. IsUserEdit(r)
      BY <1>3 DEF IsAccessEdit, IsUserEdit, UserKinds
    <3> QED
      BY <3>1, RequestFields, TypeInvParts DEF TablesOK
  <2>2. j \in Job /\ JobOK(j)
    BY <1>3, <2>1, IdleOK DEF Job, JobOK, Idle, Pcs, Generating
  <2> QED
    BY <1>1, <1>3, <2>2, OneHandlerMoves
<1>4. CASE IsInboundEdit(r) /\ job' = [job EXCEPT ![h] =
             [Idle EXCEPT !.pc = "ready", !.req = r, !.inboundWas = inbound[r.inbound]]]
  <2> DEFINE j == [Idle EXCEPT !.pc = "ready", !.req = r,
                               !.inboundWas = inbound[r.inbound]]
  <2>1. inbound[r.inbound] \in Settings \cup {None} /\ ~IsUserEdit(r)
    BY <1>4, RequestFields, TypeInvParts
    DEF TablesOK, IsUserEdit, IsInboundEdit, UserKinds, InboundKinds
  <2>2. j \in Job /\ JobOK(j)
    BY <2>1, IdleOK DEF Job, JobOK, Idle, Pcs, Generating
  <2> QED
    BY <1>1, <1>4, <2>2, OneHandlerMoves
<1>5. CASE r.kind = "push" /\ job' = [job EXCEPT ![h] =
             [Idle EXCEPT !.pc = "sync", !.req = r, !.targets = r.nodes,
                          !.todo = r.nodes]]
  <2> DEFINE j == [Idle EXCEPT !.pc = "sync", !.req = r, !.targets = r.nodes,
                               !.todo = r.nodes]
  <2>1. r.nodes \in SUBSET Nodes /\ ~IsUserEdit(r)
    BY <1>5, RequestFields DEF IsUserEdit, UserKinds
  <2>2. j \in Job /\ JobOK(j)
    BY <2>1, IdleOK DEF Job, JobOK, Idle, Pcs, Generating
  <2> QED
    BY <1>1, <1>5, <2>2, OneHandlerMoves
<1> QED
  BY <1>2, <1>3, <1>4, <1>5 DEF Begin

\* A handler's new locals: the fields the steps assign, all typed, and the
\* request kept.
LEMMA ReadAssignmentsTypes ==
  ASSUME TypeInv, NEW h \in Handlers, ReadAssignments(h)
  PROVE  TypeInv'
<1> DEFINE j == [job[h] EXCEPT !.pc = "ready",
                               !.beforeNodes = access[job[h].req.user]]
<1>1. job[h].req \in Requests /\ IsUserEdit(job[h].req)
  BY ActiveJob, TypeInvParts DEF ReadAssignments, JobOK
<1>2. access[job[h].req.user] \in SUBSET Nodes
  BY <1>1, RequestFields, TypeInvParts DEF TablesOK
<1>. job[h] \in Job /\ JobOK(job[h]) /\ job[h].pc = "loaded"
  BY TypeInvParts DEF ReadAssignments
<1>3. j \in Job /\ JobOK(j)
  BY <1>1, <1>2 DEF Job, JobOK, Pcs, Generating
<1>4. TablesOK' /\ NodesOK' /\ GhostOK' /\ lock' \in [Nodes -> Handlers \cup {None}]
  BY TypeInvParts DEF ReadAssignments, database, nodes, TablesOK, NodesOK, GhostOK
<1>5. job' = [job EXCEPT ![h] = j]
  BY DEF ReadAssignments
<1> QED
  BY <1>3, <1>4, <1>5, OneHandlerMoves

LEMMA CommitTypes ==
  ASSUME TypeInv, NEW h \in Handlers, Commit(h)
  PROVE  TypeInv'
<1> DEFINE r == job[h].req
           j == [job[h] EXCEPT !.pc = IF IsAccessEdit(r) THEN "reread"
                                                         ELSE "committed"]
<1>1. r \in Requests /\ Accepted(r) /\ job[h].pc = "ready"
  BY ActiveJob DEF Commit
<1>2. j \in Job /\ JobOK(j)
  BY <1>1, TypeInvParts
  DEF Job, JobOK, Pcs, Generating, IsAccessEdit, IsUserEdit, UserKinds
<1>3. TablesOK'
  <2>1. CASE IsUserEdit(r)
    <3>1. RowAfter(r) \in UserRow /\ AccessAfter(r) \in SUBSET Nodes
      BY <1>1, <2>1, RowAfterType, AccessAfterType, TypeInvParts
    <3> QED
      BY <2>1, <3>1, TypeInvParts DEF Commit, TablesOK
  <2>2. CASE ~IsUserEdit(r)
    <3>1. IsInboundEdit(r)
      BY <1>1, <2>2 DEF Accepted, IsInboundEdit, InboundKinds, IsUserEdit,
           UserKinds
    <3>2. r.inbound \in Inbounds /\ InboundAfter(r) \in Settings \cup {None}
      BY <1>1, <3>1, RequestFields
      DEF InboundAfter, IsInboundEdit, InboundKinds
    <3> QED
      BY <2>2, <3>2, TypeInvParts DEF Commit, TablesOK
  <2> QED
    BY <2>1, <2>2
<1>4. NodesOK' /\ GhostOK' /\ lock' \in [Nodes -> Handlers \cup {None}]
  BY TypeInvParts DEF Commit, nodes, NodesOK, GhostOK
<1>5. job' = [job EXCEPT ![h] = j]
  BY DEF Commit
<1> QED
  BY <1>2, <1>3, <1>4, <1>5, OneHandlerMoves

LEMMA ReturnTypes ==
  ASSUME TypeInv, NEW h \in Handlers, Return(h), TablesOK', NodesOK', GhostOK',
         UNCHANGED lock
  PROVE  TypeInv'
<1>1. lock' \in [Nodes -> Handlers \cup {None}]
  BY TypeInvParts
<1> QED
  BY <1>1, IdleOK, OneHandlerMoves DEF Return

LEMMA RefuseTypes ==
  ASSUME TypeInv, NEW h \in Handlers, Refuse(h)
  PROVE  TypeInv'
  BY ReturnTypes, TypeInvParts
  DEF Refuse, database, nodes, TablesOK, NodesOK, GhostOK

\* The targets computed from two assignments that were read.
LEMMA AimedTargets ==
  ASSUME TypeInv, NEW h \in Handlers, job[h].pc # "idle",
         NEW after \in SUBSET Nodes, NEW old, NEW new
  PROVE  TargetsOf(job[h].req, job[h].beforeNodes, after, old, new)
           \in SUBSET Nodes
<1>1. job[h].req \in Requests /\ job[h].beforeNodes \in SUBSET Nodes
  BY ActiveJob, TypeInvParts DEF Job
<1> QED
  BY <1>1, TargetsType

LEMMA ReloadTypes ==
  ASSUME TypeInv, NEW h \in Handlers, Reload(h)
  PROVE  TypeInv'
<1> DEFINE r == job[h].req
           targets == TargetsOf(r, job[h].beforeNodes, {}, NoRow, NoRow)
<1>1. targets \in SUBSET Nodes
  BY AimedTargets DEF Reload
<1>2. TablesOK' /\ NodesOK' /\ GhostOK' /\ lock' \in [Nodes -> Handlers \cup {None}]
  BY TypeInvParts DEF Reload, database, nodes, TablesOK, NodesOK, GhostOK
<1>3. CASE IsUpdate(r)
  <2> DEFINE j == [job[h] EXCEPT !.pc = "reread", !.user = row[r.user]]
  <2>1. r \in Requests /\ IsUserEdit(r)
    BY <1>3, ActiveJob DEF Reload, IsUpdate, IsUserEdit, UserKinds
  <2>2. row[r.user] \in UserRow
    BY <2>1, RequestFields, TypeInvParts DEF TablesOK
  <2>. job[h] \in Job /\ JobOK(job[h]) /\ job[h].pc = "committed"
    BY TypeInvParts DEF Reload
  <2>3. j \in Job /\ JobOK(j)
    BY <2>1, <2>2 DEF Job, JobOK, Pcs, Generating
  <2>4. job' = [job EXCEPT ![h] = j]
    BY <1>3 DEF Reload
  <2> QED
    BY <1>2, <2>3, <2>4, OneHandlerMoves
<1>4. CASE ~IsUpdate(r)
  <2> HIDE DEF targets
  <2> DEFINE j == [job[h] EXCEPT !.pc = "sync", !.targets = targets,
                                 !.todo = targets]
  <2>. job[h] \in Job /\ JobOK(job[h]) /\ job[h].pc = "committed"
    BY TypeInvParts DEF Reload
  <2>1. j \in Job /\ JobOK(j)
    BY <1>1 DEF Job, JobOK, Pcs, Generating
  <2>2. job' = [job EXCEPT ![h] = j]
    BY <1>4 DEF Reload, targets
  <2> QED
    BY <1>2, <2>1, <2>2, OneHandlerMoves
<1> QED
  BY <1>3, <1>4

LEMMA AimTypes ==
  ASSUME TypeInv, NEW h \in Handlers, Aim(h)
  PROVE  TypeInv'
<1> DEFINE r == job[h].req
           targets == TargetsOf(r, job[h].beforeNodes, access[r.user],
                                job[h].before, job[h].user)
           j == [job[h] EXCEPT !.pc = "sync", !.targets = targets,
                               !.todo = targets]
<1>1. targets \in SUBSET Nodes
  <2>1. r \in Requests /\ IsUserEdit(r)
    BY ActiveJob, TypeInvParts DEF Aim, JobOK
  <2>2. access[r.user] \in SUBSET Nodes
    BY <2>1, RequestFields, TypeInvParts DEF TablesOK
  <2> QED
    BY <2>1, <2>2, AimedTargets DEF Aim
<1> HIDE DEF targets
<1>. job[h] \in Job /\ JobOK(job[h]) /\ job[h].pc = "reread"
  BY TypeInvParts DEF Aim
<1>2. j \in Job /\ JobOK(j)
  BY <1>1 DEF Job, JobOK, Pcs, Generating
<1>3. TablesOK' /\ NodesOK' /\ GhostOK' /\ lock' \in [Nodes -> Handlers \cup {None}]
  BY TypeInvParts DEF Aim, database, nodes, TablesOK, NodesOK, GhostOK
<1>4. job' = [job EXCEPT ![h] = j]
  BY DEF Aim, targets
<1> QED
  BY <1>2, <1>3, <1>4, OneHandlerMoves

LEMMA TakeLockTypes ==
  ASSUME TypeInv, NEW h \in Handlers, NEW n \in Nodes, TakeLock(h, n)
  PROVE  TypeInv'
<1> DEFINE j == [job[h] EXCEPT !.pc = "locked", !.node = n]
<1>. job[h] \in Job /\ JobOK(job[h]) /\ job[h].pc = "sync" /\ n \in job[h].todo
  BY TypeInvParts DEF TakeLock
<1>1. j \in Job /\ JobOK(j)
  BY ZenonT(30) DEF Job, JobOK, Pcs, Generating
<1>2. TablesOK' /\ NodesOK' /\ GhostOK' /\ lock' \in [Nodes -> Handlers \cup {None}]
  BY TypeInvParts DEF TakeLock, database, nodes, TablesOK, NodesOK, GhostOK
<1>3. job' = [job EXCEPT ![h] = j]
  BY DEF TakeLock
<1> QED
  BY <1>1, <1>2, <1>3, OneHandlerMoves

LEMMA QueryTypes ==
  ASSUME TypeInv, NEW h \in Handlers, NEW n \in Nodes,
         QueryAllowed(h, n) \/ QueryUsers(h, n) \/ QueryInbounds(h, n)
  PROVE  TypeInv'
<1>1. TablesOK' /\ NodesOK' /\ GhostOK' /\ lock' \in [Nodes -> Handlers \cup {None}]
  BY TypeInvParts DEF QueryAllowed, QueryUsers, QueryInbounds, database, nodes,
       TablesOK, NodesOK, GhostOK
<1>2. job[h] \in Job /\ JobOK(job[h])
  BY TypeInvParts
<1>3. CASE QueryAllowed(h, n)
  <2> DEFINE j == [job[h] EXCEPT !.pc = "allowed", !.ids = UsersForNode(n)]
  <2>1. j \in Job /\ JobOK(j)
    BY <1>2, <1>3, TypeInvParts, WantTypes
    DEF QueryAllowed, Job, JobOK, Pcs, Generating
  <2> QED
    BY <1>1, <1>3, <2>1, OneHandlerMoves DEF QueryAllowed
<1>4. CASE QueryUsers(h, n)
  <2> DEFINE j == [job[h] EXCEPT !.pc = "listed", !.names = ListEnabled]
  <2>1. j \in Job /\ JobOK(j)
    BY ZenonT(30), <1>2, <1>4, TypeInvParts, WantTypes
    DEF QueryUsers, Job, JobOK, Pcs, Generating
  <2> QED
    BY <1>1, <1>4, <2>1, OneHandlerMoves DEF QueryUsers
<1>5. CASE QueryInbounds(h, n)
  <2> DEFINE j == [job[h] EXCEPT !.pc = "generated", !.settings = ListInbounds(n)]
  <2>1. j \in Job /\ JobOK(j)
    BY <1>2, <1>5, TypeInvParts, WantTypes
    DEF QueryInbounds, Job, JobOK, Pcs, Generating
  <2>2. job' = [job EXCEPT ![h] = j]
    BY <1>5 DEF QueryInbounds
  <2> HIDE DEF j
  <2> QED
    BY <1>1, <2>1, <2>2, OneHandlerMoves
<1> QED
  BY <1>3, <1>4, <1>5

\* Leaving a node, successfully or not.
LEMMA LeaveNodeTypes ==
  ASSUME TypeInv, NEW h \in Handlers, NEW n \in Nodes, NEW ok \in BOOLEAN,
         job[h].pc \in Generating, LeaveNode(h, n, ok),
         TablesOK', NodesOK', GhostOK'
  PROVE  TypeInv'
<1> DEFINE failed == IF ok THEN job[h].failed ELSE job[h].failed \cup {n}
           j == [job[h] EXCEPT !.pc = "sync", !.node = None,
                   !.todo = @ \ {n}, !.failed = failed, !.ids = {},
                   !.names = Idle.names, !.settings = Idle.settings]
<1>. job[h] \in Job /\ JobOK(job[h])
  BY TypeInvParts
<1>1. failed \in SUBSET Nodes
  BY DEF Job
<1>2. job' = [job EXCEPT ![h] = j]
  BY DEF LeaveNode
<1> HIDE DEF failed
<1>3. j \in Job /\ JobOK(j)
  BY ZenonT(30), <1>1 DEF Job, JobOK, Pcs, Generating, Idle
<1>4. lock' \in [Nodes -> Handlers \cup {None}]
  BY TypeInvParts DEF LeaveNode
<1> QED
  BY <1>2, <1>3, <1>4, OneHandlerMoves

LEMMA PushTypes ==
  ASSUME TypeInv, NEW h \in Handlers, NEW n \in Nodes,
         \/ Push(h, n) \/ PushFails(h, n) \/ PushAnswerLost(h, n)
         \/ SkipNode(h, n)
  PROVE  TypeInv'
<1>1. job[h].pc \in Generating /\ TablesOK'
  BY TypeInvParts DEF Push, PushFails, PushAnswerLost, SkipNode, Generating,
       TablesOK, database
<1>2. NodesOK'
  <2>1. GeneratedUsers(job[h].ids, job[h].names) \in [Users -> Names \cup {None}]
    BY TypeInvParts, GeneratedType DEF Job
  <2>2. job[h].settings \in [Inbounds -> Settings \cup {None}]
    BY TypeInvParts DEF Job
  <2>3. CASE Push(h, n) \/ PushAnswerLost(h, n)
    <3>1. /\ served' = [served EXCEPT ![n] =
                           GeneratedUsers(job[h].ids, job[h].names)]
          /\ listening' = [listening EXCEPT ![n] = job[h].settings]
      BY <2>3 DEF Push, PushAnswerLost
    <3> QED
      BY <2>1, <2>2, <3>1, TypeInvParts DEF NodesOK
  <2>4. CASE PushFails(h, n) \/ SkipNode(h, n)
    BY <2>4, TypeInvParts DEF PushFails, SkipNode, NodesOK, nodes
  <2> QED
    BY <2>3, <2>4
<1>3. GhostOK'
  BY TypeInvParts
  DEF Push, PushFails, PushAnswerLost, SkipNode, GhostOK, GivenUp
<1> QED
  BY <1>1, <1>2, <1>3, LeaveNodeTypes
  DEF Push, PushFails, PushAnswerLost, SkipNode

LEMMA RestoreTypes ==
  ASSUME TypeInv, NEW h \in Handlers, job[h].pc # "idle", RestoreRows(h)
  PROVE  TablesOK'
<1> DEFINE r == job[h].req
<1>1. r \in Requests /\ job[h] \in Job /\ JobOK(job[h])
  BY ActiveJob, TypeInvParts
<1>2. CASE IsUserEdit(r)
  <2>1. r.user \in Users
    BY <1>1, <1>2, RequestFields
  <2>2. row[r.user] \in UserRow /\ access[r.user] \in SUBSET Nodes
    BY <2>1, TypeInvParts DEF TablesOK
  <2>3. RestoredAccess(h) \in SUBSET Nodes
    BY <1>1, <2>2 DEF RestoredAccess, Job
  <2>4. RestoredRow(h) \in UserRow
    <3>1. CASE IsAccessEdit(r)
      BY <2>2, <3>1 DEF RestoredRow, IsAccessEdit, IsUpdate
    <3>2. CASE ~IsAccessEdit(r)
      <4>1. job[h].before \in UserRow
        BY <1>1, <1>2, <3>2 DEF JobOK
      <4> QED
        BY <2>2, <4>1 DEF RestoredRow, IsUpdate, UserRow
    <3> QED
      BY <3>1, <3>2
  <2> QED
    BY <1>2, <2>3, <2>4, TypeInvParts DEF RestoreRows, TablesOK
<1>3. CASE ~IsUserEdit(r)
  <2>1. IsInboundEdit(r)
    BY <1>3 DEF RestoreRows, CanRestore, IsInboundEdit, InboundKinds,
         IsUserEdit, UserKinds
  <2>2. RestoredInbound(h) \in Settings \cup {None}
    BY <1>1 DEF RestoredInbound, Job
  <2> QED
    BY <1>3, <2>2, TypeInvParts DEF RestoreRows, TablesOK
<1> QED
  BY <1>2, <1>3

LEMMA DeletionTypes ==
  ASSUME TypeInv, NEW h \in Handlers, DeleteRows(h) \/ DeleteRowsFails(h)
  PROVE  TypeInv'
<1>1. NodesOK' /\ GhostOK' /\ TablesOK'
  BY TypeInvParts DEF DeleteRows, DeleteRowsFails, database, nodes, TablesOK,
       NodesOK, GhostOK
<1>2. CASE DeleteRows(h)
  BY <1>1, <1>2, ReturnTypes DEF DeleteRows
<1>3. CASE DeleteRowsFails(h)
  <2> DEFINE j == [job[h] EXCEPT !.pc = "undo"]
  <2>1. j \in Job /\ JobOK(j)
    BY <1>3, TypeInvParts
    DEF DeleteRowsFails, Succeeded, SyncDone, Job, JobOK, Pcs, Generating
  <2>2. lock' \in [Nodes -> Handlers \cup {None}]
    BY <1>3, TypeInvParts DEF DeleteRowsFails
  <2> QED
    BY <1>1, <1>3, <2>1, <2>2, OneHandlerMoves DEF DeleteRowsFails
<1> QED
  BY <1>2, <1>3

LEMMA UndoTypes ==
  ASSUME TypeInv, NEW h \in Handlers, Undo(h)
  PROVE  TypeInv'
<1>1. job[h].pc \in {"undo", "sync"}
  BY DEF Undo, MustUndo, SyncDone
<1>2. TablesOK' /\ NodesOK' /\ GhostOK' /\ lock' \in [Nodes -> Handlers \cup {None}]
  BY <1>1, RestoreTypes, TypeInvParts DEF Undo, nodes, NodesOK, GhostOK
<1> DEFINE j == [job[h] EXCEPT !.pc = "sync", !.phase = "restore",
                               !.todo = job[h].targets, !.failed = {}]
<1>. job[h] \in Job /\ JobOK(job[h])
  BY TypeInvParts
<1>3. j \in Job /\ JobOK(j)
  BY <1>1 DEF Job, JobOK, Pcs, Generating
<1>4. job' = [job EXCEPT ![h] = j]
  BY DEF Undo
<1> QED
  BY <1>2, <1>3, <1>4, OneHandlerMoves

\* The ways a handler leaves the scene without its last push.
LEMMA StopShortTypes ==
  ASSUME TypeInv, NEW h \in Handlers,
         RevertTarget(h) \/ UndoFails(h) \/ ForgetEdit(h) \/ RevertUnpushed(h)
  PROVE  TypeInv'
<1>1. job[h].pc # "idle"
  BY DEF RevertTarget, UndoFails, ForgetEdit, RevertUnpushed, MustUndo, SyncDone
<1>2. TablesOK'
  BY <1>1, RestoreTypes, TypeInvParts
  DEF RevertTarget, UndoFails, ForgetEdit, RevertUnpushed, database, TablesOK
<1>3. NodesOK'
  BY TypeInvParts
  DEF RevertTarget, UndoFails, ForgetEdit, RevertUnpushed, nodes, NodesOK
<1>4. LeftBehind(h) \in SUBSET (Nodes \X (Users \cup Inbounds))
  BY TypeInvParts DEF LeftBehind, Job
<1>5. GhostOK'
  BY <1>4, TypeInvParts
  DEF RevertTarget, UndoFails, ForgetEdit, RevertUnpushed, DebtsOf, GhostOK
<1> QED
  BY <1>2, <1>3, <1>5, ReturnTypes
  DEF RevertTarget, UndoFails, ForgetEdit, RevertUnpushed

LEMMA CrashTypes ==
  ASSUME TypeInv, Crash
  PROVE  TypeInv'
<1>1. \A h \in Handlers : JobOK(job[h])'
  BY IdleOK DEF Crash, JobOK
<1>2. TypeOK'
  BY IdleOK DEF TypeInv, TypeOK, Crash, DebtsOf, database, nodes
<1> QED
  BY <1>1, <1>2 DEF TypeInv

LEMMA AnswerTypes ==
  ASSUME TypeInv, NEW h \in Handlers, Answer(h)
  PROVE  TypeInv'
  BY ReturnTypes, TypeInvParts
  DEF Answer, database, nodes, TablesOK, NodesOK, GhostOK

LEMMA NextTypeInv ==
  ASSUME TypeInv, [Next]_vars
  PROVE  TypeInv'
<1>1. CASE UNCHANGED vars
  BY <1>1 DEF vars, database, nodes, TypeInv, TypeOK, JobOK
<1>2. CASE Next
  BY <1>2, CreateUserTypes, BeginTypes, ReadAssignmentsTypes, CommitTypes,
     RefuseTypes, ReloadTypes, AimTypes, TakeLockTypes, QueryTypes, PushTypes,
     AnswerTypes, DeletionTypes, UndoTypes, StopShortTypes, CrashTypes
  DEF Next, Step, SyncNode
<1> QED
  BY <1>1, <1>2

\* Type correctness: whatever the interleaving and the faults, the tables hold
\* rows of the declared shape, the nodes serve known users, and every handler's
\* locals are well typed.
THEOREM TypeCorrect == Spec => []TypeOK
<1>1. Init => TypeInv
  BY InitTypeInv
<1>2. TypeInv /\ [Next]_vars => TypeInv'
  BY NextTypeInv
<1>3. TypeInv => TypeOK
  BY DEF TypeInv
<1> QED
  BY <1>1, <1>2, <1>3, PTL DEF Spec

-----------------------------------------------------------------------------
(***************************************************************************)
(* The proof of InboundsFollowDatabase.  Any number of requests may race   *)
(* on one inbound: nothing is assumed of operators here.  What makes it    *)
(* hold is that an inbound concerns one node, which every request for it   *)
(* pushes, after its commit and again after its rollback.                  *)
(***************************************************************************)
\* Whoever is inside syncNode holds the lock of the node.
InboundLocksExclude ==
  \A h \in Handlers : job[h].node # None => lock[job[h].node] = h

EditsInbound(j, i) == IsInboundEdit(j.req) /\ j.req.inbound = i

\* A handler with locals j still has to push node n, for an inbound.
Owing(j, n) ==
  \/ j.pc = "committed" /\ n = InboundNode[j.req.inbound]
  \/ j.pc \in Syncing /\ n \in j.todo
  \/ j.pc \in Syncing /\ j.phase = "apply" /\ n \in j.failed

\* A request for an inbound pushes its node and no other.
OwnNode(j) ==
  IsInboundEdit(j.req) =>
    IF j.pc \in Syncing
      THEN /\ j.targets = {InboundNode[j.req.inbound]}
           /\ j.todo \cup j.failed \subseteq j.targets
      ELSE j.failed = {}

OwnNodes == \A h \in Handlers : OwnNode(job[h])

\* Why node n may be wrong about inbound i: one of hs will still push it, or
\* nobody ever may.
Explained(hs, n, i) ==
  \/ \E h \in hs : EditsInbound(job[h], i) /\ Owing(job[h], n)
  \/ <<n, i>> \in abandoned

\* What a handler is about to push is right, or somebody else will correct it.
InboundsFreshFor(h) ==
  \A n \in Nodes, i \in Inbounds :
    job[h].node = n /\ job[h].pc = "generated" =>
      \/ job[h].settings[i] = ListInbounds(n)[i]
      \/ Explained(Handlers \ {h}, n, i)

InboundsFresh == \A h \in Handlers : InboundsFreshFor(h)

InboundsFollow ==
  \A n \in Nodes, i \in Inbounds : InboundInStep(n, i) \/ Explained(Handlers, n, i)

InboundInv == TypeInv /\ InboundLocksExclude /\ OwnNodes /\ InboundsFresh /\ InboundsFollow

-----------------------------------------------------------------------------
\* Users and inbounds have different ids, so an inbound is edited by requests
\* for inbounds only; and what such a request owes is its inbound's node.
LEMMA InboundDuties ==
  ASSUME TypeInv, NEW h \in Handlers, NEW n \in Nodes, NEW i \in Inbounds
  PROVE  /\ Edits(h, i) <=> EditsInbound(job[h], i)
         /\ EditsInbound(job[h], i) => (Owes(h, n) <=> Owing(job[h], n))
<1>1. JobOK(job[h]) /\ job[h] \in Job
  BY TypeInvParts
<1>2. IsUserEdit(job[h].req) => job[h].req.user \in Users
  BY <1>1, RequestFields DEF JobOK, NoRequest, IsUserEdit, UserKinds
<1>3. Edits(h, i) <=> EditsInbound(job[h], i)
  BY <1>2, ConstantsAssumption DEF Edits, EditsInbound
<1>4. ASSUME EditsInbound(job[h], i)
      PROVE  Owes(h, n) <=> Owing(job[h], n)
  <2>1. ~IsUserEdit(job[h].req) /\ job[h].pc # "reread"
    BY <1>1, <1>4 DEF JobOK, EditsInbound, IsUserEdit, IsInboundEdit, UserKinds,
         InboundKinds
  <2>2. Pending(h, n) <=>
          \/ job[h].pc = "committed" /\ n = InboundNode[job[h].req.inbound]
          \/ job[h].pc \in Syncing /\ n \in job[h].todo
    BY <2>1, Zenon DEF Pending
  <2> QED
    BY <2>2, Zenon DEF Owes, Owing
<1> QED
  BY <1>3, <1>4

LEMMA InboundEditIsNoUserEdit ==
  ASSUME NEW r, IsInboundEdit(r)
  PROVE  /\ ~IsUserEdit(r) /\ ~IsUpdate(r) /\ ~IsAccessEdit(r)
         /\ r.kind # "push" /\ r.kind # "delete" /\ r.kind # "none"
  BY DEF IsInboundEdit, InboundKinds, IsUserEdit, UserKinds, IsUpdate, IsAccessEdit

LEMMA ListedOnOwnNode ==
  ASSUME NEW n \in Nodes, NEW i \in Inbounds
  PROVE  ListInbounds(n)[i] = IF InboundNode[i] = n THEN inbound[i] ELSE None
  BY DEF ListInbounds

-----------------------------------------------------------------------------
(***************************************************************************)
(* A step of handler g that keeps its promises: what it owed it still      *)
(* owes, or has given up; a row it changes it owes; and what a node runs   *)
(* changes only to what the database says or to what others will correct.  *)
(***************************************************************************)
KeepsPromises(g) ==
  \A n \in Nodes, i \in Inbounds :
    EditsInbound(job[g], i) /\ Owing(job[g], n) => Explained({g}, n, i)'

AnswersForRows(g) ==
  \A n \in Nodes, i \in Inbounds :
    ListInbounds(n)[i]' = ListInbounds(n)[i] \/ Explained({g}, n, i)'

NodesRunNothingWorse(g) ==
  \A n \in Nodes, i \in Inbounds :
    \/ listening'[n][i] = listening[n][i]
    \/ listening'[n][i] = ListInbounds(n)[i]
    \/ Explained(Handlers \ {g}, n, i)

LEMMA PromisesStep ==
  ASSUME InboundInv, TypeInv', NEW g \in Handlers,
         \A h \in Handlers \ {g} : job'[h] = job[h],
         abandoned \subseteq abandoned',
         InboundLocksExclude', OwnNode(job[g])', InboundsFreshFor(g)',
         KeepsPromises(g), AnswersForRows(g), NodesRunNothingWorse(g)
  PROVE  InboundInv'
<1>1. ASSUME NEW hs \in SUBSET Handlers, NEW n \in Nodes, NEW i \in Inbounds,
             Explained(hs, n, i)
      PROVE  Explained(hs, n, i)'
  <2>1. CASE <<n, i>> \in abandoned
    BY <2>1 DEF Explained
  <2>2. CASE \E h \in hs : EditsInbound(job[h], i) /\ Owing(job[h], n)
    <3>1. PICK h \in hs : EditsInbound(job[h], i) /\ Owing(job[h], n)
      BY <2>2
    <3>2. CASE h = g
      BY <3>1, <3>2 DEF KeepsPromises, Explained
    <3>3. CASE h # g
      BY <3>1, <3>3 DEF Explained
    <3> QED
      BY <3>2, <3>3
  <2> QED
    BY <1>1, <2>1, <2>2 DEF Explained
<1>2. ASSUME NEW hs \in SUBSET Handlers, g \in hs, NEW n \in Nodes, NEW i \in Inbounds,
             Explained({g}, n, i)'
      PROVE  Explained(hs, n, i)'
  BY <1>2 DEF Explained
<1>3. OwnNodes'
  BY DEF OwnNodes, InboundInv
<1>4. ASSUME NEW h \in Handlers
      PROVE  InboundsFreshFor(h)'
  <2>1. CASE h = g
    BY <2>1
  <2>2. CASE h # g
    <3> SUFFICES ASSUME NEW n \in Nodes, NEW i \in Inbounds,
                        job[h].node = n, job[h].pc = "generated"
                 PROVE  \/ job[h].settings[i] = ListInbounds(n)[i]'
                        \/ Explained(Handlers \ {h}, n, i)'
      BY <2>2 DEF InboundsFreshFor
    <3>1. \/ job[h].settings[i] = ListInbounds(n)[i]
          \/ Explained(Handlers \ {h}, n, i)
      BY DEF InboundInv, InboundsFresh, InboundsFreshFor
    <3>2. \/ ListInbounds(n)[i]' = ListInbounds(n)[i]
          \/ Explained({g}, n, i)'
      BY DEF AnswersForRows
    <3> QED
      BY <1>1, <1>2, <2>2, <3>1, <3>2
  <2> QED
    BY <2>1, <2>2
<1>5. InboundsFollow'
  <2> SUFFICES ASSUME NEW n \in Nodes, NEW i \in Inbounds
               PROVE  InboundInStep(n, i)' \/ Explained(Handlers, n, i)'
    BY DEF InboundsFollow
  <2>1. listening[n][i] = ListInbounds(n)[i] \/ Explained(Handlers, n, i)
    BY DEF InboundInv, InboundsFollow, InboundInStep, WantInbounds
  <2>2. \/ ListInbounds(n)[i]' = ListInbounds(n)[i]
        \/ Explained({g}, n, i)'
    BY DEF AnswersForRows
  <2>3. Explained(Handlers \ {g}, n, i) => Explained(Handlers, n, i)
    BY DEF Explained
  <2>4. \/ listening'[n][i] = listening[n][i]
        \/ listening'[n][i] = ListInbounds(n)[i]
        \/ Explained(Handlers \ {g}, n, i)
    BY DEF NodesRunNothingWorse
  <2>5. listening'[n][i] = ListInbounds(n)[i]' => InboundInStep(n, i)'
    BY DEF InboundInStep, WantInbounds
  <2> QED
    BY <1>1, <1>2, <2>1, <2>2, <2>3, <2>4, <2>5
<1> QED
  BY <1>3, <1>4, <1>5 DEF InboundInv, InboundsFresh

-----------------------------------------------------------------------------
(***************************************************************************)
(* The steps of a request.                                                 *)
(***************************************************************************)

\* Steps that touch neither inbounds nor nodes.
LEMMA InboundQuietStep ==
  ASSUME InboundInv, TypeInv', NEW g \in Handlers,
         \A h \in Handlers \ {g} : job'[h] = job[h],
         abandoned \subseteq abandoned',
         lock' = lock, inbound' = inbound, listening' = listening,
         job'[g].pc # "generated", job'[g].node \in {job[g].node, None},
         OwnNode(job'[g]), KeepsPromises(g)
  PROVE  InboundInv'
<1>1. InboundLocksExclude'
  BY DEF InboundInv, InboundLocksExclude
<1>2. OwnNode(job[g])' /\ InboundsFreshFor(g)'
  BY DEF InboundsFreshFor
<1>3. \A n \in Nodes : ListInbounds(n)' = ListInbounds(n)
  BY DEF ListInbounds
<1>4. AnswersForRows(g) /\ NodesRunNothingWorse(g)
  BY <1>3 DEF AnswersForRows, NodesRunNothingWorse
<1> QED
  BY <1>1, <1>2, <1>4, PromisesStep

\* Nothing this module is about changes.
LEMMA NothingMoves ==
  ASSUME InboundInv, TypeInv', UNCHANGED <<inbound, listening, lock, job, abandoned>>
  PROVE  InboundInv'
BY DEF InboundInv, InboundLocksExclude, OwnNodes, InboundsFresh, InboundsFreshFor, InboundsFollow, InboundInStep,
       WantInbounds, ListInbounds, Explained

\* A handler that is not between its commit and its last push owes nothing.
LEMMA NothingOwed ==
  ASSUME NEW g \in Handlers, TypeInv,
         \/ job[g].pc \in {"idle", "loaded", "ready", "reread", "undo"}
         \/ SyncDone(g) /\ (job[g].phase = "restore" \/ job[g].failed = {})
         \/ ~IsInboundEdit(job[g].req)
  PROVE  KeepsPromises(g)
BY DEF KeepsPromises, Owing, Syncing, SyncDone, EditsInbound

LEMMA InboundBeginStep ==
  ASSUME InboundInv, TypeInv', NEW g \in Handlers, NEW r \in Requests, Begin(g, r)
  PROVE  InboundInv'
<1>1. job[g].pc = "idle" /\ job \in [Handlers -> Job] /\ TypeInv
  BY DEF Begin, InboundInv, TypeInv, TypeOK
<1>2. /\ \A h \in Handlers \ {g} : job'[h] = job[h]
      /\ job'[g].req = r /\ job'[g].pc \in {"loaded", "ready", "sync"}
      /\ job'[g].node = None /\ job'[g].failed = {}
      /\ job'[g].pc = "sync" => r.kind = "push"
  <2>1. PICK j : /\ job' = [job EXCEPT ![g] = j]
                 /\ \/ j = [Idle EXCEPT !.pc = "loaded", !.req = r,
                                         !.before = row[r.user]]
                    \/ j = [Idle EXCEPT !.pc = "ready", !.req = r,
                                         !.beforeNodes = access[r.user]]
                    \/ j = [Idle EXCEPT !.pc = "ready", !.req = r,
                                         !.inboundWas = inbound[r.inbound]]
                    \/ /\ r.kind = "push"
                       /\ j = [Idle EXCEPT !.pc = "sync", !.req = r,
                                         !.targets = r.nodes, !.todo = r.nodes]
    BY Zenon DEF Begin
  <2>2. /\ j.req = r /\ j.pc \in {"loaded", "ready", "sync"} /\ j.node = None
        /\ j.failed = {}
        /\ j.pc = "sync" => r.kind = "push"
    BY <2>1 DEF Idle
  <2> QED
    BY <1>1, <2>1, <2>2
<1>3. UNCHANGED <<inbound, listening, lock, abandoned>>
  BY DEF Begin, database, nodes
<1>4. OwnNode(job'[g])
  BY <1>2, InboundEditIsNoUserEdit DEF OwnNode, Syncing
<1>5. KeepsPromises(g)
  BY <1>1, NothingOwed
<1> QED
  BY <1>2, <1>3, <1>4, <1>5, InboundQuietStep

\* The steps before the commit, and the ends of a request.
LEMMA InboundReturnStep ==
  ASSUME InboundInv, TypeInv', NEW g \in Handlers, Return(g), KeepsPromises(g),
         UNCHANGED <<inbound, listening, lock>>, abandoned \subseteq abandoned'
  PROVE  InboundInv'
<1>1. job \in [Handlers -> Job]
  BY DEF InboundInv, TypeInv, TypeOK
<1>2. /\ \A h \in Handlers \ {g} : job'[h] = job[h]
      /\ job'[g].pc = "idle" /\ job'[g].node = None /\ job'[g].failed = {}
  BY <1>1 DEF Return, Idle
<1>3. OwnNode(job'[g])
  BY <1>2 DEF OwnNode, Syncing
<1> QED
  BY <1>2, <1>3, InboundQuietStep

LEMMA InboundRefuseStep ==
  ASSUME InboundInv, TypeInv', NEW g \in Handlers, Refuse(g)
  PROVE  InboundInv'
BY InboundReturnStep, NothingOwed DEF Refuse, database, nodes, InboundInv

LEMMA InboundReadAssignmentsStep ==
  ASSUME InboundInv, TypeInv', NEW g \in Handlers, ReadAssignments(g)
  PROVE  InboundInv'
<1>1. job[g].pc = "loaded" /\ job \in [Handlers -> Job] /\ TypeInv /\ job[g] \in Job
  BY DEF ReadAssignments, InboundInv, TypeInv, TypeOK
<1>2. job' = [job EXCEPT ![g] = [job[g] EXCEPT !.pc = "ready",
                                    !.beforeNodes = access[job[g].req.user]]]
  BY DEF ReadAssignments
<1>3. /\ \A h \in Handlers \ {g} : job'[h] = job[h]
      /\ job'[g].pc = "ready" /\ job'[g].node = job[g].node
      /\ job'[g].req = job[g].req /\ job'[g].failed = job[g].failed
  BY <1>1, <1>2 DEF Job
<1>4. UNCHANGED <<inbound, listening, lock, abandoned>>
  BY DEF ReadAssignments, database, nodes
<1>5. OwnNode(job'[g]) /\ KeepsPromises(g)
  BY <1>1, <1>3, NothingOwed DEF OwnNode, OwnNodes, InboundInv, Syncing
<1> QED
  BY <1>3, <1>4, <1>5, InboundQuietStep

\* The commit changes one row, and from then on its handler owes the node.
LEMMA InboundCommitStep ==
  ASSUME InboundInv, TypeInv', NEW g \in Handlers, Commit(g)
  PROVE  InboundInv'
<1> DEFINE r == job[g].req
<1>1. /\ job[g].pc = "ready" /\ job \in [Handlers -> Job] /\ TypeInv /\ job[g] \in Job
      /\ r \in Requests /\ job[g].node = None
  BY DEF Commit, InboundInv, TypeInv, TypeOK, JobOK, Generating
<1>2. job' = [job EXCEPT ![g] = [job[g] EXCEPT
                !.pc = IF IsAccessEdit(r) THEN "reread" ELSE "committed"]]
  BY DEF Commit
<1>3. /\ \A h \in Handlers \ {g} : job'[h] = job[h]
      /\ job'[g].pc = IF IsAccessEdit(r) THEN "reread" ELSE "committed"
      /\ job'[g].node = None /\ job'[g].req = r /\ job'[g].failed = job[g].failed
  BY <1>1, <1>2 DEF Job
<1>4. UNCHANGED <<listening, lock, abandoned>>
  BY DEF Commit, nodes
<1>5. InboundLocksExclude'
  BY <1>3, <1>4 DEF InboundInv, InboundLocksExclude
<1>6. OwnNode(job[g])' /\ InboundsFreshFor(g)' /\ KeepsPromises(g)
  BY <1>1, <1>3, NothingOwed DEF OwnNode, OwnNodes, InboundInv, Syncing, InboundsFreshFor
<1>7. ASSUME NEW n \in Nodes, NEW i \in Inbounds, ListInbounds(n)[i]' # ListInbounds(n)[i]
      PROVE  Explained({g}, n, i)'
  <2>1. InboundNode[i] = n /\ inbound'[i] # inbound[i]
    BY <1>7, ListedOnOwnNode DEF ListInbounds
  <2>2. ~IsUserEdit(r) /\ r.inbound = i
    <3>1. ~IsUserEdit(r)
      BY <2>1 DEF Commit
    <3>2. inbound' = [inbound EXCEPT ![r.inbound] = InboundAfter(r)]
      BY <3>1 DEF Commit
    <3> QED
      BY <1>1, <2>1, <3>1, <3>2 DEF TypeInv, TypeOK
  <2>3. IsInboundEdit(r) /\ ~IsAccessEdit(r)
    <3>1. Accepted(r)
      BY DEF Commit
    <3>2. r.kind # "push"
      BY <2>2, <3>1 DEF Accepted
    <3>3. IsInboundEdit(r)
      BY <1>1, <2>2, <3>2, RequestFields
    <3> QED
      BY <3>3, InboundEditIsNoUserEdit
  <2> QED
    BY <1>3, <2>1, <2>2, <2>3 DEF Explained, EditsInbound, Owing
<1>8. AnswersForRows(g) /\ NodesRunNothingWorse(g)
  BY <1>4, <1>7 DEF AnswersForRows, NodesRunNothingWorse
<1> QED
  BY <1>3, <1>4, <1>5, <1>6, <1>8, PromisesStep

\* The targets of a request for an inbound.
LEMMA OwnTargets ==
  ASSUME NEW r, IsInboundEdit(r), NEW before, NEW after, NEW old, NEW new
  PROVE  TargetsOf(r, before, after, old, new) = {InboundNode[r.inbound]}
BY DEF TargetsOf, IsInboundEdit, InboundKinds, IsAccessEdit

LEMMA InboundReloadStep ==
  ASSUME InboundInv, TypeInv', NEW g \in Handlers, Reload(g)
  PROVE  InboundInv'
<1> DEFINE r == job[g].req
           targets == TargetsOf(r, job[g].beforeNodes, {}, NoRow, NoRow)
<1>1. /\ job[g].pc = "committed" /\ job \in [Handlers -> Job] /\ TypeInv
      /\ job[g] \in Job /\ job[g].node = None
      /\ UNCHANGED <<inbound, listening, lock, abandoned>>
  BY DEF Reload, InboundInv, TypeInv, TypeOK, JobOK, Generating, database, nodes
<1>2. CASE IsUpdate(r)
  <2>1. job' = [job EXCEPT ![g] = [job[g] EXCEPT !.pc = "reread",
                                                 !.user = row[r.user]]]
    BY <1>2 DEF Reload
  <2>2. /\ \A h \in Handlers \ {g} : job'[h] = job[h]
        /\ job'[g].pc = "reread" /\ job'[g].node = None /\ job'[g].req = r
    BY <1>1, <2>1 DEF Job
  <2>3. ~IsInboundEdit(r)
    BY <1>2, InboundEditIsNoUserEdit
  <2>4. OwnNode(job'[g]) /\ KeepsPromises(g)
    BY <1>1, <2>2, <2>3, NothingOwed DEF OwnNode
  <2> QED
    BY <1>1, <2>2, <2>4, InboundQuietStep
<1>3. CASE ~IsUpdate(r)
  <2>1. job' = [job EXCEPT ![g] = [job[g] EXCEPT !.pc = "sync", !.targets = targets,
                                                 !.todo = targets]]
    BY <1>3 DEF Reload
  <2>2. /\ \A h \in Handlers \ {g} : job'[h] = job[h]
        /\ job'[g].pc = "sync" /\ job'[g].node = None /\ job'[g].req = r
        /\ job'[g].targets = targets /\ job'[g].todo = targets
        /\ job'[g].failed = job[g].failed /\ job'[g].phase = job[g].phase
    BY <1>1, <2>1 DEF Job
  <2>3. IsInboundEdit(r) => targets = {InboundNode[r.inbound]}
    BY OwnTargets
  <2>4. KeepsPromises(g)
    BY <1>1, <2>2, <2>3
       DEF KeepsPromises, Explained, EditsInbound, Owing, Syncing
  <2>5. IsInboundEdit(r) => job[g].failed = {}
    BY <1>1 DEF InboundInv, OwnNodes, OwnNode, Syncing
  <2>6. OwnNode(job'[g])
    BY <2>2, <2>3, <2>5 DEF OwnNode, Syncing
  <2> QED
    BY <1>1, <2>2, <2>4, <2>6, InboundQuietStep
<1> QED
  BY <1>2, <1>3

LEMMA InboundAimStep ==
  ASSUME InboundInv, TypeInv', NEW g \in Handlers, Aim(g)
  PROVE  InboundInv'
<1> DEFINE r == job[g].req
           targets == TargetsOf(r, job[g].beforeNodes, access[r.user],
                                job[g].before, job[g].user)
<1>1. /\ job[g].pc = "reread" /\ job \in [Handlers -> Job] /\ TypeInv
      /\ job[g] \in Job /\ job[g].node = None /\ IsUserEdit(r)
      /\ UNCHANGED <<inbound, listening, lock, abandoned>>
  BY DEF Aim, InboundInv, TypeInv, TypeOK, JobOK, Generating, database, nodes
<1>2. job' = [job EXCEPT ![g] = [job[g] EXCEPT !.pc = "sync", !.targets = targets,
                                               !.todo = targets]]
  BY DEF Aim
<1>3. /\ \A h \in Handlers \ {g} : job'[h] = job[h]
      /\ job'[g].pc = "sync" /\ job'[g].node = None /\ job'[g].req = r
  BY <1>1, <1>2 DEF Job
<1>4. ~IsInboundEdit(r)
  BY <1>1, InboundEditIsNoUserEdit
<1>5. OwnNode(job'[g]) /\ KeepsPromises(g)
  BY <1>1, <1>3, <1>4, NothingOwed DEF OwnNode
<1> QED
  BY <1>1, <1>3, <1>5, InboundQuietStep
-----------------------------------------------------------------------------
(***************************************************************************)
(* Inside syncNode.                                                        *)
(***************************************************************************)

\* Only the lock holder works on a node, so its other editors, who owe the
\* node a push, keep owing it.
LEMMA InboundTakeLockStep ==
  ASSUME InboundInv, TypeInv', NEW g \in Handlers, NEW n \in Nodes, TakeLock(g, n)
  PROVE  InboundInv'
<1>1. /\ job[g].pc = "sync" /\ job[g] \in Job /\ TypeInv /\ lock[n] = None
      /\ job \in [Handlers -> Job] /\ lock \in [Nodes -> Handlers \cup {None}]
      /\ UNCHANGED <<inbound, listening, abandoned>> /\ lock' = [lock EXCEPT ![n] = g]
  BY DEF TakeLock, InboundInv, TypeInv, TypeOK, database, nodes
<1>2. job' = [job EXCEPT ![g] = [job[g] EXCEPT !.pc = "locked", !.node = n]]
  BY DEF TakeLock
<1>3. /\ \A h \in Handlers \ {g} : job'[h] = job[h]
      /\ job'[g].pc = "locked" /\ job'[g].node = n /\ job'[g].req = job[g].req
      /\ job'[g].todo = job[g].todo /\ job'[g].targets = job[g].targets
      /\ job'[g].failed = job[g].failed /\ job'[g].phase = job[g].phase
  BY <1>1, <1>2 DEF Job
<1>4. InboundLocksExclude'
  <2> SUFFICES ASSUME NEW h \in Handlers, job'[h].node # None
               PROVE  lock'[job'[h].node] = h
    BY DEF InboundLocksExclude
  <2>1. CASE h = g
    BY <1>1, <1>3, <2>1
  <2>2. CASE h # g
    <3>1. job'[h] = job[h] /\ lock[job[h].node] = h
      BY <1>3, <2>2 DEF InboundInv, InboundLocksExclude
    <3>2. job[h].node # n
      BY <1>1, <3>1, ConstantsAssumption
    <3> QED
      BY <1>1, <3>1, <3>2
  <2> QED
    BY <2>1, <2>2
<1>5. OwnNode(job[g])' /\ InboundsFreshFor(g)' /\ KeepsPromises(g)
  <2>1. OwnNode(job[g])
    BY DEF InboundInv, OwnNodes
  <2>2. OwnNode(job'[g])
    BY <1>1, <1>3, <2>1 DEF OwnNode, Syncing
  <2>3. KeepsPromises(g)
    BY <1>1, <1>3 DEF KeepsPromises, Explained, EditsInbound, Owing, Syncing
  <2>4. InboundsFreshFor(g)'
    BY <1>3 DEF InboundsFreshFor
  <2> QED
    BY <2>2, <2>3, <2>4
<1>6. AnswersForRows(g) /\ NodesRunNothingWorse(g)
  BY <1>1 DEF AnswersForRows, NodesRunNothingWorse, ListInbounds
<1> QED
  BY <1>1, <1>3, <1>4, <1>5, <1>6, PromisesStep

\* A handler moves on inside syncNode without leaving the node.
LEMMA WithinStep ==
  ASSUME InboundInv, TypeInv', NEW g \in Handlers, NEW pc \in Generating,
         job[g].pc \in Generating,
         \A h \in Handlers \ {g} : job'[h] = job[h],
         job'[g].pc = pc, job'[g].req = job[g].req, job'[g].node = job[g].node,
         job'[g].todo = job[g].todo, job'[g].targets = job[g].targets,
         job'[g].failed = job[g].failed, job'[g].phase = job[g].phase,
         \A n \in Nodes : job[g].node = n /\ pc = "generated" =>
                            job'[g].settings = ListInbounds(n),
         UNCHANGED <<inbound, listening, lock, abandoned>>
  PROVE  InboundInv'
<1>1. InboundLocksExclude'
  BY DEF InboundInv, InboundLocksExclude
<1>2. OwnNode(job[g])
  BY DEF InboundInv, OwnNodes
<1>3. OwnNode(job'[g])
  BY <1>2 DEF OwnNode, Generating, Syncing
<1>4. KeepsPromises(g)
  BY DEF KeepsPromises, Explained, EditsInbound, Owing, Syncing, Generating
<1>5. \A n \in Nodes : ListInbounds(n)' = ListInbounds(n)
  BY DEF ListInbounds
<1>6. InboundsFreshFor(g)'
  BY <1>5 DEF InboundsFreshFor
<1>7. AnswersForRows(g) /\ NodesRunNothingWorse(g)
  BY <1>5 DEF AnswersForRows, NodesRunNothingWorse
<1> QED
  BY <1>1, <1>3, <1>4, <1>6, <1>7, PromisesStep

LEMMA InboundQueryStep ==
  ASSUME InboundInv, TypeInv', NEW g \in Handlers, NEW n \in Nodes,
         QueryAllowed(g, n) \/ QueryUsers(g, n) \/ QueryInbounds(g, n)
  PROVE  InboundInv'
<1>1. /\ job \in [Handlers -> Job] /\ job[g] \in Job /\ job[g].node = n
      /\ UNCHANGED <<inbound, listening, lock, abandoned>>
      /\ job[g].pc \in Generating
  BY DEF QueryAllowed, QueryUsers, QueryInbounds, InboundInv, TypeInv, TypeOK, database, nodes,
         Generating
<1>2. PICK j : /\ job' = [job EXCEPT ![g] = j]
               /\ \/ j = [job[g] EXCEPT !.pc = "allowed", !.ids = UsersForNode(n)]
                  \/ j = [job[g] EXCEPT !.pc = "listed", !.names = ListEnabled]
                  \/ j = [job[g] EXCEPT !.pc = "generated",
                                        !.settings = ListInbounds(n)]
  BY ZenonT(30) DEF QueryAllowed, QueryUsers, QueryInbounds
<1>3. /\ j.pc \in Generating /\ j.req = job[g].req /\ j.node = n
      /\ j.todo = job[g].todo /\ j.targets = job[g].targets
      /\ j.failed = job[g].failed /\ j.phase = job[g].phase
      /\ j.pc = "generated" => j.settings = ListInbounds(n)
  BY <1>1, <1>2 DEF Job, Generating
<1>4. job'[g] = j /\ \A h \in Handlers \ {g} : job'[h] = job[h]
  BY <1>1, <1>2
<1> QED
  BY <1>1, <1>3, <1>4, WithinStep

\* What leaving a node does to the handler and to its lock.
LEMMA LeaveFacts ==
  ASSUME InboundInv, NEW g \in Handlers, NEW n \in Nodes, job[g].node = n,
         LeaveNode(g, n, TRUE) \/ LeaveNode(g, n, FALSE)
  PROVE  /\ job[g] \in Job /\ n \in job[g].todo /\ job[g].pc \in Generating
         /\ \A h \in Handlers \ {g} : job'[h] = job[h] /\ job[h].node # n
         /\ job'[g].pc = "sync" /\ job'[g].node = None /\ job'[g].req = job[g].req
         /\ job'[g].todo = job[g].todo \ {n} /\ job'[g].targets = job[g].targets
         /\ job'[g].failed \in {job[g].failed, job[g].failed \cup {n}}
         /\ LeaveNode(g, n, FALSE) => job'[g].failed = job[g].failed \cup {n}
         /\ job'[g].phase = job[g].phase
         /\ InboundLocksExclude' /\ OwnNode(job[g])' /\ InboundsFreshFor(g)'
<1>1. /\ job \in [Handlers -> Job] /\ job[g] \in Job /\ JobOK(job[g]) /\ n # None
      /\ lock \in [Nodes -> Handlers \cup {None}]
  BY ConstantsAssumption DEF InboundInv, TypeInv, TypeOK
<1>2. n \in job[g].todo /\ job[g].pc \in Generating
  BY <1>1 DEF JobOK
<1>3. \A h \in Handlers \ {g} : job[h].node # n
  BY <1>1 DEF InboundInv, InboundLocksExclude
<1>4. PICK ok \in BOOLEAN : LeaveNode(g, n, ok) /\ ok = ~LeaveNode(g, n, FALSE)
  <2>1. CASE LeaveNode(g, n, FALSE)
    BY <2>1
  <2>2. CASE LeaveNode(g, n, TRUE) /\ ~LeaveNode(g, n, FALSE)
    BY <2>2
  <2> QED
    BY <2>1, <2>2
<1> DEFINE failed == IF ok THEN job[g].failed ELSE job[g].failed \cup {n}
           j == [job[g] EXCEPT !.pc = "sync", !.node = None, !.todo = @ \ {n},
                   !.failed = failed, !.ids = {}, !.names = Idle.names,
                   !.settings = Idle.settings]
<1>5. job' = [job EXCEPT ![g] = j]
  <2>1. LeaveNode(g, n, ok)
    BY <1>4
  <2> QED
    BY ZenonT(30), <1>1, <2>1 DEF LeaveNode
<1>6. lock' = [lock EXCEPT ![n] = None]
  BY DEF LeaveNode
<1>7. /\ failed \in {job[g].failed, job[g].failed \cup {n}}
      /\ LeaveNode(g, n, FALSE) => failed = job[g].failed \cup {n}
  BY <1>4
<1> HIDE DEF failed
<1>8. /\ j.pc = "sync" /\ j.node = None /\ j.req = job[g].req
      /\ j.todo = job[g].todo \ {n} /\ j.targets = job[g].targets
      /\ j.failed = failed /\ j.phase = job[g].phase
  BY <1>1 DEF Job
<1>9. job'[g] = j /\ \A h \in Handlers \ {g} : job'[h] = job[h]
  BY <1>1, <1>5
<1> HIDE DEF j
<1>10. /\ \A h \in Handlers \ {g} : job'[h] = job[h]
       /\ job'[g].pc = "sync" /\ job'[g].node = None /\ job'[g].req = job[g].req
       /\ job'[g].todo = job[g].todo \ {n} /\ job'[g].targets = job[g].targets
       /\ job'[g].failed \in {job[g].failed, job[g].failed \cup {n}}
       /\ LeaveNode(g, n, FALSE) => job'[g].failed = job[g].failed \cup {n}
       /\ job'[g].phase = job[g].phase
  BY <1>7, <1>8, <1>9
<1>11. InboundLocksExclude'
  BY <1>1, <1>3, <1>6, <1>10 DEF InboundInv, InboundLocksExclude
<1>12. OwnNode(job[g])'
  <2>1. OwnNode(job[g])
    BY DEF InboundInv, OwnNodes
  <2> QED
    BY <1>2, <1>10, <2>1 DEF OwnNode, Syncing, Generating
<1>13. InboundsFreshFor(g)'
  BY <1>10 DEF InboundsFreshFor
<1> QED
  BY <1>1, <1>2, <1>3, <1>10, <1>11, <1>12, <1>13

\* A push that is not reported as done stays owed: by its handler while it
\* applies the change, and by nobody after a failed restore.
LEMMA InboundNotPushedStep ==
  ASSUME InboundInv, TypeInv', NEW g \in Handlers, NEW n \in Nodes,
         PushFails(g, n) \/ PushAnswerLost(g, n) \/ SkipNode(g, n)
  PROVE  InboundInv'
<1>1. /\ job[g].node = n /\ LeaveNode(g, n, FALSE) /\ inbound' = inbound
      /\ abandoned' = abandoned \cup GivenUp(g, n) /\ TypeInv
  BY DEF PushFails, PushAnswerLost, SkipNode, database, nodes, InboundInv
<1>2. /\ job[g] \in Job /\ n \in job[g].todo /\ job[g].pc \in Generating
      /\ \A h \in Handlers \ {g} : job'[h] = job[h] /\ job[h].node # n
      /\ job'[g].pc = "sync" /\ job'[g].node = None /\ job'[g].req = job[g].req
      /\ job'[g].todo = job[g].todo \ {n} /\ job'[g].targets = job[g].targets
      /\ job'[g].failed = job[g].failed \cup {n}
      /\ job'[g].phase = job[g].phase
      /\ InboundLocksExclude' /\ OwnNode(job[g])' /\ InboundsFreshFor(g)'
  BY ZenonT(30), <1>1, LeaveFacts
<1>3. KeepsPromises(g)
  <2> SUFFICES ASSUME NEW m \in Nodes, NEW i \in Inbounds,
                      EditsInbound(job[g], i), Owing(job[g], m)
               PROVE  Explained({g}, m, i)'
    BY DEF KeepsPromises
  <2>1. \/ m \in job[g].todo
        \/ job[g].phase = "apply" /\ m \in job[g].failed
    BY <1>2 DEF Owing, Generating
  <2>2. CASE job[g].phase = "restore" /\ m = n
    <3>1. Edits(g, i)
      BY <1>1, InboundDuties
    <3>2. <<m, i>> \in GivenUp(g, n)
      BY <2>2, <3>1 DEF GivenUp
    <3> QED
      BY <1>1, <3>2 DEF Explained
  <2>3. CASE ~(job[g].phase = "restore" /\ m = n)
    <3>1. job[g].phase \in {"apply", "restore"}
      BY <1>2 DEF Job
    <3>2. Owing(job'[g], m) /\ EditsInbound(job'[g], i)
      BY <1>2, <2>1, <2>3, <3>1 DEF Owing, Syncing, EditsInbound
    <3> QED
      BY <3>2 DEF Explained
  <2> QED
    BY <2>2, <2>3
<1>4. NodesRunNothingWorse(g)
  <2>1. CASE PushFails(g, n) \/ SkipNode(g, n)
    BY <2>1 DEF PushFails, SkipNode, nodes, NodesRunNothingWorse
  <2>2. CASE PushAnswerLost(g, n)
    <3>1. /\ listening' = [listening EXCEPT ![n] = job[g].settings]
          /\ job[g].pc = "generated"
          /\ listening \in [Nodes -> [Inbounds -> Settings \cup {None}]]
      BY <1>1, <2>2, TypeInvParts DEF PushAnswerLost, NodesOK
    <3>2. \A i \in Inbounds : \/ job[g].settings[i] = ListInbounds(n)[i]
                              \/ Explained(Handlers \ {g}, n, i)
      BY <1>1, <3>1 DEF InboundInv, InboundsFresh, InboundsFreshFor
    <3> QED
      BY <3>1, <3>2 DEF NodesRunNothingWorse
  <2> QED
    BY <2>1, <2>2
<1>5. AnswersForRows(g)
  BY <1>1 DEF AnswersForRows, ListInbounds
<1> QED
  BY <1>1, <1>2, <1>3, <1>4, <1>5, PromisesStep


\* A push sets the node right, except where others will or nobody may.
LEMMA PushStep ==
  ASSUME InboundInv, TypeInv', NEW g \in Handlers, NEW n \in Nodes, Push(g, n)
  PROVE  InboundInv'
<1>1. /\ job[g].node = n /\ job[g].pc = "generated" /\ LeaveNode(g, n, TRUE)
      /\ inbound' = inbound
      /\ listening' = [listening EXCEPT ![n] = job[g].settings]
      /\ listening \in [Nodes -> [Inbounds -> Settings \cup {None}]]
      /\ job[g] \in Job
  BY TypeInvParts DEF Push, database, InboundInv, NodesOK
<1>2. /\ \A h \in Handlers \ {g} : job'[h] = job[h] /\ job[h].node # n
      /\ job'[g].pc = "sync" /\ job'[g].req = job[g].req
      /\ job'[g].todo = job[g].todo \ {n}
      /\ job'[g].failed \in {job[g].failed, job[g].failed \cup {n}}
      /\ job'[g].phase = job[g].phase
      /\ InboundLocksExclude' /\ OwnNode(job[g])' /\ InboundsFreshFor(g)'
  <2>1. job[g].node = n /\ (LeaveNode(g, n, TRUE) \/ LeaveNode(g, n, FALSE))
    BY <1>1
  <2> QED
    BY ZenonT(30), <2>1, LeaveFacts
<1>3. \A m \in Nodes : ListInbounds(m)' = ListInbounds(m)
  BY <1>1 DEF ListInbounds
<1>4. ASSUME NEW m \in Nodes, NEW i \in Inbounds, <<m, i>> \in abandoned
      PROVE  \/ <<m, i>> \in abandoned'
             \/ m = n /\ listening'[m][i] = ListInbounds(m)[i]
  <2>1. \/ m # n
        \/ listening'[n][i] # WantInbounds(n)[i]
        \/ m = n /\ listening'[n][i] = WantInbounds(n)[i]
    OBVIOUS
  <2>2. \/ m # n \/ listening'[n][i] # WantInbounds(n)[i] => <<m, i>> \in abandoned'
    BY <1>4 DEF Push
  <2> QED
    BY <2>1, <2>2 DEF WantInbounds
<1>5. ASSUME NEW hs \in SUBSET Handlers, NEW m \in Nodes, NEW i \in Inbounds,
             Explained(hs, m, i), m # n \/ g \notin hs
      PROVE  \/ Explained(hs, m, i)'
             \/ m = n /\ listening'[m][i] = ListInbounds(m)[i]
  <2>1. CASE <<m, i>> \in abandoned
    BY <1>4, <2>1 DEF Explained
  <2>2. CASE \E h \in hs : EditsInbound(job[h], i) /\ Owing(job[h], m)
    <3>1. PICK h \in hs : EditsInbound(job[h], i) /\ Owing(job[h], m)
      BY <2>2
    <3>2. CASE h # g
      <4>1. job'[h] = job[h]
        BY <1>2, <3>2
      <4> QED
        BY <3>1, <4>1 DEF Explained
    <3>3. CASE h = g
      <4>1. m # n
        BY <1>5, <3>3
      <4>2. EditsInbound(job'[g], i) /\ Owing(job'[g], m)
        BY <1>1, <1>2, <3>1, <3>3, <4>1 DEF Owing, EditsInbound, Syncing
      <4> QED
        BY <3>1, <3>3, <4>2 DEF Explained
    <3> QED
      BY <3>2, <3>3
  <2> QED
    BY <1>5, <2>1, <2>2 DEF Explained
<1>6. OwnNodes'
  BY <1>2 DEF OwnNodes, InboundInv
<1>7. ASSUME NEW h \in Handlers
      PROVE  InboundsFreshFor(h)'
  <2>1. CASE h = g
    BY <1>2, <2>1
  <2>2. CASE h # g
    <3> SUFFICES ASSUME NEW m \in Nodes, NEW i \in Inbounds,
                        job[h].node = m, job[h].pc = "generated"
                 PROVE  \/ job[h].settings[i] = ListInbounds(m)[i]
                        \/ Explained(Handlers \ {h}, m, i)'
      BY <1>2, <1>3, <2>2 DEF InboundsFreshFor
    <3>1. \/ job[h].settings[i] = ListInbounds(m)[i]
          \/ Explained(Handlers \ {h}, m, i)
      BY DEF InboundInv, InboundsFresh, InboundsFreshFor
    <3>2. m # n
      BY <1>2, <2>2
    <3> QED
      BY <1>5, <3>1, <3>2
  <2> QED
    BY <2>1, <2>2
<1>8. InboundsFollow'
  <2> SUFFICES ASSUME NEW m \in Nodes, NEW i \in Inbounds
               PROVE  \/ listening'[m][i] = ListInbounds(m)[i]
                      \/ Explained(Handlers, m, i)'
    BY <1>3 DEF InboundsFollow, InboundInStep, WantInbounds
  <2>1. CASE m = n
    <3>1. \/ job[g].settings[i] = ListInbounds(n)[i]
          \/ Explained(Handlers \ {g}, n, i)
      BY <1>1 DEF InboundInv, InboundsFresh, InboundsFreshFor
    <3>2. listening'[n][i] = job[g].settings[i]
      BY <1>1
    <3>3. Explained(Handlers \ {g}, n, i)' => Explained(Handlers, n, i)'
      BY DEF Explained
    <3> QED
      BY <1>5, <2>1, <3>1, <3>2, <3>3
  <2>2. CASE m # n
    <3>1. listening[m][i] = ListInbounds(m)[i] \/ Explained(Handlers, m, i)
      BY DEF InboundInv, InboundsFollow, InboundInStep, WantInbounds
    <3> QED
      BY <1>1, <1>5, <2>2, <3>1
  <2> QED
    BY <2>1, <2>2
<1> QED
  BY <1>2, <1>6, <1>7, <1>8 DEF InboundInv, InboundsFresh


-----------------------------------------------------------------------------
(***************************************************************************)
(* The ends of a request.                                                  *)
(***************************************************************************)

\* The pairs a request owes are among those it leaves behind when it stops.
LEMMA DebtsAreOwed ==
  ASSUME TypeInv, NEW hs \in SUBSET Handlers, NEW g \in hs, NEW n \in Nodes,
         NEW i \in Inbounds, EditsInbound(job[g], i), Owing(job[g], n)
  PROVE  <<n, i>> \in DebtsOf(hs)
<1>1. Edits(g, i) /\ Owes(g, n)
  BY InboundDuties
<1> QED
  BY <1>1 DEF DebtsOf

LEMMA OwedIsLeftBehind ==
  ASSUME InboundInv, NEW g \in Handlers, NEW n \in Nodes, NEW i \in Inbounds,
         EditsInbound(job[g], i), Owing(job[g], n), job[g].pc \in Syncing
  PROVE  <<n, i>> \in LeftBehind(g)
<1>1. Edits(g, i)
  BY InboundDuties DEF InboundInv
<1>2. n \in job[g].targets
  BY DEF InboundInv, OwnNodes, OwnNode, EditsInbound, Owing, Syncing
<1> QED
  BY <1>1, <1>2 DEF LeftBehind

LEMMA InboundAnswerStep ==
  ASSUME InboundInv, TypeInv', NEW g \in Handlers, Answer(g)
  PROVE  InboundInv'
<1>1. UNCHANGED <<inbound, listening, lock, abandoned>> /\ TypeInv
  BY DEF Answer, database, nodes, InboundInv
<1>2. job[g].req.kind = "push" => ~IsInboundEdit(job[g].req)
  BY InboundEditIsNoUserEdit
<1>3. KeepsPromises(g)
  BY <1>1, <1>2, NothingOwed DEF Answer, Succeeded, RolledBack
<1> QED
  BY <1>1, <1>3, InboundReturnStep DEF Answer

LEMMA DeletionStep ==
  ASSUME InboundInv, TypeInv', NEW g \in Handlers, DeleteRows(g) \/ DeleteRowsFails(g)
  PROVE  InboundInv'
<1>1. /\ UNCHANGED <<inbound, listening, lock, abandoned>> /\ TypeInv
      /\ job \in [Handlers -> Job] /\ job[g] \in Job
      /\ job[g].req.kind = "delete" /\ Succeeded(g)
  BY DEF DeleteRows, DeleteRowsFails, database, nodes, InboundInv, TypeInv, TypeOK
<1>2. ~IsInboundEdit(job[g].req)
  BY <1>1, InboundEditIsNoUserEdit
<1>3. KeepsPromises(g)
  BY <1>1, <1>2, NothingOwed
<1>4. CASE DeleteRows(g)
  BY <1>1, <1>3, <1>4, InboundReturnStep DEF DeleteRows
<1>5. CASE DeleteRowsFails(g)
  <2>1. job' = [job EXCEPT ![g] = [job[g] EXCEPT !.pc = "undo"]]
    BY <1>5 DEF DeleteRowsFails
  <2>2. /\ \A h \in Handlers \ {g} : job'[h] = job[h]
        /\ job'[g].pc = "undo" /\ job'[g].node = job[g].node
        /\ job'[g].req = job[g].req
    BY <1>1, <2>1 DEF Job
  <2>3. OwnNode(job'[g])
    BY <1>2, <2>2 DEF OwnNode
  <2> QED
    BY <1>1, <1>3, <2>2, <2>3, InboundQuietStep
<1> QED
  BY <1>4, <1>5

\* The rollback's statements write the one row the request is about.
LEMMA InboundRestoredRows ==
  ASSUME TypeInv, NEW g \in Handlers, RestoreRows(g) \/ UNCHANGED database,
         job[g].pc # "idle", NEW n \in Nodes, NEW i \in Inbounds,
         ListInbounds(n)[i]' # ListInbounds(n)[i]
  PROVE  EditsInbound(job[g], i) /\ n = InboundNode[i]
<1> DEFINE r == job[g].req
<1>1. InboundNode[i] = n /\ inbound'[i] # inbound[i]
  BY ListedOnOwnNode DEF ListInbounds
<1>2. RestoreRows(g)
  BY <1>1 DEF database
<1>3. ~IsUserEdit(r)
  BY <1>1, <1>2 DEF RestoreRows
<1>4. inbound' = [inbound EXCEPT ![r.inbound] = RestoredInbound(g)]
  BY <1>2, <1>3 DEF RestoreRows
<1>5. r.inbound = i
  BY <1>1, <1>4 DEF TypeInv, TypeOK
<1>6. r.kind \in {"deleteInbound", "createInbound", "retarget"}
  BY <1>2, <1>3 DEF RestoreRows, CanRestore, IsUserEdit, UserKinds
<1> QED
  BY <1>1, <1>5, <1>6 DEF EditsInbound, IsInboundEdit, InboundKinds

\* A rollback in the database owes its node the push that follows.
LEMMA InboundUndoStep ==
  ASSUME InboundInv, TypeInv', NEW g \in Handlers, Undo(g)
  PROVE  InboundInv'
<1>1. /\ UNCHANGED <<listening, lock, abandoned>> /\ TypeInv
      /\ job \in [Handlers -> Job] /\ job[g] \in Job /\ job[g].node = None
      /\ job[g].pc \in {"sync", "undo"} /\ JobOK(job[g])
  BY DEF Undo, nodes, InboundInv, TypeInv, TypeOK, MustUndo, SyncDone, JobOK, Generating
<1>2. job' = [job EXCEPT ![g] = [job[g] EXCEPT !.pc = "sync", !.phase = "restore",
                                    !.todo = job[g].targets, !.failed = {}]]
  BY DEF Undo
<1>3. /\ \A h \in Handlers \ {g} : job'[h] = job[h]
      /\ job'[g].pc = "sync" /\ job'[g].node = None /\ job'[g].req = job[g].req
      /\ job'[g].todo = job[g].targets /\ job'[g].targets = job[g].targets
      /\ job'[g].failed = {}
  BY <1>1, <1>2 DEF Job
<1>4. ASSUME NEW i \in Inbounds, EditsInbound(job[g], i)
      PROVE  job[g].pc = "sync" /\ job[g].targets = {InboundNode[i]}
             /\ job[g].todo \cup job[g].failed \subseteq job[g].targets
  <2>1. job[g].pc # "undo"
    BY <1>1, <1>4, InboundEditIsNoUserEdit DEF EditsInbound, JobOK
  <2> QED
    BY <1>1, <1>4, <2>1 DEF InboundInv, OwnNodes, OwnNode, EditsInbound, Syncing
<1>5. InboundLocksExclude'
  BY <1>1, <1>3 DEF InboundInv, InboundLocksExclude
<1>6. OwnNode(job'[g])
  <2>1. OwnNode(job[g])
    BY DEF InboundInv, OwnNodes
  <2>2. IsInboundEdit(job[g].req) => job[g].pc = "sync"
    BY <1>1, InboundEditIsNoUserEdit DEF JobOK
  <2> QED
    BY <1>3, <2>1, <2>2 DEF OwnNode, Syncing
<1>7. InboundsFreshFor(g)'
  BY <1>3 DEF InboundsFreshFor
<1>8. KeepsPromises(g)
  <2> SUFFICES ASSUME NEW n \in Nodes, NEW i \in Inbounds,
                      EditsInbound(job[g], i), Owing(job[g], n)
               PROVE  EditsInbound(job'[g], i) /\ Owing(job'[g], n)
    BY DEF KeepsPromises, Explained
  <2>1. n \in job[g].targets
    BY <1>4 DEF Owing
  <2> QED
    BY <1>3, <2>1 DEF EditsInbound, Owing, Syncing
<1>9. AnswersForRows(g)
  <2> SUFFICES ASSUME NEW n \in Nodes, NEW i \in Inbounds,
                      ListInbounds(n)[i]' # ListInbounds(n)[i]
               PROVE  EditsInbound(job'[g], i) /\ Owing(job'[g], n)
    BY DEF AnswersForRows, Explained
  <2>1. EditsInbound(job[g], i) /\ n = InboundNode[i]
    BY <1>1, InboundRestoredRows DEF Undo
  <2>2. n \in job[g].targets
    BY <1>4, <2>1
  <2> QED
    BY <1>3, <2>1, <2>2 DEF EditsInbound, Owing, Syncing
<1>10. NodesRunNothingWorse(g)
  BY <1>1 DEF NodesRunNothingWorse
<1> QED
  BY <1>1, <1>3, <1>5, <1>6, <1>7, <1>8, <1>9, <1>10, PromisesStep

\* A handler that stops leaves what it owed, and what it wrote, to nobody.
LEMMA StopStep ==
  ASSUME InboundInv, TypeInv', NEW g \in Handlers, Return(g), job[g].pc # "idle",
         RestoreRows(g) \/ UNCHANGED database,
         UNCHANGED <<nodes, lock>>, abandoned \subseteq abandoned',
         \A n \in Nodes, i \in Inbounds :
           EditsInbound(job[g], i) /\ (Owing(job[g], n) \/ n = InboundNode[i])
             => <<n, i>> \in abandoned'
  PROVE  InboundInv'
<1>1. job \in [Handlers -> Job] /\ TypeInv /\ listening' = listening
  BY DEF InboundInv, TypeInv, TypeOK, nodes
<1>2. /\ \A h \in Handlers \ {g} : job'[h] = job[h]
      /\ job'[g].pc = "idle" /\ job'[g].node = None /\ job'[g].failed = {}
  BY <1>1 DEF Return, Idle
<1>3. InboundLocksExclude'
  BY <1>2 DEF InboundInv, InboundLocksExclude
<1>4. OwnNode(job[g])' /\ InboundsFreshFor(g)'
  BY <1>2 DEF OwnNode, Syncing, InboundsFreshFor
<1>5. KeepsPromises(g)
  BY DEF KeepsPromises, Explained
<1>6. AnswersForRows(g)
  BY <1>1, InboundRestoredRows DEF AnswersForRows, Explained
<1>7. NodesRunNothingWorse(g)
  BY <1>1 DEF NodesRunNothingWorse
<1> QED
  BY <1>2, <1>3, <1>4, <1>5, <1>6, <1>7, PromisesStep

LEMMA LeavingStep ==
  ASSUME InboundInv, TypeInv', NEW g \in Handlers, RevertTarget(g) \/ UndoFails(g)
  PROVE  InboundInv'
<1>1. /\ Return(g) /\ MustUndo(g) /\ UNCHANGED <<nodes, lock>>
      /\ abandoned' = abandoned \cup LeftBehind(g)
      /\ RestoreRows(g) \/ UNCHANGED database
  BY DEF RevertTarget, UndoFails
<1>2. job[g].pc \in {"sync", "undo"} /\ JobOK(job[g])
  BY <1>1 DEF MustUndo, SyncDone, InboundInv, TypeInv
<1>3. ASSUME NEW n \in Nodes, NEW i \in Inbounds, EditsInbound(job[g], i),
             Owing(job[g], n) \/ n = InboundNode[i]
      PROVE  <<n, i>> \in LeftBehind(g)
  <2>1. job[g].pc = "sync"
    BY <1>2, <1>3, InboundEditIsNoUserEdit DEF EditsInbound, JobOK
  <2>2. CASE Owing(job[g], n)
    BY <1>3, <2>1, <2>2, OwedIsLeftBehind DEF Syncing
  <2>3. CASE n = InboundNode[i]
    <3>1. Edits(g, i)
      BY <1>3, InboundDuties DEF InboundInv
    <3>2. n \in job[g].targets
      BY <1>3, <2>1, <2>3 DEF InboundInv, OwnNodes, OwnNode, EditsInbound, Syncing
    <3> QED
      BY <3>1, <3>2 DEF LeftBehind
  <2> QED
    BY <1>3, <2>2, <2>3
<1> QED
  BY <1>1, <1>2, <1>3, StopStep

\* The reads after the commit fail: a request that owes a push stops short.
LEMMA StopShortStep ==
  ASSUME InboundInv, TypeInv', NEW g \in Handlers, ForgetEdit(g) \/ RevertUnpushed(g)
  PROVE  InboundInv'
<1>1. /\ Return(g) /\ UNCHANGED <<nodes, lock>>
      /\ abandoned' = abandoned \cup DebtsOf({g})
      /\ RestoreRows(g) \/ UNCHANGED database
      /\ job[g].pc \in {"committed", "reread"} /\ JobOK(job[g]) /\ TypeInv
  BY DEF ForgetEdit, RevertUnpushed, InboundInv, TypeInv
<1>2. ASSUME NEW n \in Nodes, NEW i \in Inbounds, EditsInbound(job[g], i),
             Owing(job[g], n) \/ n = InboundNode[i]
      PROVE  <<n, i>> \in DebtsOf({g})
  <2>1. job[g].pc = "committed"
    BY <1>1, <1>2, InboundEditIsNoUserEdit DEF EditsInbound, JobOK
  <2>2. Owing(job[g], n)
    BY <1>2, <2>1 DEF Owing, EditsInbound
  <2> QED
    BY <1>1, <1>2, <2>2, DebtsAreOwed
<1> QED
  BY <1>1, <1>2, StopStep

LEMMA InboundCrashStep ==
  ASSUME InboundInv, TypeInv', Crash
  PROVE  InboundInv'
<1>1. /\ \A h \in Handlers : /\ job'[h].pc = "idle" /\ job'[h].node = None
                              /\ job'[h].failed = {}
      /\ UNCHANGED <<database, nodes>>
      /\ abandoned' = abandoned \cup DebtsOf(Handlers)
  BY DEF Crash, Idle
<1>2. InboundLocksExclude' /\ OwnNodes' /\ InboundsFresh'
  BY <1>1 DEF InboundLocksExclude, OwnNodes, OwnNode, Syncing, InboundsFresh, InboundsFreshFor
<1>3. InboundsFollow'
  <2> SUFFICES ASSUME NEW n \in Nodes, NEW i \in Inbounds
               PROVE  InboundInStep(n, i)' \/ <<n, i>> \in abandoned'
    BY DEF InboundsFollow, Explained
  <2>1. InboundInStep(n, i)' <=> InboundInStep(n, i)
    BY <1>1 DEF database, nodes, InboundInStep, WantInbounds, ListInbounds
  <2>2. CASE InboundInStep(n, i) \/ <<n, i>> \in abandoned
    BY <1>1, <2>1, <2>2
  <2>3. CASE \E h \in Handlers : EditsInbound(job[h], i) /\ Owing(job[h], n)
    BY <1>1, <2>3, DebtsAreOwed DEF InboundInv
  <2> QED
    BY <2>2, <2>3 DEF InboundInv, InboundsFollow, Explained
<1> QED
  BY <1>2, <1>3 DEF InboundInv

-----------------------------------------------------------------------------
LEMMA InitInv == Init => InboundInv
<1> SUFFICES ASSUME Init PROVE InboundInv
  OBVIOUS
<1>1. TypeInv
  BY InitTypeInv
<1>2. \A h \in Handlers : job[h] = Idle
  BY DEF Init
<1>3. InboundLocksExclude /\ OwnNodes /\ InboundsFresh
  BY <1>2 DEF InboundLocksExclude, OwnNodes, OwnNode, Syncing, InboundsFresh, InboundsFreshFor, Idle
<1>4. InboundsFollow
  BY DEF Init, InboundsFollow, InboundInStep
<1> QED
  BY <1>1, <1>3, <1>4 DEF InboundInv

LEMMA NextInv ==
  ASSUME InboundInv, [Next]_vars
  PROVE  InboundInv'
<1>1. TypeInv'
  BY NextTypeInv DEF InboundInv
<1>2. CASE UNCHANGED vars \/ \E u \in Users : CreateUser(u)
  BY <1>1, <1>2, NothingMoves DEF vars, database, nodes, CreateUser
<1>3. CASE \E h \in Handlers, r \in Requests : Begin(h, r)
  BY <1>1, <1>3, InboundBeginStep
<1>4. CASE \E h \in Handlers : Step(h)
  BY <1>1, <1>4, InboundReadAssignmentsStep, InboundCommitStep, InboundRefuseStep, InboundReloadStep, InboundAimStep,
     InboundTakeLockStep, InboundQueryStep, PushStep, InboundNotPushedStep, InboundAnswerStep, DeletionStep,
     InboundUndoStep, LeavingStep, StopShortStep
     DEF Step, SyncNode
<1>5. CASE Crash
  BY <1>1, <1>5, InboundCrashStep
<1> QED
  BY <1>2, <1>3, <1>4, <1>5 DEF Next

\* A managed node listens as the database says, unless a request for that very
\* inbound still has to push the node or has failed and left the pair behind:
\* however many requests race on one inbound, and whatever they interleave with
\* the queries and the push of each other.
THEOREM InboundsAreFollowed == Spec => []InboundsFollowDatabase
<1>1. Init => InboundInv
  BY InitInv
<1>2. InboundInv /\ [Next]_vars => InboundInv'
  BY NextInv
<1>3. InboundInv => InboundsFollowDatabase
  <2> SUFFICES ASSUME InboundInv, NEW n \in Managed, NEW i \in Inbounds
               PROVE  \/ InboundInStep(n, i)
                      \/ <<n, i>> \in abandoned
                      \/ \E h \in Handlers : Edits(h, i) /\ Owes(h, n)
    BY DEF InboundsFollowDatabase
  <2>1. n \in Nodes
    BY ConstantsAssumption
  <2>2. InboundInStep(n, i) \/ Explained(Handlers, n, i)
    BY <2>1 DEF InboundInv, InboundsFollow
  <2> QED
    BY <2>1, <2>2, InboundDuties DEF InboundInv, Explained
<1> QED
  BY <1>1, <1>2, <1>3, PTL DEF Spec

=============================================================================
