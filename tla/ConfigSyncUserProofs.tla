------------------------- MODULE ConfigSyncUserProofs -------------------------
(***************************************************************************)
(* Requests never undo each other's work on a user: the proof of           *)
(* UsersFollowDatabase, for every set of requests and faults, provided     *)
(* that no two requests edit the same user at the same time.               *)
(***************************************************************************)
EXTENDS ConfigSyncProofs

(***************************************************************************)
(* The inductive invariant behind UsersFollowDatabase.                     *)
(***************************************************************************)

\* At most one handler at a time works on a node: whoever is inside syncNode
\* holds that node's lock.
LocksExclude ==
  \A h \in Handlers : job[h].node # None => lock[job[h].node] = h

\* Nobody else edits the user a handler edits.
OneEditor ==
  \A g, h \in Handlers, u \in Users : Edits(g, u) /\ Edits(h, u) => g = h

\* An id that has not been handed out has no assignments.
NewUsersHaveNoAccess == \A u \in Users : life[u] = "new" => access[u] = {}

\* What a handler with locals j remembers of the user it edits, when the
\* database holds life l, row w and assignments a for that user.
Remembers(j, l, w, a) ==
  LET r == j.req  applying == j.phase = "apply" IN
  /\ ~IsAccessEdit(r) => l # "new"
  /\ j.pc \in {"loaded", "ready"} /\ ~IsAccessEdit(r) => j.before = w
  /\ j.pc = "ready" => j.beforeNodes = a
  /\ j.pc \notin Syncing => applying
  /\ j.pc = "committed" => ~IsAccessEdit(r)
  /\ j.pc = "reread" => IsUpdate(r) \/ IsAccessEdit(r)
  /\ j.pc \in {"committed", "undo"} \cup Syncing /\ applying =>
       /\ r.kind = "delete" => a = {}
       /\ r.kind = "reset" => j.beforeNodes = a
  /\ j.pc \in {"reread", "undo"} \cup Syncing /\ applying /\ IsUpdate(r) =>
       j.user = w
  /\ j.pc \in {"undo"} \cup Syncing /\ applying =>
       j.targets = TargetsOf(r, j.beforeNodes, a, j.before, j.user)
  /\ j.pc \in {"undo"} \cup Syncing => j.todo \cup j.failed \subseteq j.targets
  /\ j.pc \notin Syncing => j.todo \cup j.failed = {}
  /\ j.pc \in {"committed", "reread", "undo"} \cup Syncing /\ applying =>
       /\ IsUpdate(r) \/ r.kind = "delete" =>
            j.before.used = w.used /\ FoundRow(r, j.before).note = w.note
       /\ r.kind = "reset" => w = [j.before EXCEPT !.used = 0]
  /\ ~applying => /\ ~IsAccessEdit(r) => w = FoundRow(r, j.before)
                  /\ j.beforeNodes = a

MemoryOf(h) ==
  LET u == job[h].req.user
  IN  IsUserEdit(job[h].req) => Remembers(job[h], life[u], row[u], access[u])

Memory == \A h \in Handlers : MemoryOf(h)

\* Somebody other than h will push node n for user u, or nobody ever may.
Excused(h, n, u) ==
  \/ \E g \in Handlers \ {h} : Edits(g, u) /\ Pending(g, n)
  \/ <<n, u>> \in abandoned

\* The configuration a handler is generating for a node is right about a user
\* as far as it has been read.
FreshFor(h) ==
  \A u \in Users, n \in Nodes :
    job[h].node = n =>
      /\ job[h].pc \in {"allowed", "listed", "generated"} =>
           \/ u \in job[h].ids <=> u \in UsersForNode(n)
           \/ Excused(h, n, u)
      /\ job[h].pc \in {"listed", "generated"} =>
           \/ GeneratedUsers(job[h].ids, job[h].names)[u] = WantUsers(n)[u]
           \/ Excused(h, n, u)

Fresh == \A h \in Handlers : FreshFor(h)

NodesFollow ==
  \A n \in Nodes, u \in Users :
    \/ UserInStep(n, u)
    \/ <<n, u>> \in abandoned
    \/ \E h \in Handlers : Edits(h, u) /\ Owes(h, n)

IInv ==
  /\ TypeInv /\ LocksExclude /\ OneEditor /\ NewUsersHaveNoAccess /\ Memory
  /\ Fresh /\ NodesFollow

-----------------------------------------------------------------------------
(***************************************************************************)
(* What a node ought to serve, user by user.                               *)
(***************************************************************************)

\* A user with life l, row w and assignments a is served on node n.
Allows(l, w, a, n) ==
  /\ l = "live" /\ n \in a /\ w.enabled = 1
  /\ w.limit = 0 \/ w.used < w.limit

LEMMA WantAt ==
  ASSUME NEW n \in Nodes, NEW u \in Users
  PROVE  /\ u \in UsersForNode(n) <=> Allows(life[u], row[u], access[u], n)
         /\ WantUsers(n)[u] =
              IF Allows(life[u], row[u], access[u], n) THEN row[u].name ELSE None
  BY DEF UsersForNode, Allows, WantUsers, GeneratedUsers, ListEnabled

\* The same in the next state.
LEMMA WantAtNext ==
  ASSUME NEW n \in Nodes, NEW u \in Users
  PROVE  /\ (u \in UsersForNode(n))' <=> Allows(life'[u], row'[u], access'[u], n)
         /\ (WantUsers(n)[u])' =
              IF Allows(life'[u], row'[u], access'[u], n) THEN row'[u].name
                                                         ELSE None
  BY DEF UsersForNode, Allows, WantUsers, GeneratedUsers, ListEnabled

\* The targets of each kind of user edit.
LEMMA TargetsByKind ==
  ASSUME NEW r, NEW a, NEW b, NEW old, NEW new
  PROVE  /\ r.kind = "updateWithAccess" => TargetsOf(r, a, b, old, new) = a \cup b
         /\ r.kind = "update" /\ UserConfigChanged(old, new) =>
              TargetsOf(r, a, b, old, new) = a \cup b
         /\ r.kind = "update" /\ ~UserConfigChanged(old, new) =>
              TargetsOf(r, a, b, old, new) = ChangedIDs(a, b)
         /\ IsAccessEdit(r) => TargetsOf(r, a, b, old, new) = ChangedIDs(a, b)
         /\ r.kind \in {"delete", "reset"} => TargetsOf(r, a, b, old, new) = a
  BY DEF TargetsOf, UnionIDs, IsAccessEdit, IsInboundEdit, InboundKinds

\* A change of one user's row and assignments makes no difference on a node
\* that is not among the targets the request computes from them.
LEMMA TargetsCover ==
  ASSUME NEW r \in Requests, IsUserEdit(r), NEW old, NEW new, NEW a, NEW b,
         NEW l, NEW n \in Nodes,
         IsUpdate(r) => old.used = new.used,
         IsAccessEdit(r) => old = new,
         r.kind = "delete" => b = {},
         r.kind = "reset" => a = b,
         n \notin TargetsOf(r, a, b, old, new)
  PROVE  /\ Allows(l, old, a, n) <=> Allows(l, new, b, n)
         /\ Allows(l, old, a, n) => old.name = new.name
<1>1. CASE r.kind = "update" /\ UserConfigChanged(old, new)
  BY <1>1, TargetsByKind DEF Allows
<1>2. CASE r.kind = "update" /\ ~UserConfigChanged(old, new)
  <2>1. n \notin ChangedIDs(a, b) /\ old.used = new.used
    BY <1>2, TargetsByKind DEF IsUpdate
  <2> QED
    BY <1>2, <2>1 DEF ChangedIDs, UserConfigChanged, Allows
<1>3. CASE r.kind = "updateWithAccess"
  BY <1>3, TargetsByKind DEF Allows
<1>4. CASE IsAccessEdit(r)
  BY <1>4, TargetsByKind DEF ChangedIDs, Allows
<1>5. CASE r.kind = "delete" \/ r.kind = "reset"
  BY <1>5, TargetsByKind DEF Allows
<1> QED
  BY <1>1, <1>2, <1>3, <1>4, <1>5 DEF IsUserEdit, UserKinds, IsAccessEdit

-----------------------------------------------------------------------------
(***************************************************************************)
(* Editors, and what they still have to push.                              *)
(***************************************************************************)

\* No user id is an inbound id, so only a user edit edits a user.
LEMMA EditsAUser ==
  ASSUME TypeInv, NEW h \in Handlers, NEW u \in Users
  PROVE  Edits(h, u) <=> IsUserEdit(job[h].req) /\ job[h].req.user = u
<1>1. job[h].req \in Requests \cup {NoRequest}
  BY TypeInvParts DEF Job
<1>2. IsInboundEdit(job[h].req) => job[h].req.inbound # u
  <2>1. CASE job[h].req \in Requests
    BY <2>1, RequestFields, ConstantsAssumption
  <2>2. CASE job[h].req = NoRequest
    BY <2>2 DEF NoRequest, IsInboundEdit, InboundKinds
  <2> QED
    BY <1>1, <2>1, <2>2
<1> QED
  BY <1>2 DEF Edits

LEMMA EditsAUserNext ==
  ASSUME TypeInv', NEW h \in Handlers, NEW u \in Users
  PROVE  Edits(h, u)' <=> IsUserEdit(job'[h].req) /\ job'[h].req.user = u
<1>1. job'[h].req \in Requests \cup {NoRequest}
  BY DEF TypeInv, TypeOK, Job
<1>2. IsInboundEdit(job'[h].req) => job'[h].req.inbound # u
  <2>1. CASE job'[h].req \in Requests
    BY <2>1, RequestFields, ConstantsAssumption
  <2>2. CASE job'[h].req = NoRequest
    BY <2>2 DEF NoRequest, IsInboundEdit, InboundKinds
  <2> QED
    BY <1>1, <2>1, <2>2
<1> QED
  BY <1>2 DEF Edits

\* The nodes a handler with locals j is going to push, when the database holds
\* row w and assignments a for its user.
Aimed(j, w, a) == TargetsOf(j.req, j.beforeNodes, a, j.before, w)

Planned(j, w, a) ==
  CASE j.pc \in {"committed", "reread"} -> Aimed(j, w, a)
    [] j.pc \in Syncing                -> j.todo
    [] OTHER                           -> {}

Owed(j, w, a) ==
  Planned(j, w, a) \cup
    (IF j.pc \in Syncing /\ j.phase = "apply" THEN j.failed ELSE {})

\* An update's targets are computed from the row read back, which is the row of
\* the database; the other edits do not look at the row.
LEMMA AimedFromMemory ==
  ASSUME NEW j, NEW l, NEW w, NEW a, Remembers(j, l, w, a), IsUserEdit(j.req),
         j.pc \in {"reread", "undo"} \cup Syncing, j.phase = "apply"
  PROVE  TargetsOf(j.req, j.beforeNodes, a, j.before, j.user) = Aimed(j, w, a)
<1>1. CASE IsUpdate(j.req)
  BY <1>1 DEF Remembers, Aimed
<1>2. CASE ~IsUpdate(j.req)
  BY <1>2, TargetsByKind DEF Aimed, IsUserEdit, IsUpdate, UserKinds, IsAccessEdit
<1> QED
  BY <1>1, <1>2

LEMMA PendingIsPlanned ==
  ASSUME TypeInv, NEW h \in Handlers, NEW u \in Users, NEW n, Edits(h, u),
         MemoryOf(h)
  PROVE  /\ Pending(h, n) <=> n \in Planned(job[h], row[u], access[u])
         /\ Owes(h, n) <=> n \in Owed(job[h], row[u], access[u])
<1> DEFINE j == job[h]  w == row[u]  a == access[u]
<1>1. IsUserEdit(j.req) /\ j.req.user = u
  BY EditsAUser
<1>2. Remembers(j, life[u], w, a)
  BY <1>1 DEF MemoryOf
<1>3. CASE j.pc = "committed"
  BY <1>1, <1>3 DEF Pending, Owes, Planned, Owed, Aimed, Syncing
<1>4. CASE j.pc = "reread"
  <2>1. j.phase = "apply"
    BY <1>2, <1>4 DEF Remembers, Syncing
  <2>2. TargetsOf(j.req, j.beforeNodes, a, j.before, j.user) = Aimed(j, w, a)
    BY <1>1, <1>2, <1>4, <2>1, AimedFromMemory
  <2> QED
    BY <1>1, <1>4, <2>2 DEF Pending, Owes, Planned, Owed, Syncing
<1>5. CASE j.pc \in Syncing
  BY <1>5 DEF Pending, Owes, Planned, Owed, Syncing
<1>6. CASE j.pc \notin {"committed", "reread"} \cup Syncing
  BY <1>6 DEF Pending, Owes, Planned, Owed, Syncing
<1> QED
  BY <1>3, <1>4, <1>5, <1>6

LEMMA PendingIsPlannedNext ==
  ASSUME TypeInv', NEW h \in Handlers, NEW u \in Users, NEW n, Edits(h, u)',
         MemoryOf(h)'
  PROVE  /\ Pending(h, n)' <=> n \in Planned(job'[h], row'[u], access'[u])
         /\ Owes(h, n)' <=> n \in Owed(job'[h], row'[u], access'[u])
<1> DEFINE j == job'[h]  w == row'[u]  a == access'[u]
<1>1. IsUserEdit(j.req) /\ j.req.user = u
  BY EditsAUserNext
<1>2. Remembers(j, life'[u], w, a)
  BY <1>1 DEF MemoryOf
<1>3. CASE j.pc = "committed"
  BY <1>1, <1>3 DEF Pending, Owes, Planned, Owed, Aimed, Syncing
<1>4. CASE j.pc = "reread"
  <2>1. j.phase = "apply"
    BY <1>2, <1>4 DEF Remembers, Syncing
  <2>2. TargetsOf(j.req, j.beforeNodes, a, j.before, j.user) = Aimed(j, w, a)
    BY <1>1, <1>2, <1>4, <2>1, AimedFromMemory
  <2> QED
    BY <1>1, <1>4, <2>2 DEF Pending, Owes, Planned, Owed, Syncing
<1>5. CASE j.pc \in Syncing
  BY <1>5 DEF Pending, Owes, Planned, Owed, Syncing
<1>6. CASE j.pc \notin {"committed", "reread"} \cup Syncing
  BY <1>6 DEF Pending, Owes, Planned, Owed, Syncing
<1> QED
  BY <1>3, <1>4, <1>5, <1>6

\* A step of one handler that leaves the rows of other handlers' users alone
\* changes nothing for the other editors.
OthersStay(g) ==
  /\ \A h \in Handlers \ {g} : job'[h] = job[h]
  /\ \A u \in Users : ~Edits(g, u) =>
       life'[u] = life[u] /\ row'[u] = row[u] /\ access'[u] = access[u]

LEMMA OtherEditors ==
  ASSUME TypeInv, TypeInv', OneEditor, NEW g \in Handlers, OthersStay(g),
         NEW h \in Handlers \ {g}, NEW u \in Users
  PROVE  /\ Edits(h, u)' <=> Edits(h, u)
         /\ Edits(h, u) => \A n :
              /\ Pending(h, n)' <=> Pending(h, n)
              /\ Owes(h, n)' <=> Owes(h, n)
<1>1. job'[h] = job[h]
  BY DEF OthersStay
<1>2. Edits(h, u)' <=> Edits(h, u)
  BY <1>1, EditsAUser, EditsAUserNext
<1>3. ASSUME Edits(h, u), NEW n
      PROVE  (Pending(h, n)' <=> Pending(h, n)) /\ (Owes(h, n)' <=> Owes(h, n))
  <2>1. IsUserEdit(job[h].req) /\ job[h].req.user = u
    BY <1>3, EditsAUser
  <2>2. row'[u] = row[u] /\ access'[u] = access[u]
    BY <1>3 DEF OneEditor, OthersStay
  <2>3. Pending(h, n)' <=> Pending(h, n)
    BY <1>1, <2>1, <2>2 DEF Pending, Syncing
  <2> QED
    BY <1>1, <2>3 DEF Owes
<1> QED
  BY <1>2, <1>3

LEMMA OtherMemories ==
  ASSUME TypeInv, TypeInv', OneEditor, Memory, NEW g \in Handlers, OthersStay(g),
         NEW h \in Handlers \ {g}
  PROVE  MemoryOf(h)'
<1> DEFINE u == job[h].req.user
<1>1. job'[h] = job[h]
  BY DEF OthersStay
<1> SUFFICES ASSUME IsUserEdit(job[h].req)
             PROVE  MemoryOf(h)'
  BY <1>1 DEF MemoryOf
<1>2. u \in Users /\ Edits(h, u)
  <2>1. job[h].req \in Requests
    BY TypeInvParts DEF Job, NoRequest, IsUserEdit, UserKinds
  <2> QED
    BY <2>1, RequestFields, EditsAUser
<1>3. life'[u] = life[u] /\ row'[u] = row[u] /\ access'[u] = access[u]
  BY <1>2 DEF OneEditor, OthersStay
<1> QED
  BY <1>1, <1>3 DEF Memory, MemoryOf

-----------------------------------------------------------------------------
(***************************************************************************)
(* Steps that push nothing.  They preserve the invariant when the handler  *)
(* neither forgets what it has to push nor changes what a node should      *)
(* serve without planning to push that node.                               *)
(***************************************************************************)

SameWant(n, u) ==
  /\ Allows(life[u], row[u], access[u], n) <=>
       Allows(life'[u], row'[u], access'[u], n)
  /\ Allows(life[u], row[u], access[u], n) => row'[u].name = row[u].name

Handover(g) ==
  \A u \in Users, n \in Nodes : Edits(g, u) =>
    /\ Owes(g, n) => (Edits(g, u) /\ Owes(g, n))' \/ <<n, u>> \in abandoned'
    /\ Pending(g, n) => (Edits(g, u) /\ Pending(g, n))' \/ <<n, u>> \in abandoned'

Announced(g) ==
  \A u \in Users, n \in Nodes : Edits(g, u) =>
    \/ SameWant(n, u)
    \/ (Edits(g, u) /\ Pending(g, n))'
    \/ <<n, u>> \in abandoned'

WantKept(n, u) ==
  /\ (u \in UsersForNode(n))' <=> u \in UsersForNode(n)
  /\ (WantUsers(n)[u])' = WantUsers(n)[u]

LEMMA SameWantKept ==
  ASSUME NEW n \in Nodes, NEW u \in Users, SameWant(n, u)
  PROVE  WantKept(n, u)
  BY WantAt, WantAtNext DEF SameWant, WantKept

LEMMA WantKeptOrPlanned ==
  ASSUME NEW g \in Handlers, OthersStay(g), Announced(g),
         NEW n \in Nodes, NEW u \in Users
  PROVE  \/ WantKept(n, u)
         \/ (Edits(g, u) /\ Pending(g, n))'
         \/ <<n, u>> \in abandoned'
<1>1. CASE Edits(g, u)
  BY <1>1, SameWantKept DEF Announced
<1>2. CASE ~Edits(g, u)
  <2>1. SameWant(n, u)
    BY <1>2 DEF OthersStay, SameWant
  <2> QED
    BY <2>1, SameWantKept
<1> QED
  BY <1>1, <1>2

LEMMA QuietFresh ==
  ASSUME IInv, TypeInv', NEW g \in Handlers, OthersStay(g), Announced(g),
         Handover(g), abandoned \subseteq abandoned', NEW h \in Handlers \ {g}
  PROVE  FreshFor(h)'
<1>1. job'[h] = job[h]
  BY DEF OthersStay
<1> SUFFICES ASSUME NEW u \in Users, NEW n \in Nodes, job[h].node = n
             PROVE
      /\ job[h].pc \in {"allowed", "listed", "generated"} =>
           \/ u \in job[h].ids <=> (u \in UsersForNode(n))'
           \/ Excused(h, n, u)'
      /\ job[h].pc \in {"listed", "generated"} =>
           \/ GeneratedUsers(job[h].ids, job[h].names)[u] = (WantUsers(n)[u])'
           \/ Excused(h, n, u)'
  BY <1>1 DEF FreshFor
<1>2. FreshFor(h)
  BY DEF IInv, Fresh
<1>3. Excused(h, n, u) => Excused(h, n, u)'
  <2> SUFFICES ASSUME Excused(h, n, u) PROVE Excused(h, n, u)'
    OBVIOUS
  <2>1. CASE <<n, u>> \in abandoned
    BY <2>1 DEF Excused
  <2>2. ASSUME NEW k \in Handlers \ {h}, Edits(k, u), Pending(k, n)
        PROVE  Excused(h, n, u)'
    <3>1. CASE k = g
      BY <2>2, <3>1 DEF Handover, Excused
    <3>2. CASE k # g
      <4>1. Edits(k, u)' /\ Pending(k, n)'
        BY <2>2, <3>2, OtherEditors DEF IInv
      <4> QED
        BY <2>2, <4>1 DEF Excused
    <3> QED
      BY <3>1, <3>2
  <2> QED
    BY <2>1, <2>2 DEF Excused
<1>4. WantKept(n, u) \/ Excused(h, n, u)'
  BY WantKeptOrPlanned DEF Excused
<1> QED
  BY <1>2, <1>3, <1>4 DEF FreshFor, WantKept

LEMMA QuietNodes ==
  ASSUME IInv, TypeInv', NEW g \in Handlers, OthersStay(g), Announced(g),
         Handover(g), abandoned \subseteq abandoned', served' = served
  PROVE  NodesFollow'
<1> SUFFICES ASSUME NEW n \in Nodes, NEW u \in Users
             PROVE  \/ UserInStep(n, u)'
                    \/ <<n, u>> \in abandoned'
                    \/ \E h \in Handlers : Edits(h, u)' /\ Owes(h, n)'
  BY DEF NodesFollow
<1>1. CASE UserInStep(n, u)
  <2>1. WantKept(n, u) => UserInStep(n, u)'
    BY <1>1 DEF UserInStep, WantKept
  <2> QED
    BY <2>1, WantKeptOrPlanned DEF Owes
<1>2. CASE <<n, u>> \in abandoned
  BY <1>2
<1>3. ASSUME NEW h \in Handlers, Edits(h, u), Owes(h, n)
      PROVE  \/ <<n, u>> \in abandoned'
             \/ \E k \in Handlers : Edits(k, u)' /\ Owes(k, n)'
  <2>1. CASE h = g
    BY <1>3, <2>1 DEF Handover
  <2>2. CASE h # g
    <3>1. Edits(h, u)' /\ Owes(h, n)'
      BY <1>3, <2>2, OtherEditors DEF IInv
    <3> QED
      BY <3>1
  <2> QED
    BY <2>1, <2>2
<1> QED
  BY <1>1, <1>2, <1>3 DEF IInv, NodesFollow

\* All of it together.
LEMMA QuietStep ==
  ASSUME IInv, TypeInv', NEW g \in Handlers, OthersStay(g), Announced(g),
         Handover(g), abandoned \subseteq abandoned', served' = served,
         LocksExclude', NewUsersHaveNoAccess', MemoryOf(g)', FreshFor(g)',
         \A u \in Users : Edits(g, u)' =>
           Edits(g, u) \/ \A h \in Handlers : ~Edits(h, u)
  PROVE  IInv'
<1>1. OneEditor'
  <2> SUFFICES ASSUME NEW h \in Handlers, NEW k \in Handlers, NEW u \in Users,
                      Edits(h, u)', Edits(k, u)', h # k
               PROVE  FALSE
    BY DEF OneEditor
  <2>1. \A i \in Handlers \ {g} : Edits(i, u)' <=> Edits(i, u)
    BY OtherEditors DEF IInv
  <2> QED
    BY <2>1 DEF IInv, OneEditor
<1>2. Memory'
  BY OtherMemories DEF IInv, Memory
<1>3. Fresh'
  BY QuietFresh DEF Fresh
<1>4. NodesFollow'
  BY QuietNodes
<1> QED
  BY <1>1, <1>2, <1>3, <1>4 DEF IInv

-----------------------------------------------------------------------------
(***************************************************************************)
(* The steps that write neither to the database nor to a node.             *)
(***************************************************************************)

Reading == {"allowed", "listed", "generated"}

LEMMA StillStep ==
  ASSUME IInv, TypeInv', NEW g \in Handlers,
         \A h \in Handlers \ {g} : job'[h] = job[h],
         life' = life, row' = row, access' = access, served' = served,
         abandoned \subseteq abandoned', Handover(g),
         LocksExclude', MemoryOf(g)', FreshFor(g)',
         \A u \in Users : Edits(g, u)' =>
           Edits(g, u) \/ \A h \in Handlers : ~Edits(h, u)
  PROVE  IInv'
<1>1. OthersStay(g)
  BY DEF OthersStay
<1>2. Announced(g)
  BY DEF Announced, SameWant
<1>3. NewUsersHaveNoAccess'
  BY DEF IInv, NewUsersHaveNoAccess
<1> QED
  BY <1>1, <1>2, <1>3, QuietStep

\* Nothing is being generated by a handler outside the queries.
LEMMA NothingRead ==
  ASSUME NEW g \in Handlers, job'[g].pc \notin Reading
  PROVE  FreshFor(g)'
  BY DEF FreshFor, Reading

LEMMA LocksKept ==
  ASSUME IInv, TypeInv', NEW g \in Handlers, lock' = lock,
         \A h \in Handlers \ {g} : job'[h] = job[h],
         job'[g].node \in {job[g].node, None}
  PROVE  LocksExclude'
  BY DEF IInv, LocksExclude

\* Before its commit, and after its last push, a handler owes nothing.
Free(g) ==
  \/ job[g].pc \in {"idle", "loaded", "ready", "undo"}
  \/ SyncDone(g) /\ (job[g].phase = "restore" \/ job[g].failed = {})

LEMMA FreeOwesNothing ==
  ASSUME TypeInv, NEW g \in Handlers, Free(g)
  PROVE  \A n : ~Pending(g, n) /\ ~Owes(g, n)
  BY TypeInvParts DEF Free, SyncDone, Pending, Owes, Syncing, Job

LEMMA FreeHandover ==
  ASSUME TypeInv, NEW g \in Handlers, Free(g)
  PROVE  Handover(g)
  BY FreeOwesNothing DEF Handover

\* An idle handler edits nobody.
LEMMA IdleEdits ==
  ASSUME NEW g \in Handlers, job'[g] = Idle, TypeInv'
  PROVE  /\ \A u \in Users : ~Edits(g, u)'
         /\ MemoryOf(g)' /\ FreshFor(g)' /\ job'[g].node = None
  BY EditsAUserNext, NothingRead
  DEF Idle, NoRequest, IsUserEdit, UserKinds, MemoryOf, Reading

LEMMA BeginStep ==
  ASSUME OneEditPerUser, IInv, TypeInv',
         NEW g \in Handlers, NEW r \in Requests, Begin(g, r)
  PROVE  IInv'
<1>1. /\ job[g].pc = "idle" /\ job \in [Handlers -> Job] /\ TypeInv
      /\ IsUserEdit(r) => \A h \in Handlers : ~Edits(h, r.user)
  BY DEF Begin, IInv, TypeInv, TypeOK
<1>2. /\ \A h \in Handlers \ {g} : job'[h] = job[h]
      /\ job'[g].req = r /\ job'[g].pc \in {"loaded", "ready", "sync"}
      /\ job'[g].node = None
  <2>1. PICK j : /\ job' = [job EXCEPT ![g] = j]
                 /\ \/ j = [Idle EXCEPT !.pc = "loaded", !.req = r,
                                         !.before = row[r.user]]
                    \/ j = [Idle EXCEPT !.pc = "ready", !.req = r,
                                         !.beforeNodes = access[r.user]]
                    \/ j = [Idle EXCEPT !.pc = "ready", !.req = r,
                                         !.inboundWas = inbound[r.inbound]]
                    \/ j = [Idle EXCEPT !.pc = "sync", !.req = r,
                                         !.targets = r.nodes, !.todo = r.nodes]
    BY Zenon DEF Begin
  <2>2. j.req = r /\ j.pc \in {"loaded", "ready", "sync"} /\ j.node = None
    BY <2>1 DEF Idle
  <2> QED
    BY <1>1, <2>1, <2>2
<1>3. life' = life /\ row' = row /\ access' = access /\ served' = served
      /\ abandoned' = abandoned /\ lock' = lock
  BY DEF Begin, database, nodes
<1>4. MemoryOf(g)'
  <2> SUFFICES ASSUME IsUserEdit(r)
               PROVE  Remembers(job'[g], life[r.user], row[r.user], access[r.user])
    BY <1>2, <1>3 DEF MemoryOf
  <2>1. ~IsInboundEdit(r) /\ r.kind # "push"
    BY DEF IsUserEdit, IsInboundEdit, UserKinds, InboundKinds
  <2>2. CASE IsAccessEdit(r)
    <3>1. job'[g] = [Idle EXCEPT !.pc = "ready", !.req = r,
                                 !.beforeNodes = access[r.user]]
      BY <1>1, <2>1, <2>2 DEF Begin
    <3> QED
      BY <2>2, <3>1 DEF Remembers, Idle, Syncing
  <2>3. CASE ~IsAccessEdit(r)
    <3>1. /\ life[r.user] = "live"
          /\ job'[g] = [Idle EXCEPT !.pc = "loaded", !.req = r,
                                    !.before = row[r.user]]
      BY <1>1, <2>1, <2>3 DEF Begin
    <3> QED
      BY <2>3, <3>1 DEF Remembers, Idle, Syncing
  <2> QED
    BY <2>2, <2>3
<1>5. FreshFor(g)' /\ LocksExclude'
  BY <1>2, <1>3, NothingRead, LocksKept DEF Reading
<1>6. Handover(g)
  BY <1>1, FreeHandover DEF Free
<1>7. \A u \in Users : Edits(g, u)' =>
        Edits(g, u) \/ \A h \in Handlers : ~Edits(h, u)
  BY <1>1, <1>2, EditsAUserNext
<1> QED
  BY <1>2, <1>3, <1>4, <1>5, <1>6, <1>7, StillStep

LEMMA ReadAssignmentsStep ==
  ASSUME IInv, TypeInv', NEW g \in Handlers, ReadAssignments(g)
  PROVE  IInv'
<1> DEFINE r == job[g].req
<1>1. /\ job[g].pc = "loaded" /\ job \in [Handlers -> Job] /\ TypeInv
      /\ job[g].node = None /\ IsUserEdit(r)
  BY TypeInvParts DEF ReadAssignments, IInv, TypeInv, TypeOK, JobOK, Generating
<1>2. job' = [job EXCEPT ![g] = [job[g] EXCEPT !.pc = "ready",
                                    !.beforeNodes = access[r.user]]]
  BY DEF ReadAssignments
<1>3. life' = life /\ row' = row /\ access' = access /\ served' = served
      /\ abandoned' = abandoned /\ lock' = lock
  BY DEF ReadAssignments, database, nodes
<1>4. /\ \A h \in Handlers \ {g} : job'[h] = job[h]
      /\ job'[g].req = r /\ job'[g].pc = "ready" /\ job'[g].node = None
      /\ job'[g].beforeNodes = access[r.user] /\ job'[g].before = job[g].before
      /\ job'[g].phase = job[g].phase
      /\ job'[g].todo = job[g].todo /\ job'[g].failed = job[g].failed
  BY <1>1, <1>2 DEF Job
<1>5. MemoryOf(g)'
  <2>1. Remembers(job[g], life[r.user], row[r.user], access[r.user])
    BY <1>1 DEF IInv, Memory, MemoryOf
  <2>2. Remembers(job'[g], life[r.user], row[r.user], access[r.user])
    BY <1>1, <1>4, <2>1 DEF Remembers, Syncing
  <2> QED
    BY <1>3, <1>4, <2>2 DEF MemoryOf
<1>6. FreshFor(g)' /\ LocksExclude'
  BY <1>3, <1>4, NothingRead, LocksKept DEF Reading
<1>7. \A u \in Users : Edits(g, u)' => Edits(g, u)
  BY <1>1, <1>4, EditsAUserNext, EditsAUser
<1>8. Handover(g)
  BY <1>1, FreeHandover DEF Free
<1> QED
  BY <1>3, <1>4, <1>5, <1>6, <1>7, <1>8, StillStep

LEMMA ReturnKeepsLocks ==
  ASSUME IInv, TypeInv', NEW g \in Handlers, Return(g), lock' = lock
  PROVE  /\ \A h \in Handlers \ {g} : job'[h] = job[h]
         /\ job'[g] = Idle /\ LocksExclude' /\ MemoryOf(g)' /\ FreshFor(g)'
         /\ \A u \in Users : ~Edits(g, u)'
<1>1. /\ \A h \in Handlers \ {g} : job'[h] = job[h]
      /\ job'[g] = Idle
  BY DEF Return, IInv, TypeInv, TypeOK
<1>2. /\ \A u \in Users : ~Edits(g, u)'
      /\ MemoryOf(g)' /\ FreshFor(g)' /\ job'[g].node = None
  BY <1>1, IdleEdits
<1> QED
  BY <1>1, <1>2, LocksKept

LEMMA ReturnStep ==
  ASSUME IInv, TypeInv', NEW g \in Handlers, Free(g), Return(g),
         UNCHANGED <<database, nodes, lock, abandoned>>
  PROVE  IInv'
<1>1. Handover(g)
  BY FreeHandover DEF IInv
<1> QED
  BY <1>1, ReturnKeepsLocks, StillStep DEF database, nodes

LEMMA RefuseStep ==
  ASSUME IInv, TypeInv', NEW g \in Handlers, Refuse(g)
  PROVE  IInv'
  BY ReturnStep DEF Refuse, Free

LEMMA PushEditsNobody ==
  ASSUME TypeInv, NEW g \in Handlers, job[g].req.kind = "push"
  PROVE  \A u \in Users : ~Edits(g, u)
  BY EditsAUser DEF IsUserEdit, UserKinds

LEMMA AnswerStep ==
  ASSUME IInv, TypeInv', NEW g \in Handlers, Answer(g)
  PROVE  IInv'
<1>1. Return(g) /\ UNCHANGED <<database, nodes, lock, abandoned>>
  BY DEF Answer
<1>2. CASE Free(g)
  BY <1>1, <1>2, ReturnStep
<1>3. CASE job[g].req.kind = "push"
  <2>1. Handover(g)
    BY <1>3, PushEditsNobody DEF Handover, IInv
  <2> QED
    BY <1>1, <2>1, ReturnKeepsLocks, StillStep DEF database, nodes
<1> QED
  BY <1>2, <1>3 DEF Answer, Free, Succeeded, RolledBack

\* A handler keeps what it has to push when its plans only grow.
LEMMA PlannedHandover ==
  ASSUME TypeInv, TypeInv', NEW g \in Handlers, MemoryOf(g), MemoryOf(g)',
         job'[g].req = job[g].req,
         \A u \in Users : Edits(g, u) =>
           /\ Planned(job[g], row[u], access[u])
                \subseteq Planned(job'[g], row'[u], access'[u])
           /\ Owed(job[g], row[u], access[u])
                \subseteq Owed(job'[g], row'[u], access'[u])
  PROVE  Handover(g)
<1> SUFFICES ASSUME NEW u \in Users, NEW n \in Nodes, Edits(g, u)
             PROVE  /\ Owes(g, n) => (Edits(g, u) /\ Owes(g, n))'
                    /\ Pending(g, n) => (Edits(g, u) /\ Pending(g, n))'
  BY DEF Handover
<1>1. Edits(g, u)'
  BY EditsAUser, EditsAUserNext
<1> QED
  BY <1>1, PendingIsPlanned, PendingIsPlannedNext

\* A handler that only reads, and whose plans only grow.
LEMMA ReadStep ==
  ASSUME IInv, TypeInv', NEW g \in Handlers, NEW j,
         job' = [job EXCEPT ![g] = j], j.req = job[g].req,
         UNCHANGED <<database, nodes, abandoned>>, LocksExclude', FreshFor(g)',
         NEW u, u = j.req.user,
         IsUserEdit(j.req) =>
           /\ Remembers(j, life[u], row[u], access[u])
           /\ Planned(job[g], row[u], access[u])
                \subseteq Planned(j, row[u], access[u])
           /\ Owed(job[g], row[u], access[u]) \subseteq Owed(j, row[u], access[u])
  PROVE  IInv'
<1>1. /\ \A h \in Handlers \ {g} : job'[h] = job[h]
      /\ job'[g] = j
  BY DEF IInv, TypeInv, TypeOK
<1>2. life' = life /\ row' = row /\ access' = access /\ served' = served
      /\ abandoned' = abandoned
  BY DEF database, nodes
<1>3. MemoryOf(g) /\ MemoryOf(g)'
  BY <1>1, <1>2 DEF IInv, Memory, MemoryOf
<1>4. \A v \in Users : Edits(g, v)' <=> Edits(g, v)
  BY <1>1, EditsAUser, EditsAUserNext DEF IInv
<1>5. Handover(g)
  <2>1. ASSUME NEW v \in Users, Edits(g, v)
        PROVE  /\ Planned(job[g], row[v], access[v])
                    \subseteq Planned(job'[g], row'[v], access'[v])
               /\ Owed(job[g], row[v], access[v])
                    \subseteq Owed(job'[g], row'[v], access'[v])
    <3>1. v = u /\ IsUserEdit(j.req)
      BY <2>1, EditsAUser DEF IInv
    <3> QED
      BY <1>1, <1>2, <3>1
  <2> QED
    BY <1>1, <1>3, <2>1, PlannedHandover DEF IInv
<1> QED
  BY <1>1, <1>2, <1>3, <1>4, <1>5, StillStep

LEMMA ReloadStep ==
  ASSUME IInv, TypeInv', NEW g \in Handlers, Reload(g)
  PROVE  IInv'
<1> DEFINE r == job[g].req
           u == r.user
           targets == TargetsOf(r, job[g].beforeNodes, {}, NoRow, NoRow)
<1>1. /\ job[g].pc = "committed" /\ job[g] \in Job /\ TypeInv
      /\ job[g].node = None /\ job \in [Handlers -> Job]
  BY TypeInvParts DEF Reload, IInv, TypeInv, TypeOK, JobOK, Generating
<1>2. UNCHANGED <<database, nodes, abandoned>> /\ lock' = lock
  BY DEF Reload
<1>3. IsUserEdit(r) => Remembers(job[g], life[u], row[u], access[u])
  BY DEF IInv, Memory, MemoryOf
<1>4. CASE IsUpdate(r)
  <2>1. PICK j : /\ j = [job[g] EXCEPT !.pc = "reread", !.user = row[u]]
                 /\ job' = [job EXCEPT ![g] = j]
    BY <1>1, <1>4 DEF Reload
  <2>2. /\ j.pc = "reread" /\ j.req = r /\ j.node = None /\ j.user = row[u]
        /\ j.phase = job[g].phase /\ j.todo = job[g].todo
        /\ j.failed = job[g].failed /\ j.beforeNodes = job[g].beforeNodes
        /\ j.before = job[g].before
    BY <1>1, <2>1 DEF Job
  <2>3. /\ IsUserEdit(r) => Remembers(j, life[u], row[u], access[u])
    BY <1>1, <1>3, <1>4, <2>2 DEF Remembers, Syncing
  <2>4. /\ Planned(job[g], row[u], access[u])
             \subseteq Planned(j, row[u], access[u])
        /\ Owed(job[g], row[u], access[u]) \subseteq Owed(j, row[u], access[u])
    BY <1>1, <2>2 DEF Planned, Owed, Aimed, Syncing
  <2>5. LocksExclude' /\ FreshFor(g)'
    BY <1>1, <1>2, <2>1, <2>2, LocksKept, NothingRead DEF Reading
  <2> QED
    BY <1>2, <2>1, <2>2, <2>3, <2>4, <2>5, ReadStep
<1>5. CASE ~IsUpdate(r)
  <2>1. PICK j : /\ j = [job[g] EXCEPT !.pc = "sync", !.targets = targets,
                                        !.todo = targets]
                 /\ job' = [job EXCEPT ![g] = j]
    BY <1>1, <1>5 DEF Reload
  <2>2. /\ j.pc = "sync" /\ j.req = r /\ j.node = None /\ j.user = job[g].user
        /\ j.phase = job[g].phase /\ j.todo = targets /\ j.targets = targets
        /\ j.failed = job[g].failed /\ j.beforeNodes = job[g].beforeNodes
        /\ j.before = job[g].before
    BY <1>1, <2>1 DEF Job
  <2>3. ASSUME IsUserEdit(r)
        PROVE  /\ r.kind \in {"delete", "reset"}
               /\ targets = job[g].beforeNodes
               /\ TargetsOf(r, job[g].beforeNodes, access[u], job[g].before,
                            job[g].user) = job[g].beforeNodes
               /\ Aimed(job[g], row[u], access[u]) = job[g].beforeNodes
    <3>1. r.kind \in {"delete", "reset"}
      BY <1>1, <1>3, <1>5, <2>3
      DEF Remembers, IsUserEdit, UserKinds, IsUpdate, IsAccessEdit
    <3> QED
      BY <3>1, TargetsByKind DEF Aimed
  <2>4. ASSUME IsUserEdit(r) PROVE Remembers(j, life[u], row[u], access[u])
    BY <1>1, <1>3, <1>5, <2>2, <2>3, <2>4 DEF Remembers, Syncing
  <2>5. ASSUME IsUserEdit(r)
        PROVE  /\ Planned(job[g], row[u], access[u]) = Planned(j, row[u], access[u])
               /\ Owed(job[g], row[u], access[u])
                    \subseteq Owed(j, row[u], access[u])
    BY <1>1, <2>2, <2>3, <2>5 DEF Planned, Owed, Syncing
  <2>6. LocksExclude' /\ FreshFor(g)'
    BY <1>1, <1>2, <2>1, <2>2, LocksKept, NothingRead DEF Reading
  <2> QED
    BY ZenonT(30), <1>2, <2>1, <2>2, <2>4, <2>5, <2>6, ReadStep
<1> QED
  BY <1>4, <1>5

LEMMA AimStep ==
  ASSUME IInv, TypeInv', NEW g \in Handlers, Aim(g)
  PROVE  IInv'
<1> DEFINE r == job[g].req
           u == r.user
           targets == TargetsOf(r, job[g].beforeNodes, access[u], job[g].before,
                                job[g].user)
<1>1. /\ job[g].pc = "reread" /\ job[g] \in Job /\ TypeInv
      /\ job[g].node = None /\ job \in [Handlers -> Job] /\ IsUserEdit(r)
  BY TypeInvParts DEF Aim, IInv, TypeInv, TypeOK, JobOK, Generating
<1>2. UNCHANGED <<database, nodes, abandoned>> /\ lock' = lock
  BY DEF Aim
<1>3. Remembers(job[g], life[u], row[u], access[u])
  BY <1>1 DEF IInv, Memory, MemoryOf
<1>4. PICK j : /\ j = [job[g] EXCEPT !.pc = "sync", !.targets = targets,
                                      !.todo = targets]
               /\ job' = [job EXCEPT ![g] = j]
  BY <1>1 DEF Aim
<1>5. /\ j.pc = "sync" /\ j.req = r /\ j.node = None /\ j.user = job[g].user
      /\ j.phase = job[g].phase /\ j.todo = targets /\ j.targets = targets
      /\ j.failed = job[g].failed /\ j.beforeNodes = job[g].beforeNodes
      /\ j.before = job[g].before
  BY <1>1, <1>4 DEF Job
<1>6. job[g].phase = "apply" /\ job[g].failed = {}
  BY <1>1, <1>3 DEF Remembers, Syncing
<1>7. r.kind \notin {"delete", "reset"}
  BY <1>1, <1>3 DEF Remembers, IsUpdate, IsAccessEdit
<1>8. Remembers(j, life[u], row[u], access[u])
  BY <1>1, <1>3, <1>5, <1>6, <1>7 DEF Remembers, Syncing
<1>9. Aimed(job[g], row[u], access[u]) = targets
  BY <1>1, <1>3, <1>6, AimedFromMemory
<1>10. /\ Planned(job[g], row[u], access[u]) = Planned(j, row[u], access[u])
       /\ Owed(job[g], row[u], access[u]) \subseteq Owed(j, row[u], access[u])
  BY <1>1, <1>5, <1>9 DEF Planned, Owed, Syncing
<1>11. LocksExclude' /\ FreshFor(g)'
  BY <1>1, <1>2, <1>4, <1>5, LocksKept, NothingRead DEF Reading
<1> QED
  BY ZenonT(30), <1>2, <1>4, <1>5, <1>8, <1>10, <1>11, ReadStep

\* Only the lock holder works on a node: a lock that is free, or becomes so, is
\* nobody's.
LEMMA TakeLockStep ==
  ASSUME IInv, TypeInv', NEW g \in Handlers, NEW n \in Nodes, TakeLock(g, n)
  PROVE  IInv'
<1> DEFINE r == job[g].req
           u == r.user
<1>1. /\ job[g].pc = "sync" /\ job[g] \in Job /\ TypeInv /\ lock[n] = None
      /\ job \in [Handlers -> Job] /\ lock \in [Nodes -> Handlers \cup {None}]
  BY TypeInvParts DEF TakeLock, IInv, TypeInv, TypeOK
<1>2. UNCHANGED <<database, nodes, abandoned>> /\ lock' = [lock EXCEPT ![n] = g]
  BY DEF TakeLock
<1>3. IsUserEdit(r) => Remembers(job[g], life[u], row[u], access[u])
  BY DEF IInv, Memory, MemoryOf
<1>4. PICK j : /\ j = [job[g] EXCEPT !.pc = "locked", !.node = n]
               /\ job' = [job EXCEPT ![g] = j]
  BY <1>1 DEF TakeLock
<1>5. /\ j.pc = "locked" /\ j.req = r /\ j.node = n /\ j.user = job[g].user
      /\ j.phase = job[g].phase /\ j.todo = job[g].todo
      /\ j.targets = job[g].targets
      /\ j.failed = job[g].failed /\ j.beforeNodes = job[g].beforeNodes
      /\ j.before = job[g].before
  BY <1>1, <1>4 DEF Job
<1>6. IsUserEdit(r) => Remembers(j, life[u], row[u], access[u])
  BY <1>1, <1>3, <1>5 DEF Remembers, Syncing
<1>7. /\ Planned(job[g], row[u], access[u]) \subseteq Planned(j, row[u], access[u])
      /\ Owed(job[g], row[u], access[u]) \subseteq Owed(j, row[u], access[u])
  BY <1>1, <1>5 DEF Planned, Owed, Syncing
<1>8. LocksExclude'
  <2> SUFFICES ASSUME NEW h \in Handlers, job'[h].node # None
               PROVE  lock'[job'[h].node] = h
    BY DEF LocksExclude
  <2>1. CASE h = g
    BY <1>1, <1>2, <1>4, <1>5, <2>1
  <2>2. CASE h # g
    <3>1. job'[h] = job[h] /\ lock[job[h].node] = h
      BY <1>1, <1>4, <2>2 DEF IInv, LocksExclude
    <3>2. job[h].node # n
      BY <1>1, <3>1, ConstantsAssumption
    <3> QED
      BY <1>1, <1>2, <3>1, <3>2
  <2> QED
    BY <2>1, <2>2
<1>9. FreshFor(g)'
  BY <1>1, <1>4, <1>5, NothingRead DEF Reading
<1> QED
  BY ZenonT(30), <1>2, <1>4, <1>5, <1>6, <1>7, <1>8, <1>9, ReadStep

\* The queries of generateConfig: nothing but the handler's notes changes.
KeepsPlans(g, j) ==
  /\ j.req = job[g].req /\ j.node = job[g].node /\ j.user = job[g].user
  /\ j.phase = job[g].phase /\ j.todo = job[g].todo
  /\ j.targets = job[g].targets /\ j.failed = job[g].failed
  /\ j.beforeNodes = job[g].beforeNodes /\ j.before = job[g].before

LEMMA QueryStep ==
  ASSUME IInv, TypeInv', NEW g \in Handlers, NEW n \in Nodes, NEW j,
         job' = [job EXCEPT ![g] = j],
         job[g].pc \in Generating, j.pc \in Generating,
         KeepsPlans(g, j),
         UNCHANGED <<database, nodes, lock, abandoned>>, FreshFor(g)'
  PROVE  IInv'
<1> DEFINE r == job[g].req
           u == r.user
<1>1. /\ job[g] \in Job /\ TypeInv /\ job \in [Handlers -> Job]
      /\ IsUserEdit(r) => Remembers(job[g], life[u], row[u], access[u])
  BY TypeInvParts DEF IInv, TypeInv, TypeOK, Memory, MemoryOf
<1>2. /\ j.req = r /\ j.node = job[g].node /\ j.user = job[g].user
      /\ j.phase = job[g].phase /\ j.todo = job[g].todo
      /\ j.targets = job[g].targets
      /\ j.failed = job[g].failed /\ j.beforeNodes = job[g].beforeNodes
      /\ j.before = job[g].before
  BY DEF KeepsPlans
<1>3. IsUserEdit(r) => Remembers(j, life[u], row[u], access[u])
  BY <1>1, <1>2 DEF Remembers, Syncing, Generating
<1>4. /\ Planned(job[g], row[u], access[u]) \subseteq Planned(j, row[u], access[u])
      /\ Owed(job[g], row[u], access[u]) \subseteq Owed(j, row[u], access[u])
  BY <1>2 DEF Planned, Owed, Syncing, Generating
<1>5. LocksExclude'
  BY <1>1, <1>2, LocksKept
<1>6. UNCHANGED <<database, nodes, abandoned>> /\ j.req = r
  BY <1>2
<1>7. job' = [job EXCEPT ![g] = j] /\ FreshFor(g)'
  OBVIOUS
<1> HIDE DEF r, u
<1> QED
  BY <1>3, <1>4, <1>5, <1>6, <1>7, ReadStep DEF r, u

\* What excuses a handler stays while it moves alone.
LEMMA ExcusedKept ==
  ASSUME TypeInv, TypeInv', OneEditor, NEW g \in Handlers, OthersStay(g),
         abandoned \subseteq abandoned', NEW n, NEW u \in Users, Excused(g, n, u)
  PROVE  Excused(g, n, u)'
  BY OtherEditors DEF Excused

LEMMA QueryAllowedStep ==
  ASSUME IInv, TypeInv', NEW g \in Handlers, NEW n \in Nodes, QueryAllowed(g, n)
  PROVE  IInv'
<1>1. /\ job[g].pc = "locked" /\ job[g].node = n /\ job[g] \in Job
      /\ job \in [Handlers -> Job]
  BY TypeInvParts DEF QueryAllowed, IInv, TypeInv, TypeOK
<1>2. UNCHANGED <<database, nodes, lock, abandoned>>
  BY DEF QueryAllowed
<1>3. PICK j : /\ j = [job[g] EXCEPT !.pc = "allowed", !.ids = UsersForNode(n)]
               /\ job' = [job EXCEPT ![g] = j]
  BY <1>1 DEF QueryAllowed
<1>4. /\ j.pc = "allowed" /\ j.node = n /\ j.ids = UsersForNode(n)
      /\ j.names = job[g].names
      /\ KeepsPlans(g, j)
  BY <1>1, <1>3 DEF Job, KeepsPlans
<1>5. job'[g] = j
  BY <1>1, <1>3
<1>6. FreshFor(g)'
  <2>1. UsersForNode(n)' = UsersForNode(n)
    BY <1>2 DEF UsersForNode, database
  <2> QED
    BY <1>4, <1>5, <2>1 DEF FreshFor
<1> QED
  BY <1>1, <1>2, <1>3, <1>4, <1>6, QueryStep DEF Generating

LEMMA QueryUsersStep ==
  ASSUME IInv, TypeInv', NEW g \in Handlers, NEW n \in Nodes, QueryUsers(g, n)
  PROVE  IInv'
<1>1. /\ job[g].pc = "allowed" /\ job[g].node = n /\ job[g] \in Job
      /\ job \in [Handlers -> Job] /\ TypeInv /\ OneEditor /\ FreshFor(g)
  BY TypeInvParts DEF QueryUsers, IInv, TypeInv, TypeOK, Fresh
<1>2. UNCHANGED <<database, nodes, lock, abandoned>>
  BY DEF QueryUsers
<1>3. PICK j : /\ j = [job[g] EXCEPT !.pc = "listed", !.names = ListEnabled]
               /\ job' = [job EXCEPT ![g] = j]
  BY <1>1 DEF QueryUsers
<1>4. /\ j.pc = "listed" /\ j.node = n /\ j.ids = job[g].ids
      /\ j.names = ListEnabled
      /\ KeepsPlans(g, j)
  BY <1>1, <1>3 DEF Job, KeepsPlans
<1>5. job'[g] = j /\ OthersStay(g)
  BY <1>1, <1>2, <1>3 DEF OthersStay, database
<1>6. FreshFor(g)'
  <2> SUFFICES ASSUME NEW u \in Users
               PROVE  /\ \/ u \in j.ids <=> u \in UsersForNode(n)'
                         \/ Excused(g, n, u)'
                      /\ \/ GeneratedUsers(j.ids, j.names)[u] = WantUsers(n)'[u]
                         \/ Excused(g, n, u)'
    BY <1>4, <1>5 DEF FreshFor
  <2>1. UsersForNode(n)' = UsersForNode(n) /\ WantUsers(n)' = WantUsers(n)
    BY <1>2 DEF UsersForNode, WantUsers, ListEnabled, database
  <2>2. \/ u \in j.ids <=> u \in UsersForNode(n)
        \/ Excused(g, n, u)
    BY <1>1, <1>4 DEF FreshFor
  <2>3. Excused(g, n, u) => Excused(g, n, u)'
    BY <1>1, <1>2, <1>5, ExcusedKept
  <2>4. (u \in j.ids <=> u \in UsersForNode(n)) =>
          GeneratedUsers(j.ids, j.names)[u] = WantUsers(n)[u]
    BY <1>4 DEF GeneratedUsers, WantUsers
  <2> QED
    BY <2>1, <2>2, <2>3, <2>4
<1> QED
  BY <1>1, <1>2, <1>3, <1>4, <1>6, QueryStep DEF Generating

LEMMA QueryInboundsStep ==
  ASSUME IInv, TypeInv', NEW g \in Handlers, NEW n \in Nodes, QueryInbounds(g, n)
  PROVE  IInv'
<1>1. /\ job[g].pc = "listed" /\ job[g].node = n /\ job[g] \in Job
      /\ job \in [Handlers -> Job] /\ TypeInv /\ OneEditor /\ FreshFor(g)
  BY TypeInvParts DEF QueryInbounds, IInv, TypeInv, TypeOK, Fresh
<1>2. UNCHANGED <<database, nodes, lock, abandoned>>
  BY DEF QueryInbounds
<1>3. PICK j : /\ j = [job[g] EXCEPT !.pc = "generated",
                                      !.settings = ListInbounds(n)]
               /\ job' = [job EXCEPT ![g] = j]
  BY <1>1 DEF QueryInbounds
<1>4. /\ j.pc = "generated" /\ j.node = n /\ j.ids = job[g].ids
      /\ j.names = job[g].names
      /\ KeepsPlans(g, j)
  BY <1>1, <1>3 DEF Job, KeepsPlans
<1>5. job'[g] = j /\ OthersStay(g)
  BY <1>1, <1>2, <1>3 DEF OthersStay, database
<1>6. FreshFor(g)'
  <2> SUFFICES ASSUME NEW u \in Users
               PROVE  /\ \/ u \in j.ids <=> u \in UsersForNode(n)'
                         \/ Excused(g, n, u)'
                      /\ \/ GeneratedUsers(j.ids, j.names)[u] = WantUsers(n)'[u]
                         \/ Excused(g, n, u)'
    BY <1>4, <1>5 DEF FreshFor
  <2>1. UsersForNode(n)' = UsersForNode(n) /\ WantUsers(n)' = WantUsers(n)
    BY <1>2 DEF UsersForNode, WantUsers, ListEnabled, database
  <2>2. /\ \/ u \in j.ids <=> u \in UsersForNode(n)
           \/ Excused(g, n, u)
        /\ \/ GeneratedUsers(j.ids, j.names)[u] = WantUsers(n)[u]
           \/ Excused(g, n, u)
    BY <1>1, <1>4 DEF FreshFor
  <2>3. Excused(g, n, u) => Excused(g, n, u)'
    BY <1>1, <1>2, <1>5, ExcusedKept
  <2> QED
    BY <2>1, <2>2, <2>3
<1> QED
  BY <1>1, <1>2, <1>3, <1>4, <1>6, QueryStep DEF Generating

LEMMA DeleteRowsFailsStep ==
  ASSUME IInv, TypeInv', NEW g \in Handlers, DeleteRowsFails(g)
  PROVE  IInv'
<1> DEFINE r == job[g].req
           u == r.user
<1>1. /\ job[g].pc = "sync" /\ job[g] \in Job /\ job[g].node = None
      /\ job[g].todo = {} /\ job[g].failed = {} /\ job[g].phase = "apply"
      /\ job \in [Handlers -> Job]
      /\ IsUserEdit(r) => Remembers(job[g], life[u], row[u], access[u])
  BY TypeInvParts
  DEF DeleteRowsFails, Succeeded, SyncDone, IInv, TypeInv, TypeOK, JobOK,
      Generating, Memory, MemoryOf
<1>2. UNCHANGED <<database, nodes, abandoned>> /\ lock' = lock
  BY DEF DeleteRowsFails
<1>3. PICK j : /\ j = [job[g] EXCEPT !.pc = "undo"]
               /\ job' = [job EXCEPT ![g] = j]
  BY <1>1 DEF DeleteRowsFails
<1>4. j.pc = "undo" /\ KeepsPlans(g, j)
  BY <1>1, <1>3 DEF Job, KeepsPlans
<1>5. IsUserEdit(r) => Remembers(j, life[u], row[u], access[u])
  BY <1>1, <1>4 DEF Remembers, Syncing, KeepsPlans
<1>6. /\ Planned(job[g], row[u], access[u]) \subseteq Planned(j, row[u], access[u])
      /\ Owed(job[g], row[u], access[u]) \subseteq Owed(j, row[u], access[u])
  BY <1>1 DEF Planned, Owed, Syncing
<1>7. LocksExclude' /\ FreshFor(g)'
  BY <1>1, <1>2, <1>3, <1>4, LocksKept, NothingRead DEF Reading, KeepsPlans
<1>8. j.req = r
  BY <1>4 DEF KeepsPlans
<1> HIDE DEF r, u
<1> QED
  BY <1>2, <1>3, <1>5, <1>6, <1>7, <1>8, ReadStep DEF r, u

-----------------------------------------------------------------------------
(***************************************************************************)
(* The steps that change the database.                                     *)
(***************************************************************************)

\* A handler that returns after a change nobody need announce any more.
LEMMA ReturnQuietly ==
  ASSUME IInv, TypeInv', NEW g \in Handlers, Return(g), lock' = lock,
         served' = served, Announced(g), Handover(g), abandoned \subseteq abandoned',
         NewUsersHaveNoAccess',
         \A u \in Users : ~Edits(g, u) =>
           life'[u] = life[u] /\ row'[u] = row[u] /\ access'[u] = access[u]
  PROVE  IInv'
<1>1. /\ \A h \in Handlers \ {g} : job'[h] = job[h]
      /\ LocksExclude' /\ MemoryOf(g)' /\ FreshFor(g)'
      /\ \A u \in Users : ~Edits(g, u)'
  BY ReturnKeepsLocks
<1>2. OthersStay(g)
  BY <1>1 DEF OthersStay
<1> QED
  BY <1>1, <1>2, QuietStep

\* A handler that edits no user, or owes nothing, hands everything over.
LEMMA NotAUserEdit ==
  ASSUME TypeInv, NEW g \in Handlers, ~IsUserEdit(job[g].req)
  PROVE  Handover(g) /\ Announced(g) /\ \A u \in Users : ~Edits(g, u)
  BY EditsAUser DEF Handover, Announced

\* What a failed handler counts as abandoned is all it owed.
LEMMA DebtsHandedOver ==
  ASSUME TypeInv, NEW g \in Handlers, DebtsOf({g}) \subseteq abandoned'
  PROVE  Handover(g)
<1> SUFFICES ASSUME NEW u \in Users, NEW n \in Nodes, Edits(g, u), Owes(g, n)
             PROVE  <<n, u>> \in abandoned'
  BY DEF Handover, Owes
<1> QED
  BY DEF DebtsOf

LEMMA ForgetEditStep ==
  ASSUME IInv, TypeInv', NEW g \in Handlers, ForgetEdit(g)
  PROVE  IInv'
<1>1. /\ Return(g) /\ UNCHANGED <<database, nodes, lock>>
      /\ abandoned' = abandoned \cup DebtsOf({g})
  BY DEF ForgetEdit
<1>2. Handover(g)
  BY <1>1, DebtsHandedOver DEF IInv
<1>3. Announced(g) /\ NewUsersHaveNoAccess'
  BY <1>1 DEF Announced, SameWant, database, IInv, NewUsersHaveNoAccess
<1> QED
  BY <1>1, <1>2, <1>3, ReturnQuietly DEF database, nodes

\* An edit of a user, by its handler.
LEMMA UserOf ==
  ASSUME TypeInv, NEW g \in Handlers, IsUserEdit(job[g].req)
  PROVE  /\ job[g].req \in Requests /\ job[g].req.user \in Users
         /\ \A u \in Users : Edits(g, u) <=> u = job[g].req.user
<1>1. job[g].req \in Requests
  BY TypeInvParts DEF Job, NoRequest, IsUserEdit, UserKinds
<1> QED
  BY <1>1, RequestFields, EditsAUser

LEMMA DeleteRowsStep ==
  ASSUME IInv, TypeInv', NEW g \in Handlers, DeleteRows(g)
  PROVE  IInv'
<1> DEFINE r == job[g].req
           u == r.user
<1>1. /\ Return(g) /\ row' = row /\ lock' = lock /\ abandoned' = abandoned
      /\ served' = served
      /\ life' = [life EXCEPT ![u] = "gone"]
      /\ access' = [access EXCEPT ![u] = {}]
  BY DEF DeleteRows, nodes
<1>2. /\ TypeInv /\ r.kind = "delete" /\ IsUserEdit(r) /\ Free(g)
      /\ life \in [Users -> {"new", "live", "gone"}]
      /\ access \in [Users -> SUBSET Nodes]
  BY DEF DeleteRows, Succeeded, Free, IInv, IsUserEdit, UserKinds, TypeInv, TypeOK
<1>3. u \in Users /\ \A v \in Users : Edits(g, v) <=> v = u
  BY <1>2, UserOf
<1>4. access[u] = {}
  BY <1>2
  DEF DeleteRows, Succeeded, SyncDone, IInv, Memory, MemoryOf, Remembers, Syncing
<1>5. Announced(g)
  <2>1. \A n \in Nodes : SameWant(n, u)
    BY <1>1, <1>2, <1>3, <1>4 DEF SameWant, Allows
  <2> QED
    BY <1>3, <2>1 DEF Announced
<1>6. Handover(g)
  BY <1>2, FreeHandover
<1>7. NewUsersHaveNoAccess'
  BY <1>1, <1>2 DEF IInv, NewUsersHaveNoAccess
<1> QED
  BY <1>1, <1>2, <1>3, <1>5, <1>6, <1>7, ReturnQuietly

\* The rows a commit writes satisfy what TargetsCover asks of a change.
LEMMA CommittedRows ==
  ASSUME TypeInv, NEW r \in Requests, IsUserEdit(r)
  PROVE  /\ IsUpdate(r) \/ r.kind = "delete" =>
              /\ RowAfter(r).used = row[r.user].used
              /\ RowAfter(r).note = FoundRow(r, row[r.user]).note
         /\ r.kind = "reset" => RowAfter(r) = [row[r.user] EXCEPT !.used = 0]
         /\ IsAccessEdit(r) \/ r.kind = "reset" \/ r.kind = "delete" \/ IsUpdate(r)
         /\ IsAccessEdit(r) => RowAfter(r) = row[r.user]
         /\ r.kind = "delete" => AccessAfter(r) = {}
         /\ r.kind = "reset" => AccessAfter(r) = access[r.user]
         /\ r.kind = "revoke" => AccessAfter(r) \subseteq access[r.user]
<1>1. CASE IsUpdate(r)
  <2>1. row[r.user] \in UserRow
    BY RequestFields DEF TypeInv, TypeOK
  <2> QED
    BY <1>1, <2>1 DEF IsUpdate, IsAccessEdit, RowAfter, ApplyUserUpdate, FoundRow, UserRow
<1>2. CASE IsAccessEdit(r)
  BY <1>2 DEF IsUpdate, IsAccessEdit, RowAfter, AccessAfter
<1>3. CASE r.kind = "delete"
  <2>1. row[r.user] \in UserRow
    BY RequestFields DEF TypeInv, TypeOK
  <2> QED
    BY <1>3, <2>1 DEF IsUpdate, IsAccessEdit, RowAfter, AccessAfter, FoundRow, UserRow
<1>4. CASE r.kind = "reset"
  BY <1>4 DEF IsUpdate, IsAccessEdit, RowAfter, AccessAfter
<1> QED
  BY <1>1, <1>2, <1>3, <1>4 DEF IsUserEdit, UserKinds, IsUpdate, IsAccessEdit

LEMMA CommitUserStep ==
  ASSUME IInv, TypeInv', NEW g \in Handlers, Commit(g), IsUserEdit(job[g].req)
  PROVE  IInv'
<1> DEFINE r == job[g].req
           u == r.user
           b == AccessAfter(r)
           w == RowAfter(r)
<1>1. /\ job[g].pc = "ready" /\ job[g] \in Job /\ job[g].node = None
      /\ job \in [Handlers -> Job] /\ TypeInv
      /\ row \in [Users -> UserRow] /\ access \in [Users -> SUBSET Nodes]
  BY TypeInvParts DEF Commit, IInv, TypeInv, TypeOK, JobOK, Generating
<1>2. /\ row' = [row EXCEPT ![u] = w] /\ access' = [access EXCEPT ![u] = b]
      /\ life' = life /\ served' = served /\ lock' = lock
      /\ abandoned' = abandoned /\ Accepted(r)
  BY DEF Commit, nodes
<1>3. r \in Requests /\ u \in Users /\ \A v \in Users : Edits(g, v) <=> v = u
  BY <1>1, UserOf
<1>4. Remembers(job[g], life[u], row[u], access[u])
  BY DEF IInv, Memory, MemoryOf
<1>5. PICK j : /\ j = [job[g] EXCEPT !.pc = IF IsAccessEdit(r) THEN "reread"
                                                               ELSE "committed"]
               /\ job' = [job EXCEPT ![g] = j]
  BY <1>1 DEF Commit
<1>6. KeepsPlans(g, j) /\ j.pc = IF IsAccessEdit(r) THEN "reread" ELSE "committed"
  BY <1>1, <1>5 DEF Job, KeepsPlans
<1>7. /\ job'[g] = j /\ row'[u] = w /\ access'[u] = b
      /\ OthersStay(g) /\ LocksExclude' /\ FreshFor(g)'
  <2>1. job'[g] = j /\ row'[u] = w /\ access'[u] = b
    BY <1>1, <1>2, <1>3, <1>5
  <2>2. OthersStay(g)
    BY <1>1, <1>2, <1>3, <1>5 DEF OthersStay
  <2>3. LocksExclude' /\ FreshFor(g)'
    BY <1>1, <1>2, <1>6, <2>1, <2>2, LocksKept, NothingRead
    DEF Reading, KeepsPlans, OthersStay
  <2> QED
    BY <2>1, <2>2, <2>3
<1>8. Remembers(j, life[u], w, b)
  <2>1. IsAccessEdit(r) => ~IsUpdate(r) /\ r.kind \notin {"delete", "reset"}
    BY DEF IsAccessEdit, IsUpdate
  <2>2. j.req = r
    BY <1>6 DEF KeepsPlans
  <2>3. /\ IsUpdate(r) \/ r.kind = "delete" =>
             w.used = row[u].used /\ w.note = FoundRow(r, row[u]).note
        /\ r.kind = "reset" => w = [row[u] EXCEPT !.used = 0]
        /\ r.kind = "delete" => b = {}
        /\ r.kind = "reset" => b = access[u]
    BY <1>1, <1>3, CommittedRows
  <2> HIDE DEF w, b, u, r
  <2> QED
    BY <1>1, <1>4, <1>6, <2>1, <2>2, <2>3 DEF Remembers, Syncing, KeepsPlans, r
<1>9. MemoryOf(g)'
  BY <1>2, <1>6, <1>7, <1>8 DEF MemoryOf, KeepsPlans
<1>10. Announced(g)
  <2> SUFFICES ASSUME NEW v \in Users, NEW n \in Nodes, v = u,
                      ~(Edits(g, v) /\ Pending(g, n))'
               PROVE  SameWant(n, v)
    BY <1>3 DEF Announced
  <2>1. Edits(g, v)'
    BY <1>6, <1>7, EditsAUserNext DEF KeepsPlans
  <2>2. n \notin TargetsOf(r, access[u], b, job[g].before, w)
    <3>1. n \notin Planned(j, w, b)
      BY <1>3, <1>7, <1>9, <2>1, PendingIsPlannedNext
    <3>2. Planned(j, w, b) = TargetsOf(r, job[g].beforeNodes, b, job[g].before, w)
      BY <1>6 DEF Planned, Aimed, KeepsPlans, Syncing
    <3> QED
      BY <1>1, <1>4, <3>1, <3>2 DEF Remembers
  <2>3. n \notin TargetsOf(r, access[u], b, row[u], w)
    <3>1. CASE IsAccessEdit(r)
      BY <2>2, <3>1, TargetsByKind
    <3>2. CASE ~IsAccessEdit(r)
      BY <1>1, <1>4, <2>2, <3>2 DEF Remembers
    <3> QED
      BY <3>1, <3>2
  <2>4. /\ Allows(life[u], row[u], access[u], n) <=> Allows(life[u], w, b, n)
        /\ Allows(life[u], row[u], access[u], n) => row[u].name = w.name
    <3>1. /\ IsUpdate(r) => row[u].used = w.used
          /\ IsAccessEdit(r) => row[u] = w
          /\ r.kind = "delete" => b = {}
          /\ r.kind = "reset" => access[u] = b
      BY <1>1, <1>3, CommittedRows
    <3> HIDE DEF w, b, u, r
    <3> QED
      BY <1>3, <2>3, <3>1, TargetsCover DEF r
  <2> QED
    BY <1>2, <1>7, <2>4 DEF SameWant
<1>11. Handover(g)
  BY <1>1, FreeHandover DEF Free
<1>12. NewUsersHaveNoAccess'
  <2>1. life[u] = "new" => b = {}
    <3>1. CASE r.kind = "revoke"
      BY <1>1, <1>3, <3>1, CommittedRows DEF IInv, NewUsersHaveNoAccess
    <3>2. CASE r.kind # "revoke"
      BY <1>2, <3>2 DEF Accepted, IsUserEdit, UserKinds
    <3> QED
      BY <3>1, <3>2
  <2> QED
    BY <1>1, <1>2, <1>3, <2>1 DEF IInv, NewUsersHaveNoAccess
<1>13. \A v \in Users : Edits(g, v)' => Edits(g, v)
  BY <1>1, <1>6, <1>7, EditsAUser, EditsAUserNext DEF KeepsPlans
<1> QED
  BY <1>2, <1>7, <1>9, <1>10, <1>11, <1>12, <1>13, QuietStep

\* An inbound edit is nothing to the users.
LEMMA CommitInboundStep ==
  ASSUME IInv, TypeInv', NEW g \in Handlers, Commit(g), ~IsUserEdit(job[g].req)
  PROVE  IInv'
<1> DEFINE r == job[g].req
<1>1. /\ job[g].pc = "ready" /\ job[g] \in Job /\ job[g].node = None
      /\ job \in [Handlers -> Job] /\ TypeInv
  BY TypeInvParts DEF Commit, IInv, TypeInv, TypeOK, JobOK, Generating
<1>2. PICK j : /\ j = [job[g] EXCEPT !.pc = IF IsAccessEdit(r) THEN "reread"
                                                               ELSE "committed"]
               /\ job' = [job EXCEPT ![g] = j]
  BY <1>1 DEF Commit
<1>3. KeepsPlans(g, j) /\ j.pc \notin Reading
  BY <1>1, <1>2 DEF Job, KeepsPlans, Reading
<1>4. job'[g] = j /\ \A h \in Handlers \ {g} : job'[h] = job[h]
  BY <1>1, <1>2
<1>5. life' = life /\ row' = row /\ access' = access /\ served' = served
      /\ abandoned' = abandoned /\ lock' = lock
  BY DEF Commit, nodes
<1>6. /\ Handover(g) /\ LocksExclude' /\ MemoryOf(g)' /\ FreshFor(g)'
      /\ \A u \in Users : ~Edits(g, u)'
  BY <1>1, <1>3, <1>4, <1>5, NotAUserEdit, LocksKept, NothingRead, EditsAUserNext
  DEF KeepsPlans, MemoryOf
<1> QED
  BY <1>4, <1>5, <1>6, StillStep

LEMMA CommitStep ==
  ASSUME IInv, TypeInv', NEW g \in Handlers, Commit(g)
  PROVE  IInv'
  BY CommitUserStep, CommitInboundStep

\* A rollback touches only what its request edits, and gives no assignments to
\* an id that has not been handed out.
LEMMA RestoredRows ==
  ASSUME IInv, NEW g \in Handlers, RestoreRows(g)
  PROVE  /\ NewUsersHaveNoAccess' /\ life' = life
         /\ ~IsUserEdit(job[g].req) => row' = row /\ access' = access
         /\ \A u \in Users : ~Edits(g, u) =>
              row'[u] = row[u] /\ access'[u] = access[u]
<1> DEFINE r == job[g].req
           u == r.user
<1>1. /\ TypeInv /\ row \in [Users -> UserRow]
      /\ access \in [Users -> SUBSET Nodes]
  BY DEF IInv, TypeInv, TypeOK
<1>2. CASE IsUserEdit(r)
  <2>1. /\ u \in Users /\ \A v \in Users : Edits(g, v) <=> v = u
        /\ row' = [row EXCEPT ![u] = RestoredRow(g)]
        /\ access' = [access EXCEPT ![u] = RestoredAccess(g)]
        /\ life' = life
    BY <1>1, <1>2, UserOf DEF RestoreRows
  <2>2. life[u] = "new" => RestoredAccess(g) = access[u]
    BY <1>2 DEF RestoreRows, CanRestore, RestoredAccess, IsUserEdit, UserKinds
  <2> QED
    BY <1>1, <1>2, <2>1, <2>2 DEF IInv, NewUsersHaveNoAccess
<1>3. CASE ~IsUserEdit(r)
  BY <1>3 DEF RestoreRows, IInv, NewUsersHaveNoAccess
<1> QED
  BY <1>2, <1>3

\* The nodes a handler would push for its change are also the nodes its
\* rollback makes a difference to.
LEMMA RestoreCovers ==
  ASSUME IInv, NEW g \in Handlers, RestoreRows(g), NEW u \in Users, Edits(g, u),
         job[g].phase = "apply",
         job[g].pc \in {"committed", "reread", "undo"} \cup Syncing,
         NEW n \in Nodes, n \notin Aimed(job[g], row[u], access[u])
  PROVE  SameWant(n, u)
<1> DEFINE r == job[g].req
           j == job[g]
           a == RestoredAccess(g)
           w == RestoredRow(g)
<1>1. /\ TypeInv /\ row \in [Users -> UserRow] /\ j \in Job /\ JobOK(j)
      /\ access \in [Users -> SUBSET Nodes]
  BY TypeInvParts DEF IInv, TypeInv, TypeOK
<1>2. IsUserEdit(r) /\ r.user = u /\ r \in Requests
  BY <1>1, EditsAUser, UserOf
<1>3. row'[u] = w /\ access'[u] = a /\ life' = life
  BY <1>1, <1>2 DEF RestoreRows
<1>4. Remembers(j, life[u], row[u], access[u])
  BY <1>2 DEF IInv, Memory, MemoryOf
<1>5. n \notin TargetsOf(r, j.beforeNodes, access[u], j.before, row[u])
  BY DEF Aimed
<1>6. /\ IsUpdate(r) => /\ w.name = j.before.name
                        /\ w.enabled = j.before.enabled
                        /\ w.limit = j.before.limit
                        /\ w.used = row[u].used
      /\ IsAccessEdit(r) => w = row[u]
  <2>1. CASE IsUpdate(r)
    <3>1. /\ w = [j.before EXCEPT !.used = row[u].used, !.note = row[u].note]
          /\ ~IsAccessEdit(r)
      BY <1>2, <2>1 DEF RestoredRow, IsUpdate, IsAccessEdit
    <3>2. j.before \in UserRow
      BY <1>1, <1>2, <3>1 DEF JobOK
    <3> QED
      BY <3>1, <3>2 DEF UserRow
  <2>2. CASE IsAccessEdit(r)
    BY <1>2, <2>2 DEF RestoredRow, IsUpdate, IsAccessEdit
  <2> QED
    BY <2>1, <2>2
<1>7. a = j.beforeNodes
  <2>1. r.kind = "reset" => j.beforeNodes = access[u]
    BY <1>4 DEF Remembers, IsUpdate, IsAccessEdit
  <2> QED
    BY <1>2, <2>1 DEF RestoredAccess
<1>8. n \notin TargetsOf(r, a, access[u], w, row[u])
  <2>1. CASE IsUpdate(r)
    <3>1. UserConfigChanged(w, row[u]) <=> UserConfigChanged(j.before, row[u])
      BY <1>6, <2>1 DEF UserConfigChanged
    <3> HIDE DEF w, a, r, j
    <3>2. TargetsOf(r, a, access[u], w, row[u])
            = TargetsOf(r, a, access[u], j.before, row[u])
      <4>1. CASE r.kind = "updateWithAccess"
        <5>1. TargetsOf(r, a, access[u], w, row[u]) = a \cup access[u]
          BY <4>1, TargetsByKind
        <5>2. TargetsOf(r, a, access[u], j.before, row[u]) = a \cup access[u]
          BY <4>1, TargetsByKind
        <5> QED
          BY <5>1, <5>2
      <4>2. CASE r.kind = "update" /\ UserConfigChanged(w, row[u])
        <5>1. TargetsOf(r, a, access[u], w, row[u]) = a \cup access[u]
          BY <4>2, TargetsByKind
        <5>2. UserConfigChanged(j.before, row[u])
          BY <3>1, <4>2
        <5>3. TargetsOf(r, a, access[u], j.before, row[u]) = a \cup access[u]
          BY <4>2, <5>2, TargetsByKind
        <5> QED
          BY <5>1, <5>3
      <4>3. CASE r.kind = "update" /\ ~UserConfigChanged(w, row[u])
        <5>1. TargetsOf(r, a, access[u], w, row[u]) = ChangedIDs(a, access[u])
          BY <4>3, TargetsByKind
        <5>2. ~UserConfigChanged(j.before, row[u])
          BY <3>1, <4>3
        <5>3. TargetsOf(r, a, access[u], j.before, row[u]) = ChangedIDs(a, access[u])
          BY <4>3, <5>2, TargetsByKind
        <5> QED
          BY <5>1, <5>3
      <4> QED
        BY <2>1, <4>1, <4>2, <4>3 DEF IsUpdate
    <3> QED
      BY <1>5, <1>7, <3>2
  <2>2. CASE ~IsUpdate(r)
    <3> HIDE DEF w, a, r, j
    <3> QED
      BY <1>2, <1>5, <1>7, <2>2, TargetsByKind
      DEF IsUserEdit, UserKinds, IsUpdate, IsAccessEdit
  <2> QED
    BY <2>1, <2>2
<1>9. /\ r.kind = "delete" => access[u] = {}
      /\ r.kind = "reset" => a = access[u]
  BY <1>4, <1>7 DEF Remembers, IsUpdate, IsAccessEdit
<1>10. /\ Allows(life[u], w, a, n) <=> Allows(life[u], row[u], access[u], n)
       /\ Allows(life[u], w, a, n) => w.name = row[u].name
  <2> HIDE DEF w, a, r, j
  <2> QED
    BY <1>2, <1>6, <1>8, <1>9, TargetsCover
<1> QED
  BY <1>3, <1>10 DEF SameWant

\* When a handler has to roll back, its targets are all that it owes and all
\* that its change made a difference to.
LEMMA TargetsWhenUndoing ==
  ASSUME IInv, NEW g \in Handlers, MustUndo(g), NEW u \in Users, Edits(g, u)
  PROVE  /\ job[g].phase = "apply" /\ job[g].pc \in {"undo", "sync"}
         /\ job[g].targets = Aimed(job[g], row[u], access[u])
         /\ \A n : Owes(g, n) => n \in job[g].targets
<1> DEFINE j == job[g]
<1>1. IsUserEdit(j.req) /\ j.req.user = u
  BY EditsAUser DEF IInv
<1>2. Remembers(j, life[u], row[u], access[u])
  BY <1>1 DEF IInv, Memory, MemoryOf
<1>3. j.phase = "apply" /\ j.pc \in {"undo", "sync"}
  BY <1>2 DEF MustUndo, SyncDone, Remembers, Syncing
<1>4. j.targets = TargetsOf(j.req, j.beforeNodes, access[u], j.before, j.user)
  BY <1>2, <1>3 DEF Remembers, Syncing
<1>5. j.targets = Aimed(j, row[u], access[u])
  BY <1>1, <1>2, <1>3, <1>4, AimedFromMemory DEF Syncing
<1>6. j.todo \cup j.failed \subseteq j.targets
  BY <1>2, <1>3 DEF Remembers, Syncing
<1> QED
  BY <1>3, <1>5, <1>6 DEF Owes, Pending, Syncing

\* The rollback brings back the row and the assignments the request found, but
\* for the note.
LEMMA RestoredAsFound ==
  ASSUME IInv, NEW g \in Handlers, MustUndo(g), RestoreRows(g),
         IsUserEdit(job[g].req)
  PROVE  /\ ~IsAccessEdit(job[g].req) =>
              row'[job[g].req.user] = FoundRow(job[g].req, job[g].before)
         /\ access'[job[g].req.user] = job[g].beforeNodes
<1> DEFINE j == job[g]
           r == j.req
           u == r.user
<1>1. /\ TypeInv /\ JobOK(j) /\ row[u] \in UserRow /\ u \in Users
      /\ row \in [Users -> UserRow] /\ access \in [Users -> SUBSET Nodes]
  BY UserOf, TypeInvParts DEF IInv, TypeInv, TypeOK
<1>2. /\ row'[u] = RestoredRow(g) /\ access'[u] = RestoredAccess(g)
      /\ Remembers(j, life[u], row[u], access[u])
      /\ j.phase = "apply" /\ j.pc \in {"undo", "sync"}
  BY <1>1, UserOf, TargetsWhenUndoing
  DEF RestoreRows, IInv, Memory, MemoryOf
<1>3. CASE IsAccessEdit(r)
  BY <1>2, <1>3 DEF RestoredAccess, IsAccessEdit
<1>4. CASE IsUpdate(r) \/ r.kind = "delete"
  <2>1. /\ j.before \in UserRow /\ j.before.used = row[u].used
        /\ FoundRow(r, j.before).note = row[u].note
    BY <1>1, <1>2, <1>4
    DEF JobOK, Remembers, Syncing, IsUserEdit, IsUpdate, IsAccessEdit, UserKinds
  <2>2. /\ RestoredRow(g) = [j.before EXCEPT !.used = row[u].used,
                                            !.note = row[u].note]
        /\ RestoredAccess(g) = j.beforeNodes
    BY <1>4 DEF RestoredRow, RestoredAccess, IsUpdate
  <2>3. FoundRow(r, j.before) = [j.before EXCEPT !.note = row[u].note]
    <3> HIDE DEF j, r, u
    <3>1. CASE IsUpdate(r)
      <4>1. FoundRow(r, j.before) = [j.before EXCEPT !.note = Given(r.note, @)]
        BY <3>1 DEF FoundRow
      <4>2. FoundRow(r, j.before).note = Given(r.note, j.before.note)
        BY <2>1, <4>1 DEF UserRow
      <4> QED
        BY <2>1, <4>1, <4>2
    <3>2. CASE ~IsUpdate(r)
      <4>1. FoundRow(r, j.before) = j.before
        BY <3>2 DEF FoundRow
      <4> QED
        BY <2>1, <4>1 DEF UserRow
    <3> QED
      BY <3>1, <3>2
  <2>4. row'[u] = FoundRow(r, j.before)
    <3> DEFINE b == j.before
               w == row[u]
    <3>1. /\ b \in UserRow /\ w \in UserRow /\ b.used = w.used
          /\ row'[u] = [b EXCEPT !.used = w.used, !.note = w.note]
          /\ FoundRow(r, b) = [b EXCEPT !.note = w.note]
      BY <1>1, <1>2, <2>1, <2>2, <2>3
    <3> HIDE DEF b, w
    <3>2. [b EXCEPT !.used = w.used, !.note = w.note] = [b EXCEPT !.note = w.note]
      BY <3>1 DEF UserRow
    <3> QED
      BY <3>1, <3>2 DEF b
  <2> QED
    BY <1>2, <2>2, <2>4
<1>5. CASE r.kind = "reset"
  <2>1. j.before \in UserRow /\ row[u] = [j.before EXCEPT !.used = 0]
    BY <1>1, <1>2, <1>5 DEF JobOK, Remembers, Syncing, IsUserEdit, IsAccessEdit, UserKinds
  <2>2. RestoredRow(g) = [row[u] EXCEPT !.used = j.before.used]
    BY <1>5 DEF RestoredRow, IsUpdate
  <2>3. RestoredAccess(g) = j.beforeNodes
    BY <1>2, <1>5 DEF RestoredAccess, Remembers, Syncing
  <2> QED
    <3>1. FoundRow(r, j.before) = j.before
      BY <1>5 DEF FoundRow, IsUpdate
    <3>2. [[j.before EXCEPT !.used = 0] EXCEPT !.used = j.before.used] = j.before
      BY <2>1 DEF UserRow
    <3> QED
      BY <1>2, <2>1, <2>2, <2>3, <3>1, <3>2
<1> QED
  BY <1>3, <1>4, <1>5 DEF IsUserEdit, UserKinds, IsUpdate, IsAccessEdit

LEMMA UndoStep ==
  ASSUME IInv, TypeInv', NEW g \in Handlers, Undo(g)
  PROVE  IInv'
<1> DEFINE r == job[g].req
<1>1. /\ job[g] \in Job /\ job[g].node = None /\ JobOK(job[g])
      /\ job \in [Handlers -> Job] /\ TypeInv
  BY TypeInvParts
  DEF Undo, MustUndo, SyncDone, IInv, TypeInv, TypeOK, JobOK, Generating
<1>2. /\ MustUndo(g) /\ RestoreRows(g)
      /\ served' = served /\ lock' = lock /\ abandoned' = abandoned
  BY DEF Undo, nodes
<1>3. PICK j : /\ j = [job[g] EXCEPT !.pc = "sync", !.phase = "restore",
                                      !.todo = job[g].targets, !.failed = {}]
               /\ job' = [job EXCEPT ![g] = j]
  BY <1>1 DEF Undo
<1>4. /\ j.pc = "sync" /\ j.phase = "restore" /\ j.todo = job[g].targets
      /\ j.failed = {} /\ j.targets = job[g].targets /\ j.req = r
      /\ j.node = None
  BY <1>1, <1>3 DEF Job
<1>5. /\ job'[g] = j /\ OthersStay(g) /\ life' = life
      /\ NewUsersHaveNoAccess' /\ LocksExclude' /\ FreshFor(g)'
  <2>1. job'[g] = j /\ \A h \in Handlers \ {g} : job'[h] = job[h]
    BY <1>1, <1>3
  <2>2. OthersStay(g) /\ life' = life /\ NewUsersHaveNoAccess'
    BY <1>2, <2>1, RestoredRows DEF OthersStay
  <2>3. LocksExclude' /\ FreshFor(g)'
    BY <1>2, <1>4, <2>1, LocksKept, NothingRead DEF Reading
  <2> QED
    BY <2>1, <2>2, <2>3
<1>6. MemoryOf(g)'
  <2> SUFFICES ASSUME IsUserEdit(r)
               PROVE  Remembers(j, life[r.user], row'[r.user], access'[r.user])
    BY <1>4, <1>5 DEF MemoryOf
  <2>1. Remembers(job[g], life[r.user], row[r.user], access[r.user])
    BY DEF IInv, Memory, MemoryOf
  <2>2. /\ ~IsAccessEdit(r) => row'[r.user] = FoundRow(r, j.before)
        /\ j.beforeNodes = access'[r.user]
    BY <1>1, <1>2, <1>3, RestoredAsFound DEF Job
  <2> QED
    BY <1>4, <2>1, <2>2 DEF Remembers, Syncing
<1>7. \A v \in Users : Edits(g, v)' <=> Edits(g, v)
  BY <1>1, <1>4, <1>5, EditsAUser, EditsAUserNext
<1>8. \A n : n \in job[g].targets => Pending(g, n)' /\ Owes(g, n)'
  BY <1>4, <1>5 DEF Pending, Owes, Syncing
<1>9. Handover(g)
  BY <1>2, <1>7, <1>8, TargetsWhenUndoing DEF Handover, Owes
<1>10. Announced(g)
  <2> SUFFICES ASSUME NEW v \in Users, NEW n \in Nodes, Edits(g, v),
                      n \notin job[g].targets
               PROVE  SameWant(n, v)
    BY <1>7, <1>8 DEF Announced
  <2> QED
    BY <1>2, TargetsWhenUndoing, RestoreCovers DEF Syncing
<1> QED
  BY <1>2, <1>5, <1>6, <1>7, <1>9, <1>10, QuietStep

LEMMA RevertTargetStep ==
  ASSUME IInv, TypeInv', NEW g \in Handlers, RevertTarget(g)
  PROVE  IInv'
<1>1. /\ RestoreRows(g) /\ Return(g) /\ served' = served /\ lock' = lock
      /\ abandoned' = abandoned \cup LeftBehind(g)
      /\ ~IsUserEdit(job[g].req)
  BY DEF RevertTarget, nodes, IsUserEdit, UserKinds
<1>2. Handover(g) /\ Announced(g)
  BY <1>1, NotAUserEdit DEF IInv
<1> QED
  BY <1>1, <1>2, RestoredRows, ReturnQuietly

LEMMA UndoFailsStep ==
  ASSUME IInv, TypeInv', NEW g \in Handlers, UndoFails(g)
  PROVE  IInv'
<1>1. /\ MustUndo(g) /\ Return(g) /\ served' = served /\ lock' = lock
      /\ abandoned' = abandoned \cup LeftBehind(g) /\ TypeInv
      /\ UNCHANGED database \/ RestoreRows(g)
  BY DEF UndoFails, nodes, IInv
<1>2. /\ NewUsersHaveNoAccess'
      /\ \A u \in Users : ~Edits(g, u) =>
           life'[u] = life[u] /\ row'[u] = row[u] /\ access'[u] = access[u]
  <2>1. CASE UNCHANGED database
    BY <2>1 DEF database, IInv, NewUsersHaveNoAccess
  <2>2. CASE RestoreRows(g)
    BY <2>2, RestoredRows
  <2> QED
    BY <1>1, <2>1, <2>2
<1>3. \A u \in Users, n \in job[g].targets :
        n \in Nodes /\ Edits(g, u) => <<n, u>> \in abandoned'
  BY <1>1 DEF LeftBehind
<1>4. Handover(g)
  BY <1>1, <1>3, TargetsWhenUndoing DEF Handover, Owes
<1>5. Announced(g)
  <2> SUFFICES ASSUME NEW v \in Users, NEW n \in Nodes, Edits(g, v),
                      n \notin job[g].targets
               PROVE  SameWant(n, v)
    BY <1>3 DEF Announced
  <2>1. CASE UNCHANGED database
    BY <2>1 DEF database, SameWant
  <2>2. CASE RestoreRows(g)
    BY <1>1, <2>2, TargetsWhenUndoing, RestoreCovers DEF Syncing
  <2> QED
    BY <1>1, <2>1, <2>2
<1> QED
  BY <1>1, <1>2, <1>4, <1>5, ReturnQuietly

LEMMA RevertUnpushedStep ==
  ASSUME IInv, TypeInv', NEW g \in Handlers, RevertUnpushed(g)
  PROVE  IInv'
<1>1. /\ job[g].pc \in {"reread", "committed"} /\ Return(g)
      /\ served' = served /\ lock' = lock
      /\ abandoned' = abandoned \cup DebtsOf({g}) /\ TypeInv
      /\ UNCHANGED database \/ RestoreRows(g)
  BY DEF RevertUnpushed, nodes, IInv
<1>2. /\ NewUsersHaveNoAccess'
      /\ \A u \in Users : ~Edits(g, u) =>
           life'[u] = life[u] /\ row'[u] = row[u] /\ access'[u] = access[u]
  <2>1. CASE UNCHANGED database
    BY <2>1 DEF database, IInv, NewUsersHaveNoAccess
  <2>2. CASE RestoreRows(g)
    BY <2>2, RestoredRows
  <2> QED
    BY <1>1, <2>1, <2>2
<1>3. Handover(g)
  BY <1>1, DebtsHandedOver
<1>4. Announced(g)
  <2> SUFFICES ASSUME NEW v \in Users, NEW n \in Nodes, Edits(g, v),
                      <<n, v>> \notin abandoned'
               PROVE  SameWant(n, v)
    BY DEF Announced
  <2>1. CASE UNCHANGED database
    BY <2>1 DEF database, SameWant
  <2>2. CASE RestoreRows(g)
    <3>1. ~Owes(g, n)
      BY <1>1 DEF DebtsOf
    <3>2. MemoryOf(g) /\ job[g].phase = "apply"
      BY <1>1, EditsAUser DEF IInv, Memory, MemoryOf, Remembers, Syncing
    <3>3. n \notin Aimed(job[g], row[v], access[v])
      BY <1>1, <3>1, <3>2, PendingIsPlanned DEF Owed, Planned, Syncing
    <3> QED
      BY <1>1, <2>2, <3>2, <3>3, RestoreCovers
  <2> QED
    BY <1>1, <2>1, <2>2
<1> QED
  BY <1>1, <1>2, <1>3, <1>4, ReturnQuietly

-----------------------------------------------------------------------------
(***************************************************************************)
(* The steps that end the work on a node.                                  *)
(***************************************************************************)

Left(g, n) ==
  /\ \A h \in Handlers \ {g} : job'[h] = job[h]
  /\ lock' = [lock EXCEPT ![n] = None]
  /\ job'[g].pc = "sync" /\ job'[g].node = None
  /\ job'[g].req = job[g].req /\ job'[g].phase = job[g].phase
  /\ job'[g].targets = job[g].targets /\ job'[g].user = job[g].user
  /\ job'[g].before = job[g].before
  /\ job'[g].beforeNodes = job[g].beforeNodes
  /\ job'[g].todo = job[g].todo \ {n}
  /\ job[g].failed \subseteq job'[g].failed
  /\ job'[g].failed \subseteq job[g].failed \cup {n}

LEMMA LeaveNodeEffect ==
  ASSUME TypeInv, NEW g \in Handlers, NEW n \in Nodes,
         LeaveNode(g, n, TRUE) \/ LeaveNode(g, n, FALSE)
  PROVE  Left(g, n) /\ (LeaveNode(g, n, FALSE) => n \in job'[g].failed)
<1>1. job[g] \in Job /\ job \in [Handlers -> Job]
  BY TypeInvParts DEF TypeInv, TypeOK
<1>2. CASE LeaveNode(g, n, TRUE)
  <2>1. job'[g].failed = job[g].failed /\ Left(g, n)
    BY <1>1, <1>2 DEF LeaveNode, Left, Job
  <2>2. LeaveNode(g, n, FALSE) => job'[g].failed = job[g].failed \cup {n}
    BY <1>1 DEF LeaveNode, Job
  <2> QED
    BY <2>1, <2>2
<1>3. CASE LeaveNode(g, n, FALSE)
  <2>1. job'[g].failed = job[g].failed \cup {n} /\ Left(g, n)
    BY <1>1, <1>3 DEF LeaveNode, Left, Job
  <2> QED
    BY <2>1
<1> QED
  BY <1>2, <1>3

\* What is abandoned on the other nodes stays so.
ElsewhereKept(n) ==
  \A m \in Nodes \ {n}, u \in Users :
    <<m, u>> \in abandoned => <<m, u>> \in abandoned'

LEMMA LeaveStep ==
  ASSUME IInv, TypeInv', NEW g \in Handlers, NEW n \in Nodes,
         job[g].pc \in Generating, job[g].node = n, Left(g, n),
         UNCHANGED database, ElsewhereKept(n),
         \A m \in Nodes \ {n} : served'[m] = served[m],
         \A u \in Users : \/ UserInStep(n, u)'
                          \/ <<n, u>> \in abandoned'
                          \/ \E h \in Handlers : Edits(h, u)' /\ Owes(h, n)'
  PROVE  IInv'
<1>1. /\ TypeInv /\ OneEditor /\ OthersStay(g)
      /\ life' = life /\ row' = row /\ access' = access
      /\ \A m : UsersForNode(m)' = UsersForNode(m) /\ WantUsers(m)' = WantUsers(m)
  BY DEF IInv, OthersStay, Left, database, UsersForNode, WantUsers, ListEnabled
<1>2. \A h \in Handlers \ {g} : job[h].node # n
  BY ConstantsAssumption DEF IInv, LocksExclude
<1>3. LocksExclude'
  <2> SUFFICES ASSUME NEW h \in Handlers, job'[h].node # None
               PROVE  lock'[job'[h].node] = h
    BY DEF LocksExclude
  <2>1. h # g /\ job'[h] = job[h] /\ job[h].node # n /\ lock[job[h].node] = h
    BY <1>2 DEF Left, IInv, LocksExclude
  <2>2. lock \in [Nodes -> Handlers \cup {None}] /\ job[h] \in Job
    BY <1>1, TypeInvParts DEF TypeInv, TypeOK
  <2> QED
    BY <2>1, <2>2 DEF Left, Job
<1>4. \A u \in Users : Edits(g, u)' <=> Edits(g, u)
  BY <1>1, EditsAUser, EditsAUserNext DEF Left
<1>5. OneEditor'
  <2>1. \A h \in Handlers \ {g}, u \in Users : Edits(h, u)' <=> Edits(h, u)
    BY <1>1, OtherEditors
  <2> QED
    BY <1>1, <1>4, <2>1 DEF OneEditor
<1>6. Memory'
  <2>1. MemoryOf(g)'
    <3> DEFINE u == job[g].req.user
    <3> SUFFICES ASSUME IsUserEdit(job[g].req)
                 PROVE  Remembers(job'[g], life[u], row[u], access[u])
      BY <1>1 DEF MemoryOf, Left
    <3>1. Remembers(job[g], life[u], row[u], access[u])
      BY DEF IInv, Memory, MemoryOf
    <3>2. n \in job[g].todo
      BY <1>1, TypeInvParts DEF JobOK
    <3> QED
      BY <3>1, <3>2 DEF Remembers, Left, Syncing, Generating
  <2> QED
    BY <1>1, <2>1, OtherMemories DEF IInv, Memory
<1>7. ASSUME NEW m \in Nodes \ {n}
      PROVE  (Pending(g, m) => Pending(g, m)') /\ (Owes(g, m) => Owes(g, m)')
  BY DEF Pending, Owes, Syncing, Generating, Left
<1>8. Fresh'
  <2> SUFFICES ASSUME NEW h \in Handlers PROVE FreshFor(h)'
    BY DEF Fresh
  <2>1. CASE h = g
    BY <2>1, NothingRead DEF Left, Reading
  <2>2. CASE h # g
    <3>1. job'[h] = job[h] /\ job[h].node # n /\ FreshFor(h)
      BY <1>2, <2>2 DEF Left, IInv, Fresh
    <3>2. ASSUME NEW m \in Nodes \ {n}, NEW u \in Users, Excused(h, m, u)
          PROVE  Excused(h, m, u)'
      <4>1. CASE <<m, u>> \in abandoned
        BY <4>1 DEF ElsewhereKept, Excused
      <4>2. ASSUME NEW k \in Handlers \ {h}, Edits(k, u), Pending(k, m)
            PROVE  Excused(h, m, u)'
        <5>1. CASE k = g
          <6>1. Edits(g, u) /\ Pending(g, m)
            BY <4>2, <5>1
          <6>2. Edits(g, u)'
            BY <1>4, <6>1
          <6>3. Pending(g, m)'
            BY <1>7, <6>1
          <6> QED
            BY <2>2, <6>2, <6>3 DEF Excused
        <5>2. CASE k # g
          <6>1. Edits(k, u)' /\ Pending(k, m)'
            BY <1>1, <4>2, <5>2, OtherEditors
          <6> QED
            BY <4>2, <6>1 DEF Excused
        <5> QED
          BY <5>1, <5>2
      <4> QED
        BY <3>2, <4>1, <4>2 DEF Excused
    <3> QED
      BY <1>1, <3>1, <3>2 DEF FreshFor
  <2> QED
    BY <2>1, <2>2
<1>9. NodesFollow'
  <2> SUFFICES ASSUME NEW m \in Nodes \ {n}, NEW u \in Users
               PROVE  \/ UserInStep(m, u)'
                      \/ <<m, u>> \in abandoned'
                      \/ \E h \in Handlers : Edits(h, u)' /\ Owes(h, m)'
    BY DEF NodesFollow
  <2>1. CASE UserInStep(m, u)
    BY <1>1, <2>1 DEF UserInStep
  <2>2. CASE <<m, u>> \in abandoned
    BY <2>2 DEF ElsewhereKept
  <2>3. ASSUME NEW h \in Handlers, Edits(h, u), Owes(h, m)
        PROVE  Edits(h, u)' /\ Owes(h, m)'
    <3>1. CASE h = g
      <4>1. Edits(g, u)'
        BY <1>4, <2>3, <3>1
      <4>2. Owes(g, m)'
        BY <1>7, <2>3, <3>1
      <4> QED
        BY <3>1, <4>1, <4>2
    <3>2. CASE h # g
      BY <1>1, <2>3, <3>2, OtherEditors
    <3> QED
      BY <3>1, <3>2
  <2> QED
    BY <2>1, <2>2, <2>3 DEF IInv, NodesFollow
<1>10. NewUsersHaveNoAccess'
  BY <1>1 DEF IInv, NewUsersHaveNoAccess
<1> QED
  BY <1>3, <1>5, <1>6, <1>8, <1>9, <1>10 DEF IInv

LEMMA PushedStep ==
  ASSUME IInv, TypeInv', NEW g \in Handlers, NEW n \in Nodes,
         Push(g, n) \/ PushAnswerLost(g, n)
  PROVE  IInv'
<1>1. /\ job[g].pc = "generated" /\ job[g].node = n /\ TypeInv /\ OneEditor
      /\ served' = [served EXCEPT ![n] = GeneratedUsers(job[g].ids, job[g].names)]
      /\ LeaveNode(g, n, TRUE) \/ LeaveNode(g, n, FALSE)
      /\ UNCHANGED database /\ FreshFor(g)
      /\ served \in [Nodes -> [Users -> Names \cup {None}]]
  BY DEF Push, PushAnswerLost, IInv, TypeInv, TypeOK, Fresh
<1>2. Left(g, n)
  BY <1>1, LeaveNodeEffect
<1>3. \A m \in Nodes \ {n} : served'[m] = served[m]
  BY <1>1
<1>4. served'[n] = GeneratedUsers(job[g].ids, job[g].names)
  BY <1>1
<1>5. WantUsers(n)' = WantUsers(n) /\ OthersStay(g)
  BY <1>1, <1>2
  DEF WantUsers, UsersForNode, ListEnabled, database, OthersStay, Left
<1>6. \A u \in Users : <<n, u>> \in abandoned =>
        UserInStep(n, u)' \/ <<n, u>> \in abandoned'
  <2>1. CASE Push(g, n)
    BY <1>5, <2>1 DEF Push, UserInStep
  <2>2. CASE PushAnswerLost(g, n)
    BY <2>2 DEF PushAnswerLost
  <2> QED
    BY <2>1, <2>2
<1>7. ElsewhereKept(n)
  <2>1. CASE Push(g, n)
    BY <2>1 DEF Push, ElsewhereKept
  <2>2. CASE PushAnswerLost(g, n)
    BY <2>2 DEF PushAnswerLost, ElsewhereKept
  <2> QED
    BY <2>1, <2>2
<1>8. ASSUME NEW u \in Users
      PROVE  \/ UserInStep(n, u)'
             \/ <<n, u>> \in abandoned'
             \/ \E h \in Handlers : Edits(h, u)' /\ Owes(h, n)'
  <2>1. \/ GeneratedUsers(job[g].ids, job[g].names)[u] = WantUsers(n)[u]
        \/ Excused(g, n, u)
    BY <1>1 DEF FreshFor
  <2>2. CASE GeneratedUsers(job[g].ids, job[g].names)[u] = WantUsers(n)[u]
    BY <1>4, <1>5, <2>2 DEF UserInStep
  <2>3. CASE <<n, u>> \in abandoned
    BY <1>6, <2>3
  <2>4. ASSUME NEW h \in Handlers \ {g}, Edits(h, u), Pending(h, n)
        PROVE  Edits(h, u)' /\ Owes(h, n)'
    <3>1. Owes(h, n)
      BY <2>4 DEF Owes
    <3> QED
      BY <1>1, <1>5, <2>4, <3>1, OtherEditors
  <2> QED
    BY <2>1, <2>2, <2>3, <2>4 DEF Excused
<1> QED
  BY <1>1, <1>2, <1>3, <1>7, <1>8, LeaveStep DEF Generating

LEMMA NotPushedStep ==
  ASSUME IInv, TypeInv', NEW g \in Handlers, NEW n \in Nodes,
         PushFails(g, n) \/ SkipNode(g, n)
  PROVE  IInv'
<1>1. /\ job[g].pc \in Generating /\ job[g].node = n /\ TypeInv /\ OneEditor
      /\ served' = served /\ LeaveNode(g, n, FALSE) /\ UNCHANGED database
      /\ abandoned' = abandoned \cup GivenUp(g, n)
  BY DEF PushFails, SkipNode, IInv, Generating, nodes
<1>2. Left(g, n) /\ n \in job'[g].failed
  BY <1>1, LeaveNodeEffect
<1>3. WantUsers(n)' = WantUsers(n) /\ OthersStay(g) /\ ElsewhereKept(n)
  BY <1>1, <1>2
  DEF WantUsers, UsersForNode, ListEnabled, database, OthersStay, Left,
      ElsewhereKept
<1>4. ASSUME NEW u \in Users
      PROVE  \/ UserInStep(n, u)'
             \/ <<n, u>> \in abandoned'
             \/ \E h \in Handlers : Edits(h, u)' /\ Owes(h, n)'
  <2>1. CASE UserInStep(n, u)
    BY <1>1, <1>3, <2>1 DEF UserInStep
  <2>2. CASE <<n, u>> \in abandoned
    BY <1>1, <2>2
  <2>3. CASE Edits(g, u) /\ job[g].phase = "restore"
    BY <1>1, <2>3 DEF GivenUp
  <2>4. CASE Edits(g, u) /\ job[g].phase # "restore"
    <3>1. job[g].phase = "apply"
      BY <1>1, <2>4, TypeInvParts DEF Job
    <3>2. Owes(g, n)'
      BY <1>2, <3>1 DEF Owes, Left, Syncing
    <3>3. Edits(g, u)'
      BY <1>1, <1>2, <2>4, EditsAUser, EditsAUserNext DEF Left
    <3> QED
      BY <3>2, <3>3
  <2>5. ASSUME NEW h \in Handlers \ {g}, Edits(h, u), Owes(h, n)
        PROVE  Edits(h, u)' /\ Owes(h, n)'
    BY <1>1, <1>3, <2>5, OtherEditors
  <2> QED
    BY <2>1, <2>2, <2>3, <2>4, <2>5 DEF IInv, NodesFollow
<1> QED
  BY <1>1, <1>2, <1>3, <1>4, LeaveStep

-----------------------------------------------------------------------------
(***************************************************************************)
(* The steps that belong to no request, and the start.                     *)
(***************************************************************************)

\* A new account has no assignments; whoever edits it already can only be
\* editing those.
LEMMA CreateUserStep ==
  ASSUME IInv, TypeInv', NEW u \in Users, CreateUser(u)
  PROVE  IInv'
<1>1. /\ life[u] = "new" /\ access[u] = {} /\ access' = access /\ job' = job
      /\ served' = served /\ lock' = lock /\ abandoned' = abandoned /\ TypeInv
      /\ \A v \in Users \ {u} : life'[v] = life[v] /\ row'[v] = row[v]
      /\ life'[u] = "live"
  BY DEF CreateUser, IInv, NewUsersHaveNoAccess, nodes, TypeInv, TypeOK
<1>2. ASSUME NEW h \in Handlers, IsUserEdit(job[h].req), job[h].req.user = u
      PROVE  Remembers(job[h], "new", row[u], {}) /\ IsAccessEdit(job[h].req)
  BY <1>1, <1>2 DEF IInv, Memory, MemoryOf, Remembers
<1>3. \A n \in Nodes, v \in Users : WantKept(n, v)
  <2> SUFFICES ASSUME NEW n \in Nodes, NEW v \in Users
               PROVE  SameWant(n, v)
    BY SameWantKept
  <2>1. CASE v = u
    BY <1>1, <2>1 DEF SameWant, Allows
  <2>2. CASE v # u
    BY <1>1, <2>2 DEF SameWant, Allows
  <2> QED
    BY <2>1, <2>2
<1>4. ASSUME NEW h \in Handlers, NEW v \in Users
      PROVE  Edits(h, v)' <=> Edits(h, v)
  BY <1>1, EditsAUser, EditsAUserNext
<1>5. ASSUME NEW h \in Handlers, NEW v \in Users, Edits(h, v), NEW n
      PROVE  (Pending(h, n)' <=> Pending(h, n)) /\ (Owes(h, n)' <=> Owes(h, n))
  <2>1. IsUserEdit(job[h].req) /\ job[h].req.user = v
    BY <1>1, <1>5, EditsAUser
  <2>2. Pending(h, n)' <=> Pending(h, n)
    <3>1. CASE v = u
      <4>1. job[h].pc # "committed"
        BY <1>2, <2>1, <3>1 DEF Remembers
      <4> QED
        BY <1>1, <4>1 DEF Pending
    <3>2. CASE v # u
      BY <1>1, <2>1, <3>2 DEF Pending
    <3> QED
      BY <3>1, <3>2
  <2> QED
    BY <1>1, <2>2 DEF Owes
<1>6. ASSUME NEW h \in Handlers, NEW n \in Nodes, NEW v \in Users, Excused(h, n, v)
      PROVE  Excused(h, n, v)'
  <2>1. CASE <<n, v>> \in abandoned
    BY <1>1, <2>1 DEF Excused
  <2>2. ASSUME NEW k \in Handlers \ {h}, Edits(k, v), Pending(k, n)
        PROVE  Excused(h, n, v)'
    <3>1. Edits(k, v)' /\ Pending(k, n)'
      BY <1>4, <1>5, <2>2
    <3> QED
      BY <3>1 DEF Excused
  <2> QED
    BY <1>6, <2>1, <2>2 DEF Excused
<1>7. LocksExclude' /\ OneEditor' /\ NewUsersHaveNoAccess'
  BY <1>1, <1>4 DEF IInv, LocksExclude, OneEditor, NewUsersHaveNoAccess
<1>8. Memory'
  <2> SUFFICES ASSUME NEW h \in Handlers, IsUserEdit(job[h].req)
               PROVE  Remembers(job[h], life'[job[h].req.user],
                                row'[job[h].req.user], access[job[h].req.user])
    BY <1>1 DEF Memory, MemoryOf
  <2>1. Remembers(job[h], life[job[h].req.user], row[job[h].req.user],
                  access[job[h].req.user])
    BY DEF IInv, Memory, MemoryOf
  <2>2. job[h].req.user \in Users
    BY <1>1, UserOf
  <2>3. CASE job[h].req.user = u
    BY <1>2, <2>1, <2>3 DEF Remembers, IsAccessEdit, IsUpdate
  <2>4. CASE job[h].req.user # u
    BY <1>1, <2>1, <2>2, <2>4
  <2> QED
    BY <2>3, <2>4
<1>9. Fresh'
  BY <1>1, <1>3, <1>6 DEF IInv, Fresh, FreshFor, WantKept
<1>10. NodesFollow'
  <2> SUFFICES ASSUME NEW n \in Nodes, NEW v \in Users
               PROVE  \/ UserInStep(n, v)'
                      \/ <<n, v>> \in abandoned'
                      \/ \E h \in Handlers : Edits(h, v)' /\ Owes(h, n)'
    BY DEF NodesFollow
  <2>1. UserInStep(n, v) => UserInStep(n, v)'
    BY <1>1, <1>3 DEF UserInStep, WantKept
  <2>2. ASSUME NEW h \in Handlers, Edits(h, v), Owes(h, n)
        PROVE  Edits(h, v)' /\ Owes(h, n)'
    BY <1>4, <1>5, <2>2
  <2> QED
    BY <1>1, <2>1, <2>2 DEF IInv, NodesFollow
<1> QED
  BY <1>7, <1>8, <1>9, <1>10 DEF IInv

LEMMA CrashStep ==
  ASSUME IInv, TypeInv', Crash
  PROVE  IInv'
<1>1. /\ life' = life /\ row' = row /\ access' = access /\ served' = served
      /\ abandoned' = abandoned \cup DebtsOf(Handlers)
      /\ \A h \in Handlers : job'[h] = Idle
      /\ \A n \in Nodes, u \in Users : UserInStep(n, u)' <=> UserInStep(n, u)
  BY DEF Crash, database, nodes, UserInStep, WantUsers, UsersForNode, ListEnabled
<1>2. \A h \in Handlers : /\ \A u \in Users : ~Edits(h, u)'
                         /\ MemoryOf(h)' /\ FreshFor(h)' /\ job'[h].node = None
  BY <1>1, IdleEdits
<1>3. NodesFollow'
  <2> SUFFICES ASSUME NEW n \in Nodes, NEW u \in Users
               PROVE  UserInStep(n, u)' \/ <<n, u>> \in abandoned'
    BY DEF NodesFollow
  <2>1. ASSUME NEW h \in Handlers, Edits(h, u), Owes(h, n)
        PROVE  <<n, u>> \in abandoned'
    BY <1>1, <2>1 DEF DebtsOf
  <2> QED
    BY <1>1, <2>1 DEF IInv, NodesFollow
<1> QED
  BY <1>1, <1>2, <1>3
  DEF IInv, LocksExclude, OneEditor, NewUsersHaveNoAccess, Memory, Fresh

LEMMA StutterStep ==
  ASSUME IInv, TypeInv', UNCHANGED vars
  PROVE  IInv'
<1>1. /\ life' = life /\ row' = row /\ access' = access /\ served' = served
      /\ abandoned' = abandoned /\ lock' = lock /\ job' = job
  BY DEF vars, database, nodes
<1>2. /\ LocksExclude' /\ NewUsersHaveNoAccess' /\ Memory'
  BY <1>1 DEF IInv, LocksExclude, NewUsersHaveNoAccess, Memory, MemoryOf
<1>3. /\ \A h \in Handlers : \A n : Pending(h, n)' <=> Pending(h, n)
      /\ \A h \in Handlers : \A u : Edits(h, u)' <=> Edits(h, u)
  BY <1>1 DEF Pending, Edits
<1>4. \A h \in Handlers : \A n : Owes(h, n)' <=> Owes(h, n)
  BY <1>1, <1>3 DEF Owes
<1>5. \A n : WantUsers(n)' = WantUsers(n) /\ UsersForNode(n)' = UsersForNode(n)
  BY <1>1 DEF WantUsers, UsersForNode, ListEnabled
<1>6. OneEditor' /\ NodesFollow'
  BY <1>1, <1>3, <1>4, <1>5 DEF IInv, OneEditor, NodesFollow, UserInStep
<1>7. Fresh'
  BY <1>1, <1>3, <1>5 DEF IInv, Fresh, FreshFor, Excused
<1> QED
  BY <1>2, <1>6, <1>7 DEF IInv

LEMMA InitIInv == Init => IInv
<1> SUFFICES ASSUME Init PROVE IInv
  OBVIOUS
<1>1. TypeInv
  BY InitTypeInv
<1>2. \A h \in Handlers : job[h] = Idle
  BY DEF Init
<1>3. \A h \in Handlers : /\ job[h].node = None /\ job[h].pc = "idle"
                         /\ ~IsUserEdit(job[h].req)
  BY <1>2 DEF Idle, NoRequest, IsUserEdit, UserKinds
<1>4. \A h \in Handlers, u \in Users : ~Edits(h, u)
  BY <1>1, <1>3, EditsAUser
<1>5. NodesFollow
  BY DEF Init, NodesFollow, UserInStep
<1> QED
  BY <1>1, <1>3, <1>4, <1>5
  DEF IInv, LocksExclude, OneEditor, NewUsersHaveNoAccess, Memory, MemoryOf,
      Fresh, FreshFor, Init

LEMMA NextIInv ==
  ASSUME OneEditPerUser, IInv, [Next]_vars
  PROVE  IInv'
<1>1. TypeInv'
  BY NextTypeInv DEF IInv
<1>2. CASE UNCHANGED vars
  BY <1>1, <1>2, StutterStep
<1>3. ASSUME NEW u \in Users, CreateUser(u)
      PROVE  IInv'
  BY <1>1, <1>3, CreateUserStep
<1>4. ASSUME NEW h \in Handlers, NEW r \in Requests, Begin(h, r)
      PROVE  IInv'
  BY <1>1, <1>4, BeginStep
<1>5. ASSUME NEW h \in Handlers, NEW n \in Nodes, SyncNode(h, n)
      PROVE  IInv'
  BY <1>1, <1>5, TakeLockStep, QueryAllowedStep, QueryUsersStep,
     QueryInboundsStep, PushedStep, NotPushedStep DEF SyncNode
<1>6. ASSUME NEW h \in Handlers, Step(h)
      PROVE  IInv'
  BY <1>1, <1>5, <1>6, ReadAssignmentsStep, CommitStep, RefuseStep, ReloadStep,
     AimStep, AnswerStep, DeleteRowsStep, DeleteRowsFailsStep, UndoStep,
     RevertTargetStep, UndoFailsStep, ForgetEditStep, RevertUnpushedStep DEF Step
<1>7. CASE Crash
  BY <1>1, <1>7, CrashStep
<1> QED
  BY <1>2, <1>3, <1>4, <1>6, <1>7 DEF Next

-----------------------------------------------------------------------------
(***************************************************************************)
(* What follows.                                                           *)
(***************************************************************************)

\* Each property, from the invariant.
LEMMA UsersFollowFromIInv == IInv => UsersFollowDatabase
  BY ConstantsAssumption DEF IInv, NodesFollow, UsersFollowDatabase

LEMMA NoStaleFromIInv == IInv => NoStalePush
  BY ConstantsAssumption DEF IInv, Fresh, FreshFor, Excused, NoStalePush

LEMMA AnsweredFromIInv == IInv => AnsweredEditIsPublished
<1> SUFFICES ASSUME IInv, NEW h \in Handlers, Succeeded(h),
                    IsUserEdit(job[h].req), NEW n \in Managed,
                    NEW u, u = job[h].req.user
             PROVE  \/ UserInStep(n, u)
                    \/ <<n, u>> \in abandoned
                    \/ \E g \in Handlers \ {h} : Edits(g, u) /\ Owes(g, n)
  BY DEF AnsweredEditIsPublished
<1>1. u \in Users /\ n \in Nodes
  BY UserOf, ConstantsAssumption DEF IInv
<1>2. ~Owes(h, n)
  BY FreeOwesNothing DEF IInv, Free, Succeeded
<1> QED
  BY <1>1, <1>2 DEF IInv, NodesFollow

LEMMA NothingElseFromIInv == IInv => RolledBackEditLeavesOnlyItsNote
<1> SUFFICES ASSUME IInv, NEW h \in Handlers, RolledBack(h),
                    IsUserEdit(job[h].req), NEW u, u = job[h].req.user
             PROVE  /\ \/ IsAccessEdit(job[h].req)
                       \/ row[u] = FoundRow(job[h].req, job[h].before)
                    /\ access[u] = job[h].beforeNodes
                    /\ \A n \in Managed : UserInStep(n, u) \/ <<n, u>> \in abandoned
  BY DEF RolledBackEditLeavesOnlyItsNote
<1>1. u \in Users /\ Edits(h, u)
  BY UserOf DEF IInv
<1>2. Remembers(job[h], life[u], row[u], access[u])
  BY DEF IInv, Memory, MemoryOf
<1>3. IsAccessEdit(job[h].req) \/ row[u] = FoundRow(job[h].req, job[h].before)
  BY <1>2 DEF RolledBack, Remembers
<1>4. access[u] = job[h].beforeNodes
  BY <1>2 DEF RolledBack, Remembers
<1>5. ASSUME NEW n \in Managed
      PROVE  UserInStep(n, u) \/ <<n, u>> \in abandoned
  <2>1. ~Owes(h, n)
    BY FreeOwesNothing DEF IInv, Free, RolledBack
  <2>2. \A g \in Handlers : Edits(g, u) => g = h
    BY <1>1 DEF IInv, OneEditor
  <2> QED
    BY <1>1, <2>1, <2>2, ConstantsAssumption DEF IInv, NodesFollow
<1> QED
  BY <1>3, <1>4, <1>5

\* The invariant holds in every reachable state, whatever the faults.
LEMMA Invariance ==
  ASSUME OneEditPerUser
  PROVE  Spec => []IInv
<1>1. Init => IInv
  BY InitIInv
<1>2. IInv /\ [Next]_vars => IInv'
  BY NextIInv
<1> QED
  BY <1>1, <1>2, PTL DEF Spec

\* Requests, queries, pushes, failures and crashes may interleave as they like:
\* as long as nobody edits one user twice at the same time, every managed node
\* serves every user as the database says, except where the request that edits
\* that user still owes the push or has given the pair up.
THEOREM UsersAreFollowed == OneEditPerUser => (Spec => []UsersFollowDatabase)
<1>1. ASSUME OneEditPerUser PROVE Spec => []UsersFollowDatabase
  BY <1>1, Invariance, UsersFollowFromIInv, PTL
<1> QED
  BY <1>1

\* generateConfig reads three tables at three moments without a transaction;
\* still, what it gets wrong about a user by the time it is pushed is corrected
\* by a request already on its way to the node.
THEOREM PushesAreNotStale == OneEditPerUser => (Spec => []NoStalePush)
<1>1. ASSUME OneEditPerUser PROVE Spec => []NoStalePush
  BY <1>1, Invariance, NoStaleFromIInv, PTL
<1> QED
  BY <1>1

\* A user edit that is about to be answered with success is in force on every
\* managed node.
THEOREM AnsweredMeansPublished ==
  OneEditPerUser => (Spec => []AnsweredEditIsPublished)
<1>1. ASSUME OneEditPerUser PROVE Spec => []AnsweredEditIsPublished
  BY <1>1, Invariance, AnsweredFromIInv, PTL
<1> QED
  BY <1>1

\* A user edit that is reported as rolled back has left nothing behind but the
\* note it carried, in the database or on a node.
THEOREM RollbackLeavesOnlyTheNote ==
  OneEditPerUser => (Spec => []RolledBackEditLeavesOnlyItsNote)
<1>1. ASSUME OneEditPerUser PROVE Spec => []RolledBackEditLeavesOnlyItsNote
  BY <1>1, Invariance, NothingElseFromIInv, PTL
<1> QED
  BY <1>1

=============================================================================
