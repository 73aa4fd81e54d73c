---------------------------- MODULE TrafficPolling ----------------------------
(***************************************************************************)
(* How the panel accounts for its users' traffic.  Once a minute a cycle   *)
(* reads the user table, then polls every node in a goroutine of its own,  *)
(* at most Slots at a time, each guarded by a timeout.  A poll takes the   *)
(* node's pooled connection, reads the per-user counters of sing-box AND   *)
(* CLEARS THEM, and adds what it read to two ledgers: the user's row and   *)
(* the samples of traffic_logs, by two statements whose errors it ignores. *)
(* A guard that times out frees its slot and drops the connection, but the *)
(* goroutine it guarded runs on, into the next cycle if need be.           *)
(*                                                                         *)
(* The ledgers are histories here: what polls have ever added to a row or  *)
(* inserted as samples.  What takes bytes out of them again (a reset, the  *)
(* monthly reset, pruning, the deletion of a user or a node) is the        *)
(* subject of Ledger, and makes the two differ in ordinary use.            *)
(***************************************************************************)
EXTENDS SSHPool, FiniteSetsExt

CONSTANTS
  Users,      \* user ids
  Names,      \* user names
  Polls,      \* poll goroutines that may exist at the same time
  GuardOf,    \* the goroutine that guards the poll of a node
  Slots,      \* pollConcurrency
  MaxCarried, \* bound: bytes a user carries in a run
  Operations, \* what operators do: subset of
              \* {"create", "rename", "remove", "edit"}
  Faults      \* what may fail besides the network: subset of {"store"}

ASSUME PollingAssumption ==
  /\ GuardOf \in [Nodes -> Callers \ Polls]
  /\ \A n, m \in Nodes : GuardOf[n] = GuardOf[m] => n = m
  /\ Polls \subseteq Callers
  /\ Slots \in Nat \ {0} /\ MaxCarried \in Nat
  /\ None \notin Users \cup Names \cup Polls
  /\ Targets \subseteq Nat
  /\ IsFiniteSet(Nodes) /\ IsFiniteSet(Names) /\ IsFiniteSet(Polls)

VARIABLES
  owner,      \* owner[x]: the user whose row has the name x, or None
  had,        \* history: had[x], the users whose row ever had the name x
  target,     \* target[n]: the connection parameters in the row of n
  charged,    \* history: charged[u], the bytes added to the row of u
  sampled,    \* history: sampled[n][u], the bytes of the samples inserted
  served,     \* served[n][x]: the user node n runs under the name x, or None
  counter,    \* counter[n][x]: sing-box's counters since they were last read
  cycle,      \* "waiting" for the ticker or "polling"
  known,      \* nameToUser of the current cycle
  guard,      \* guard[n]: the goroutine that guards the poll of n
  poll,       \* poll[g]: the local state of a poll goroutine
  carried,    \* history: the bytes each user has moved
  lost,       \* history: those no row will ever be charged with
  unsampled   \* history: those no sample will ever show

accounts == <<owner, had, target>>
ledgers  == <<charged, sampled>>
remote   == <<served, counter>>
poller   == <<cycle, known, guard, poll>>
history  == <<carried, lost, unsampled>>
allVars  == <<vars, accounts, ledgers, remote, poller, history>>

Nobody == [x \in Names |-> None]
Zero   == [x \in Names |-> 0]

(***************************************************************************)
(* A guard waits for a slot, waits for its poll, has its answer in the     *)
(* channel, or drops the connection once its timer has fired.  A poll is   *)
(* inside pool.get, adds what it read to the ledgers one user at a time,   *)
(* or drops the connection.  `whose' is history: the users the bytes in    *)
(* `stats' belong to.                                                      *)
(***************************************************************************)
GuardPcs == {"none", "queued", "polling", "answered", "dropping", "done"}
PollPcs  == {"idle", "get", "charge", "record", "fail"}

NoGuard == [pc |-> "none", poll |-> None, target |-> None]
NoPoll  == [pc |-> "idle", node |-> None, known |-> Nobody, stats |-> Zero,
            whose |-> Nobody, name |-> None]

Guard == [pc : GuardPcs, poll : Polls \cup {None},
          target : Targets \cup {None}]
Poll  == [pc : PollPcs, node : Nodes \cup {None},
          known : [Names -> Users \cup {None}], stats : [Names -> Nat],
          whose : [Names -> Users \cup {None}], name : Names \cup {None}]

\* Type invariant: the accounts, the ledgers, the nodes and the poller.
PollingTypeOK ==
  /\ TypeOK
  /\ owner \in [Names -> Users \cup {None}]
  /\ had \in [Names -> SUBSET Users]
  /\ target \in [Nodes -> Targets]
  /\ charged \in [Users -> Nat]
  /\ sampled \in [Nodes -> [Users -> Nat]]
  /\ served \in [Nodes -> [Names -> Users \cup {None}]]
  /\ counter \in [Nodes -> [Names -> Nat]]
  /\ cycle \in {"waiting", "polling"}
  /\ known \in [Names -> Users \cup {None}]
  /\ guard \in [Nodes -> Guard]
  /\ poll \in [Polls -> Poll]
  /\ carried \in [Users -> Nat]
  /\ lost \in [Users -> Nat]
  /\ unsampled \in [Users -> Nat]

Live == {owner[x] : x \in Names} \ {None}

\* The users a node may run: any of those the table has listed, each under one
\* name.  A request generates the configuration from rows it read earlier and
\* leaves out users that are disabled, over their limit or without access.
Configurations ==
  {f \in [Names -> Users \cup {None}] :
     /\ \A x \in Names : f[x] # None => f[x] \in had[x]
     /\ \A x, y \in Names : f[x] = f[y] /\ f[x] # None => x = y}

PollingInit ==
  /\ Init
  /\ owner \in [Names -> Users \cup {None}]
  /\ \A x, y \in Names : owner[x] = owner[y] /\ owner[x] # None => x = y
  /\ had \in [Names -> SUBSET Users]
  /\ \A x \in Names : owner[x] # None => owner[x] \in had[x]
  /\ target \in [Nodes -> Targets]
  /\ charged = [u \in Users |-> 0]
  /\ sampled = [n \in Nodes |-> [u \in Users |-> 0]]
  /\ served \in [Nodes -> Configurations]
  /\ counter = [n \in Nodes |-> Zero]
  /\ cycle = "waiting"
  /\ known = Nobody
  /\ guard = [n \in Nodes |-> NoGuard]
  /\ poll = [g \in Polls |-> NoPoll]
  /\ carried = [u \in Users |-> 0]
  /\ lost = [u \in Users |-> 0]
  /\ unsampled = [u \in Users |-> 0]

\* The bytes of u among counters kept per name.
BytesOf(u, counters, whose) ==
  SumFunctionOnSet(counters, {x \in Names : whose[x] = u})

Adding(sums, counters, whose) ==
  [u \in Users |-> sums[u] + BytesOf(u, counters, whose)]

\* Bytes that will reach neither ledger.
Lose(counters, whose) ==
  /\ lost' = Adding(lost, counters, whose)
  /\ unsampled' = Adding(unsampled, counters, whose)

\* A poll that has the counter of x alone.
Only(p, x) == [Zero EXCEPT ![x] = p.stats[x]]

-----------------------------------------------------------------------------
(***************************************************************************)
(* The cycle and the guards.                                               *)
(***************************************************************************)

\* pollAll reads the users and the nodes once and starts a guard per node.
PollAll ==
  /\ cycle = "waiting"
  /\ cycle' = "polling"
  /\ known' = owner
  /\ guard' = [n \in Nodes |-> [NoGuard EXCEPT !.pc = "queued",
                                           !.target = target[n]]]
  /\ UNCHANGED <<vars, accounts, ledgers, remote, poll, history>>

\* Faulty variant: a slot is never given back.
HoldsSlotForever(n) ==
  guard[n].pc \in {"polling", "answered", "dropping", "done"}

HoldsSlot(n) == guard[n].pc \in {"polling", "answered", "dropping"}

\* The guard gets a slot and starts the poll, which begins with pool.get.
TakeSlot(n) ==
  /\ guard[n].pc = "queued"
  /\ Cardinality({m \in Nodes : HoldsSlot(m)}) < Slots
  /\ \E g \in Polls :
       /\ poll[g].pc = "idle"
       /\ StartGet(g, n, guard[n].target)
       /\ guard' = [guard EXCEPT ![n] = [NoGuard EXCEPT !.pc = "polling",
                                                        !.poll = g]]
       /\ poll' = [poll EXCEPT ![g] = [NoPoll EXCEPT !.pc = "get", !.node = n,
                                                     !.known = known]]
  /\ UNCHANGED <<accounts, ledgers, remote, cycle, known, history>>

\* The poll's result arrives in time.
Answered(n) ==
  /\ guard[n].pc = "answered"
  /\ guard' = [guard EXCEPT ![n].pc = "done"]
  /\ UNCHANGED <<vars, accounts, ledgers, remote, cycle, known, poll, history>>

\* The timer fires, perhaps at the very moment the result arrives.
TimesOut(n) ==
  /\ guard[n].pc \in {"polling", "answered"}
  /\ StartDrop(GuardOf[n], n)
  /\ guard' = [guard EXCEPT ![n] = [NoGuard EXCEPT !.pc = "dropping"]]
  /\ UNCHANGED <<accounts, ledgers, remote, cycle, known, poll, history>>

GuardDone(n) ==
  /\ guard[n].pc = "dropping" /\ call[GuardOf[n]].pc = "dropped"
  /\ Finish(GuardOf[n])
  /\ guard' = [guard EXCEPT ![n].pc = "done"]
  /\ UNCHANGED <<accounts, ledgers, remote, cycle, known, poll, history>>

\* wg.Wait returns when every guard has; the next cycle waits for the ticker.
CycleEnds ==
  /\ cycle = "polling"
  /\ \A n \in Nodes : guard[n].pc = "done"
  /\ cycle' = "waiting"
  /\ known' = Nobody
  /\ guard' = [n \in Nodes |-> NoGuard]
  /\ UNCHANGED <<vars, accounts, ledgers, remote, poll, history>>

-----------------------------------------------------------------------------
(***************************************************************************)
(* One poll.  It goes on after its guard has given it up.                  *)
(***************************************************************************)

\* A step of pool.get or pool.drop, of a poll or of a guard.
InPool(g) ==
  /\ PoolStep(g)
  /\ UNCHANGED <<accounts, ledgers, remote, poller, history>>

HasClient(g) == poll[g].pc = "get" /\ call[g].pc = "got"

\* Faulty variant: the counters are read without being cleared.
ReadOnly(g) ==
  LET n == poll[g].node IN
  /\ HasClient(g)
  /\ conn[call[g].client].state = "open"
  /\ poll' = [poll EXCEPT ![g].pc = "charge", ![g].stats = counter[n],
                          ![g].whose = served[n]]
  /\ UNCHANGED <<vars, accounts, ledgers, remote, cycle, known, guard, history>>

\* The node answers with its counters and clears them (reset=true).
QueryAnswered(g) ==
  LET n == poll[g].node IN
  /\ HasClient(g)
  /\ conn[call[g].client].state = "open"
  /\ poll' = [poll EXCEPT ![g].pc = "charge", ![g].stats = counter[n],
                          ![g].whose = served[n]]
  /\ counter' = [counter EXCEPT ![n] = Zero]
  /\ UNCHANGED <<vars, accounts, ledgers, served, cycle, known, guard, history>>

\* The node cleared its counters but the answer never arrives: the connection
\* breaks, another goroutine drops it, or the call's own deadline passes.
AnswerLost(g) ==
  LET n == poll[g].node IN
  /\ HasClient(g)
  /\ Lose(counter[n], served[n])
  /\ counter' = [counter EXCEPT ![n] = Zero]
  /\ StartDrop(g, n)
  /\ poll' = [poll EXCEPT ![g] = [NoPoll EXCEPT !.pc = "fail", !.node = n]]
  /\ UNCHANGED <<accounts, ledgers, served, cycle, known, guard, carried>>

\* The request does not reach the node.
QueryFails(g) ==
  LET n == poll[g].node IN
  /\ HasClient(g)
  /\ StartDrop(g, n)
  /\ poll' = [poll EXCEPT ![g] = [NoPoll EXCEPT !.pc = "fail", !.node = n]]
  /\ UNCHANGED <<accounts, ledgers, remote, cycle, known, guard, history>>

\* A name that is not in this cycle's table is skipped (a user created or
\* renamed since the cycle began): its bytes are neither on the node nor in a
\* ledger.
SkipUnknown(g, x) ==
  /\ poll[g].pc = "charge" /\ poll[g].stats[x] > 0
  /\ poll[g].known[x] = None
  /\ Lose(Only(poll[g], x), poll[g].whose)
  /\ poll' = [poll EXCEPT ![g].stats[x] = 0]
  /\ UNCHANGED <<vars, accounts, ledgers, remote, cycle, known, guard, carried>>

\* AddTraffic.  The name stands for the user who had it when the cycle began.
\* A row deleted meanwhile is not charged, and the statement may fail: its error
\* is ignored.
Charge(g, x) ==
  LET u == poll[g].known[x] IN
  /\ poll[g].pc = "charge" /\ poll[g].stats[x] > 0 /\ u # None
  /\ poll' = [poll EXCEPT ![g].pc = "record", ![g].name = x]
  /\ \/ /\ u \in Live
        /\ charged' = [charged EXCEPT ![u] = @ + poll[g].stats[x]]
        /\ UNCHANGED lost
     \/ /\ u \notin Live \/ "store" \in Faults
        /\ lost' = Adding(lost, Only(poll[g], x), poll[g].whose)
        /\ UNCHANGED charged
  /\ UNCHANGED <<vars, accounts, sampled, remote, cycle, known, guard, carried,
                 unsampled>>

\* Faulty variant: nothing is recorded for a node that was given up.
RecordInTime(g) ==
  LET n == poll[g].node  x == poll[g].name IN
  /\ poll[g].pc = "record"
  /\ sampled' = IF guard[n].poll = g
                  THEN [sampled EXCEPT ![n][poll[g].known[x]] =
                          @ + poll[g].stats[x]]
                  ELSE sampled
  /\ poll' = [poll EXCEPT ![g].pc = "charge", ![g].name = None,
                          ![g].stats[x] = 0]
  /\ UNCHANGED <<vars, accounts, charged, remote, cycle, known, guard, history>>

\* traffic_logs takes a sample of any user id, were the user deleted meanwhile:
\* the foreign keys of the schema are not enforced.  The error of this statement
\* is ignored as well.
Record(g) ==
  LET n == poll[g].node  x == poll[g].name IN
  /\ poll[g].pc = "record"
  /\ poll' = [poll EXCEPT ![g].pc = "charge", ![g].name = None,
                          ![g].stats[x] = 0]
  /\ \/ /\ sampled' = [sampled EXCEPT ![n][poll[g].known[x]] =
                          @ + poll[g].stats[x]]
        /\ UNCHANGED unsampled
     \/ /\ "store" \in Faults
        /\ unsampled' = Adding(unsampled, Only(poll[g], x), poll[g].whose)
        /\ UNCHANGED sampled
  /\ UNCHANGED <<vars, accounts, charged, remote, cycle, known, guard, carried,
                 lost>>

\* The goroutine returns and leaves its result in the channel; nobody reads it
\* when the guard has gone.
PollEnds(g) ==
  LET n == poll[g].node IN
  /\ \/ poll[g].pc = "get" /\ call[g].pc = "failed"
     \/ poll[g].pc = "charge" /\ poll[g].stats = Zero
     \/ poll[g].pc = "fail" /\ call[g].pc = "dropped"
  /\ Finish(g)
  /\ poll' = [poll EXCEPT ![g] = NoPoll]
  /\ guard' = IF guard[n].poll = g THEN [guard EXCEPT ![n].pc = "answered",
                                                      ![n].poll = None]
                                   ELSE guard
  /\ UNCHANGED <<accounts, ledgers, remote, cycle, known, history>>

PollStep(g) ==
  \/ QueryAnswered(g) \/ AnswerLost(g) \/ QueryFails(g)
  \/ \E x \in Names : SkipUnknown(g, x) \/ Charge(g, x)
  \/ Record(g) \/ PollEnds(g)

-----------------------------------------------------------------------------
(***************************************************************************)
(* The nodes, and the operators as far as the accounting can tell (their   *)
(* requests are the subject of ConfigSync).                                *)
(***************************************************************************)

\* sing-box carries traffic for a user it serves.
Traffic(n, x) ==
  LET u == served[n][x] IN
  /\ u # None /\ carried[u] < MaxCarried
  /\ counter' = [counter EXCEPT ![n][x] = @ + 1]
  /\ carried' = [carried EXCEPT ![u] = @ + 1]
  /\ UNCHANGED <<vars, accounts, ledgers, served, poller, lost, unsampled>>

\* A pushed configuration restarts sing-box, which starts counting from zero.
Push(n) ==
  /\ \E f \in Configurations : served' = [served EXCEPT ![n] = f]
  /\ counter' = [counter EXCEPT ![n] = Zero]
  /\ Lose(counter[n], served[n])
  /\ UNCHANGED <<vars, accounts, ledgers, poller, carried>>

\* AUTOINCREMENT never hands out an id again.
CreateUser(u, x) ==
  /\ "create" \in Operations
  /\ \A y \in Names : u \notin had[y]
  /\ owner[x] = None
  /\ owner' = [owner EXCEPT ![x] = u]
  /\ had' = [had EXCEPT ![x] = @ \cup {u}]
  /\ UNCHANGED <<vars, target, ledgers, remote, poller, history>>

\* A user gets another name, which no row has now (names are UNIQUE); somebody
\* may have had it before, and the old one is free for the next.
Rename(u, y) ==
  /\ "rename" \in Operations
  /\ u \in Live /\ owner[y] = None
  /\ owner' = [x \in Names |-> IF x = y THEN u
                               ELSE IF owner[x] = u THEN None ELSE owner[x]]
  /\ had' = [had EXCEPT ![y] = @ \cup {u}]
  /\ UNCHANGED <<vars, target, ledgers, remote, poller, history>>

\* The row of a user is deleted, whatever nodes and polls still hold of it.
DeleteUser(u) ==
  /\ "remove" \in Operations
  /\ u \in Live
  /\ owner' = [x \in Names |-> IF owner[x] = u THEN None ELSE owner[x]]
  /\ UNCHANGED <<vars, had, target, ledgers, remote, poller, history>>

\* A node gets another address (bound: never one it had before).  Polls of the
\* current cycle go on with the old one.
EditNode(n) ==
  /\ "edit" \in Operations
  /\ target[n] + 1 \in Targets
  /\ target' = [target EXCEPT ![n] = @ + 1]
  /\ UNCHANGED <<vars, owner, had, ledgers, remote, poller, history>>

Breaks(c) ==
  /\ TransportFails(c)
  /\ UNCHANGED <<accounts, ledgers, remote, poller, history>>

PollingNext ==
  \/ PollAll \/ CycleEnds
  \/ \E n \in Nodes : TakeSlot(n) \/ Answered(n) \/ TimesOut(n) \/ GuardDone(n)
  \/ \E g \in Callers : InPool(g)
  \/ \E g \in Polls : PollStep(g)
  \/ \E n \in Nodes : Push(n) \/ EditNode(n) \/ \E x \in Names : Traffic(n, x)
  \/ \E u \in Users : \/ \E x \in Names : CreateUser(u, x) \/ Rename(u, x)
                      \/ DeleteUser(u)
  \/ \E c \in Clients : Breaks(c)

PollingSpec == PollingInit /\ [][PollingNext]_allVars

(***************************************************************************)
(* Fairness: the ticker ticks, the timers fire, the guards run on, and so  *)
(* does what a guard does in the pool.  A poll may hang for ever in the    *)
(* SSH layer (only the TCP connect and the query have deadlines), and      *)
(* operators owe nothing.                                                  *)
(***************************************************************************)
PollingFairness ==
  /\ WF_allVars(PollAll) /\ WF_allVars(CycleEnds)
  /\ \A n \in Nodes : /\ WF_allVars(TakeSlot(n))
                      /\ WF_allVars(Answered(n)) /\ WF_allVars(TimesOut(n))
                      /\ WF_allVars(GuardDone(n))
                      /\ WF_allVars(InPool(GuardOf[n]))

FairPollingSpec == PollingSpec /\ PollingFairness

-----------------------------------------------------------------------------
(***************************************************************************)
(* Properties.                                                             *)
(***************************************************************************)

\* What a poll p has read and not yet added to a user's row.
InHand(p) ==
  [x \in Names |-> IF p.pc = "record" /\ p.name = x THEN 0 ELSE p.stats[x]]

\* The users who never had a name another user had.  Counters carry names and a
\* name stands for whoever had it when the cycle began, so traffic of users who
\* share a name, one after the other, may be charged to either of them.
Undisputed == {u \in Users : \A x \in Names : u \in had[x] => had[x] = {u}}

\* Every byte such a user has moved is in exactly one place: in the counters of
\* a node, in the hands of one poll, added to the user's row, or lost for the
\* row (an answer lost after the counters were cleared, a restart of sing-box, a
\* name this cycle does not know, a deleted user, a failed statement).  A poll
\* that outlives its guard and the next cycle's poll of the same node never
\* count a byte twice, and renames, however they fall between the reading of the
\* table and the charge, never make it another user's.
TrafficIsConserved ==
  \A u \in Undisputed :
    carried[u] =
        charged[u] + lost[u]
      + SumFunction([n \in Nodes |-> BytesOf(u, counter[n], served[n])])
      + SumFunction([g \in Polls |-> BytesOf(u, InHand(poll[g]), poll[g].whose)])

\* Likewise for the samples, which the statistics are drawn from: a sample is
\* inserted once for every byte, under the id the row was charged by, or the
\* byte is one of those lost or is the insert's that failed.  A poll that is
\* between the two statements still has it.
SamplesAreConserved ==
  \A u \in Undisputed :
    carried[u] =
        SumFunction([n \in Nodes |-> sampled[n][u]]) + unsampled[u]
      + SumFunction([n \in Nodes |-> BytesOf(u, counter[n], served[n])])
      + SumFunction([g \in Polls |-> BytesOf(u, poll[g].stats, poll[g].whose)])

\* However many polls hang for ever, a cycle ends and the ticker is served again
\* (but for a node whose poll cannot start because the instance has run out of
\* poll goroutines, a bound of the model).
EveryCycleEnds ==
  cycle = "polling" ~> \/ cycle = "waiting"
                       \/ /\ \A g \in Polls : poll[g].pc # "idle"
                          /\ \E n \in Nodes : guard[n].pc = "queued"

=============================================================================
