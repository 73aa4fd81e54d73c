-------------------------- MODULE TrafficPollingProofs --------------------------
(***************************************************************************)
(* What holds of the traffic poller for any number of nodes, polls, users  *)
(* and addresses.  It uses the pool the way SSHPool lets its callers use   *)
(* it, so what is proved of the pool holds of it under the poller; and of  *)
(* users who never shared a name, the accounting counts every byte once,   *)
(* for the user who moved it, or loses it for one of the reasons the model *)
(* names.                                                                  *)
(***************************************************************************)
EXTENDS TrafficPolling, SSHPoolProofs, SumFacts

-----------------------------------------------------------------------------
(***************************************************************************)
(* What the calls of the poller rest on: a queued guard knows where its    *)
(* node is, and a running poll which node it polls.                        *)
(***************************************************************************)
PollerTypes ==
  /\ owner \in [Names -> Users \cup {None}] /\ had \in [Names -> SUBSET Users]
  /\ target \in [Nodes -> Targets]
  /\ served \in [Nodes -> [Names -> Users \cup {None}]]
  /\ counter \in [Nodes -> [Names -> Nat]]
  /\ known \in [Names -> Users \cup {None}]
  /\ guard \in [Nodes -> Guard]
  /\ poll \in [Polls -> Poll]

QueuedKnowsTarget == \A n \in Nodes : guard[n].pc = "queued" => guard[n].target \in Targets
PollKnowsNode     == \A g \in Polls : poll[g].pc # "idle" => poll[g].node \in Nodes

PollerInv == PollerTypes /\ QueuedKnowsTarget /\ PollKnowsNode

LEMMA Actors ==
  /\ \A n \in Nodes : GuardOf[n] \in Callers
  /\ Polls \subseteq Callers
BY PollingAssumption DEF PollingAssumption

LEMMA BlankRecords ==
  /\ NoGuard \in Guard /\ NoGuard.pc = "none"
  /\ NoPoll \in Poll /\ NoPoll.pc = "idle"
  /\ Nobody \in [Names -> Users \cup {None}] /\ Zero \in [Names -> Nat]
<1>1. Nobody \in [Names -> Users \cup {None}] /\ Zero \in [Names -> Nat]
  BY DEF Nobody, Zero
<1>2. NoGuard \in Guard /\ NoGuard.pc = "none"
  BY DEF NoGuard, Guard, GuardPcs
<1>3. NoPoll \in Poll /\ NoPoll.pc = "idle"
  BY <1>1 DEF NoPoll, Poll, PollPcs
<1> QED
  BY <1>1, <1>2, <1>3

LEMMA PollingInitInv == PollingInit => PollerInv
<1> SUFFICES ASSUME PollingInit PROVE PollerInv
  OBVIOUS
<1>1. owner \in [Names -> Users \cup {None}] /\ had \in [Names -> SUBSET Users]
      /\ target \in [Nodes -> Targets]
  BY DEF PollingInit
<1>3. served \in [Nodes -> [Names -> Users \cup {None}]]
  BY DEF PollingInit, Configurations
<1>4. counter \in [Nodes -> [Names -> Nat]] /\ known \in [Names -> Users \cup {None}]
  BY BlankRecords DEF PollingInit
<1>5. guard \in [Nodes -> Guard] /\ poll \in [Polls -> Poll]
  BY BlankRecords DEF PollingInit
<1>6. QueuedKnowsTarget /\ PollKnowsNode
  BY BlankRecords DEF PollingInit, QueuedKnowsTarget, PollKnowsNode
<1> QED
  BY <1>1, <1>3, <1>4, <1>5, <1>6 DEF PollerInv, PollerTypes

-----------------------------------------------------------------------------
(***************************************************************************)
(* Records of guards and polls that a step replaces.                       *)
(***************************************************************************)
LEMMA NewGuard ==
  ASSUME PollerInv, NEW n \in Nodes, NEW r \in Guard, r.pc # "queued",
         guard' = [guard EXCEPT ![n] = r], UNCHANGED target
  PROVE  guard' \in [Nodes -> Guard] /\ QueuedKnowsTarget'
BY DEF PollerInv, PollerTypes, QueuedKnowsTarget

LEMMA NewPoll ==
  ASSUME PollerInv, NEW g \in Polls, NEW r \in Poll, r.pc # "idle" => r.node \in Nodes,
         poll' = [poll EXCEPT ![g] = r]
  PROVE  poll' \in [Polls -> Poll] /\ PollKnowsNode'
BY DEF PollerInv, PollerTypes, PollKnowsNode

\* A guard that only moves on.
LEMMA GuardMoves ==
  ASSUME PollerInv, NEW n \in Nodes, NEW p \in GuardPcs, p # "queued", UNCHANGED target,
         guard' = [guard EXCEPT ![n].pc = p]
  PROVE  guard' \in [Nodes -> Guard] /\ QueuedKnowsTarget'
<1> DEFINE r == [guard[n] EXCEPT !.pc = p]
<1>1. r \in Guard /\ r.pc = p
  BY DEF PollerInv, PollerTypes, Guard
<1>2. guard' = [guard EXCEPT ![n] = r]
  OBVIOUS
<1> HIDE DEF r
<1> QED
  BY <1>1, <1>2, NewGuard

\* A poll that moves on with what it knows, and forgets or zeroes the rest.
LEMMA PollMoves ==
  ASSUME PollerInv, NEW g \in Polls, poll[g].pc # "idle",
         NEW p \in PollPcs, NEW st \in [Names -> Nat], NEW x \in Names \cup {None},
         NEW w \in [Names -> Users \cup {None}],
         poll' = [poll EXCEPT ![g] =
                    [poll[g] EXCEPT !.pc = p, !.stats = st, !.whose = w, !.name = x]]
  PROVE  poll' \in [Polls -> Poll] /\ PollKnowsNode'
<1> DEFINE r == [poll[g] EXCEPT !.pc = p, !.stats = st, !.whose = w, !.name = x]
<1>1. poll[g] \in Poll /\ poll[g].node \in Nodes
  BY DEF PollerInv, PollerTypes, PollKnowsNode
<1>2. r \in Poll /\ r.node = poll[g].node
  BY <1>1 DEF Poll
<1>3. poll' = [poll EXCEPT ![g] = r]
  OBVIOUS
<1> HIDE DEF r
<1> QED
  BY <1>1, <1>2, <1>3, NewPoll

-----------------------------------------------------------------------------
(***************************************************************************)
(* Every step is a step of the pool's callers, or none of the pool's, and  *)
(* keeps the invariant.                                                    *)
(***************************************************************************)
PoolStepOrNone == [Next]_vars

Fine == PollerInv' /\ PoolStepOrNone

LEMMA CyclesAreFine ==
  ASSUME PollerInv, PollAll \/ CycleEnds
  PROVE  Fine
<1>1. UNCHANGED vars
  BY DEF PollAll, CycleEnds
<1>2. UNCHANGED <<owner, had, target, served, counter, poll>>
  BY DEF PollAll, CycleEnds, accounts, remote
<1>3. known' \in [Names -> Users \cup {None}]
  BY BlankRecords DEF PollAll, CycleEnds, PollerInv, PollerTypes
<1>4. guard' \in [Nodes -> Guard] /\ QueuedKnowsTarget'
  <2>1. CASE PollAll
    <3> DEFINE q(n) == [NoGuard EXCEPT !.pc = "queued", !.target = target[n]]
    <3>1. \A n \in Nodes : q(n) \in Guard /\ q(n).target \in Targets
      BY DEF PollerInv, PollerTypes, NoGuard, Guard, GuardPcs
    <3>2. guard' = [n \in Nodes |-> q(n)]
      BY <2>1 DEF PollAll
    <3> HIDE DEF q
    <3> QED
      BY <3>1, <3>2 DEF QueuedKnowsTarget
  <2>2. CASE CycleEnds
    BY <2>2, BlankRecords DEF CycleEnds, QueuedKnowsTarget
  <2> QED
    BY <2>1, <2>2
<1>5. PollKnowsNode'
  BY <1>2 DEF PollerInv, PollKnowsNode
<1>6. PollerTypes'
  BY <1>2, <1>3, <1>4 DEF PollerInv, PollerTypes
<1> QED
  BY <1>1, <1>4, <1>5, <1>6 DEF Fine, PollerInv, PoolStepOrNone

LEMMA TakeSlotIsFine ==
  ASSUME PollerInv, NEW n \in Nodes, TakeSlot(n)
  PROVE  Fine
<1>1. PICK g \in Polls :
        /\ StartGet(g, n, guard[n].target)
        /\ guard' = [guard EXCEPT ![n] = [NoGuard EXCEPT !.pc = "polling", !.poll = g]]
        /\ poll' = [poll EXCEPT ![g] = [NoPoll EXCEPT !.pc = "get", !.node = n,
                                                      !.known = known]]
  BY DEF TakeSlot
<1>2. guard[n].target \in Targets
  BY DEF TakeSlot, PollerInv, QueuedKnowsTarget
<1>3. Next
  BY <1>1, <1>2, Actors DEF Next, Use
<1> DEFINE q == [NoGuard EXCEPT !.pc = "polling", !.poll = g]
           r == [NoPoll EXCEPT !.pc = "get", !.node = n, !.known = known]
<1>4. q \in Guard /\ q.pc = "polling"
  BY DEF NoGuard, Guard, GuardPcs
<1>5. r \in Poll /\ r.node = n
  BY BlankRecords DEF NoPoll, Poll, PollPcs, PollerInv, PollerTypes
<1>6. guard' = [guard EXCEPT ![n] = q] /\ poll' = [poll EXCEPT ![g] = r]
  BY <1>1
<1> HIDE DEF q, r
<1>7. UNCHANGED <<owner, had, target, served, counter, known>>
  BY DEF TakeSlot, accounts, remote
<1>8. guard' \in [Nodes -> Guard] /\ QueuedKnowsTarget'
  BY <1>4, <1>6, <1>7, NewGuard
<1>9. poll' \in [Polls -> Poll] /\ PollKnowsNode'
  BY <1>5, <1>6, NewPoll
<1>10. PollerTypes'
  BY <1>7, <1>8, <1>9 DEF PollerInv, PollerTypes
<1> QED
  BY <1>3, <1>8, <1>9, <1>10 DEF Fine, PollerInv, PoolStepOrNone

LEMMA GuardsAreFine ==
  ASSUME PollerInv, NEW n \in Nodes, Answered(n) \/ TimesOut(n) \/ GuardDone(n)
  PROVE  Fine
<1>1. [Next]_vars
  <2>1. CASE Answered(n)
    BY <2>1 DEF Answered
  <2>2. CASE TimesOut(n)
    BY <2>2, Actors DEF TimesOut, Next, Use
  <2>3. CASE GuardDone(n)
    BY <2>3, Actors DEF GuardDone, Next, Use
  <2> QED
    BY <2>1, <2>2, <2>3
<1>2. UNCHANGED <<owner, had, target, served, counter, known, poll>>
  BY DEF Answered, TimesOut, GuardDone, accounts, remote
<1>3. guard' \in [Nodes -> Guard] /\ QueuedKnowsTarget'
  <2>1. CASE guard' = [guard EXCEPT ![n].pc = "done"]
    BY <1>2, <2>1, GuardMoves DEF GuardPcs
  <2>2. CASE guard' = [guard EXCEPT ![n] = [NoGuard EXCEPT !.pc = "dropping"]]
    <3> DEFINE q == [NoGuard EXCEPT !.pc = "dropping"]
    <3>1. q \in Guard /\ q.pc = "dropping"
      BY DEF NoGuard, Guard, GuardPcs
    <3>2. guard' = [guard EXCEPT ![n] = q]
      BY <2>2
    <3> HIDE DEF q
    <3> QED
      BY <1>2, <3>1, <3>2, NewGuard
  <2> QED
    BY <2>1, <2>2 DEF Answered, TimesOut, GuardDone
<1>4. PollKnowsNode'
  BY <1>2 DEF PollerInv, PollKnowsNode
<1>5. PollerTypes'
  BY <1>2, <1>3 DEF PollerInv, PollerTypes
<1> QED
  BY <1>1, <1>3, <1>4, <1>5 DEF Fine, PollerInv, PoolStepOrNone

\* The rest leaves the guards alone, but for the answer of a poll that ends.
LEMMA PollsAreFine ==
  ASSUME PollerInv, NEW g \in Polls, PollStep(g)
  PROVE  Fine
<1>1. poll[g].pc # "idle"
  BY DEF PollStep, QueryAnswered, AnswerLost, QueryFails, SkipUnknown, Charge, Record,
         PollEnds, HasClient
<1>2. poll[g] \in Poll /\ poll[g].node \in Nodes
  BY <1>1 DEF PollerInv, PollerTypes, PollKnowsNode
<1>3. [Next]_vars
  <2>1. CASE UNCHANGED vars
    BY <2>1
  <2>2. CASE StartDrop(g, poll[g].node) \/ Finish(g)
    BY <1>2, <2>2, Actors DEF Next, Use
  <2> QED
    BY <2>1, <2>2 DEF PollStep, QueryAnswered, AnswerLost, QueryFails, SkipUnknown, Charge,
       Record, PollEnds
<1>4. UNCHANGED <<owner, had, target, served, known>>
  BY DEF PollStep, QueryAnswered, AnswerLost, QueryFails, SkipUnknown, Charge, Record,
         PollEnds, accounts, remote
<1>5. counter' \in [Nodes -> [Names -> Nat]]
  <2>1. counter' = counter \/ counter' = [counter EXCEPT ![poll[g].node] = Zero]
    BY DEF PollStep, QueryAnswered, AnswerLost, QueryFails, SkipUnknown, Charge, Record,
           PollEnds, remote
  <2> QED
    BY <1>2, <2>1, BlankRecords DEF PollerInv, PollerTypes
<1>6. guard' \in [Nodes -> Guard] /\ QueuedKnowsTarget'
  <2>1. CASE guard' = guard
    BY <1>4, <2>1 DEF PollerInv, PollerTypes, QueuedKnowsTarget
  <2>2. CASE guard' = [guard EXCEPT ![poll[g].node].pc = "answered",
                                    ![poll[g].node].poll = None]
    <3> DEFINE n == poll[g].node
               q == [guard[n] EXCEPT !.pc = "answered", !.poll = None]
    <3>1. guard[n] \in Guard
      BY <1>2 DEF PollerInv, PollerTypes
    <3>2. q \in Guard /\ q.pc = "answered"
      BY <3>1 DEF Guard, GuardPcs
    <3>3. guard' = [guard EXCEPT ![n] = q]
      BY <1>2, <2>2 DEF PollerInv, PollerTypes
    <3> HIDE DEF q
    <3> QED
      BY <1>2, <1>4, <3>2, <3>3, NewGuard
  <2> QED
    BY <2>1, <2>2 DEF PollStep, QueryAnswered, AnswerLost, QueryFails, SkipUnknown, Charge,
       Record, PollEnds
<1>7. poll' \in [Polls -> Poll] /\ PollKnowsNode'
  <2> DEFINE o == poll[g]
             moved(p, st, w, x) == [o EXCEPT !.pc = p, !.stats = st, !.whose = w, !.name = x]
  <2>1. ASSUME NEW p \in PollPcs, NEW st \in [Names -> Nat], NEW x \in Names \cup {None},
               NEW w \in [Names -> Users \cup {None}],
               poll' = [poll EXCEPT ![g] = moved(p, st, w, x)]
        PROVE  poll' \in [Polls -> Poll] /\ PollKnowsNode'
    BY <1>1, <2>1, PollMoves
  <2>2. CASE QueryAnswered(g)
    <3>1. counter[o.node] \in [Names -> Nat] /\ served[o.node] \in [Names -> Users \cup {None}]
      BY <1>2 DEF PollerInv, PollerTypes
    <3>2. poll' = [poll EXCEPT ![g] = moved("charge", counter[o.node], served[o.node], o.name)]
      BY <1>2, <2>2 DEF QueryAnswered, Poll, PollerInv, PollerTypes
    <3> HIDE DEF moved
    <3> QED
      BY <1>2, <2>1, <3>1, <3>2 DEF PollPcs, Poll
  <2>3. CASE AnswerLost(g) \/ QueryFails(g)
    <3> DEFINE r == [NoPoll EXCEPT !.pc = "fail", !.node = o.node]
    <3>1. r \in Poll /\ r.node \in Nodes
      BY <1>2, BlankRecords DEF NoPoll, Poll, PollPcs
    <3>2. poll' = [poll EXCEPT ![g] = r]
      BY <2>3 DEF AnswerLost, QueryFails
    <3> HIDE DEF r
    <3> QED
      BY <3>1, <3>2, NewPoll
  <2>4. ASSUME NEW x \in Names, SkipUnknown(g, x)
        PROVE  poll' \in [Polls -> Poll] /\ PollKnowsNode'
    <3>1. poll' = [poll EXCEPT ![g] = moved(o.pc, [o.stats EXCEPT ![x] = 0], o.whose, o.name)]
      BY <1>2, <2>4 DEF SkipUnknown, Poll, PollerInv, PollerTypes
    <3>2. [o.stats EXCEPT ![x] = 0] \in [Names -> Nat]
      BY <1>2 DEF Poll
    <3> HIDE DEF moved
    <3> QED
      BY <1>2, <2>1, <3>1, <3>2 DEF Poll
  <2>5. ASSUME NEW x \in Names, Charge(g, x)
        PROVE  poll' \in [Polls -> Poll] /\ PollKnowsNode'
    <3>1. poll' = [poll EXCEPT ![g] = moved("record", o.stats, o.whose, x)]
      BY <1>2, <2>5 DEF Charge, Poll, PollerInv, PollerTypes
    <3> HIDE DEF moved
    <3> QED
      BY <1>2, <2>1, <3>1 DEF PollPcs, Poll
  <2>6. CASE Record(g)
    <3>1. poll' = [poll EXCEPT ![g] = moved("charge", [o.stats EXCEPT ![o.name] = 0], o.whose, None)]
      BY <1>2, <2>6 DEF Record, Poll, PollerInv, PollerTypes
    <3>2. [o.stats EXCEPT ![o.name] = 0] \in [Names -> Nat]
      BY <1>2 DEF Poll
    <3> HIDE DEF moved
    <3> QED
      BY <1>2, <2>1, <3>1, <3>2 DEF PollPcs, Poll
  <2>7. CASE PollEnds(g)
    BY <2>7, BlankRecords, NewPoll DEF PollEnds
  <2> QED
    BY <2>2, <2>3, <2>4, <2>5, <2>6, <2>7 DEF PollStep
<1>8. PollerTypes'
  BY <1>4, <1>5, <1>6, <1>7 DEF PollerInv, PollerTypes
<1> QED
  BY <1>3, <1>6, <1>7, <1>8 DEF Fine, PollerInv, PoolStepOrNone


LEMMA PoolStepsAreFine ==
  ASSUME PollerInv,
         \/ \E g \in Callers : InPool(g)
         \/ \E c \in Clients : Breaks(c)
         \/ UNCHANGED allVars
  PROVE  Fine
<1>1. [Next]_vars
  BY DEF InPool, Breaks, Next, allVars
<1>2. UNCHANGED <<owner, had, target, served, counter, known, guard, poll>>
  BY DEF InPool, Breaks, allVars, accounts, remote, poller
<1>3. PollerInv'
  BY <1>2 DEF PollerInv, PollerTypes, QueuedKnowsTarget, PollKnowsNode
<1> QED
  BY <1>1, <1>3 DEF Fine, PoolStepOrNone

LEMMA NodesAndOperatorsAreFine ==
  ASSUME PollerInv,
         \/ \E n \in Nodes : Push(n) \/ EditNode(n) \/ \E x \in Names : Traffic(n, x)
         \/ \E u \in Users : \/ \E x \in Names : CreateUser(u, x) \/ Rename(u, x)
                             \/ DeleteUser(u)
  PROVE  Fine
<1>1. UNCHANGED vars
  BY DEF Push, EditNode, Traffic, CreateUser, Rename, DeleteUser
<1>2. UNCHANGED <<known, guard, poll>>
  BY DEF Push, EditNode, Traffic, CreateUser, Rename, DeleteUser, poller
<1>3. owner' \in [Names -> Users \cup {None}] /\ had' \in [Names -> SUBSET Users]
  <2>1. CASE UNCHANGED <<owner, had>>
    BY <2>1 DEF PollerInv, PollerTypes
  <2>2. ASSUME NEW u \in Users, NEW x \in Names, CreateUser(u, x)
        PROVE  owner' \in [Names -> Users \cup {None}] /\ had' \in [Names -> SUBSET Users]
    BY <2>2 DEF PollerInv, PollerTypes, CreateUser
  <2>3. ASSUME NEW u \in Users, NEW x \in Names, Rename(u, x)
        PROVE  owner' \in [Names -> Users \cup {None}] /\ had' \in [Names -> SUBSET Users]
    BY <2>3 DEF PollerInv, PollerTypes, Rename
  <2>4. ASSUME NEW u \in Users, DeleteUser(u)
        PROVE  owner' \in [Names -> Users \cup {None}] /\ had' \in [Names -> SUBSET Users]
    BY <2>4 DEF PollerInv, PollerTypes, DeleteUser
  <2> QED
    BY <2>1, <2>2, <2>3, <2>4 DEF Push, EditNode, Traffic, accounts
<1>4. target' \in [Nodes -> Targets]
  BY DEF PollerInv, PollerTypes, Push, EditNode, Traffic, CreateUser, Rename,
         DeleteUser, accounts
<1>5. served' \in [Nodes -> [Names -> Users \cup {None}]]
  <2>1. ASSUME NEW n \in Nodes, Push(n)
        PROVE  served' \in [Nodes -> [Names -> Users \cup {None}]]
    <3>1. PICK f \in Configurations : served' = [served EXCEPT ![n] = f]
      BY <2>1 DEF Push
    <3>2. f \in [Names -> Users \cup {None}]
      BY DEF Configurations
    <3> QED
      BY <3>1, <3>2 DEF PollerInv, PollerTypes
  <2> QED
    BY <2>1 DEF PollerInv, PollerTypes, EditNode, Traffic, CreateUser, Rename,
       DeleteUser, remote
<1>6. counter' \in [Nodes -> [Names -> Nat]]
  <2>1. ASSUME NEW n \in Nodes, NEW x \in Names, Traffic(n, x)
        PROVE  counter' \in [Nodes -> [Names -> Nat]]
    BY <2>1 DEF PollerInv, PollerTypes, Traffic
  <2>2. ASSUME NEW n \in Nodes, Push(n) PROVE counter' \in [Nodes -> [Names -> Nat]]
    BY <2>2, BlankRecords DEF PollerInv, PollerTypes, Push
  <2> QED
    BY <2>1, <2>2 DEF PollerInv, PollerTypes, EditNode, CreateUser, Rename,
       DeleteUser, remote
<1>7. QueuedKnowsTarget' /\ PollKnowsNode'
  BY <1>2 DEF PollerInv, QueuedKnowsTarget, PollKnowsNode
<1>8. PollerTypes'
  BY <1>2, <1>3, <1>4, <1>5, <1>6 DEF PollerInv, PollerTypes
<1> QED
  BY <1>1, <1>7, <1>8 DEF Fine, PollerInv, PoolStepOrNone

LEMMA PollingStep == PollerInv /\ [PollingNext]_allVars => PollerInv' /\ [Next]_vars
<1> SUFFICES ASSUME PollerInv, [PollingNext]_allVars PROVE Fine
  BY DEF Fine, PoolStepOrNone
<1> QED
  BY CyclesAreFine, TakeSlotIsFine, GuardsAreFine, PollsAreFine, PoolStepsAreFine,
     NodesAndOperatorsAreFine DEF PollingNext

-----------------------------------------------------------------------------
\* The poller and its environment keep to the pool's interface: every behaviour of
\* the polling is one of the pool's.
THEOREM PollingUsesThePool == PollingSpec => Spec
<1>1. PollingInit => Init
  BY DEF PollingInit
<1> QED
  BY <1>1, PollingInitInv, PollingStep, PTL DEF PollingSpec, Spec

\* While the poller runs, a poll that got a client got one that leads to its node,
\* over the parameters that were in the node's row when its cycle began.
THEOREM PollsReachTheirNode == PollingSpec => []ClientLeadsToNode
BY PollingUsesThePool, ClientsLeadToTheirNode, PTL

\* While the poller runs, the pool holds no connection that the panel has closed.
THEOREM PollerPoolHoldsNothingClosed == PollingSpec => []PooledAreNotClosed
BY PollingUsesThePool, PoolHoldsNothingClosed, PTL

-----------------------------------------------------------------------------
(***************************************************************************)
(* What a step of a poll does to it, field by field.                       *)
(***************************************************************************)
OthersStay(g) == \A h \in Polls : h # g => poll'[h] = poll[h]

PollBecomes(g, p, st, w, x) ==
  /\ OthersStay(g)
  /\ poll'[g].pc = p /\ poll'[g].stats = st /\ poll'[g].whose = w /\ poll'[g].name = x
  /\ poll'[g].known = poll[g].known

LEMMA PollFacts ==
  ASSUME PollerInv, NEW g \in Polls
  PROVE  /\ poll[g] \in Poll /\ poll[g].pc \in PollPcs
         /\ poll[g].node \in Nodes \cup {None} /\ poll[g].name \in Names \cup {None}
         /\ poll[g].known \in [Names -> Users \cup {None}]
         /\ poll[g].whose \in [Names -> Users \cup {None}]
         /\ poll[g].stats \in [Names -> Nat]
<1>1. poll[g] \in Poll
  BY DEF PollerInv, PollerTypes
<1> QED
  BY <1>1 DEF Poll

LEMMA PollAt ==
  ASSUME PollerInv, NEW g \in Polls, PollStep(g)
  PROVE  poll[g].node \in Nodes
BY DEF PollStep, QueryAnswered, AnswerLost, QueryFails, SkipUnknown, Charge, Record,
   PollEnds, HasClient, PollerInv, PollKnowsNode

LEMMA QueryAnsweredView ==
  ASSUME PollerInv, NEW g \in Polls, QueryAnswered(g)
  PROVE  PollBecomes(g, "charge", counter[poll[g].node], served[poll[g].node], poll[g].name)
BY PollFacts DEF QueryAnswered, PollBecomes, OthersStay, Poll, PollerInv, PollerTypes

LEMMA QueryLostView ==
  ASSUME PollerInv, NEW g \in Polls, AnswerLost(g) \/ QueryFails(g)
  PROVE  /\ OthersStay(g)
         /\ poll'[g].pc = "fail" /\ poll'[g].stats = Zero /\ poll'[g].whose = Nobody
         /\ poll'[g].name = None /\ poll'[g].known = Nobody
<1> DEFINE r == [NoPoll EXCEPT !.pc = "fail", !.node = poll[g].node]
<1>1. /\ r.pc = "fail" /\ r.stats = Zero /\ r.whose = Nobody /\ r.name = None
      /\ r.known = Nobody
  BY DEF NoPoll
<1>2. poll' = [poll EXCEPT ![g] = r]
  BY DEF AnswerLost, QueryFails
<1> HIDE DEF r
<1> QED
  BY <1>1, <1>2 DEF OthersStay, PollerInv, PollerTypes

LEMMA SkipUnknownView ==
  ASSUME PollerInv, NEW g \in Polls, NEW x \in Names, SkipUnknown(g, x)
  PROVE  PollBecomes(g, "charge", [poll[g].stats EXCEPT ![x] = 0], poll[g].whose, poll[g].name)
BY PollFacts DEF SkipUnknown, PollBecomes, OthersStay, Poll, PollerInv, PollerTypes

LEMMA ChargeView ==
  ASSUME PollerInv, NEW g \in Polls, NEW x \in Names, Charge(g, x)
  PROVE  PollBecomes(g, "record", poll[g].stats, poll[g].whose, x)
BY PollFacts DEF Charge, PollBecomes, OthersStay, Poll, PollerInv, PollerTypes

LEMMA RecordView ==
  ASSUME PollerInv, NEW g \in Polls, Record(g)
  PROVE  PollBecomes(g, "charge", [poll[g].stats EXCEPT ![poll[g].name] = 0],
                     poll[g].whose, None)
BY PollFacts DEF Record, PollBecomes, OthersStay, Poll, PollerInv, PollerTypes

LEMMA PollEndsView ==
  ASSUME PollerInv, NEW g \in Polls, PollEnds(g)
  PROVE  OthersStay(g) /\ poll'[g] = NoPoll
BY DEF PollEnds, OthersStay, PollerInv, PollerTypes

LEMMA TakeSlotView ==
  ASSUME PollerInv, NEW n \in Nodes, TakeSlot(n)
  PROVE  \E g \in Polls :
           /\ OthersStay(g) /\ poll[g].pc = "idle"
           /\ poll'[g].pc = "get" /\ poll'[g].stats = Zero /\ poll'[g].whose = Nobody
           /\ poll'[g].name = None /\ poll'[g].known = known
<1>1. PICK g \in Polls :
        /\ poll[g].pc = "idle"
        /\ poll' = [poll EXCEPT ![g] = [NoPoll EXCEPT !.pc = "get", !.node = n,
                                                      !.known = known]]
  BY DEF TakeSlot
<1> DEFINE r == [NoPoll EXCEPT !.pc = "get", !.node = n, !.known = known]
<1>2. /\ r.pc = "get" /\ r.stats = Zero /\ r.whose = Nobody /\ r.name = None
      /\ r.known = known
  BY DEF NoPoll
<1>3. poll' = [poll EXCEPT ![g] = r]
  BY <1>1
<1> HIDE DEF r
<1>4. OthersStay(g) /\ poll'[g] = r
  BY <1>3 DEF OthersStay, PollerInv, PollerTypes
<1> QED
  BY <1>1, <1>2, <1>4

-----------------------------------------------------------------------------
(***************************************************************************)
(* The bytes of a user among counters kept per name.                       *)
(***************************************************************************)
LEMMA NamesOfUser ==
  ASSUME NEW u, NEW w
  PROVE  LET own == {x \in Names : w[x] = u} IN own \subseteq Names /\ IsFiniteSet(own)
BY PollingAssumption, FS_Subset DEF PollingAssumption

LEMMA BytesOfType ==
  ASSUME NEW u, NEW w, NEW c \in [Names -> Nat]
  PROVE  BytesOf(u, c, w) \in Nat
BY NamesOfUser, SumType DEF BytesOf

LEMMA BytesOfNone ==
  ASSUME NEW u, NEW w, NEW c, \A x \in Names : w[x] = u => c[x] = 0
  PROVE  BytesOf(u, c, w) = 0
BY NamesOfUser, SumOfZeros DEF BytesOf

\* Only the names of u count.
LEMMA BytesOfSame ==
  ASSUME NEW u, NEW w, NEW b, NEW c, \A x \in Names : w[x] = u => b[x] = c[x]
  PROVE  BytesOf(u, b, w) = BytesOf(u, c, w)
BY NamesOfUser, SumDependsOn DEF BytesOf

LEMMA BytesOfChanges ==
  ASSUME NEW u, NEW w, NEW x \in Names, w[x] = u,
         NEW b \in [Names -> Nat], NEW c \in [Names -> Nat],
         \A y \in Names \ {x} : c[y] = b[y]
  PROVE  /\ BytesOf(u, c, w) + b[x] = BytesOf(u, b, w) + c[x]
         /\ BytesOf(u, b, w) \in Nat /\ BytesOf(u, c, w) \in Nat
<1> DEFINE own == {y \in Names : w[y] = u}
<1>1. IsFiniteSet(own) /\ own \subseteq Names /\ x \in own
  BY NamesOfUser
<1>2. BytesOf(u, b, w) = SumFunctionOnSet(b, own) /\ BytesOf(u, c, w) = SumFunctionOnSet(c, own)
  BY DEF BytesOf
<1> HIDE DEF own
<1>3. (\A y \in own : b[y] \in Nat) /\ c[x] \in Nat /\ \A y \in own \ {x} : c[y] = b[y]
  BY <1>1
<1> QED
  BY <1>1, <1>2, <1>3, SumChanges

LEMMA BytesOfOne ==
  ASSUME NEW u, NEW w, NEW x \in Names, NEW b \in Nat
  PROVE  BytesOf(u, [Zero EXCEPT ![x] = b], w) = IF w[x] = u THEN b ELSE 0
<1> DEFINE c == [Zero EXCEPT ![x] = b]
<1>1. Zero \in [Names -> Nat] /\ c \in [Names -> Nat] /\ c[x] = b
      /\ \A y \in Names : Zero[y] = 0 /\ (y # x => c[y] = 0)
  BY DEF Zero
<1> HIDE DEF c
<1>2. CASE w[x] = u
  <2>1. BytesOf(u, Zero, w) = 0
    BY <1>1, BytesOfNone
  <2>2. BytesOf(u, c, w) + Zero[x] = BytesOf(u, Zero, w) + c[x]
    BY <1>1, <1>2, BytesOfChanges
  <2>3. BytesOf(u, c, w) \in Nat
    BY <1>1, BytesOfType
  <2> QED
    BY <1>1, <1>2, <2>1, <2>2, <2>3 DEF c
<1>3. CASE w[x] # u
  BY <1>1, <1>3, BytesOfNone DEF c
<1> QED
  BY <1>2, <1>3

-----------------------------------------------------------------------------
(***************************************************************************)
(* Type correctness.  The second statement of a poll rests on the first:   *)
(* it knows for whom.                                                      *)
(***************************************************************************)
AccountTypes ==
  /\ cycle \in {"waiting", "polling"}
  /\ charged \in [Users -> Nat] /\ sampled \in [Nodes -> [Users -> Nat]]
  /\ carried \in [Users -> Nat]
  /\ lost \in [Users -> Nat] /\ unsampled \in [Users -> Nat]

\* A poll that has read nothing has nothing to add.
PollKnowsWhat ==
  \A g \in Polls :
    /\ poll[g].pc \in {"idle", "get", "fail"} => poll[g].stats = Zero
    /\ poll[g].pc = "record" =>
         poll[g].name \in Names /\ poll[g].known[poll[g].name] \in Users

TypeInv == PollerInv /\ AccountTypes /\ PollKnowsWhat

LEMMA AddingType ==
  ASSUME NEW sums \in [Users -> Nat], NEW c \in [Names -> Nat], NEW w
  PROVE  Adding(sums, c, w) \in [Users -> Nat]
BY BytesOfType DEF Adding

LEMMA OnlyType ==
  ASSUME NEW p \in Poll, NEW x \in Names
  PROVE  Only(p, x) \in [Names -> Nat]
BY BlankRecords DEF Only, Poll

LEMMA InitTypeInv == PollingInit => TypeInv
<1> SUFFICES ASSUME PollingInit PROVE TypeInv
  OBVIOUS
<1>1. PollerInv
  BY PollingInitInv
<1>2. AccountTypes
  BY DEF PollingInit, AccountTypes
<1>3. PollKnowsWhat
  <2>1. \A g \in Polls : poll[g] = NoPoll
    BY DEF PollingInit
  <2> QED
    BY <2>1 DEF PollKnowsWhat, NoPoll
<1> QED
  BY <1>1, <1>2, <1>3 DEF TypeInv

LEMMA PollKnowsWhatStep ==
  ASSUME TypeInv, [PollingNext]_allVars
  PROVE  PollKnowsWhat'
<1> USE DEF TypeInv
<1>1. \A g \in Polls : poll[g].stats \in [Names -> Nat]
                       /\ poll[g].known \in [Names -> Users \cup {None}]
  BY PollFacts
<1>2. ASSUME NEW n \in Nodes, TakeSlot(n) PROVE PollKnowsWhat'
  BY <1>2, TakeSlotView DEF PollKnowsWhat, OthersStay
<1>3. ASSUME NEW g \in Polls, PollStep(g) PROVE PollKnowsWhat'
  <2>1. CASE QueryAnswered(g)
    BY <2>1, QueryAnsweredView DEF PollKnowsWhat, OthersStay, PollBecomes
  <2>2. CASE AnswerLost(g) \/ QueryFails(g)
    BY <2>2, QueryLostView DEF PollKnowsWhat, OthersStay
  <2>3. ASSUME NEW x \in Names, SkipUnknown(g, x) PROVE PollKnowsWhat'
    BY <2>3, SkipUnknownView DEF PollKnowsWhat, OthersStay, PollBecomes
  <2>4. ASSUME NEW x \in Names, Charge(g, x) PROVE PollKnowsWhat'
    <3>1. poll[g].known[x] \in Users
      BY <1>1, <2>4 DEF Charge
    <3> QED
      BY <2>4, <3>1, ChargeView DEF PollKnowsWhat, OthersStay, PollBecomes
  <2>5. CASE Record(g)
    BY <2>5, RecordView DEF PollKnowsWhat, OthersStay, PollBecomes
  <2>6. CASE PollEnds(g)
    BY <2>6, PollEndsView DEF PollKnowsWhat, OthersStay, NoPoll
  <2> QED
    BY <1>3, <2>1, <2>2, <2>3, <2>4, <2>5, <2>6 DEF PollStep
<1>4. ASSUME UNCHANGED poll PROVE PollKnowsWhat'
  BY <1>4 DEF PollKnowsWhat
<1> QED
  BY <1>2, <1>3, <1>4 DEF PollingNext, PollAll, CycleEnds, Answered, TimesOut, GuardDone,
     InPool, Push, EditNode, Traffic, CreateUser, Rename, DeleteUser, Breaks,
     allVars, poller

LEMMA AccountTypesStep ==
  ASSUME TypeInv, [PollingNext]_allVars
  PROVE  AccountTypes'
<1> USE DEF TypeInv
<1>1. ASSUME NEW g \in Polls, PollStep(g) PROVE AccountTypes'
  <2>1. poll[g].node \in Nodes /\ poll[g] \in Poll /\ poll[g].stats \in [Names -> Nat]
    BY <1>1, PollAt, PollFacts
  <2>2. UNCHANGED <<cycle, carried>>
    BY <1>1 DEF PollStep, QueryAnswered, AnswerLost, QueryFails, SkipUnknown, Charge, Record,
       PollEnds, history
  <2>3. /\ \A x \in Names : /\ Adding(lost, Only(poll[g], x), poll[g].whose) \in [Users -> Nat]
                            /\ Adding(unsampled, Only(poll[g], x), poll[g].whose)
                                 \in [Users -> Nat]
        /\ Adding(lost, counter[poll[g].node], served[poll[g].node]) \in [Users -> Nat]
        /\ Adding(unsampled, counter[poll[g].node], served[poll[g].node]) \in [Users -> Nat]
    <3>1. counter[poll[g].node] \in [Names -> Nat]
      BY <2>1 DEF PollerInv, PollerTypes
    <3> QED
      BY <2>1, <3>1, AddingType, OnlyType DEF AccountTypes
  <2>4. lost' \in [Users -> Nat] /\ unsampled' \in [Users -> Nat]
    <3>1. CASE UNCHANGED <<lost, unsampled>>
      BY <3>1 DEF AccountTypes
    <3>2. CASE AnswerLost(g)
      BY <2>3, <3>2 DEF AnswerLost, Lose
    <3>3. ASSUME NEW x \in Names, SkipUnknown(g, x) \/ Charge(g, x)
          PROVE  lost' \in [Users -> Nat] /\ unsampled' \in [Users -> Nat]
      BY <2>3, <3>3 DEF SkipUnknown, Charge, Lose, AccountTypes
    <3>4. CASE Record(g)
      <4>1. \/ UNCHANGED unsampled
            \/ unsampled' = Adding(unsampled, Only(poll[g], poll[g].name), poll[g].whose)
        BY <3>4 DEF Record
      <4>2. poll[g].name \in Names /\ UNCHANGED lost
        BY <3>4 DEF Record, PollKnowsWhat
      <4> QED
        BY <2>3, <4>1, <4>2 DEF AccountTypes
    <3> QED
      BY <1>1, <3>1, <3>2, <3>3, <3>4 DEF PollStep, QueryAnswered, QueryFails, PollEnds,
         history
  <2>5. charged' \in [Users -> Nat]
    <3>1. ASSUME NEW x \in Names, Charge(g, x) PROVE charged' \in [Users -> Nat]
      BY <2>1, <3>1 DEF Charge, AccountTypes
    <3> QED
      BY <1>1, <3>1 DEF PollStep, QueryAnswered, AnswerLost, QueryFails, SkipUnknown, Record,
         PollEnds, ledgers, AccountTypes
  <2>6. sampled' \in [Nodes -> [Users -> Nat]]
    <3>1. CASE Record(g)
      <4> DEFINE u == poll[g].known[poll[g].name]  b == poll[g].stats[poll[g].name]
      <4>1. u \in Users /\ b \in Nat
        BY <2>1, <3>1 DEF PollKnowsWhat, Record
      <4>2. sampled' = [sampled EXCEPT ![poll[g].node][u] = @ + b] \/ UNCHANGED sampled
        BY <3>1 DEF Record
      <4> HIDE DEF u, b
      <4>3. CASE sampled' = [sampled EXCEPT ![poll[g].node][u] = @ + b]
        <5>1. sampled[poll[g].node] \in [Users -> Nat]
          BY <2>1 DEF AccountTypes
        <5>2. [sampled[poll[g].node] EXCEPT ![u] = @ + b] \in [Users -> Nat]
          BY <4>1, <5>1
        <5> QED
          BY <2>1, <4>3, <5>2 DEF AccountTypes
      <4> QED
        BY <4>2, <4>3 DEF AccountTypes
    <3> QED
      BY <1>1, <3>1 DEF PollStep, QueryAnswered, AnswerLost, QueryFails, SkipUnknown, Charge,
         PollEnds, ledgers, AccountTypes
  <2> QED
    BY <2>2, <2>4, <2>5, <2>6 DEF AccountTypes
<1>2. ASSUME NEW n \in Nodes, Push(n) PROVE AccountTypes'
  <2>1. lost' \in [Users -> Nat] /\ unsampled' \in [Users -> Nat]
    <3>1. counter[n] \in [Names -> Nat]
      BY DEF PollerInv, PollerTypes
    <3> QED
      BY <1>2, <3>1, AddingType DEF Push, Lose, AccountTypes
  <2> QED
    BY <1>2, <2>1 DEF Push, AccountTypes, ledgers, poller
<1>3. ASSUME NEW n \in Nodes, NEW x \in Names, Traffic(n, x) PROVE AccountTypes'
  <2>1. PICK u \in Users : carried' = [carried EXCEPT ![u] = @ + 1]
    <3>1. served[n][x] \in Users
      BY <1>3 DEF Traffic, PollerInv, PollerTypes
    <3> QED
      BY <1>3, <3>1 DEF Traffic
  <2>2. carried' \in [Users -> Nat]
    BY <2>1 DEF AccountTypes
  <2> QED
    BY <1>3, <2>2 DEF Traffic, AccountTypes, ledgers, poller
<1>4. ASSUME PollAll \/ CycleEnds PROVE AccountTypes'
  BY <1>4 DEF PollAll, CycleEnds, AccountTypes, ledgers, history
<1>5. ASSUME UNCHANGED <<cycle, charged, sampled, carried, lost, unsampled>>
      PROVE  AccountTypes'
  BY <1>5 DEF AccountTypes
<1> QED
  BY <1>1, <1>2, <1>3, <1>4, <1>5 DEF PollingNext, TakeSlot, Answered, TimesOut,
     GuardDone, InPool, EditNode, CreateUser, Rename, DeleteUser, Breaks, allVars, ledgers,
     poller, history

LEMMA TypeInvStep == TypeInv /\ [PollingNext]_allVars => TypeInv'
BY PollingStep, PollKnowsWhatStep, AccountTypesStep DEF TypeInv

LEMMA TypeInvHolds == PollingSpec => []TypeInv
BY InitTypeInv, TypeInvStep, PTL DEF PollingSpec

\* The accounts, the ledgers, the nodes' counters and the poller keep their types,
\* however many users, nodes and polls there are.
THEOREM PollingTypeCorrect == PollingSpec => []PollingTypeOK
<1>1. TypeInv /\ TypeOK => PollingTypeOK
  BY DEF TypeInv, PollerInv, PollerTypes, AccountTypes, PollingTypeOK
<1> QED
  BY <1>1, TypeInvHolds, PollingUsesThePool, TypeCorrect, PTL

-----------------------------------------------------------------------------
(***************************************************************************)
(* Whose bytes are whose.  The table, a cycle's copy of it, a poll, and a  *)
(* node: under a name, each knows nobody but users who have had that name. *)
(* So a name that only one user ever had is that user's to all of them,    *)
(* however old what they know is.                                          *)
(***************************************************************************)
TablesHad ==
  \A x \in Names : /\ owner[x] # None => owner[x] \in had[x]
                   /\ known[x] # None => known[x] \in had[x]

\* What a poll read under a name, somebody moved.
PollsHad ==
  \A g \in Polls, x \in Names :
    /\ poll[g].known[x] # None => poll[g].known[x] \in had[x]
    /\ poll[g].whose[x] # None => poll[g].whose[x] \in had[x]
    /\ poll[g].whose[x] = None => poll[g].stats[x] = 0

\* A node counts only for those it serves.
NodesHad ==
  \A n \in Nodes, x \in Names :
    /\ served[n][x] # None => served[n][x] \in had[x]
    /\ served[n][x] = None => counter[n][x] = 0

NamesInv == TypeInv /\ TablesHad /\ PollsHad /\ NodesHad

LEMMA NoneIsNoUser == None \notin Users
BY PollingAssumption DEF PollingAssumption

LEMMA InitNamesInv == PollingInit => NamesInv
<1> SUFFICES ASSUME PollingInit PROVE NamesInv
  OBVIOUS
<1>1. TypeInv
  BY InitTypeInv
<1>2. \A g \in Polls : poll[g] = NoPoll
  BY DEF PollingInit
<1>3. \A x \in Names : known[x] = None /\ NoPoll.known[x] = None
                       /\ NoPoll.whose[x] = None /\ NoPoll.stats[x] = 0
  BY DEF PollingInit, Nobody, NoPoll, Zero
<1>4. TablesHad
  BY <1>3 DEF PollingInit, TablesHad
<1>5. PollsHad
  BY <1>2, <1>3 DEF PollsHad
<1>6. NodesHad
  BY DEF PollingInit, NodesHad, Configurations, Zero
<1> QED
  BY <1>1, <1>4, <1>5, <1>6 DEF NamesInv

\* Who has had a name has had it for good.
LEMMA HadGrows ==
  ASSUME TypeInv, [PollingNext]_allVars
  PROVE  \A x \in Names : had[x] \subseteq had'[x]
<1>1. ASSUME NEW u \in Users, NEW y \in Names, CreateUser(u, y) \/ Rename(u, y)
      PROVE  \A x \in Names : had[x] \subseteq had'[x]
  <2>1. had' = [had EXCEPT ![y] = @ \cup {u}]
    BY <1>1 DEF CreateUser, Rename
  <2> QED
    BY <2>1 DEF TypeInv, PollerInv, PollerTypes
<1>2. UNCHANGED had \/ (\E u \in Users, y \in Names : CreateUser(u, y) \/ Rename(u, y))
  BY DEF PollingNext, PollAll, CycleEnds, TakeSlot, Answered, TimesOut, GuardDone, InPool,
     PollStep, QueryAnswered, AnswerLost, QueryFails, SkipUnknown, Charge, Record, PollEnds,
     Push, EditNode, Traffic, DeleteUser, Breaks, allVars, accounts
<1> QED
  BY <1>1, <1>2

LEMMA TablesHadStep ==
  ASSUME NamesInv, TypeInv', [PollingNext]_allVars
  PROVE  TablesHad'
<1> USE DEF NamesInv
<1>1. \A x \in Names : had[x] \subseteq had'[x]
  BY HadGrows
<1>2. ASSUME NEW x \in Names, owner'[x] # None
      PROVE  owner'[x] \in had'[x]
  <2>1. ASSUME NEW u \in Users, NEW y \in Names, CreateUser(u, y) \/ Rename(u, y)
        PROVE  (owner'[x] = u /\ x = y /\ u \in had'[y]) \/ owner'[x] \in {None, owner[x]}
    <3>1. u \in had'[y]
      BY <2>1 DEF CreateUser, Rename, TypeInv, PollerInv, PollerTypes
    <3>2. (owner'[x] = u /\ x = y) \/ owner'[x] \in {None, owner[x]}
      BY <2>1 DEF CreateUser, Rename, TypeInv, PollerInv, PollerTypes
    <3> QED
      BY <3>1, <3>2
  <2>2. ASSUME NEW u \in Users, DeleteUser(u)
        PROVE  owner'[x] \in {None, owner[x]}
    BY <2>2 DEF DeleteUser
  <2>3. \/ UNCHANGED owner
        \/ \E u \in Users : DeleteUser(u) \/ \E y \in Names : CreateUser(u, y) \/ Rename(u, y)
    BY DEF PollingNext, PollAll, CycleEnds, TakeSlot, Answered, TimesOut, GuardDone, InPool,
       PollStep, QueryAnswered, AnswerLost, QueryFails, SkipUnknown, Charge, Record, PollEnds,
       Push, EditNode, Traffic, Breaks, allVars, accounts
  <2> QED
    BY <1>1, <1>2, <2>1, <2>2, <2>3 DEF TablesHad
<1>3. ASSUME NEW x \in Names, known'[x] # None
      PROVE  known'[x] \in had'[x]
  <2>1. UNCHANGED known \/ PollAll \/ CycleEnds
    BY DEF PollingNext, TakeSlot, Answered, TimesOut, GuardDone, InPool,
       PollStep, QueryAnswered, AnswerLost, QueryFails, SkipUnknown, Charge, Record, PollEnds,
       Push, EditNode, Traffic, CreateUser, DeleteUser, Rename, Breaks, allVars, poller
  <2> QED
    BY <1>1, <1>3, <2>1 DEF PollAll, CycleEnds, TablesHad, Nobody
<1> QED
  BY <1>2, <1>3 DEF TablesHad

LEMMA NodesHadStep ==
  ASSUME NamesInv, TypeInv', [PollingNext]_allVars
  PROVE  NodesHad'
<1> USE DEF NamesInv
<1> SUFFICES ASSUME NEW n \in Nodes, NEW x \in Names
             PROVE  /\ served'[n][x] # None => served'[n][x] \in had'[x]
                    /\ served'[n][x] = None => counter'[n][x] = 0
  BY DEF NodesHad
<1>1. had[x] \subseteq had'[x]
  BY HadGrows
<1>2. CASE UNCHANGED remote
  BY <1>1, <1>2 DEF remote, NodesHad
<1>3. ASSUME NEW m \in Nodes, Push(m)
      PROVE  /\ served'[n][x] # None => served'[n][x] \in had'[x]
             /\ served'[n][x] = None => counter'[n][x] = 0
  <2>1. PICK f \in Configurations : served' = [served EXCEPT ![m] = f]
    BY <1>3 DEF Push
  <2>2. f[x] # None => f[x] \in had[x]
    BY DEF Configurations
  <2>3. counter' = [counter EXCEPT ![m] = Zero]
    BY <1>3 DEF Push
  <2>4. CASE n = m
    BY <1>1, <2>1, <2>2, <2>3, <2>4 DEF Zero, TypeInv, PollerInv, PollerTypes
  <2>5. CASE n # m
    BY <1>1, <2>1, <2>3, <2>5 DEF NodesHad, TypeInv, PollerInv, PollerTypes
  <2> QED
    BY <2>4, <2>5
<1>4. ASSUME NEW m \in Nodes, NEW y \in Names, Traffic(m, y)
      PROVE  /\ UNCHANGED served
             /\ served[n][x] = None => counter'[n][x] = counter[n][x]
  <2>1. served[m][y] # None /\ counter' = [counter EXCEPT ![m][y] = @ + 1]
    BY <1>4 DEF Traffic
  <2>2. served[n][x] = None => ~(n = m /\ x = y)
    BY <2>1
  <2>3. served[n][x] = None => counter'[n][x] = counter[n][x]
    BY <2>1, <2>2 DEF TypeInv, PollerInv, PollerTypes
  <2> QED
    BY <1>4, <2>3 DEF Traffic
<1>5. ASSUME NEW g \in Polls, QueryAnswered(g) \/ AnswerLost(g)
      PROVE  UNCHANGED served /\ counter'[n][x] \in {0, counter[n][x]}
  <2>1. counter' = [counter EXCEPT ![poll[g].node] = Zero] /\ UNCHANGED served
    BY <1>5 DEF QueryAnswered, AnswerLost
  <2>2. counter'[n] = Zero \/ counter'[n] = counter[n]
    BY <2>1 DEF TypeInv, PollerInv, PollerTypes
  <2> QED
    BY <2>1, <2>2 DEF Zero
<1>6. \/ UNCHANGED remote
      \/ \E m \in Nodes : Push(m) \/ \E y \in Names : Traffic(m, y)
      \/ \E g \in Polls : QueryAnswered(g) \/ AnswerLost(g)
  BY DEF PollingNext, PollAll, CycleEnds, TakeSlot, Answered, TimesOut, GuardDone, InPool,
     PollStep, QueryFails, SkipUnknown, Charge, Record, PollEnds, EditNode, CreateUser,
     DeleteUser, Rename, Breaks, allVars
<1> QED
  BY <1>1, <1>2, <1>3, <1>4, <1>5, <1>6 DEF NodesHad

LEMMA PollsHadStep ==
  ASSUME NamesInv, TypeInv', [PollingNext]_allVars
  PROVE  PollsHad'
<1> USE DEF NamesInv
<1> SUFFICES ASSUME NEW g \in Polls, NEW x \in Names
             PROVE  /\ poll'[g].known[x] # None => poll'[g].known[x] \in had'[x]
                    /\ poll'[g].whose[x] # None => poll'[g].whose[x] \in had'[x]
                    /\ poll'[g].whose[x] = None => poll'[g].stats[x] = 0
  BY DEF PollsHad
<1>1. had[x] \subseteq had'[x]
  BY HadGrows
<1>2. /\ poll[g].known[x] # None => poll[g].known[x] \in had'[x]
      /\ poll[g].whose[x] # None => poll[g].whose[x] \in had'[x]
      /\ poll[g].whose[x] = None => poll[g].stats[x] = 0
      /\ known[x] # None => known[x] \in had'[x]
  BY <1>1 DEF PollsHad, TablesHad
<1>3. CASE poll'[g] = poll[g]
  BY <1>2, <1>3
<1>4. CASE /\ poll'[g].known = poll[g].known /\ poll'[g].whose = poll[g].whose
           /\ poll'[g].stats[x] \in {0, poll[g].stats[x]}
  BY <1>2, <1>4
<1>5. CASE QueryAnswered(g)
  <2>1. poll[g].node \in Nodes
    BY <1>5, PollAt DEF PollStep, TypeInv
  <2>2. /\ poll'[g].known = poll[g].known /\ poll'[g].whose = served[poll[g].node]
        /\ poll'[g].stats = counter[poll[g].node]
    BY <1>5, QueryAnsweredView DEF PollBecomes, TypeInv
  <2>3. /\ served[poll[g].node][x] # None => served[poll[g].node][x] \in had'[x]
        /\ served[poll[g].node][x] = None => counter[poll[g].node][x] = 0
    BY <1>1, <2>1 DEF NodesHad
  <2> QED
    BY <1>2, <2>2, <2>3
<1>6. CASE poll'[g].stats = Zero /\ poll'[g].whose = Nobody
           /\ poll'[g].known \in {Nobody, known}
  BY <1>2, <1>6 DEF Nobody, Zero
<1>7. ASSUME NEW n \in Nodes, TakeSlot(n)
      PROVE  \/ poll'[g] = poll[g]
             \/ poll'[g].stats = Zero /\ poll'[g].whose = Nobody /\ poll'[g].known = known
  BY <1>7, TakeSlotView DEF OthersStay, TypeInv
<1>8. ASSUME NEW h \in Polls, PollStep(h)
      PROVE  \/ poll'[g] = poll[g] \/ QueryAnswered(g)
             \/ /\ poll'[g].stats = Zero /\ poll'[g].whose = Nobody
                /\ poll'[g].known = Nobody
             \/ /\ poll'[g].known = poll[g].known /\ poll'[g].whose = poll[g].whose
                /\ poll'[g].stats[x] \in {0, poll[g].stats[x]}
  <2>1. CASE h # g
    BY <1>8, <2>1, QueryAnsweredView, QueryLostView, SkipUnknownView, ChargeView, RecordView,
       PollEndsView DEF PollStep, PollBecomes, OthersStay, TypeInv
  <2>2. CASE h = g
    <3>1. poll[g].stats \in [Names -> Nat]
      BY PollFacts DEF TypeInv
    <3>2. ASSUME NEW y PROVE [poll[g].stats EXCEPT ![y] = 0][x] \in {0, poll[g].stats[x]}
      BY <3>1
    <3>3. CASE AnswerLost(g) \/ QueryFails(g)
      BY <3>3, QueryLostView DEF TypeInv
    <3>4. ASSUME NEW y \in Names, SkipUnknown(g, y)
          PROVE  /\ poll'[g].known = poll[g].known /\ poll'[g].whose = poll[g].whose
                 /\ poll'[g].stats = [poll[g].stats EXCEPT ![y] = 0]
      BY <3>4, SkipUnknownView DEF PollBecomes, TypeInv
    <3>5. ASSUME NEW y \in Names, Charge(g, y)
          PROVE  /\ poll'[g].known = poll[g].known /\ poll'[g].whose = poll[g].whose
                 /\ poll'[g].stats = poll[g].stats
      BY <3>5, ChargeView DEF PollBecomes, TypeInv
    <3>6. CASE Record(g)
      BY <3>2, <3>6, RecordView DEF PollBecomes, TypeInv
    <3>7. CASE PollEnds(g)
      BY <3>7, PollEndsView DEF TypeInv, NoPoll
    <3> QED
      BY <1>8, <2>2, <3>2, <3>3, <3>4, <3>5, <3>6, <3>7 DEF PollStep
  <2> QED
    BY <2>1, <2>2
<1>9. UNCHANGED poll \/ (\E n \in Nodes : TakeSlot(n)) \/ (\E h \in Polls : PollStep(h))
  BY DEF PollingNext, PollAll, CycleEnds, Answered, TimesOut, GuardDone, InPool,
     Push, EditNode, Traffic, CreateUser, DeleteUser, Rename, Breaks, allVars, poller
<1> QED
  BY <1>3, <1>4, <1>5, <1>6, <1>7, <1>8, <1>9

LEMMA NamesInvStep == NamesInv /\ [PollingNext]_allVars => NamesInv'
BY TypeInvStep, TablesHadStep, NodesHadStep, PollsHadStep DEF NamesInv

LEMMA NamesInvHolds == PollingSpec => []NamesInv
BY InitNamesInv, NamesInvStep, PTL DEF PollingSpec

\* A dispute does not end.
LEMMA UndisputedBefore ==
  ASSUME TypeInv, [PollingNext]_allVars
  PROVE  Undisputed' \subseteq Undisputed
<1> SUFFICES ASSUME NEW u \in Undisputed' PROVE u \in Undisputed
  OBVIOUS
<1>1. u \in Users /\ \A x \in Names : u \in had'[x] => had'[x] = {u}
  BY DEF Undisputed
<1>2. \A x \in Names : u \in had[x] => had[x] = {u}
  BY <1>1, HadGrows
<1> QED
  BY <1>1, <1>2 DEF Undisputed

\* What a poll has read under a name is an undisputed user's exactly when the poll
\* takes the name for that user.
LEMMA NamesStandForUsers ==
  ASSUME NamesInv, NEW g \in Polls, NEW x \in Names, NEW u \in Undisputed,
         poll[g].known[x] # None, poll[g].stats[x] # 0
  PROVE  poll[g].known[x] = u <=> poll[g].whose[x] = u
<1>1. poll[g].known[x] \in had[x] /\ poll[g].whose[x] \in had[x]
  BY DEF NamesInv, PollsHad
<1>2. u \in had[x] => had[x] = {u}
  BY DEF Undisputed
<1> QED
  BY <1>1, <1>2

-----------------------------------------------------------------------------
(***************************************************************************)
(* Sums over the nodes and over the polls, when one of them changes.       *)
(***************************************************************************)
LEMMA SumOfFamily ==
  ASSUME NEW S, IsFiniteSet(S), NEW x \in S,
         NEW f \in [S -> Nat], NEW h \in [S -> Nat], \A y \in S \ {x} : h[y] = f[y]
  PROVE  /\ SumFunction(h) + f[x] = SumFunction(f) + h[x]
         /\ SumFunction(f) \in Nat /\ SumFunction(h) \in Nat
BY SumChanges DEF SumFunction

LEMMA SumOfFamilyType ==
  ASSUME NEW S, IsFiniteSet(S), NEW f \in [S -> Nat]
  PROVE  SumFunction(f) \in Nat
BY SumType DEF SumFunction

Counted(u, n) == BytesOf(u, counter[n], served[n])
Read(u, g)    == BytesOf(u, InHand(poll[g]), poll[g].whose)
OnNodes(u)    == SumFunction([n \in Nodes |-> Counted(u, n)])
InHands(u)    == SumFunction([g \in Polls |-> Read(u, g)])
Kept(u, g)    == BytesOf(u, poll[g].stats, poll[g].whose)
InPolls(u)    == SumFunction([g \in Polls |-> Kept(u, g)])

LEMMA InHandType ==
  ASSUME NEW p \in Poll, NEW u
  PROVE  /\ InHand(p) \in [Names -> Nat]
         /\ BytesOf(u, InHand(p), p.whose) \in Nat
<1>1. InHand(p) \in [Names -> Nat]
  BY DEF InHand, Poll
<1> QED
  BY <1>1, BytesOfType

LEMMA OneNodeCounts ==
  ASSUME PollerInv, PollerInv', NEW u \in Users, NEW n \in Nodes,
         \A m \in Nodes \ {n} : counter'[m] = counter[m] /\ served'[m] = served[m]
  PROVE  /\ OnNodes(u)' + Counted(u, n) = OnNodes(u) + Counted(u, n)'
         /\ OnNodes(u) \in Nat /\ OnNodes(u)' \in Nat
         /\ Counted(u, n) \in Nat /\ Counted(u, n)' \in Nat
<1> DEFINE f == [m \in Nodes |-> Counted(u, m)]
           h == [m \in Nodes |-> Counted(u, m)']
<1>1. \A m \in Nodes : Counted(u, m) \in Nat /\ Counted(u, m)' \in Nat
  <2> TAKE m \in Nodes
  <2>1. counter[m] \in [Names -> Nat] /\ counter'[m] \in [Names -> Nat]
    BY DEF PollerInv, PollerTypes
  <2>2. BytesOf(u, counter[m], served[m]) \in Nat /\ BytesOf(u, counter'[m], served'[m]) \in Nat
    BY <2>1, BytesOfType
  <2> QED
    BY <2>2 DEF Counted, BytesOf
<1>2. f \in [Nodes -> Nat] /\ h \in [Nodes -> Nat]
  BY <1>1
<1>3. \A m \in Nodes \ {n} : h[m] = f[m]
  BY DEF Counted, BytesOf
<1>4. OnNodes(u) = SumFunction(f) /\ OnNodes(u)' = SumFunction(h)
  BY DEF OnNodes
<1>5. f[n] = Counted(u, n) /\ h[n] = Counted(u, n)'
  OBVIOUS
<1>6. IsFiniteSet(Nodes)
  BY PollingAssumption DEF PollingAssumption
<1> HIDE DEF f, h
<1>7. SumFunction(h) + f[n] = SumFunction(f) + h[n]
      /\ SumFunction(f) \in Nat /\ SumFunction(h) \in Nat
  BY <1>2, <1>3, <1>6, SumOfFamily
<1> QED
  BY <1>1, <1>4, <1>5, <1>7

LEMMA OnePollMoves ==
  ASSUME PollerInv, PollerInv', NEW u \in Users, NEW g \in Polls, OthersStay(g)
  PROVE  /\ InHands(u)' + Read(u, g) = InHands(u) + Read(u, g)'
         /\ InPolls(u)' + Kept(u, g) = InPolls(u) + Kept(u, g)'
         /\ InHands(u) \in Nat /\ InHands(u)' \in Nat
         /\ InPolls(u) \in Nat /\ InPolls(u)' \in Nat
         /\ Read(u, g) \in Nat /\ Read(u, g)' \in Nat
         /\ Kept(u, g) \in Nat /\ Kept(u, g)' \in Nat
<1>1. \A e \in Polls : Read(u, e) \in Nat /\ Kept(u, e) \in Nat
  BY InHandType, BytesOfType DEF Read, Kept, PollerInv, PollerTypes, Poll
<1>2. \A e \in Polls : Read(u, e)' \in Nat /\ Kept(u, e)' \in Nat
  <2> TAKE e \in Polls
  <2>1. poll'[e] \in Poll /\ poll'[e].stats \in [Names -> Nat]
    BY DEF PollerInv, PollerTypes, Poll
  <2>2. /\ BytesOf(u, InHand(poll'[e]), poll'[e].whose) \in Nat
        /\ BytesOf(u, poll'[e].stats, poll'[e].whose) \in Nat
    BY <2>1, InHandType, BytesOfType
  <2> QED
    BY <2>2 DEF Read, Kept, BytesOf, InHand
<1>3. IsFiniteSet(Polls)
  BY PollingAssumption DEF PollingAssumption
<1>4. /\ InHands(u)' + Read(u, g) = InHands(u) + Read(u, g)'
      /\ InHands(u) \in Nat /\ InHands(u)' \in Nat
  <2> DEFINE f == [e \in Polls |-> Read(u, e)]
             h == [e \in Polls |-> Read(u, e)']
  <2>1. f \in [Polls -> Nat] /\ h \in [Polls -> Nat]
    BY <1>1, <1>2
  <2>2. \A e \in Polls \ {g} : h[e] = f[e]
    BY DEF Read, BytesOf, InHand, OthersStay
  <2>3. InHands(u) = SumFunction(f) /\ InHands(u)' = SumFunction(h)
    BY DEF InHands
  <2>4. f[g] = Read(u, g) /\ h[g] = Read(u, g)'
    OBVIOUS
  <2> HIDE DEF f, h
  <2>5. SumFunction(h) + f[g] = SumFunction(f) + h[g]
        /\ SumFunction(f) \in Nat /\ SumFunction(h) \in Nat
    BY <1>3, <2>1, <2>2, SumOfFamily
  <2> QED
    BY <2>3, <2>4, <2>5
<1>5. /\ InPolls(u)' + Kept(u, g) = InPolls(u) + Kept(u, g)'
      /\ InPolls(u) \in Nat /\ InPolls(u)' \in Nat
  <2> DEFINE f == [e \in Polls |-> Kept(u, e)]
             h == [e \in Polls |-> Kept(u, e)']
  <2>1. f \in [Polls -> Nat] /\ h \in [Polls -> Nat]
    BY <1>1, <1>2
  <2>2. \A e \in Polls \ {g} : h[e] = f[e]
    BY DEF Kept, BytesOf, OthersStay
  <2>3. InPolls(u) = SumFunction(f) /\ InPolls(u)' = SumFunction(h)
    BY DEF InPolls
  <2>4. f[g] = Kept(u, g) /\ h[g] = Kept(u, g)'
    OBVIOUS
  <2> HIDE DEF f, h
  <2>5. SumFunction(h) + f[g] = SumFunction(f) + h[g]
        /\ SumFunction(f) \in Nat /\ SumFunction(h) \in Nat
    BY <1>3, <2>1, <2>2, SumOfFamily
  <2> QED
    BY <2>3, <2>4, <2>5
<1> QED
  BY <1>1, <1>2, <1>4, <1>5

-----------------------------------------------------------------------------
(***************************************************************************)
(* No byte of an undisputed user is lost silently, counted twice or counted *)
(* for another: it reaches the row, and it reaches the samples, or is on   *)
(* its way there.                                                          *)
(***************************************************************************)
Recorded(u)  == SumFunction([n \in Nodes |-> sampled[n][u]])
ToRow(u)     == carried[u] = charged[u] + lost[u] + OnNodes(u) + InHands(u)
ToSamples(u) == carried[u] = Recorded(u) + unsampled[u] + OnNodes(u) + InPolls(u)
Balanced(u)  == ToRow(u) /\ ToSamples(u)

LEMMA ConservedMeansBalanced ==
  TrafficIsConserved /\ SamplesAreConserved <=> \A u \in Undisputed : Balanced(u)
BY DEF TrafficIsConserved, SamplesAreConserved, Balanced, ToRow, ToSamples, Recorded,
   OnNodes, InHands, InPolls, Counted, Read, Kept

LEMMA ReadNothing ==
  ASSUME NEW p \in Poll, p.stats = Zero, NEW u
  PROVE  BytesOf(u, InHand(p), p.whose) = 0 /\ BytesOf(u, p.stats, p.whose) = 0
<1>1. \A x \in Names : InHand(p)[x] = 0 /\ p.stats[x] = 0
  BY DEF InHand, Zero
<1> QED
  BY <1>1, BytesOfNone

LEMMA CountedNothing ==
  ASSUME NEW u, NEW w
  PROVE  BytesOf(u, Zero, w) = 0
BY BytesOfNone DEF Zero

\* Nothing of what the ledgers are about changes.
LEMMA NothingMoves ==
  ASSUME UNCHANGED <<ledgers, remote, poll, history>>, NEW u \in Users, Balanced(u)
  PROVE  Balanced(u)'
BY DEF Balanced, ToRow, ToSamples, Recorded, OnNodes, InHands, InPolls, Counted, Read, Kept,
   BytesOf, InHand, ledgers, remote, history

LEMMA NodesUnmoved ==
  ASSUME UNCHANGED remote, NEW u
  PROVE  OnNodes(u)' = OnNodes(u)
BY DEF OnNodes, Counted, BytesOf, remote

LEMMA PollsUnmoved ==
  ASSUME UNCHANGED poll, NEW u
  PROVE  InHands(u)' = InHands(u) /\ InPolls(u)' = InPolls(u)
BY DEF InHands, InPolls, Read, Kept, BytesOf, InHand

LEMMA SamplesUnmoved ==
  ASSUME UNCHANGED sampled, NEW u
  PROVE  Recorded(u)' = Recorded(u)
BY DEF Recorded

\* A poll that has nothing in its hands, before and after.
LEMMA EmptyHandsStay ==
  ASSUME PollerInv, PollerInv', NEW g \in Polls, OthersStay(g), NEW u \in Users,
         poll[g].stats = Zero, poll'[g].stats = Zero
  PROVE  InHands(u)' = InHands(u) /\ InPolls(u)' = InPolls(u)
<1>1. poll[g] \in Poll /\ poll'[g] \in Poll
  BY DEF PollerInv, PollerTypes
<1>2. /\ BytesOf(u, InHand(poll[g]), poll[g].whose) = 0
      /\ BytesOf(u, poll[g].stats, poll[g].whose) = 0
      /\ BytesOf(u, InHand(poll'[g]), poll'[g].whose) = 0
      /\ BytesOf(u, poll'[g].stats, poll'[g].whose) = 0
  BY <1>1, ReadNothing
<1>3. Read(u, g) = 0 /\ Read(u, g)' = 0 /\ Kept(u, g) = 0 /\ Kept(u, g)' = 0
  BY <1>2 DEF Read, Kept, BytesOf, InHand
<1> QED
  BY <1>3, OnePollMoves

\* A node's counters are cleared: what was on the node is on it no more.
LEMMA NodeCleared ==
  ASSUME PollerInv, PollerInv', NEW n \in Nodes, NEW u \in Users,
         counter' = [counter EXCEPT ![n] = Zero],
         \A m \in Nodes \ {n} : served'[m] = served[m]
  PROVE  /\ OnNodes(u)' + BytesOf(u, counter[n], served[n]) = OnNodes(u)
         /\ OnNodes(u)' \in Nat /\ BytesOf(u, counter[n], served[n]) \in Nat
<1>1. counter'[n] = Zero /\ \A m \in Nodes \ {n} : counter'[m] = counter[m]
  BY DEF PollerInv, PollerTypes
<1>2. BytesOf(u, counter'[n], served'[n]) = 0
  BY <1>1, CountedNothing
<1>3. Counted(u, n)' = 0 /\ Counted(u, n) = BytesOf(u, counter[n], served[n])
  BY <1>2 DEF Counted, BytesOf
<1> QED
  BY <1>1, <1>3, OneNodeCounts

\* What u moved of the bytes poll g has read under x.
Mine(u, g, x) == IF poll[g].whose[x] = u THEN poll[g].stats[x] ELSE 0

\* Counters that differ in what they say of one name.
LEMMA NameCleared ==
  ASSUME NEW b \in [Names -> Nat], NEW c \in [Names -> Nat], NEW w, NEW u, NEW x \in Names,
         c[x] = 0, \A y \in Names \ {x} : c[y] = b[y]
  PROVE  BytesOf(u, c, w) + (IF w[x] = u THEN b[x] ELSE 0) = BytesOf(u, b, w)
<1>1. CASE w[x] = u
  BY <1>1, BytesOfChanges
<1>2. CASE w[x] # u
  <2>1. \A y \in Names : w[y] = u => b[y] = c[y]
    BY <1>2
  <2>2. BytesOf(u, b, w) = BytesOf(u, c, w) /\ BytesOf(u, b, w) \in Nat
    BY <2>1, BytesOfSame, BytesOfType
  <2> QED
    BY <1>2, <2>2
<1> QED
  BY <1>1, <1>2

\* A poll has added to the rows what it read under a name, or lost it for them.
LEMMA HandsOver ==
  ASSUME PollerInv, PollerInv', NEW g \in Polls, OthersStay(g), NEW u \in Users,
         NEW x \in Names, poll'[g].whose = poll[g].whose,
         InHand(poll[g])[x] = poll[g].stats[x], InHand(poll'[g])[x] = 0,
         \A y \in Names \ {x} : InHand(poll'[g])[y] = InHand(poll[g])[y]
  PROVE  /\ InHands(u)' + Mine(u, g, x) = InHands(u)
         /\ InHands(u)' \in Nat /\ Mine(u, g, x) \in Nat
<1> DEFINE b == InHand(poll[g])  c == InHand(poll'[g])  w == poll[g].whose
<1>1. poll[g] \in Poll /\ poll'[g] \in Poll
  BY DEF PollerInv, PollerTypes
<1>2. b \in [Names -> Nat] /\ c \in [Names -> Nat]
  BY <1>1, InHandType
<1>3. b[x] = poll[g].stats[x] /\ c[x] = 0 /\ \A y \in Names \ {x} : c[y] = b[y]
  OBVIOUS
<1>4. Read(u, g) = BytesOf(u, b, w) /\ Read(u, g)' = BytesOf(u, c, w)
  BY DEF Read, BytesOf, InHand
<1> HIDE DEF b, c
<1>5. BytesOf(u, c, w) + (IF w[x] = u THEN b[x] ELSE 0) = BytesOf(u, b, w)
  BY <1>2, <1>3, NameCleared
<1>6. (IF w[x] = u THEN b[x] ELSE 0) = Mine(u, g, x) /\ Mine(u, g, x) \in Nat
  BY <1>2, <1>3 DEF Mine
<1> QED
  BY <1>4, <1>5, <1>6, OnePollMoves

\* A poll is done with a name altogether.
LEMMA PollLetsGo ==
  ASSUME PollerInv, PollerInv', NEW g \in Polls, OthersStay(g), NEW u \in Users,
         NEW x \in Names, poll'[g].whose = poll[g].whose,
         poll'[g].stats = [poll[g].stats EXCEPT ![x] = 0]
  PROVE  /\ InPolls(u)' + Mine(u, g, x) = InPolls(u)
         /\ InPolls(u)' \in Nat /\ Mine(u, g, x) \in Nat
<1> DEFINE b == poll[g].stats  c == poll'[g].stats  w == poll[g].whose
<1>1. b \in [Names -> Nat] /\ c \in [Names -> Nat]
  BY DEF PollerInv, PollerTypes, Poll
<1>2. c[x] = 0 /\ \A y \in Names \ {x} : c[y] = b[y]
  BY <1>1
<1>3. Kept(u, g) = BytesOf(u, b, w) /\ Kept(u, g)' = BytesOf(u, c, w)
  BY DEF Kept, BytesOf
<1>4. Mine(u, g, x) = (IF w[x] = u THEN b[x] ELSE 0) /\ Mine(u, g, x) \in Nat
  BY <1>1 DEF Mine
<1> HIDE DEF b, c
<1>5. BytesOf(u, c, w) + (IF w[x] = u THEN b[x] ELSE 0) = BytesOf(u, b, w)
  BY <1>1, <1>2, NameCleared
<1> QED
  BY <1>3, <1>4, <1>5, OnePollMoves

\* What a history of lost bytes gains is what u moved.
LEMMA OneNameIsAdded ==
  ASSUME NEW sums, NEW g \in Polls, poll[g].stats \in [Names -> Nat], NEW x \in Names,
         NEW u \in Users
  PROVE  Adding(sums, Only(poll[g], x), poll[g].whose)[u] = sums[u] + Mine(u, g, x)
<1> DEFINE b == poll[g].stats[x]
<1>1. b \in Nat
  OBVIOUS
<1>2. Only(poll[g], x) = [Zero EXCEPT ![x] = b]
  BY DEF Only
<1>3. Mine(u, g, x) = IF poll[g].whose[x] = u THEN b ELSE 0
  BY DEF Mine
<1> HIDE DEF b
<1>4. BytesOf(u, [Zero EXCEPT ![x] = b], poll[g].whose) =
        IF poll[g].whose[x] = u THEN b ELSE 0
  BY <1>1, BytesOfOne
<1>5. BytesOf(u, Only(poll[g], x), poll[g].whose) = Mine(u, g, x)
  BY <1>2, <1>3, <1>4
<1> QED
  BY <1>5 DEF Adding

LEMMA SumTypes ==
  ASSUME TypeInv, NEW u \in Users
  PROVE  /\ OnNodes(u) \in Nat /\ InHands(u) \in Nat /\ InPolls(u) \in Nat /\ Recorded(u) \in Nat
         /\ charged[u] \in Nat /\ lost[u] \in Nat /\ unsampled[u] \in Nat
<1> USE DEF TypeInv
<1>1. /\ [n \in Nodes |-> Counted(u, n)] \in [Nodes -> Nat]
      /\ [n \in Nodes |-> sampled[n][u]] \in [Nodes -> Nat]
  BY BytesOfType DEF Counted, PollerInv, PollerTypes, AccountTypes
<1>2. /\ [g \in Polls |-> Read(u, g)] \in [Polls -> Nat]
      /\ [g \in Polls |-> Kept(u, g)] \in [Polls -> Nat]
  BY InHandType, BytesOfType DEF Read, Kept, PollerInv, PollerTypes, Poll
<1>3. IsFiniteSet(Nodes) /\ IsFiniteSet(Polls)
  BY PollingAssumption DEF PollingAssumption
<1>4. OnNodes(u) \in Nat /\ InHands(u) \in Nat /\ InPolls(u) \in Nat /\ Recorded(u) \in Nat
  BY <1>1, <1>2, <1>3, SumOfFamilyType DEF OnNodes, InHands, InPolls, Recorded
<1> QED
  BY <1>4 DEF AccountTypes

-----------------------------------------------------------------------------
(***************************************************************************)
(* Every step keeps both balances.                                         *)
(***************************************************************************)
LEMMA TakeSlotBalances ==
  ASSUME NamesInv, NamesInv', NEW n \in Nodes, TakeSlot(n), NEW u \in Users, Balanced(u)
  PROVE  Balanced(u)'
<1> USE DEF NamesInv, TypeInv
<1>1. PICK g \in Polls : OthersStay(g) /\ poll[g].pc = "idle" /\ poll'[g].stats = Zero
  BY TakeSlotView
<1>2. poll[g].stats = Zero
  BY <1>1 DEF PollKnowsWhat
<1>3. InHands(u)' = InHands(u) /\ InPolls(u)' = InPolls(u)
  BY <1>1, <1>2, EmptyHandsStay
<1>4. UNCHANGED <<ledgers, remote, history>>
  BY DEF TakeSlot
<1> QED
  BY <1>3, <1>4, NodesUnmoved, SamplesUnmoved
     DEF Balanced, ToRow, ToSamples, ledgers, history

\* The answer of a node: what was on the node is in the hands of the poll.
LEMMA QueryAnsweredBalances ==
  ASSUME NamesInv, NamesInv', NEW g \in Polls, QueryAnswered(g), NEW u \in Users, Balanced(u)
  PROVE  Balanced(u)'
<1> USE DEF NamesInv, TypeInv
<1> DEFINE n == poll[g].node  read == BytesOf(u, counter[n], served[n])
<1>1. n \in Nodes
  BY PollAt DEF PollStep
<1>2. OthersStay(g) /\ poll'[g].pc = "charge" /\ poll'[g].stats = counter[n]
      /\ poll'[g].whose = served[n]
  BY QueryAnsweredView DEF PollBecomes
<1>3. poll[g].stats = Zero
  BY DEF QueryAnswered, HasClient, PollKnowsWhat
<1>4. Read(u, g) = 0 /\ Kept(u, g) = 0
  <2>1. poll[g] \in Poll
    BY PollFacts
  <2> QED
    BY <1>3, <2>1, ReadNothing DEF Read, Kept
<1>5. Read(u, g)' = read /\ Kept(u, g)' = read
  <2>1. \A x \in Names : InHand(poll'[g])[x] = counter[n][x]
    BY <1>2 DEF InHand
  <2>2. BytesOf(u, InHand(poll'[g]), served[n]) = read
    BY <2>1, BytesOfSame
  <2> QED
    BY <1>2, <2>2 DEF Read, Kept, BytesOf, InHand
<1>6. OnNodes(u)' + read = OnNodes(u) /\ OnNodes(u)' \in Nat /\ read \in Nat
  <2>1. counter' = [counter EXCEPT ![n] = Zero] /\ UNCHANGED served
    BY DEF QueryAnswered
  <2> HIDE DEF n
  <2> QED
    BY <1>1, <2>1, NodeCleared
<1>7. /\ InHands(u)' = InHands(u) + read /\ InHands(u) \in Nat
      /\ InPolls(u)' = InPolls(u) + read /\ InPolls(u) \in Nat
  <2> HIDE DEF read, n
  <2> QED
    BY <1>2, <1>4, <1>5, <1>6, OnePollMoves
<1>8. UNCHANGED <<ledgers, history>>
  BY DEF QueryAnswered
<1> HIDE DEF read, n
<1>9. /\ charged[u] \in Nat /\ lost[u] \in Nat /\ unsampled[u] \in Nat /\ Recorded(u) \in Nat
      /\ UNCHANGED <<charged, lost, unsampled, carried>> /\ Recorded(u)' = Recorded(u)
  BY <1>8, SumTypes, SamplesUnmoved DEF ledgers, history
<1> QED
  BY <1>6, <1>7, <1>9 DEF Balanced, ToRow, ToSamples

LEMMA QueryLostBalances ==
  ASSUME NamesInv, NamesInv', NEW g \in Polls, AnswerLost(g) \/ QueryFails(g),
         NEW u \in Users, Balanced(u)
  PROVE  Balanced(u)'
<1> USE DEF NamesInv, TypeInv
<1> DEFINE n == poll[g].node  read == BytesOf(u, counter[n], served[n])
<1>1. n \in Nodes
  BY PollAt DEF PollStep
<1>2. OthersStay(g) /\ poll[g].stats = Zero /\ poll'[g].stats = Zero
  BY QueryLostView DEF AnswerLost, QueryFails, HasClient, PollKnowsWhat
<1>3. InHands(u)' = InHands(u) /\ InPolls(u)' = InPolls(u)
  BY <1>2, EmptyHandsStay
<1>4. CASE QueryFails(g)
  BY <1>3, <1>4, NodesUnmoved, SamplesUnmoved
     DEF QueryFails, Balanced, ToRow, ToSamples, ledgers, history
<1>5. CASE AnswerLost(g)
  <2>1. OnNodes(u)' + read = OnNodes(u) /\ OnNodes(u)' \in Nat /\ read \in Nat
    <3>1. counter' = [counter EXCEPT ![n] = Zero] /\ UNCHANGED served
      BY <1>5 DEF AnswerLost
    <3> HIDE DEF n
    <3> QED
      BY <1>1, <3>1, NodeCleared
  <2>2. /\ lost'[u] = lost[u] + read /\ unsampled'[u] = unsampled[u] + read
        /\ UNCHANGED <<charged, carried, sampled>>
    BY <1>5 DEF AnswerLost, Lose, Adding, ledgers
  <2>3. /\ charged[u] \in Nat /\ lost[u] \in Nat /\ unsampled[u] \in Nat
        /\ InHands(u) \in Nat /\ InPolls(u) \in Nat /\ Recorded(u) \in Nat
    BY SumTypes
  <2>4. Recorded(u)' = Recorded(u)
    BY <2>2, SamplesUnmoved
  <2> HIDE DEF read, n
  <2> QED
    BY <1>3, <2>1, <2>2, <2>3, <2>4 DEF Balanced, ToRow, ToSamples
<1> QED
  BY <1>4, <1>5

LEMMA SkipUnknownBalances ==
  ASSUME NamesInv, NamesInv', NEW g \in Polls, NEW x \in Names, SkipUnknown(g, x),
         NEW u \in Users, Balanced(u)
  PROVE  Balanced(u)'
<1> USE DEF NamesInv, TypeInv
<1>1. PollBecomes(g, "charge", [poll[g].stats EXCEPT ![x] = 0], poll[g].whose, poll[g].name)
  BY SkipUnknownView
<1>2. poll[g].pc = "charge" /\ poll[g].stats \in [Names -> Nat]
  BY PollFacts DEF SkipUnknown
<1>3. /\ InHands(u)' + Mine(u, g, x) = InHands(u) /\ InHands(u)' \in Nat
      /\ Mine(u, g, x) \in Nat
  <2>1. \A y \in Names : InHand(poll[g])[y] = poll[g].stats[y]
    BY <1>2 DEF InHand
  <2>2. \A y \in Names : InHand(poll'[g])[y] = IF y = x THEN 0 ELSE poll[g].stats[y]
    BY <1>1, <1>2 DEF InHand, PollBecomes
  <2> QED
    BY <1>1, <2>1, <2>2, HandsOver DEF PollBecomes
<1>4. InPolls(u)' + Mine(u, g, x) = InPolls(u) /\ InPolls(u)' \in Nat
  BY <1>1, PollLetsGo DEF PollBecomes
<1>5. lost'[u] = lost[u] + Mine(u, g, x) /\ unsampled'[u] = unsampled[u] + Mine(u, g, x)
  BY <1>2, OneNameIsAdded DEF SkipUnknown, Lose
<1>6. UNCHANGED <<charged, sampled, carried, remote>>
  BY DEF SkipUnknown, ledgers
<1>7. OnNodes(u)' = OnNodes(u) /\ Recorded(u)' = Recorded(u)
  BY <1>6, NodesUnmoved, SamplesUnmoved
<1>8. ToRow(u)'
  BY <1>3, <1>5, <1>6, <1>7, SumTypes DEF Balanced, ToRow
<1>9. ToSamples(u)'
  BY <1>3, <1>4, <1>5, <1>6, <1>7, SumTypes DEF Balanced, ToSamples
<1> QED
  BY <1>8, <1>9 DEF Balanced

\* The row of an undisputed user is charged with what that user moved.
LEMMA ChargeBalances ==
  ASSUME NamesInv, NamesInv', NEW g \in Polls, NEW x \in Names, Charge(g, x),
         NEW u \in Undisputed, Balanced(u)
  PROVE  Balanced(u)'
<1> USE DEF NamesInv, TypeInv
<1> DEFINE k == poll[g].known[x]  b == poll[g].stats[x]
<1>1. PollBecomes(g, "record", poll[g].stats, poll[g].whose, x)
  BY ChargeView
<1>2. /\ poll[g].pc = "charge" /\ poll[g].stats \in [Names -> Nat] /\ b > 0 /\ k # None
      /\ b \in Nat /\ u \in Users
  BY PollFacts DEF Charge, Undisputed
<1>3. /\ InHands(u)' + Mine(u, g, x) = InHands(u) /\ InHands(u)' \in Nat
      /\ Mine(u, g, x) \in Nat
  <2>1. \A y \in Names : InHand(poll[g])[y] = poll[g].stats[y]
    BY <1>2 DEF InHand
  <2>2. \A y \in Names : InHand(poll'[g])[y] = IF y = x THEN 0 ELSE poll[g].stats[y]
    BY <1>1, <1>2 DEF InHand, PollBecomes
  <2> QED
    BY <1>1, <1>2, <2>1, <2>2, HandsOver DEF PollBecomes
<1>4. UNCHANGED <<carried, remote, sampled, unsampled>>
  BY DEF Charge
<1>5. OnNodes(u)' = OnNodes(u) /\ Recorded(u)' = Recorded(u) /\ InPolls(u)' = InPolls(u)
  <2>1. Kept(u, g)' = Kept(u, g)
    BY <1>1 DEF Kept, BytesOf, PollBecomes
  <2> QED
    BY <1>1, <1>2, <1>4, <2>1, NodesUnmoved, SamplesUnmoved, OnePollMoves DEF PollBecomes
<1>6. charged'[u] + lost'[u] = charged[u] + lost[u] + Mine(u, g, x)
      /\ charged'[u] \in Nat /\ lost'[u] \in Nat
  <2>1. CASE /\ charged' = [charged EXCEPT ![k] = @ + b]
             /\ UNCHANGED lost
    <3>1. k = u <=> poll[g].whose[x] = u
      BY <1>2, NamesStandForUsers
    <3> HIDE DEF k
    <3>2. charged'[u] = charged[u] + Mine(u, g, x)
      BY <1>2, <2>1, <3>1 DEF AccountTypes, Mine
    <3> QED
      BY <1>2, <1>3, <2>1, <3>2, SumTypes
  <2>2. CASE /\ lost' = Adding(lost, Only(poll[g], x), poll[g].whose)
             /\ UNCHANGED charged
    <3>1. lost'[u] = lost[u] + Mine(u, g, x)
      BY <1>2, <2>2, OneNameIsAdded
    <3>2. charged[u] \in Nat /\ lost[u] \in Nat
      BY <1>2, SumTypes
    <3> HIDE DEF k, b
    <3> QED
      BY <1>3, <2>2, <3>1, <3>2
  <2> QED
    BY <2>1, <2>2 DEF Charge
<1> QED
  BY <1>2, <1>3, <1>4, <1>5, <1>6, SumTypes DEF Balanced, ToRow, ToSamples

\* The samples of an undisputed user gain what that user moved.
LEMMA RecordBalances ==
  ASSUME NamesInv, NamesInv', NEW g \in Polls, Record(g), NEW u \in Undisputed, Balanced(u)
  PROVE  Balanced(u)'
<1> USE DEF NamesInv, TypeInv
<1> DEFINE n == poll[g].node  x == poll[g].name  k == poll[g].known[x]  b == poll[g].stats[x]
<1>1. PollBecomes(g, "charge", [poll[g].stats EXCEPT ![x] = 0], poll[g].whose, None)
  BY RecordView
<1>2. /\ poll[g].pc = "record" /\ poll[g].stats \in [Names -> Nat] /\ x \in Names
      /\ k \in Users /\ k # None /\ n \in Nodes /\ b \in Nat /\ u \in Users
  BY PollFacts, PollAt, NoneIsNoUser DEF Record, PollKnowsWhat, PollStep, Undisputed
<1>3. InHands(u)' = InHands(u)
  <2>1. \A y \in Names : InHand(poll'[g])[y] = InHand(poll[g])[y]
    BY <1>1, <1>2 DEF InHand, PollBecomes
  <2>2. InHand(poll'[g]) = InHand(poll[g])
    BY <2>1 DEF InHand
  <2>3. Read(u, g)' = Read(u, g)
    BY <1>1, <2>2 DEF Read, BytesOf, InHand, PollBecomes
  <2> QED
    BY <1>1, <1>2, <2>3, OnePollMoves DEF PollBecomes
<1>4. /\ InPolls(u)' + Mine(u, g, x) = InPolls(u) /\ InPolls(u)' \in Nat
      /\ Mine(u, g, x) \in Nat
  BY <1>1, <1>2, PollLetsGo DEF PollBecomes
<1>5. UNCHANGED <<charged, remote, carried, lost>> /\ OnNodes(u)' = OnNodes(u)
  BY NodesUnmoved DEF Record
<1>6. Recorded(u)' + unsampled'[u] = Recorded(u) + unsampled[u] + Mine(u, g, x)
      /\ Recorded(u)' \in Nat /\ unsampled'[u] \in Nat
  <2>1. CASE /\ sampled' = [sampled EXCEPT ![n][k] = @ + b]
             /\ UNCHANGED unsampled
    <3> DEFINE f == [m \in Nodes |-> sampled[m][u]]  h == [m \in Nodes |-> sampled'[m][u]]
    <3>1. (IF k = u THEN b ELSE 0) = Mine(u, g, x)
      BY <1>2, NamesStandForUsers DEF Mine
    <3>2. \A m \in Nodes : sampled'[m][u] = IF m = n THEN sampled[m][u] + Mine(u, g, x)
                                                     ELSE sampled[m][u]
      <4> HIDE DEF n, k, b
      <4> QED
        BY <1>2, <2>1, <3>1 DEF AccountTypes
    <3>3. f \in [Nodes -> Nat] /\ h \in [Nodes -> Nat]
      BY <1>2 DEF AccountTypes
    <3>4. h[n] = f[n] + Mine(u, g, x) /\ \A m \in Nodes \ {n} : h[m] = f[m]
      BY <1>2, <3>2
    <3>5. Recorded(u) = SumFunction(f) /\ Recorded(u)' = SumFunction(h)
      BY DEF Recorded
    <3>6. IsFiniteSet(Nodes) /\ f[n] \in Nat
      BY <1>2, <3>3, PollingAssumption DEF PollingAssumption
    <3> HIDE DEF f, h, n
    <3>7. SumFunction(h) + f[n] = SumFunction(f) + h[n]
          /\ SumFunction(f) \in Nat /\ SumFunction(h) \in Nat
      BY <1>2, <3>3, <3>4, <3>6, SumOfFamily
    <3>8. unsampled'[u] = unsampled[u] /\ unsampled[u] \in Nat
      BY <1>2, <2>1, SumTypes
    <3> QED
      BY <1>4, <3>4, <3>5, <3>6, <3>7, <3>8
  <2>2. CASE /\ unsampled' = Adding(unsampled, Only(poll[g], x), poll[g].whose)
             /\ UNCHANGED sampled
    <3>1. unsampled'[u] = unsampled[u] + Mine(u, g, x)
      BY <1>2, <2>2, OneNameIsAdded
    <3>2. Recorded(u)' = Recorded(u)
      BY <2>2, SamplesUnmoved
    <3> QED
      BY <1>2, <1>4, <3>1, <3>2, SumTypes
  <2> QED
    BY <2>1, <2>2 DEF Record
<1> HIDE DEF n, x, k, b
<1> QED
  BY <1>2, <1>3, <1>4, <1>5, <1>6, SumTypes DEF Balanced, ToRow, ToSamples

LEMMA PollEndsBalances ==
  ASSUME NamesInv, NamesInv', NEW g \in Polls, PollEnds(g), NEW u \in Users, Balanced(u)
  PROVE  Balanced(u)'
<1> USE DEF NamesInv, TypeInv
<1>1. OthersStay(g) /\ poll'[g].stats = Zero
  BY PollEndsView DEF NoPoll
<1>2. poll[g].stats = Zero
  BY DEF PollEnds, PollKnowsWhat
<1>3. InHands(u)' = InHands(u) /\ InPolls(u)' = InPolls(u)
  BY <1>1, <1>2, EmptyHandsStay
<1>4. UNCHANGED <<ledgers, remote, history>>
  BY DEF PollEnds
<1> QED
  BY <1>3, <1>4, NodesUnmoved, SamplesUnmoved
     DEF Balanced, ToRow, ToSamples, ledgers, history

LEMMA TrafficBalances ==
  ASSUME NamesInv, NamesInv', NEW n \in Nodes, NEW x \in Names, Traffic(n, x),
         NEW u \in Users, Balanced(u)
  PROVE  Balanced(u)'
<1> USE DEF NamesInv, TypeInv
<1> DEFINE v == served[n][x]  b == counter[n]  c == counter'[n]  w == served[n]
<1>1. v \in Users /\ UNCHANGED <<served, ledgers, poll, lost, unsampled>>
  BY DEF Traffic, PollerInv, PollerTypes, poller
<1>2. counter' = [counter EXCEPT ![n][x] = @ + 1]
  BY DEF Traffic
<1>3. /\ b \in [Names -> Nat] /\ c \in [Names -> Nat] /\ c[x] = b[x] + 1
      /\ \A y \in Names \ {x} : c[y] = b[y]
      /\ \A m \in Nodes \ {n} : counter'[m] = counter[m]
  BY <1>2 DEF PollerInv, PollerTypes
<1>4. /\ OnNodes(u)' + Counted(u, n) = OnNodes(u) + Counted(u, n)'
      /\ OnNodes(u) \in Nat /\ OnNodes(u)' \in Nat
      /\ Counted(u, n) \in Nat /\ Counted(u, n)' \in Nat
  BY <1>1, <1>3, OneNodeCounts
<1>5. Counted(u, n) = BytesOf(u, b, w) /\ Counted(u, n)' = BytesOf(u, c, w)
  BY <1>1 DEF Counted, BytesOf
<1>6. /\ InHands(u)' = InHands(u) /\ InPolls(u)' = InPolls(u) /\ Recorded(u)' = Recorded(u)
      /\ UNCHANGED <<charged, lost, unsampled>>
  BY <1>1, PollsUnmoved, SamplesUnmoved DEF ledgers
<1>7. carried'[u] = IF u = v THEN carried[u] + 1 ELSE carried[u]
  BY <1>1 DEF Traffic, AccountTypes
<1> HIDE DEF b, c
<1>8. CASE u = v
  <2>1. BytesOf(u, c, w) + b[x] = BytesOf(u, b, w) + c[x] /\ b[x] \in Nat
    BY <1>3, <1>8, BytesOfChanges
  <2>2. OnNodes(u)' = OnNodes(u) + 1
    BY <1>3, <1>4, <1>5, <2>1
  <2> QED
    BY <1>4, <1>6, <1>7, <1>8, <2>2, SumTypes DEF Balanced, ToRow, ToSamples
<1>9. CASE u # v
  <2>1. BytesOf(u, b, w) = BytesOf(u, c, w)
    BY <1>3, <1>9, BytesOfSame
  <2>2. OnNodes(u)' = OnNodes(u)
    BY <1>4, <1>5, <2>1
  <2> QED
    BY <1>6, <1>7, <1>9, <2>2 DEF Balanced, ToRow, ToSamples
<1> QED
  BY <1>8, <1>9

LEMMA PushBalances ==
  ASSUME NamesInv, NamesInv', NEW n \in Nodes, Push(n), NEW u \in Users, Balanced(u)
  PROVE  Balanced(u)'
<1> USE DEF NamesInv, TypeInv
<1> DEFINE read == BytesOf(u, counter[n], served[n])
<1>1. OnNodes(u)' + read = OnNodes(u) /\ OnNodes(u)' \in Nat /\ read \in Nat
  <2>1. counter' = [counter EXCEPT ![n] = Zero]
        /\ \A m \in Nodes \ {n} : served'[m] = served[m]
    BY DEF Push, PollerInv, PollerTypes
  <2> QED
    BY <2>1, NodeCleared
<1>2. /\ lost'[u] = lost[u] + read /\ unsampled'[u] = unsampled[u] + read
      /\ UNCHANGED <<charged, sampled, carried, poll>>
  BY DEF Push, Lose, Adding, ledgers, poller
<1>3. InHands(u)' = InHands(u) /\ InPolls(u)' = InPolls(u) /\ Recorded(u)' = Recorded(u)
  BY <1>2, PollsUnmoved, SamplesUnmoved
<1> HIDE DEF read
<1> QED
  BY <1>1, <1>2, <1>3, SumTypes DEF Balanced, ToRow, ToSamples

LEMMA BalanceStep ==
  ASSUME NamesInv, NamesInv', [PollingNext]_allVars, NEW u \in Undisputed, Balanced(u)
  PROVE  Balanced(u)'
<1>1. u \in Users
  BY DEF Undisputed
<1>2. ASSUME NEW n \in Nodes, TakeSlot(n) \/ Push(n) \/ \E x \in Names : Traffic(n, x)
      PROVE  Balanced(u)'
  BY <1>1, <1>2, TakeSlotBalances, PushBalances, TrafficBalances
<1>3. ASSUME NEW g \in Polls, PollStep(g) PROVE Balanced(u)'
  BY <1>1, <1>3, QueryAnsweredBalances, QueryLostBalances, SkipUnknownBalances,
     ChargeBalances, RecordBalances, PollEndsBalances DEF PollStep
<1>4. ASSUME UNCHANGED <<ledgers, remote, poll, history>> PROVE Balanced(u)'
  BY <1>1, <1>4, NothingMoves
<1>5. \/ UNCHANGED <<ledgers, remote, poll, history>>
      \/ \E n \in Nodes : TakeSlot(n) \/ Push(n) \/ \E x \in Names : Traffic(n, x)
      \/ \E g \in Polls : PollStep(g)
  BY DEF PollingNext, PollAll, CycleEnds, Answered, TimesOut, GuardDone, InPool, EditNode,
     CreateUser, DeleteUser, Rename, Breaks, allVars, poller
<1> QED
  BY <1>2, <1>3, <1>4, <1>5

LEMMA InitBalanced ==
  ASSUME PollingInit, NEW u \in Users
  PROVE  Balanced(u)
<1>1. IsFiniteSet(Nodes) /\ IsFiniteSet(Polls)
  BY PollingAssumption DEF PollingAssumption
<1>2. carried[u] = 0 /\ charged[u] = 0 /\ lost[u] = 0 /\ unsampled[u] = 0
  BY DEF PollingInit
<1>3. OnNodes(u) = 0
  <2>1. \A n \in Nodes : Counted(u, n) = 0
    BY CountedNothing DEF PollingInit, Counted
  <2> QED
    BY <1>1, <2>1, SumOfZeros DEF OnNodes, SumFunction
<1>4. Recorded(u) = 0
  <2>1. \A n \in Nodes : sampled[n][u] = 0
    BY DEF PollingInit
  <2> QED
    BY <1>1, <2>1, SumOfZeros DEF Recorded, SumFunction
<1>5. InHands(u) = 0 /\ InPolls(u) = 0
  <2>1. \A g \in Polls : poll[g] \in Poll /\ poll[g].stats = Zero
    BY BlankRecords DEF PollingInit, NoPoll
  <2>2. \A g \in Polls : Read(u, g) = 0 /\ Kept(u, g) = 0
    BY <2>1, ReadNothing DEF Read, Kept
  <2> QED
    BY <1>1, <2>2, SumOfZeros DEF InHands, InPolls, SumFunction
<1> QED
  BY <1>2, <1>3, <1>4, <1>5 DEF Balanced, ToRow, ToSamples

LEMMA BothAreConserved == PollingSpec => [](TrafficIsConserved /\ SamplesAreConserved)
<1> DEFINE Both == TrafficIsConserved /\ SamplesAreConserved
<1>1. PollingInit => Both
  <2> SUFFICES ASSUME PollingInit, NEW u \in Undisputed PROVE Balanced(u)
    BY ConservedMeansBalanced
  <2> QED
    BY InitBalanced DEF Undisputed
<1>2. NamesInv /\ NamesInv' /\ [PollingNext]_allVars /\ Both => Both'
  <2> SUFFICES ASSUME NamesInv, NamesInv', [PollingNext]_allVars, Both
               PROVE  Both'
    OBVIOUS
  <2>1. \A u \in Undisputed : Balanced(u)
    BY ConservedMeansBalanced
  <2>2. \A u \in Undisputed' : Balanced(u)'
    BY <2>1, UndisputedBefore, BalanceStep DEF NamesInv
  <2> QED
    BY <2>2 DEF TrafficIsConserved, SamplesAreConserved, Balanced, ToRow, ToSamples,
       Recorded, OnNodes, InHands, InPolls, Counted, Read, Kept
<1> HIDE DEF Both
<1>3. PollingSpec => []Both
  BY <1>1, <1>2, NamesInvHolds, PTL DEF PollingSpec
<1> QED
  BY <1>3 DEF Both

\* However many nodes, polls and users, whatever operators do meanwhile and whatever
\* fails: every byte moved by a user who never shared a name is on a node, in the
\* hands of one poll, in what was added to the user's row, or among those lost for
\* it, and in one of these places only.
THEOREM NoByteIsLost == PollingSpec => []TrafficIsConserved
BY BothAreConserved, PTL

\* Likewise for the samples: such a byte is on a node, with one poll, in one sample
\* of the user's, or among those that no sample will show.
THEOREM NoSampleIsMissing == PollingSpec => []SamplesAreConserved
BY BothAreConserved, PTL

-----------------------------------------------------------------------------
(***************************************************************************)
(* The pool under the poller leaks nothing as long as nodes keep their     *)
(* address: then whoever is connecting to a node is connecting to what its *)
(* entry leads to, so a new connection never overwrites one in the map.    *)
(***************************************************************************)
Connecting(j) ==
  \/ j.pc \in {"lookup", "probe", "dial", "dialled", "surplus"}
  \/ j.pc \in {"remove", "close"} /\ j.then = "dial"

OneTarget ==
  /\ \A n \in Nodes : /\ guard[n].pc = "queued" => guard[n].target = target[n]
                      /\ entries[n] # NoEntry => entries[n].target = target[n]
  /\ \A g \in Callers : Connecting(call[g]) => call[g].target = target[call[g].node]

LeakInv == Inv /\ PollerInv /\ OneTarget /\ NothingLeaks

\* A call goes on connecting to where it was connecting.
LEMMA ConnectingGoesOn ==
  ASSUME Inv, NEW g \in Callers, PoolStep(g), Connecting(call'[g])
  PROVE  Connecting(call[g]) /\ call'[g].target = call[g].target /\ call'[g].node = call[g].node
<1>1. call[g] \in Call /\ call \in [Callers -> Call]
  BY DEF Inv, TypeOK
<1>2. CASE Lookup(g)
  BY <1>1, <1>2 DEF Lookup, Connecting, Call
<1>3. CASE Probe(g)
  BY <1>1, <1>3 DEF Probe, Connecting, Call
<1>4. CASE DialFails(g) \/ StoreDuplicate(g)
  BY <1>1, <1>4 DEF DialFails, StoreDuplicate, Connecting, Call
<1>5. ASSUME NEW c \in Clients, Dial(g, c)
      PROVE  Connecting(call[g]) /\ call'[g].target = call[g].target
             /\ call'[g].node = call[g].node
  BY <1>1, <1>5 DEF Dial, Connecting, Call
<1>6. CASE StoreNew(g) \/ CloseSurplus(g)
  BY <1>1, <1>6 DEF StoreNew, CloseSurplus, Connecting, Call
<1>7. CASE Remove(g)
  BY <1>1, <1>7 DEF Remove, Connecting, Call
<1>8. CASE CloseVictims(g)
  BY <1>1, <1>8 DEF CloseVictims, Connecting, Call
<1> QED
  BY <1>2, <1>3, <1>4, <1>5, <1>6, <1>7, <1>8 DEF PoolStep

LEMMA PoolStepKeepsTarget ==
  ASSUME LeakInv, NEW g \in Callers, InPool(g)
  PROVE  OneTarget' /\ NothingLeaks'
<1> USE DEF LeakInv
<1>1. PoolStep(g) /\ UNCHANGED <<guard, target>>
  BY DEF InPool, accounts, poller
<1>2. StoreNew(g) => call[g].node \in Nodes /\ entries[call[g].node] = NoEntry
                     /\ call[g].target = target[call[g].node]
  BY CallFacts DEF StoreNew, Duplicate, OneTarget, Connecting
<1>3. ASSUME NEW n \in Nodes, entries'[n] # NoEntry
      PROVE  entries'[n].target = target[n]
  <2>1. CASE UNCHANGED entries
    BY <1>3, <2>1 DEF OneTarget
  <2>2. CASE StoreNew(g)
    BY <1>2, <1>3, <2>2 DEF StoreNew, Inv, TypeOK, OneTarget
  <2>3. CASE Remove(g)
    BY <1>3, <2>3 DEF Remove, Inv, TypeOK, OneTarget
  <2> QED
    BY <1>1, <2>1, <2>2, <2>3 DEF PoolStep, Lookup, Probe, DialFails, Dial, StoreDuplicate,
       CloseSurplus, CloseVictims
<1>4. ASSUME NEW h \in Callers, Connecting(call'[h])
      PROVE  call'[h].target = target[call'[h].node]
  <2>1. CASE h = g
    BY <1>1, <1>4, <2>1, ConnectingGoesOn DEF OneTarget
  <2>2. CASE h # g
    BY <1>1, <1>4, <2>2, HeldByOthers DEF OneTarget
  <2> QED
    BY <2>1, <2>2
<1>5. OneTarget'
  BY <1>1, <1>3, <1>4 DEF OneTarget
<1>6. NothingLeaks'
  BY <1>1, <1>2, LookingLeaksNothing, DialLeaksNothing, StoreNewLeaksNothing,
     RemoveLeaksNothing, ClosingLeaksNothing DEF PoolStep
<1> QED
  BY <1>5, <1>6

\* A call that starts or ends, by the poller.
LEMMA NewCallKeepsTarget ==
  ASSUME LeakInv, NEW g \in Callers, NEW r \in Call,
         r.own = None, r.victims = {}, Connecting(r) => r.target = target[r.node],
         call[g].pc \in {"idle", "got", "failed", "dropped"},
         call' = [call EXCEPT ![g] = r], UNCHANGED <<entries, conn, target>>,
         \A n \in Nodes : guard'[n].pc = "queued" => guard'[n] = guard[n]
  PROVE  OneTarget' /\ NothingLeaks'
<1> USE DEF LeakInv
<1>1. NothingLeaks'
  BY UseLeaksNothing
<1>2. \A h \in Callers : call'[h] = r \/ call'[h] = call[h]
  BY NewCall DEF Inv
<1> QED
  BY <1>1, <1>2 DEF OneTarget

LEMMA NewDrop ==
  ASSUME NEW n \in Nodes, NEW r, r = [NoCall EXCEPT !.pc = "remove", !.node = n]
  PROVE  r \in Call /\ r.own = None /\ r.victims = {} /\ ~Connecting(r)
BY DEF NoCall, Call, Pcs, NoEntry, Connecting

LEMMA TakeSlotKeepsTarget ==
  ASSUME LeakInv, NEW n \in Nodes, TakeSlot(n)
  PROVE  OneTarget' /\ NothingLeaks'
<1> USE DEF LeakInv
<1>1. PICK g \in Polls :
        /\ StartGet(g, n, guard[n].target)
        /\ guard' = [guard EXCEPT ![n] = [NoGuard EXCEPT !.pc = "polling", !.poll = g]]
  BY DEF TakeSlot
<1> DEFINE r == [NoCall EXCEPT !.pc = "lookup", !.node = n, !.target = guard[n].target]
           q == [NoGuard EXCEPT !.pc = "polling", !.poll = g]
<1>2. guard[n].target = target[n] /\ guard[n].target \in Targets /\ UNCHANGED target
  BY DEF TakeSlot, OneTarget, PollerInv, QueuedKnowsTarget, accounts
<1>3. r \in Call /\ r.own = None /\ r.victims = {} /\ r.target = target[n] /\ r.node = n
  BY <1>2 DEF NoCall, Call, Pcs, NoEntry
<1>4. q.pc # "queued"
  BY DEF NoGuard
<1>5. g \in Callers /\ call[g].pc = "idle" /\ call' = [call EXCEPT ![g] = r]
      /\ guard' = [guard EXCEPT ![n] = q] /\ UNCHANGED <<entries, conn>>
  BY <1>1, Actors DEF StartGet
<1> HIDE DEF r, q
<1>6. \A m \in Nodes : guard'[m].pc = "queued" => guard'[m] = guard[m]
  BY <1>4, <1>5 DEF PollerInv, PollerTypes
<1> QED
  BY <1>2, <1>3, <1>5, <1>6, NewCallKeepsTarget

LEMMA GuardsKeepTarget ==
  ASSUME LeakInv, NEW n \in Nodes, Answered(n) \/ TimesOut(n) \/ GuardDone(n)
  PROVE  OneTarget' /\ NothingLeaks'
<1> USE DEF LeakInv
<1>1. UNCHANGED target
  BY DEF Answered, TimesOut, GuardDone, accounts
<1>2. ASSUME NEW m \in Nodes, guard'[m].pc = "queued"
      PROVE  guard'[m] = guard[m]
  <2>1. guard'[n].pc \in {"done", "dropping"} /\ (m # n => guard'[m] = guard[m])
    BY BlankRecords DEF Answered, TimesOut, GuardDone, PollerInv, PollerTypes, Guard, NoGuard
  <2> QED
    BY <1>2, <2>1
<1>3. CASE Answered(n)
  BY <1>1, <1>2, <1>3, HeldIsKept DEF Answered, vars, OneTarget
<1>4. CASE TimesOut(n)
  <2> DEFINE r == [NoCall EXCEPT !.pc = "remove", !.node = n]
  <2>1. r \in Call /\ r.own = None /\ r.victims = {} /\ ~Connecting(r)
    BY NewDrop
  <2>2. /\ GuardOf[n] \in Callers /\ call[GuardOf[n]].pc \in {"idle", "got"}
        /\ call' = [call EXCEPT ![GuardOf[n]] = r] /\ UNCHANGED <<entries, conn>>
    BY <1>4, Actors DEF TimesOut, StartDrop
  <2> HIDE DEF r
  <2> QED
    BY <1>1, <1>2, <2>1, <2>2, NewCallKeepsTarget
<1>5. CASE GuardDone(n)
  <2>1. /\ GuardOf[n] \in Callers /\ call[GuardOf[n]].pc = "dropped"
        /\ call' = [call EXCEPT ![GuardOf[n]] = NoCall] /\ UNCHANGED <<entries, conn>>
    BY <1>5, Actors DEF GuardDone, Finish
  <2> QED
    BY <1>1, <1>2, <2>1, NoCallFacts, NewCallKeepsTarget DEF Connecting
<1> QED
  BY <1>3, <1>4, <1>5

LEMMA PollsKeepTarget ==
  ASSUME LeakInv, NEW g \in Polls, PollStep(g)
  PROVE  OneTarget' /\ NothingLeaks'
<1> USE DEF LeakInv
<1>1. UNCHANGED target /\ poll[g].node \in Nodes /\ g \in Callers
  BY PollAt, Actors DEF PollStep, QueryAnswered, AnswerLost, QueryFails, SkipUnknown, Charge,
     Record, PollEnds, accounts
<1>2. ASSUME NEW m \in Nodes, guard'[m].pc = "queued"
      PROVE  guard'[m] = guard[m]
  <2>1. CASE PollEnds(g) /\ guard' = [guard EXCEPT ![poll[g].node].pc = "answered",
                                                   ![poll[g].node].poll = None]
    BY <1>1, <1>2, <2>1 DEF PollerInv, PollerTypes, Guard
  <2> QED
    BY <1>2, <2>1 DEF PollStep, QueryAnswered, AnswerLost, QueryFails, SkipUnknown, Charge,
       Record, PollEnds
<1>3. CASE UNCHANGED vars
  BY <1>1, <1>2, <1>3, HeldIsKept DEF vars, OneTarget
<1>4. CASE StartDrop(g, poll[g].node)
  <2> DEFINE r == [NoCall EXCEPT !.pc = "remove", !.node = poll[g].node]
  <2>1. r \in Call /\ r.own = None /\ r.victims = {} /\ ~Connecting(r)
    BY <1>1, NewDrop
  <2>2. call[g].pc \in {"idle", "got"} /\ call' = [call EXCEPT ![g] = r]
        /\ UNCHANGED <<entries, conn>>
    BY <1>4 DEF StartDrop
  <2> HIDE DEF r
  <2> QED
    BY <1>1, <1>2, <2>1, <2>2, NewCallKeepsTarget
<1>5. CASE Finish(g)
  BY <1>1, <1>2, <1>5, NoCallFacts, NewCallKeepsTarget DEF Finish, Connecting
<1> QED
  BY <1>3, <1>4, <1>5 DEF PollStep, QueryAnswered, AnswerLost, QueryFails, SkipUnknown,
     Charge, Record, PollEnds

LEMMA LeakStep ==
  ASSUME "edit" \notin Operations, LeakInv, [PollingNext]_allVars
  PROVE  LeakInv'
<1> USE DEF LeakInv
<1>1. PollerInv' /\ Inv'
  BY PollingStep, NextKeepsInv
<1>2. CASE PollAll \/ CycleEnds
  <2>1. UNCHANGED <<entries, conn, call, target>>
    BY <1>2 DEF PollAll, CycleEnds, vars, accounts
  <2>2. \A n \in Nodes : guard'[n].pc = "queued" => guard'[n].target = target[n]
    BY <1>2, BlankRecords DEF PollAll, CycleEnds, NoGuard
  <2> QED
    BY <1>1, <2>1, <2>2, HeldIsKept DEF OneTarget
<1>3. ASSUME UNCHANGED <<vars, target, guard>> PROVE LeakInv'
  BY <1>1, <1>3, HeldIsKept DEF OneTarget, vars
<1>4. ASSUME NEW c \in Clients, Breaks(c) PROVE LeakInv'
  BY <1>1, <1>4, FailingLeaksNothing DEF Breaks, TransportFails, OneTarget, accounts, poller
<1>5. ASSUME NEW n \in Nodes, TakeSlot(n) \/ Answered(n) \/ TimesOut(n) \/ GuardDone(n)
      PROVE  LeakInv'
  BY <1>1, <1>5, TakeSlotKeepsTarget, GuardsKeepTarget
<1>6. ASSUME NEW g \in Callers, InPool(g) PROVE LeakInv'
  BY <1>1, <1>6, PoolStepKeepsTarget
<1>7. ASSUME NEW g \in Polls, PollStep(g) PROVE LeakInv'
  BY <1>1, <1>7, PollsKeepTarget
<1> QED
  BY <1>2, <1>3, <1>4, <1>5, <1>6, <1>7 DEF PollingNext, Push, EditNode, Traffic, CreateUser,
     Rename, DeleteUser, allVars, accounts, poller

LEMMA InitLeakInv == PollingInit => LeakInv
<1> SUFFICES ASSUME PollingInit PROVE LeakInv
  OBVIOUS
<1>1. Inv /\ PollerInv
  BY InitInv, PollingInitInv DEF PollingInit
<1>2. OneTarget
  BY NoCallFacts, BlankRecords DEF PollingInit, Init, OneTarget, Connecting
<1>3. NothingLeaks
  BY DEF PollingInit, Init, NothingLeaks
<1> QED
  BY <1>1, <1>2, <1>3 DEF LeakInv

\* As long as no node gets another address, a connection of the poller that is not
\* closed is in the map or in the hands of a call that will store or close it,
\* however many polls outlive their guards.
THEOREM NothingLeaksUntilEdited ==
  ASSUME "edit" \notin Operations
  PROVE  PollingSpec => []NothingLeaks
<1>1. LeakInv => NothingLeaks
  BY DEF LeakInv
<1>2. LeakInv /\ [PollingNext]_allVars => LeakInv'
  BY LeakStep
<1> QED
  BY <1>1, <1>2, InitLeakInv, PTL DEF PollingSpec

=============================================================================
