----------------------------- MODULE LedgerProofs ------------------------------
(***************************************************************************)
(* The counters of a user's row never claim more than was added to it      *)
(* since the reset date the row bears, a subscription is refused for       *)
(* traffic only to who has used it up, and a usage answer misses nothing:  *)
(* for any users, any number of requests, any calendar and any limits.     *)
(***************************************************************************)
EXTENDS Ledger, TLAPS

LEMMA ConstantFacts ==
  /\ NoRow \in Rows /\ Idle \in Op /\ 0 \in Dates /\ 0 \in Months
  /\ MaxDay \in Nat /\ StartDay \in Days /\ Days \subseteq Dates
<1>1. MaxDay \in Nat /\ StartDay \in Int /\ StartDay >= 1 /\ StartDay <= MaxDay - 1
      /\ LastMonth \in Nat
  BY LedgerAssumption, CalendarAssumption DEF LedgerAssumption, CalendarAssumption
<1>2. 0 \in Dates /\ 0 \in Months /\ StartDay \in Days /\ Days \subseteq Dates
  BY <1>1 DEF Dates, Months, Days
<1>3. NoRow \in Rows
  BY <1>2 DEF NoRow, Rows, Never
<1>4. Idle \in Op
  BY <1>2, <1>3 DEF Idle, Op
<1> QED
  BY <1>1, <1>2, <1>3, <1>4

USE DEF Days, Months, Never, Dates

-----------------------------------------------------------------------------
(***************************************************************************)
(* The inductive invariant.                                                *)
(***************************************************************************)

\* What was charged since a day includes what was charged since a later one.
Cumulative ==
  \A u \in Users : \A d, e \in Dates : d <= e => charged[u][e] <= charged[u][d]

\* A row that a handler has read, and may judge or write back, was once right.
ReadRowsWereRight ==
  \A h \in Handlers : op[h].kind \in {"subscription", "reset"} =>
    /\ op[h].row.last <= clock.day
    /\ op[h].row.used <= charged[op[h].user][op[h].row.last]

\* Only samples from before the retention window are missing.
PrunedAreOld ==
  \A u \in Users, t \in Instants :
    samples[u][t] = recorded[u][t] \/ Before(t, Midnight(RetentionStart))

\* A range was clamped to the window of the month it was asked in.
RangesWereClamped ==
  \A h \in Handlers : op[h].pc = "query" =>
    /\ op[h].kind = "usage"
    /\ op[h].month <= MonthOf[Today]
    /\ op[h].month - (RetentionMonths - 1) \in Months
    /\ op[h].from >= FirstDay[op[h].month - (RetentionMonths - 1)]

\* Which request is where.
KindsFit ==
  \A h \in Handlers :
    /\ op[h].pc = "check" => op[h].kind = "subscription"
    /\ op[h].pc \in {"reset", "sync"} => op[h].kind = "reset"
    /\ op[h].pc # "idle" => op[h] # Idle

Inv ==
  /\ TypeOK /\ NeverOvercharged /\ Cumulative /\ ReadRowsWereRight
  /\ PrunedAreOld /\ RangesWereClamped /\ KindsFit

-----------------------------------------------------------------------------
(***************************************************************************)
(* The calendar.                                                           *)
(***************************************************************************)

LEMMA TimeType ==
  ASSUME NEW t \in Times
  PROVE  /\ StartDay \in Days /\ StartDay - 1 \in Days
         /\ MaxDay \in Nat /\ Ticks \in Nat
         /\ t.day \in Int /\ t.day >= StartDay /\ t.day + 1 <= MaxDay
         /\ t.tick \in Int /\ t.tick >= 0 /\ t.tick < Ticks
         /\ t.day \in Days
         /\ t \in Instants
         /\ PanelDay(t) \in Days /\ PanelDay(t) >= StartDay - 1
<1>1. /\ t.day \in StartDay..(MaxDay - 1) /\ t.tick \in 0..(Ticks - 1)
      /\ t = [day |-> t.day, tick |-> t.tick]
  BY DEF Times
<1> QED
  BY <1>1, LedgerAssumption DEF LedgerAssumption, Instants, PanelDay

LEMMA MonthsOfDays ==
  ASSUME NEW d \in Days, d >= StartDay - 1, StartDay - 1 \in Days
  PROVE  /\ MonthOf[d] \in Months
         /\ MonthOf[d] >= 1 /\ MonthOf[d] >= RetentionMonths - 1
         /\ RetentionMonths \in Nat \ {0}
         /\ MonthOf[d] - 1 \in Months
         /\ MonthOf[d] - (RetentionMonths - 1) \in Months
<1>1. MonthOf[d] \in Months /\ MonthOf[StartDay - 1] \in Months
  BY CalendarAssumption DEF CalendarAssumption
<1>2. MonthOf[StartDay - 1] <= MonthOf[d]
  BY CalendarAssumption DEF CalendarAssumption
<1>3. MonthOf[StartDay - 1] >= 1 /\ MonthOf[StartDay - 1] >= RetentionMonths - 1
      /\ LastMonth \in Nat /\ RetentionMonths \in Nat \ {0}
  BY CalendarAssumption DEF CalendarAssumption
<1> QED
  BY <1>1, <1>2, <1>3

\* The reset date a subscription is compared with has come, and exists.
LEMMA ExpectedResetHasCome ==
  ASSUME TypeOK, NEW u \in Users, HasResetDay(u)
  PROVE  ExpectedReset(u) \in Days /\ ExpectedReset(u) <= clock.day
<1> DEFINE m == MonthOf[clock.day]
<1>1. /\ clock.day \in Days /\ clock.day >= StartDay - 1 /\ StartDay - 1 \in Days
      /\ MaxDay \in Nat
  BY TimeType DEF TypeOK
<1>2. m \in Months /\ m - 1 \in Months
  BY <1>1, MonthsOfDays
<1>3. FirstDay[m] <= clock.day
  <2>1. m <= MonthOf[clock.day]
    BY <1>2 DEF Months
  <2>2. \A n \in Months : n <= MonthOf[clock.day] <=> FirstDay[n] <= clock.day
    BY <1>1, CalendarAssumption DEF CalendarAssumption
  <2> HIDE DEF m
  <2> QED
    BY <1>2, <2>1, <2>2
<1>4. FirstDay[m] \in Days /\ FirstDay[m - 1] \in Days
  BY <1>2, CalendarAssumption DEF CalendarAssumption
<1>5. FirstDay[m - 1] + LastResetDay <= FirstDay[m]
  <2>1. (m - 1) + 1 = m
    BY <1>2
  <2> QED
    BY <1>2, <2>1, CalendarAssumption DEF CalendarAssumption
<1>6. ResetDay[u] \in Nat /\ LastResetDay \in Nat
      /\ ResetDay[u] > 0 /\ ResetDay[u] <= LastResetDay
  BY LedgerAssumption, CalendarAssumption
     DEF HasResetDay, LedgerAssumption, CalendarAssumption
<1>7. CASE clock.day < ResetDate(u, m)
  <2>1. ExpectedReset(u) = FirstDay[m - 1] + ResetDay[u] - 1
    BY <1>7 DEF ExpectedReset, ResetDate
  <2> HIDE DEF m
  <2> QED
    BY <1>1, <1>3, <1>4, <1>5, <1>6, <2>1
<1>8. CASE ~(clock.day < ResetDate(u, m))
  <2>1. ExpectedReset(u) = FirstDay[m] + ResetDay[u] - 1
    BY <1>8 DEF ExpectedReset, ResetDate
  <2>2. ~(clock.day < FirstDay[m] + ResetDay[u] - 1)
    BY <1>8 DEF ResetDate
  <2> HIDE DEF m
  <2> QED
    BY <1>1, <1>4, <1>6, <2>1, <2>2
<1> QED
  BY <1>7, <1>8

\* The retention window begins on a day of the calendar.
LEMMA KeptFromExists ==
  ASSUME NEW t \in Times
  PROVE  /\ PanelDay(t) \in Days /\ MonthOf[PanelDay(t)] \in Months
         /\ RetentionMonths \in Nat \ {0}
         /\ MonthOf[PanelDay(t)] - (RetentionMonths - 1) \in Months
         /\ KeptFrom(PanelDay(t)) \in Days
<1> DEFINE d == PanelDay(t)
<1>1. d \in Days /\ d >= StartDay - 1 /\ StartDay - 1 \in Days
  BY TimeType
<1> HIDE DEF d
<1>2. /\ MonthOf[d] \in Months
      /\ RetentionMonths \in Nat \ {0}
      /\ MonthOf[d] - (RetentionMonths - 1) \in Months
  BY <1>1, MonthsOfDays
<1>3. KeptFrom(d) \in Days
  BY <1>2, CalendarAssumption DEF KeptFrom, CalendarAssumption
<1> QED
  BY <1>1, <1>2, <1>3 DEF d

LEMMA FirstDaysIncrease ==
  ASSUME NEW a \in Months, NEW b \in Months, a <= b
  PROVE  FirstDay[a] \in Days /\ FirstDay[b] \in Days /\ FirstDay[a] <= FirstDay[b]
<1>1. FirstDay[a] \in Days /\ FirstDay[b] \in Days
  BY CalendarAssumption DEF CalendarAssumption
<1>2. b <= MonthOf[FirstDay[b]] /\ MonthOf[FirstDay[b]] \in Months
  BY <1>1, CalendarAssumption DEF CalendarAssumption
<1>3. a <= MonthOf[FirstDay[b]]
  BY <1>2
<1> QED
  BY <1>1, <1>3, CalendarAssumption DEF CalendarAssumption

\* Time only moves the window forward.
LEMMA WindowMovesForward ==
  ASSUME NEW s \in Times, NEW t \in Times,
         s.day <= t.day, s.day = t.day => s.tick <= t.tick
  PROVE  /\ MonthOf[PanelDay(s)] <= MonthOf[PanelDay(t)]
         /\ KeptFrom(PanelDay(s)) <= KeptFrom(PanelDay(t))
<1> DEFINE d == PanelDay(s)
           e == PanelDay(t)
<1>1. d \in Days /\ e \in Days /\ d <= e
  BY TimeType, LedgerAssumption DEF PanelDay, LedgerAssumption
<1>2. /\ MonthOf[d] - (RetentionMonths - 1) \in Months
      /\ MonthOf[e] - (RetentionMonths - 1) \in Months
      /\ MonthOf[d] \in Months /\ MonthOf[e] \in Months
      /\ RetentionMonths \in Nat
  BY KeptFromExists
<1> HIDE DEF d, e
<1>3. MonthOf[d] <= MonthOf[e]
  BY <1>1, CalendarAssumption DEF CalendarAssumption
<1>4. MonthOf[d] - (RetentionMonths - 1) <= MonthOf[e] - (RetentionMonths - 1)
  BY <1>2, <1>3
<1>5. KeptFrom(d) <= KeptFrom(e)
  BY <1>2, <1>4, FirstDaysIncrease DEF KeptFrom
<1> QED
  BY <1>3, <1>5 DEF d, e

LEMMA MidnightMovesForward ==
  ASSUME NEW d \in Days, NEW e \in Days, d <= e,
         NEW t \in Instants, Before(t, Midnight(d))
  PROVE  Before(t, Midnight(e))
<1>1. t.day \in Int /\ t.tick \in Int /\ MaxDay \in Nat
  BY LedgerAssumption DEF Instants, LedgerAssumption
<1> QED
  BY <1>1, LedgerAssumption DEF Before, Midnight, LedgerAssumption

\* What was recorded before midnight was recorded on an earlier day.
LEMMA BeforeMidnight ==
  ASSUME NEW d \in Days, NEW t \in Instants, Before(t, Midnight(d))
  PROVE  PanelDay(t) < d
<1>1. t.day \in Int /\ t.tick \in Int /\ t.tick < Ticks /\ t.tick >= 0 /\ MaxDay \in Nat
  BY LedgerAssumption DEF Instants, LedgerAssumption
<1> QED
  BY <1>1, LedgerAssumption DEF Before, Midnight, PanelDay, LedgerAssumption

-----------------------------------------------------------------------------
(***************************************************************************)
(* The invariant holds.                                                    *)
(***************************************************************************)
LEMMA InitInv == LedgerInit => Inv
<1> SUFFICES ASSUME LedgerInit PROVE Inv
  OBVIOUS
<1>1. MaxDay \in Nat /\ StartDay \in Int /\ StartDay >= 1 /\ StartDay <= MaxDay - 1
      /\ Ticks \in Nat \ {0} /\ LastMonth \in Nat
  BY LedgerAssumption, CalendarAssumption DEF LedgerAssumption, CalendarAssumption
<1>2. Idle \in Op /\ NoRow \in Rows
  BY ConstantFacts
<1>3. TypeOK
  <2>1. clock \in Times /\ clock.day \in Nat
    BY <1>1 DEF LedgerInit, Times
  <2>2. /\ row \in [Users -> Rows]
        /\ \A u \in Users : row[u].last = 0
    BY <1>2 DEF LedgerInit, NoRow
  <2>3. op \in [Handlers -> Op] /\ \A h \in Handlers : op[h] = Idle
    BY <1>2 DEF LedgerInit
  <2>4. /\ samples \in [Users -> [Instants -> Nat]]
        /\ recorded \in [Users -> [Instants -> Nat]]
        /\ charged \in [Users -> [Dates -> Nat]]
    BY DEF LedgerInit
  <2> QED
    BY <2>1, <2>2, <2>3, <2>4 DEF TypeOK
<1>4. NeverOvercharged /\ Cumulative /\ PrunedAreOld
  BY <1>1 DEF LedgerInit, NeverOvercharged, Cumulative, PrunedAreOld, NoRow
<1>5. ReadRowsWereRight /\ RangesWereClamped /\ KindsFit
  BY DEF LedgerInit, ReadRowsWereRight, RangesWereClamped, KindsFit, Idle
<1> QED
  BY <1>3, <1>4, <1>5 DEF Inv

LEMMA TickKeepsInv ==
  ASSUME Inv, Tick
  PROVE  Inv'
<1> USE DEF Inv
<1>1. clock \in Times /\ clock' \in Times
  <2>1. clock \in Times
    BY DEF TypeOK
  <2>2. /\ clock.day \in StartDay..(MaxDay - 1) /\ clock.tick \in 0..(Ticks - 1)
        /\ clock = [day |-> clock.day, tick |-> clock.tick]
        /\ StartDay \in Int /\ MaxDay \in Int /\ Ticks \in Nat \ {0}
    BY <2>1, LedgerAssumption DEF Times, LedgerAssumption
  <2>3. CASE clock.tick + 1 < Ticks
    <3>1. clock' = [day |-> clock.day, tick |-> clock.tick + 1]
      BY <2>2, <2>3 DEF Tick
    <3>2. clock.tick + 1 \in 0..(Ticks - 1)
      BY <2>2, <2>3
    <3> QED
      BY <2>1, <2>2, <3>1, <3>2 DEF Times
  <2>4. CASE ~(clock.tick + 1 < Ticks)
    <3>1. clock' = [day |-> clock.day + 1, tick |-> 0] /\ clock.day < MaxDay - 1
      BY <2>4 DEF Tick
    <3>2. clock.day + 1 \in StartDay..(MaxDay - 1) /\ 0 \in 0..(Ticks - 1)
      BY <2>2, <3>1
    <3> QED
      BY <2>1, <3>1, <3>2 DEF Times
  <2> QED
    BY <2>3, <2>4
<1>2. clock.day <= clock'.day /\ (clock.day = clock'.day => clock.tick <= clock'.tick)
  <2>1. /\ clock.day \in Int /\ clock'.day \in Int /\ clock.tick \in Int /\ clock'.tick \in Int
        /\ clock \in [day : StartDay..(MaxDay - 1), tick : 0..(Ticks - 1)]
    BY <1>1, TimeType DEF Times
  <2>2. CASE clock.tick + 1 < Ticks
    BY <2>1, <2>2 DEF Tick
  <2>3. CASE ~(clock.tick + 1 < Ticks)
    BY <2>1, <2>3 DEF Tick
  <2> QED
    BY <2>2, <2>3
<1>3. clock.day \in Int /\ clock'.day \in Int /\ MaxDay \in Nat
  BY <1>1, TimeType
<1>4. UNCHANGED <<row, samples, op, charged, recorded>>
  BY DEF Tick
<1>5. TypeOK'
  <2>1. \A u \in Users : row[u].last \in Int /\ row[u].last <= clock.day
    BY <1>3 DEF TypeOK, Rows
  <2> QED
    BY <1>1, <1>2, <1>3, <1>4, <2>1 DEF TypeOK
<1>6. NeverOvercharged' /\ Cumulative' /\ KindsFit'
  BY <1>4 DEF NeverOvercharged, Cumulative, KindsFit
<1>7. ReadRowsWereRight'
  <2>1. \A h \in Handlers : op[h].row.last \in Int
    BY <1>3 DEF TypeOK, Op, Rows
  <2> QED
    BY <1>2, <1>3, <1>4, <2>1 DEF ReadRowsWereRight
<1>8. /\ MonthOf[Today] <= MonthOf[Today']
      /\ RetentionStart <= RetentionStart'
      /\ RetentionStart \in Days /\ RetentionStart' \in Days
      /\ MonthOf[Today] \in Int /\ MonthOf[Today'] \in Int
  BY <1>1, <1>2, WindowMovesForward, KeptFromExists DEF Today, RetentionStart
<1>9. PrunedAreOld'
  BY <1>4, <1>8, MidnightMovesForward DEF PrunedAreOld, Midnight
<1>10. RangesWereClamped'
  <2>1. \A h \in Handlers : op[h].month \in Int
    BY DEF TypeOK, Op
  <2> QED
    BY <1>4, <1>8, <2>1 DEF RangesWereClamped
<1> QED
  BY <1>5, <1>6, <1>7, <1>9, <1>10

LEMMA PruneKeepsInv ==
  ASSUME Inv, Prune
  PROVE  Inv'
<1> USE DEF Inv
<1>1. UNCHANGED <<clock, row, op, charged, recorded>>
  BY DEF Prune
<1>2. samples' = [u \in Users |-> [t \in Instants |->
        IF Before(t, Midnight(RetentionStart)) THEN 0 ELSE samples[u][t]]]
  BY DEF Prune
<1>3. TypeOK'
  BY <1>1, <1>2 DEF TypeOK
<1>4. Today' = Today /\ RetentionStart' = RetentionStart
  BY <1>1 DEF Today, RetentionStart, PanelDay, KeptFrom
<1>5. PrunedAreOld'
  BY <1>1, <1>2, <1>4 DEF PrunedAreOld, Midnight
<1>6. NeverOvercharged' /\ Cumulative' /\ KindsFit' /\ ReadRowsWereRight' /\ RangesWereClamped'
  BY <1>1, <1>4
     DEF NeverOvercharged, Cumulative, KindsFit, ReadRowsWereRight, RangesWereClamped
<1> QED
  BY <1>3, <1>5, <1>6

\* A request that is taken up, moved on or ended, with or without a new row of
\* its user.
LEMMA RequestKeepsInv ==
  ASSUME Inv, NEW h \in Handlers, NEW o \in Op, NEW u \in Users, NEW r \in Rows,
         op' = [op EXCEPT ![h] = o],
         row' = [row EXCEPT ![u] = r],
         UNCHANGED <<clock, samples, charged, recorded>>,
         r.last <= clock.day,
         r.used <= charged[u][r.last],
         o # Idle => o.user \in Users,
         o.kind \in {"subscription", "reset"} =>
           /\ o.row.last <= clock.day
           /\ o.row.used <= charged[o.user][o.row.last],
         o.pc = "query" =>
           /\ o.kind = "usage"
           /\ o.month <= MonthOf[Today]
           /\ o.month - (RetentionMonths - 1) \in Months
           /\ o.from >= FirstDay[o.month - (RetentionMonths - 1)],
         o.pc = "check" => o.kind = "subscription",
         o.pc \in {"reset", "sync"} => o.kind = "reset",
         o.pc # "idle" => o # Idle
  PROVE  Inv'
<1> USE DEF Inv
<1>1. op \in [Handlers -> Op] /\ row \in [Users -> Rows]
  BY DEF TypeOK
<1>2. op' \in [Handlers -> Op] /\ \A g \in Handlers : op'[g] = IF g = h THEN o ELSE op[g]
  BY <1>1
<1>3. row' \in [Users -> Rows] /\ \A v \in Users : row'[v] = IF v = u THEN r ELSE row[v]
  BY <1>1
<1>4. TypeOK'
  BY <1>2, <1>3 DEF TypeOK
<1>5. Today' = Today /\ RetentionStart' = RetentionStart
  BY DEF Today, RetentionStart, PanelDay, KeptFrom
<1>6. NeverOvercharged'
  BY <1>3 DEF NeverOvercharged
<1>7. Cumulative' /\ PrunedAreOld'
  BY <1>5 DEF Cumulative, PrunedAreOld, Midnight
<1>8. ReadRowsWereRight'
  BY <1>2 DEF ReadRowsWereRight
<1>9. RangesWereClamped'
  BY <1>2, <1>5 DEF RangesWereClamped
<1>10. KindsFit'
  BY <1>2 DEF KindsFit
<1> QED
  BY <1>4, <1>6, <1>7, <1>8, <1>9, <1>10

\* What the invariant says of a user's row, and of a request.
LEMMA RowFacts ==
  ASSUME Inv, NEW u \in Users
  PROVE  /\ row[u] \in Rows /\ row[u].last \in Dates /\ row[u].used \in Nat
         /\ row[u].last <= clock.day
         /\ row[u].used <= charged[u][row[u].last]
         /\ row = [row EXCEPT ![u] = row[u]]
         /\ \A d \in Dates : charged[u][d] \in Nat
<1>1. row[u] \in Rows
  BY DEF Inv, TypeOK
<1> QED
  BY <1>1 DEF Inv, TypeOK, NeverOvercharged, Rows

\* The end of a request, which may leave a new row of its user.
LEMMA EndKeepsInv ==
  ASSUME Inv, NEW h \in Handlers, NEW u \in Users, NEW r \in Rows,
         Ends(h),
         row' = [row EXCEPT ![u] = r],
         UNCHANGED <<clock, samples, charged, recorded>>,
         r.last <= clock.day,
         r.used <= charged[u][r.last]
  PROVE  Inv'
<1>1. /\ Idle.kind = "none" /\ Idle.pc = "idle" /\ Idle \in Op
      /\ op' = [op EXCEPT ![h] = Idle]
  BY ConstantFacts DEF Idle, Ends
<1> QED
  BY <1>1, RequestKeepsInv

-----------------------------------------------------------------------------
(***************************************************************************)
(* One lemma per action.                                                   *)
(***************************************************************************)
LEMMA AddTrafficKeepsInv ==
  ASSUME Inv, NEW h \in Handlers, NEW u \in Users, AddTraffic(h, u)
  PROVE  Inv'
<1> USE DEF Inv
<1> DEFINE o == [Idle EXCEPT !.kind = "report", !.pc = "record", !.user = u]
<1>1. /\ op \in [Handlers -> Op] /\ row \in [Users -> Rows]
      /\ charged \in [Users -> [Dates -> Nat]]
      /\ clock.day \in Int
  BY TimeType DEF TypeOK
<1>2. /\ o \in Op /\ o # Idle /\ o.user = u /\ o.kind = "report" /\ o.pc = "record"
  BY ConstantFacts DEF Idle, Op
<1>3. op' = [op EXCEPT ![h] = o]
  BY <1>1 DEF AddTraffic, Begin
<1> HIDE DEF o
<1>4. op' \in [Handlers -> Op] /\ \A g \in Handlers : op'[g] = IF g = h THEN o ELSE op[g]
  BY <1>1, <1>2, <1>3
<1>5. \A v \in Users : row[v] \in Rows /\ row[v].used \in Nat /\ row[v].last \in Dates
  BY <1>1 DEF Rows
<1>6. /\ row' \in [Users -> Rows]
      /\ \A v \in Users : /\ row'[v].used = IF v = u THEN row[v].used + 1 ELSE row[v].used
                          /\ row'[v].last = row[v].last
  <2>1. row' = [row EXCEPT ![u] = [row[u] EXCEPT !.used = row[u].used + 1]]
    BY DEF AddTraffic
  <2>2. [row[u] EXCEPT !.used = row[u].used + 1] \in Rows
    BY <1>5 DEF Rows
  <2> QED
    BY <1>1, <1>5, <2>1, <2>2 DEF Rows
<1>7. /\ charged' \in [Users -> [Dates -> Nat]]
      /\ \A v \in Users, d \in Dates :
           charged'[v][d] = IF v = u /\ d <= clock.day THEN charged[v][d] + 1
                                                       ELSE charged[v][d]
  <2> DEFINE c == [d \in Dates |-> IF d <= clock.day THEN charged[u][d] + 1
                                                     ELSE charged[u][d]]
  <2>1. charged' = [charged EXCEPT ![u] = c]
    BY DEF AddTraffic
  <2>2. /\ c \in [Dates -> Nat]
        /\ \A d \in Dates : c[d] = IF d <= clock.day THEN charged[u][d] + 1
                                                      ELSE charged[u][d]
    <3> HIDE DEF Dates
    <3>1. \A d \in Dates : charged[u][d] \in Nat /\ charged[u][d] + 1 \in Nat
      BY <1>1
    <3> QED
      BY <3>1
  <2> HIDE DEF c, Dates
  <2>3. \A v \in Users : charged'[v] = IF v = u THEN c ELSE charged[v]
    BY <1>1, <2>1
  <2>4. charged' \in [Users -> [Dates -> Nat]]
    BY <1>1, <2>1, <2>2
  <2> QED
    BY <2>2, <2>3, <2>4
<1>8. UNCHANGED <<clock, samples, recorded>>
  BY DEF AddTraffic
<1>9. TypeOK'
  BY <1>2, <1>4, <1>6, <1>7, <1>8 DEF TypeOK
<1>10. Today' = Today /\ RetentionStart' = RetentionStart
  BY <1>8 DEF Today, RetentionStart, PanelDay, KeptFrom
<1>11. NeverOvercharged'
  <2> SUFFICES ASSUME NEW v \in Users
               PROVE  row'[v].used <= charged'[v][row'[v].last]
    BY DEF NeverOvercharged
  <2>1. row[v].last <= clock.day /\ row[v].used <= charged[v][row[v].last]
    BY DEF TypeOK, NeverOvercharged
  <2>2. charged[v][row[v].last] \in Nat
    BY <1>1, <1>5
  <2> QED
    BY <1>5, <1>6, <1>7, <2>1, <2>2
<1>12. Cumulative'
  <2> SUFFICES ASSUME NEW v \in Users, NEW d \in Dates, NEW e \in Dates, d <= e
               PROVE  charged'[v][e] <= charged'[v][d]
    BY DEF Cumulative
  <2>1. charged[v][e] <= charged[v][d] /\ charged[v][e] \in Nat /\ charged[v][d] \in Nat
    BY <1>1 DEF Cumulative
  <2>2. d \in Int /\ e \in Int /\ (e <= clock.day => d <= clock.day)
    BY <1>1, ConstantFacts
  <2> QED
    BY <1>7, <2>1, <2>2
<1>13. ReadRowsWereRight'
  <2> SUFFICES ASSUME NEW g \in Handlers, op'[g].kind \in {"subscription", "reset"}
               PROVE  /\ op'[g].row.last <= clock'.day
                      /\ op'[g].row.used <= charged'[op'[g].user][op'[g].row.last]
    BY DEF ReadRowsWereRight
  <2>1. g # h /\ op'[g] = op[g]
    BY <1>2, <1>4
  <2>2. /\ op[g].row.last <= clock.day
        /\ op[g].row.used <= charged[op[g].user][op[g].row.last]
    BY <2>1 DEF ReadRowsWereRight
  <2>3. op[g] # Idle
    BY <2>1 DEF Idle
  <2>4. /\ op[g].user \in Users
        /\ op[g].row.last \in Dates /\ op[g].row.used \in Nat
    BY <1>1, <2>3 DEF TypeOK, Op, Rows
  <2>5. \A v \in Users, d \in Dates :
          /\ charged[v][d] \in Nat /\ charged'[v][d] \in Nat
          /\ charged[v][d] <= charged'[v][d]
    <3> HIDE DEF Dates
    <3>1. \A v \in Users, d \in Dates : charged[v][d] \in Nat /\ charged'[v][d] \in Nat
      BY <1>1, <1>7
    <3> QED
      BY <1>7, <3>1
  <2> QED
    BY <1>8, <2>1, <2>2, <2>4, <2>5
<1>14. PrunedAreOld'
  BY <1>8, <1>10 DEF PrunedAreOld, Midnight
<1>15. RangesWereClamped' /\ KindsFit'
  BY <1>2, <1>4, <1>10 DEF RangesWereClamped, KindsFit
<1> QED
  BY <1>9, <1>11, <1>12, <1>13, <1>14, <1>15

LEMMA RecordKeepsInv ==
  ASSUME Inv, NEW h \in Handlers, Record(h)
  PROVE  Inv'
<1> USE DEF Inv
<1> DEFINE u == op[h].user
<1>1. /\ op \in [Handlers -> Op]
      /\ samples \in [Users -> [Instants -> Nat]]
      /\ recorded \in [Users -> [Instants -> Nat]]
      /\ clock \in Instants
  BY TimeType DEF TypeOK
<1>2. u \in Users
  BY DEF Record, KindsFit, TypeOK
<1>3. /\ Idle \in Op /\ Idle.kind = "none" /\ Idle.pc = "idle"
      /\ op' = [op EXCEPT ![h] = Idle]
  BY ConstantFacts DEF Record, Ends, Idle
<1>4. op' \in [Handlers -> Op] /\ \A g \in Handlers : op'[g] = IF g = h THEN Idle ELSE op[g]
  BY <1>1, <1>3
<1>5. /\ samples' = [samples EXCEPT ![u][clock] = samples[u][clock] + 1]
      /\ recorded' = [recorded EXCEPT ![u][clock] = recorded[u][clock] + 1]
      /\ UNCHANGED <<clock, row, charged>>
  BY DEF Record
<1> HIDE DEF u
<1>6. /\ samples' \in [Users -> [Instants -> Nat]]
      /\ recorded' \in [Users -> [Instants -> Nat]]
      /\ \A v \in Users, t \in Instants :
           /\ samples'[v][t] = IF v = u /\ t = clock THEN samples[v][t] + 1
                                                     ELSE samples[v][t]
           /\ recorded'[v][t] = IF v = u /\ t = clock THEN recorded[v][t] + 1
                                                      ELSE recorded[v][t]
  BY <1>1, <1>2, <1>5
<1>7. TypeOK'
  BY <1>4, <1>5, <1>6 DEF TypeOK
<1>8. Today' = Today /\ RetentionStart' = RetentionStart
  BY <1>5 DEF Today, RetentionStart, PanelDay, KeptFrom
<1>9. PrunedAreOld'
  BY <1>5, <1>6, <1>8 DEF PrunedAreOld, Midnight
<1>10. NeverOvercharged' /\ Cumulative'
  BY <1>5 DEF NeverOvercharged, Cumulative
<1>11. ReadRowsWereRight'
  BY <1>3, <1>4, <1>5 DEF ReadRowsWereRight
<1>12. RangesWereClamped' /\ KindsFit'
  BY <1>3, <1>4, <1>8 DEF RangesWereClamped, KindsFit
<1> QED
  BY <1>7, <1>9, <1>10, <1>11, <1>12

\* Reading the row of a user, for a subscription or before a reset.
LEMMA ReadRowKeepsInv ==
  ASSUME Inv, NEW h \in Handlers, NEW u \in Users,
         GetBySubToken(h, u) \/ ReadBefore(h, u)
  PROVE  Inv'
<1>1. PICK kind \in {"subscription", "reset"}, pc \in {"check", "reset"} :
        /\ pc = "check" <=> kind = "subscription"
        /\ op' = [op EXCEPT ![h] = [Idle EXCEPT !.kind = kind, !.pc = pc,
                                                !.user = u, !.row = row[u]]]
        /\ UNCHANGED <<clock, row, samples, charged, recorded>>
  BY DEF GetBySubToken, ReadBefore
<1> DEFINE o == [Idle EXCEPT !.kind = kind, !.pc = pc, !.user = u, !.row = row[u]]
<1>2. /\ row[u] \in Rows /\ row[u].last <= clock.day
      /\ row[u].used <= charged[u][row[u].last]
      /\ row' = [row EXCEPT ![u] = row[u]]
  BY <1>1, RowFacts
<1>3. /\ o \in Op /\ o.kind = kind /\ o.pc = pc /\ o.user = u /\ o.row = row[u]
      /\ o # Idle
  BY <1>1, <1>2, ConstantFacts DEF Idle, Op
<1>4. op' = [op EXCEPT ![h] = o]
  BY <1>1
<1> HIDE DEF o
<1>5. /\ o.pc # "query"
      /\ o.pc = "check" => o.kind = "subscription"
      /\ o.pc \in {"reset", "sync"} => o.kind = "reset"
      /\ o.row.last <= clock.day
      /\ o.row.used <= charged[o.user][o.row.last]
  BY <1>1, <1>2, <1>3
<1>6. UNCHANGED <<clock, samples, charged, recorded>>
  BY <1>1
<1>7. o # Idle => o.user \in Users
  BY <1>3
<1> QED
  BY <1>2, <1>3, <1>4, <1>5, <1>6, <1>7, RequestKeepsInv

LEMMA CheckTrafficResetKeepsInv ==
  ASSUME Inv, NEW h \in Handlers, CheckTrafficReset(h)
  PROVE  Inv'
<1> DEFINE u == op[h].user
           r == [used |-> 0, last |-> ExpectedReset(u)]
<1>1. u \in Users
  BY DEF Inv, CheckTrafficReset, KindsFit, TypeOK
<1>2. Ends(h) /\ UNCHANGED <<clock, samples, charged, recorded>>
  BY DEF CheckTrafficReset
<1>3. CASE NeedsReset(h)
  <2>1. ExpectedReset(u) \in Days /\ ExpectedReset(u) <= clock.day
    BY <1>1, <1>3, ExpectedResetHasCome DEF NeedsReset, Inv
  <2>2. ExpectedReset(u) \in Dates
    BY <2>1, ConstantFacts
  <2>3. r \in Rows /\ r.last = ExpectedReset(u) /\ r.used = 0
    BY <2>2 DEF Rows
  <2>4. charged[u][r.last] \in Nat
    BY <1>1, <2>2, <2>3, RowFacts
  <2>5. row' = [row EXCEPT ![u] = r]
    BY <1>3 DEF CheckTrafficReset
  <2> HIDE DEF r, u
  <2>6. r.last <= clock.day /\ r.used <= charged[u][r.last]
    BY <2>1, <2>3, <2>4
  <2> QED
    BY <1>1, <1>2, <2>3, <2>5, <2>6, EndKeepsInv
<1>4. CASE ~NeedsReset(h)
  <2>1. row' = [row EXCEPT ![u] = row[u]]
    BY <1>1, <1>4, RowFacts DEF CheckTrafficReset
  <2> HIDE DEF u
  <2> QED
    BY <1>1, <1>2, <2>1, RowFacts, EndKeepsInv
<1> QED
  BY <1>3, <1>4

LEMMA ResetTrafficKeepsInv ==
  ASSUME Inv, NEW h \in Handlers, ResetTraffic(h)
  PROVE  Inv'
<1> DEFINE u == op[h].user
           r == [row[u] EXCEPT !.used = 0]
           o == [op[h] EXCEPT !.pc = "sync"]
<1>1. op[h] \in Op /\ op[h] # Idle /\ u \in Users /\ op[h].kind = "reset"
  BY DEF Inv, ResetTraffic, KindsFit, TypeOK
<1>2. /\ op[h].row.last <= clock.day
      /\ op[h].row.used <= charged[u][op[h].row.last]
  BY <1>1 DEF Inv, ReadRowsWereRight
<1>3. /\ o \in Op /\ o.kind = "reset" /\ o.pc = "sync" /\ o.user = u
      /\ o.row = op[h].row /\ o # Idle
  BY <1>1 DEF Op, Idle
<1>4. /\ row[u].last <= clock.day /\ charged[u][row[u].last] \in Nat
      /\ row[u] \in Rows
  BY <1>1, RowFacts
<1>5. r \in Rows /\ r.last = row[u].last /\ r.used = 0
  BY <1>4 DEF Rows
<1>6. /\ op' = [op EXCEPT ![h] = o] /\ row' = [row EXCEPT ![u] = r]
      /\ UNCHANGED <<clock, samples, charged, recorded>>
  BY DEF ResetTraffic
<1> HIDE DEF u, r, o
<1>7. r.last <= clock.day /\ r.used <= charged[u][r.last]
  BY <1>4, <1>5
<1> QED
  BY <1>1, <1>2, <1>3, <1>5, <1>6, <1>7, RequestKeepsInv

LEMMA RestoreTrafficKeepsInv ==
  ASSUME Inv, NEW h \in Handlers, RestoreTraffic(h)
  PROVE  Inv'
<1>1. /\ op[h] \in Op /\ op[h].user \in Users /\ op[h].kind = "reset"
      /\ op[h].row \in Rows
  BY DEF Inv, RestoreTraffic, KindsFit, TypeOK, Op
<1>2. /\ op[h].row.last <= clock.day
      /\ op[h].row.used <= charged[op[h].user][op[h].row.last]
  BY <1>1 DEF Inv, ReadRowsWereRight
<1>3. /\ Ends(h) /\ row' = [row EXCEPT ![op[h].user] = op[h].row]
      /\ UNCHANGED <<clock, samples, charged, recorded>>
  BY DEF RestoreTraffic
<1> QED
  BY <1>1, <1>2, <1>3, EndKeepsInv

\* The end of a request that leaves the row alone.
LEMMA QuietEndKeepsInv ==
  ASSUME Inv, NEW h \in Handlers, op[h] # Idle, Usage(h) \/ ResetEnds(h)
  PROVE  Inv'
<1>1. op[h].user \in Users
  BY DEF Inv, TypeOK
<1>2. Ends(h) /\ row' = row /\ UNCHANGED <<clock, samples, charged, recorded>>
  BY DEF Usage, ResetEnds
<1> QED
  BY <1>1, <1>2, RowFacts, EndKeepsInv

LEMMA ParseUsageQueryKeepsInv ==
  ASSUME Inv, NEW h \in Handlers, NEW u \in Users, NEW from \in Days, NEW to \in Days,
         ParseUsageQuery(h, u, from, to)
  PROVE  Inv'
<1> DEFINE first == Larger(from, RetentionStart)
           last  == Smaller(to, Today)
           o == [Idle EXCEPT !.kind = "usage", !.pc = "query", !.user = u,
                             !.from = first, !.to = last, !.month = MonthOf[Today]]
<1>1. /\ Today \in Days /\ MonthOf[Today] \in Months /\ RetentionStart \in Days
      /\ RetentionStart = FirstDay[MonthOf[Today] - (RetentionMonths - 1)]
      /\ MonthOf[Today] - (RetentionMonths - 1) \in Months
  BY KeptFromExists DEF Inv, TypeOK, Today, RetentionStart, KeptFrom
<1>2. first \in Days /\ last \in Days /\ first >= RetentionStart
  BY <1>1 DEF Larger, Smaller
<1>3. first \in Dates /\ last \in Dates
  BY <1>2, ConstantFacts
<1>4. op' = [op EXCEPT ![h] = o] /\ UNCHANGED <<clock, row, samples, charged, recorded>>
  BY DEF ParseUsageQuery
<1> HIDE DEF first, last
<1>5. /\ o \in Op /\ o.kind = "usage" /\ o.pc = "query" /\ o.user = u
      /\ o.from = first /\ o.month = MonthOf[Today] /\ o # Idle
  BY <1>1, <1>3, ConstantFacts DEF Idle, Op
<1> HIDE DEF o
<1>6. /\ o.month <= MonthOf[Today]
      /\ o.month - (RetentionMonths - 1) \in Months
      /\ o.from >= FirstDay[o.month - (RetentionMonths - 1)]
  BY <1>1, <1>2, <1>5
<1> QED
  BY <1>4, <1>5, <1>6, RowFacts, RequestKeepsInv

LEMMA NextKeepsInv ==
  ASSUME Inv, [LedgerNext]_vars
  PROVE  Inv'
<1>1. CASE Tick
  BY <1>1, TickKeepsInv
<1>2. CASE Prune
  BY <1>2, PruneKeepsInv
<1>3. ASSUME NEW h \in Handlers, NEW u \in Users, AddTraffic(h, u)
      PROVE  Inv'
  BY <1>3, AddTrafficKeepsInv
<1>4. ASSUME NEW h \in Handlers, NEW u \in Users, GetBySubToken(h, u) \/ ReadBefore(h, u)
      PROVE  Inv'
  BY <1>4, ReadRowKeepsInv
<1>5. ASSUME NEW h \in Handlers, NEW u \in Users, NEW from \in Days, NEW to \in Days,
             ParseUsageQuery(h, u, from, to)
      PROVE  Inv'
  BY <1>5, ParseUsageQueryKeepsInv
<1>6. ASSUME NEW h \in Handlers, Record(h)
      PROVE  Inv'
  BY <1>6, RecordKeepsInv
<1>7. ASSUME NEW h \in Handlers, CheckTrafficReset(h)
      PROVE  Inv'
  BY <1>7, CheckTrafficResetKeepsInv
<1>8. ASSUME NEW h \in Handlers, Usage(h) \/ ResetEnds(h)
      PROVE  Inv'
  <2>1. op[h] # Idle
    BY <1>8 DEF Usage, ResetEnds, Idle
  <2> QED
    BY <1>8, <2>1, QuietEndKeepsInv
<1>9. ASSUME NEW h \in Handlers, ResetTraffic(h)
      PROVE  Inv'
  BY <1>9, ResetTrafficKeepsInv
<1>10. ASSUME NEW h \in Handlers, RestoreTraffic(h)
       PROVE  Inv'
  BY <1>10, RestoreTrafficKeepsInv
<1>11. CASE UNCHANGED vars
  <2>1. Today' = Today /\ RetentionStart' = RetentionStart
    BY <1>11 DEF vars, Today, RetentionStart, PanelDay, KeptFrom
  <2> QED
    BY <1>11, <2>1 DEF vars, Inv, TypeOK, NeverOvercharged, Cumulative, ReadRowsWereRight,
                       PrunedAreOld, Midnight, RangesWereClamped, KindsFit
<1> QED
  BY <1>1, <1>2, <1>3, <1>4, <1>5, <1>6, <1>7, <1>8, <1>9, <1>10, <1>11 DEF LedgerNext

LEMMA InvHolds == LedgerSpec => []Inv
<1>1. Inv /\ [LedgerNext]_vars => Inv'
  BY NextKeepsInv
<1> QED
  BY <1>1, InitInv, PTL DEF LedgerSpec

-----------------------------------------------------------------------------
(***************************************************************************)
(* The theorems.                                                           *)
(***************************************************************************)

\* No counter is ever negative and no row bears a reset date still to come
\* (AddTraffic, CheckTrafficReset, resetTraffic with its rollback).
THEOREM TypeCorrect == LedgerSpec => []TypeOK
<1>1. Inv => TypeOK
  BY DEF Inv
<1> QED
  BY <1>1, InvHolds, PTL

\* Whatever a rollback of resetTraffic writes back, and however stale the row a
\* subscription is judged by, nobody is charged for more than was added to the
\* row since the reset date the row bears.
THEOREM ChargesAreHonest == LedgerSpec => []NeverOvercharged
<1>1. Inv => NeverOvercharged
  BY DEF Inv
<1> QED
  BY <1>1, InvHolds, PTL

\* A subscription that CheckTrafficReset and IsActive refuse for traffic is one
\* whose user has used up the limit since the last reset date that has come.
THEOREM RefusalsAreJust == LedgerSpec => RefusedOnlyOverLimit
<1> DEFINE Just(h) ==
      CheckTrafficReset(h) /\ ~IsActive(h) =>
        LET u == op[h].user IN
        charged[u][IF HasResetDay(u) THEN ExpectedReset(u) ELSE Never] >= Limit[u]
<1>1. ASSUME Inv, NEW h \in Handlers, CheckTrafficReset(h), ~IsActive(h)
      PROVE  LET u == op[h].user IN
             charged[u][IF HasResetDay(u) THEN ExpectedReset(u) ELSE Never] >= Limit[u]
  <2> DEFINE u == op[h].user
             since == IF HasResetDay(u) THEN ExpectedReset(u) ELSE Never
  <2>1. u \in Users /\ op[h].kind = "subscription" /\ op[h].row \in Rows
    BY <1>1 DEF Inv, CheckTrafficReset, KindsFit, TypeOK, Op
  <2>2. /\ op[h].row.used <= charged[u][op[h].row.last]
        /\ op[h].row.last \in Dates /\ op[h].row.used \in Nat
    BY <1>1, <2>1 DEF Inv, ReadRowsWereRight, Rows
  <2>3. Limit[u] \in Nat /\ MaxDay \in Nat
    BY <2>1, LedgerAssumption DEF LedgerAssumption
  <2>4. ~NeedsReset(h) /\ Limit[u] <= op[h].row.used
    BY <1>1, <2>2, <2>3 DEF IsActive
  <2>5. since \in Dates /\ since <= op[h].row.last
    <3>1. CASE HasResetDay(u)
      <4>1. since = ExpectedReset(u) /\ since \in Days
        BY <1>1, <2>1, <3>1, ExpectedResetHasCome DEF Inv
      <4>2. ~(op[h].row.last < ExpectedReset(u))
        BY <2>4, <3>1 DEF NeedsReset
      <4> HIDE DEF since
      <4> QED
        BY <2>2, <2>3, <4>1, <4>2
    <3>2. CASE ~HasResetDay(u)
      BY <2>2, <2>3, <3>2
    <3> QED
      BY <3>1, <3>2
  <2>6. charged[u][op[h].row.last] <= charged[u][since]
    BY <1>1, <2>1, <2>2, <2>5 DEF Inv, Cumulative
  <2>7. charged[u][op[h].row.last] \in Nat /\ charged[u][since] \in Nat
    BY <1>1, <2>1, <2>2, <2>5, RowFacts
  <2> HIDE DEF since, u
  <2>8. charged[u][since] >= Limit[u]
    BY <2>2, <2>3, <2>4, <2>6, <2>7
  <2> QED
    BY <2>8 DEF since, u
<1>2. Inv => \A h \in Handlers : Just(h)
  BY <1>1
<1> HIDE DEF Just
<1>3. Inv /\ [LedgerNext]_vars => [\A h \in Handlers : Just(h)]_vars
  BY <1>2
<1>4. LedgerSpec => [][\A h \in Handlers : Just(h)]_vars
  BY <1>3, InvHolds, PTL DEF LedgerSpec
<1> QED
  BY <1>4 DEF RefusedOnlyOverLimit, Just

\* A usage answer misses nothing recorded in the days it covers: parseUsageQuery
\* clamps to the boundary, in the time zone, that the retention loop prunes to.
THEOREM UsageMissesNothing == LedgerSpec => []UsageIsComplete
<1>1. ASSUME Inv PROVE UsageIsComplete
  <2> SUFFICES ASSUME NEW h \in Handlers,
                      op[h].pc = "query", op[h].month = MonthOf[Today],
                      NEW t \in Instants, PanelDay(t) \in op[h].from..op[h].to
               PROVE  samples[op[h].user][t] = recorded[op[h].user][t]
    BY DEF UsageIsComplete, Select
  <2>1. /\ op[h].user \in Users
        /\ op[h].from \in Int /\ op[h].to \in Int
    <3>1. op[h] \in Op /\ op[h] # Idle
      BY <1>1 DEF Inv, TypeOK, KindsFit
    <3>2. op[h].from \in Dates /\ op[h].to \in Dates
      BY <3>1 DEF Op
    <3> QED
      BY <1>1, <3>1, <3>2, ConstantFacts DEF Inv, TypeOK
  <2>2. RetentionStart \in Days /\ op[h].from >= RetentionStart
    BY <1>1, KeptFromExists
       DEF Inv, TypeOK, RangesWereClamped, RetentionStart, KeptFrom, Today
  <2>3. PanelDay(t) \in Int
    BY LedgerAssumption DEF PanelDay, Instants, LedgerAssumption
  <2>4. ~(PanelDay(t) < RetentionStart)
    BY <2>1, <2>2, <2>3, ConstantFacts
  <2> QED
    BY <1>1, <2>1, <2>2, <2>4, BeforeMidnight DEF Inv, PrunedAreOld
<1> QED
  BY <1>1, InvHolds, PTL

=============================================================================
