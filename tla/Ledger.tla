-------------------------------- MODULE Ledger ---------------------------------
(***************************************************************************)
(* The two ledgers of traffic and the calendar: the counters of a user's   *)
(* row, which the limit is compared with and which start again every month *)
(* or when an operator says so, and the samples of traffic_logs, kept for  *)
(* a few calendar months and reported by day.                              *)
(*                                                                         *)
(* The monthly reset is lazy: it happens when the user's subscription is   *)
(* fetched.  Reports of traffic, subscriptions, resets by an operator      *)
(* (which are rolled back when the nodes cannot be pushed), usage queries  *)
(* and the retention loop run side by side, each statement a step of its   *)
(* own, while the clock goes on.                                           *)
(*                                                                         *)
(* Counters are reset in UTC; samples are stored in UTC and reported and   *)
(* pruned in panel time, a fixed offset east or west of UTC (the default   *)
(* Asia/Shanghai has no daylight saving time).                             *)
(***************************************************************************)
EXTENDS Integers

CONSTANTS
  Users,
  ResetDay,         \* ResetDay[u]: traffic_reset_day, 0 for none
  Limit,            \* Limit[u]: traffic_limit_bytes, 0 for none
  Handlers,         \* requests served at the same time
  MaxDay,           \* bound: the last day of the run
  StartDay,         \* the day the run starts
  Ticks,            \* ticks of the clock in a day
  Zone,             \* ticks that panel time is ahead of UTC (behind, if negative)
  LastMonth,        \* bound: months are numbered from 0 to it
  MonthOf,          \* MonthOf[d]: the month day d belongs to
  FirstDay,         \* FirstDay[m]: the first day of month m
  LastResetDay,     \* no month is shorter (28)
  RetentionMonths,  \* calendar months that samples are kept for (3)
  MaxBytes,         \* bound: bytes charged to a user in a run
  None              \* no user

Days   == 1..MaxDay
Months == 0..LastMonth
Dates  == 0..MaxDay
Never  == 0               \* traffic_last_reset of a user never reset

ASSUME LedgerAssumption ==
  /\ ResetDay \in [Users -> Nat] /\ Limit \in [Users -> Nat]
  /\ MaxDay \in Nat /\ StartDay \in 2..(MaxDay - 1)
  /\ Ticks \in Nat \ {0} /\ Zone \in (1 - Ticks)..(Ticks - 1)
  /\ MaxBytes \in Nat /\ None \notin Users

(***************************************************************************)
(* Months follow each other, and are at least LastResetDay days long.  The *)
(* run starts late enough for the months it looks back at to exist, were   *)
(* it still the day before in panel time.                                  *)
(***************************************************************************)
ASSUME CalendarAssumption ==
  /\ LastMonth \in Nat
  /\ MonthOf \in [Days -> Months] /\ FirstDay \in [Months -> Days]
  /\ \A d, e \in Days : d <= e => MonthOf[d] <= MonthOf[e]
  /\ \A d \in Days, m \in Months : m <= MonthOf[d] <=> FirstDay[m] <= d
  /\ LastResetDay \in Nat \ {0}
  /\ \A m \in Months : m + 1 \in Months =>
       FirstDay[m] + LastResetDay <= FirstDay[m + 1]
  /\ RetentionMonths \in Nat \ {0}
  /\ MonthOf[StartDay - 1] >= 1 /\ MonthOf[StartDay - 1] >= RetentionMonths - 1

VARIABLES
  clock,     \* [day, tick]: the time, in UTC
  row,       \* row[u]: traffic_used_bytes and traffic_last_reset
  samples,   \* samples[u][t]: bytes of the rows of traffic_logs recorded at t
  op,        \* op[h]: the request handler h serves
  charged,   \* history: charged[u][d], bytes added to the row since day d
  recorded   \* history: recorded[u][t], samples that were stored at t

vars == <<clock, row, samples, op, charged, recorded>>

Instants == [day : Days, tick : 0..(Ticks - 1)]
Times    == [day : StartDay..(MaxDay - 1), tick : 0..(Ticks - 1)]
Rows     == [used : Nat, last : Dates]

NoRow == [used |-> 0, last |-> Never]

Idle == [kind |-> "none", pc |-> "idle", user |-> None, row |-> NoRow,
         from |-> 0, to |-> 0, month |-> 0]

Op == [kind : {"none", "report", "subscription", "reset", "usage"},
       pc : {"idle", "record", "check", "reset", "sync", "query"},
       user : Users \cup {None}, row : Rows,
       from : Dates, to : Dates, month : Months]

\* Type invariant: no counter is negative, no row was reset in the future.
TypeOK ==
  /\ clock \in Times
  /\ row \in [Users -> Rows]
  /\ samples \in [Users -> [Instants -> Nat]]
  /\ op \in [Handlers -> Op]
  /\ \A h \in Handlers : op[h] # Idle => op[h].user \in Users
  /\ charged \in [Users -> [Dates -> Nat]]
  /\ recorded \in [Users -> [Instants -> Nat]]
  /\ \A u \in Users : row[u].last <= clock.day

-----------------------------------------------------------------------------
(***************************************************************************)
(* The calendar.                                                           *)
(***************************************************************************)
Before(s, t) == s.day < t.day \/ (s.day = t.day /\ s.tick < t.tick)

\* The day of an instant in panel time, and the instant a day begins in it.
PanelDay(t) == IF t.tick + Zone >= Ticks THEN t.day + 1
               ELSE IF t.tick + Zone < 0 THEN t.day - 1 ELSE t.day

Midnight(d) == IF Zone > 0 THEN [day |-> d - 1, tick |-> Ticks - Zone]
                           ELSE [day |-> d, tick |-> -Zone]

Today == PanelDay(clock)

\* The first day kept on day d: the first of the month RetentionMonths - 1 back.
KeptFrom(d) == FirstDay[MonthOf[d] - (RetentionMonths - 1)]

RetentionStart == KeptFrom(Today)

HasResetDay(u) == ResetDay[u] > 0 /\ ResetDay[u] <= LastResetDay

ResetDate(u, m) == FirstDay[m] + ResetDay[u] - 1

\* Faulty variant: the reset date of this month, were it still to come.
ThisMonthsReset(u) == ResetDate(u, MonthOf[clock.day])

\* The last reset date that has come.
ExpectedReset(u) ==
  LET m == MonthOf[clock.day] IN
  IF clock.day < ResetDate(u, m) THEN ResetDate(u, m - 1) ELSE ResetDate(u, m)

-----------------------------------------------------------------------------
(***************************************************************************)
(* Reports of traffic: the poller's, and the node agents' of               *)
(* HandleTrafficReport.  A report is of one byte.                          *)
(***************************************************************************)
Begin(h, kind, pc, u) ==
  /\ op[h] = Idle
  /\ op' = [op EXCEPT ![h].kind = kind, ![h].pc = pc, ![h].user = u]

Ends(h) == op' = [op EXCEPT ![h] = Idle]

AddTraffic(h, u) ==
  /\ charged[u][Never] < MaxBytes
  /\ Begin(h, "report", "record", u)
  /\ row' = [row EXCEPT ![u].used = @ + 1]
  /\ charged' = [charged EXCEPT ![u] =
       [d \in Dates |-> IF d <= clock.day THEN @[d] + 1 ELSE @[d]]]
  /\ UNCHANGED <<clock, samples, recorded>>

Record(h) ==
  LET u == op[h].user IN
  /\ op[h].pc = "record"
  /\ samples' = [samples EXCEPT ![u][clock] = @ + 1]
  /\ recorded' = [recorded EXCEPT ![u][clock] = @ + 1]
  /\ Ends(h)
  /\ UNCHANGED <<clock, row, charged>>

-----------------------------------------------------------------------------
(***************************************************************************)
(* A subscription: the row is read, then CheckTrafficReset and IsActive    *)
(* judge that row, however old.  A user that is disabled or has expired is *)
(* refused before the counters matter.                                     *)
(***************************************************************************)
GetBySubToken(h, u) ==
  /\ op[h] = Idle
  /\ op' = [op EXCEPT ![h] = [Idle EXCEPT !.kind = "subscription", !.pc = "check",
                                          !.user = u, !.row = row[u]]]
  /\ UNCHANGED <<clock, row, samples, charged, recorded>>

\* Faulty variant: only a row that was reset before is reset.
NeedsAnotherReset(h) ==
  LET u == op[h].user IN
  HasResetDay(u) /\ op[h].row.last < ExpectedReset(u) /\ op[h].row.last # Never

NeedsReset(h) ==
  LET u == op[h].user IN HasResetDay(u) /\ op[h].row.last < ExpectedReset(u)

CheckTrafficReset(h) ==
  LET u == op[h].user IN
  /\ op[h].pc = "check"
  /\ row' = IF NeedsReset(h)
              THEN [row EXCEPT ![u] = [used |-> 0, last |-> ExpectedReset(u)]]
              ELSE row
  /\ Ends(h)
  /\ UNCHANGED <<clock, samples, charged, recorded>>

IsActive(h) ==
  LET u == op[h].user IN
  Limit[u] = 0 \/ (IF NeedsReset(h) THEN 0 ELSE op[h].row.used) < Limit[u]

-----------------------------------------------------------------------------
(***************************************************************************)
(* resetTraffic: an operator clears the counters; when the nodes cannot be *)
(* pushed, the row read at the beginning is written back, whatever has     *)
(* been added since.                                                       *)
(***************************************************************************)
ReadBefore(h, u) ==
  /\ op[h] = Idle
  /\ op' = [op EXCEPT ![h] = [Idle EXCEPT !.kind = "reset", !.pc = "reset",
                                          !.user = u, !.row = row[u]]]
  /\ UNCHANGED <<clock, row, samples, charged, recorded>>

ResetTraffic(h) ==
  /\ op[h].pc = "reset"
  /\ row' = [row EXCEPT ![op[h].user].used = 0]
  /\ op' = [op EXCEPT ![h].pc = "sync"]
  /\ UNCHANGED <<clock, samples, charged, recorded>>

\* A read fails, or the nodes have been pushed, or the rollback fails too.
ResetEnds(h) ==
  /\ op[h].pc \in {"reset", "sync"}
  /\ Ends(h)
  /\ UNCHANGED <<clock, row, samples, charged, recorded>>

\* Faulty variant: the date of the last reset stays.
RestoreCounters(h) ==
  /\ op[h].pc = "sync"
  /\ row' = [row EXCEPT ![op[h].user].used = op[h].row.used]
  /\ Ends(h)
  /\ UNCHANGED <<clock, samples, charged, recorded>>

RestoreTraffic(h) ==
  /\ op[h].pc = "sync"
  /\ row' = [row EXCEPT ![op[h].user] = op[h].row]
  /\ Ends(h)
  /\ UNCHANGED <<clock, samples, charged, recorded>>

-----------------------------------------------------------------------------
(***************************************************************************)
(* Usage queries and retention.                                            *)
(***************************************************************************)
Smaller(a, b) == IF a < b THEN a ELSE b
Larger(a, b)  == IF a < b THEN b ELSE a

\* parseUsageQuery: the range asked for is clamped to what is kept, or refused.
ParseUsageQuery(h, u, from, to) ==
  LET last  == Smaller(to, Today)
      first == Larger(from, RetentionStart)
  IN
  /\ op[h] = Idle
  /\ last >= RetentionStart /\ first <= last
  /\ op' = [op EXCEPT ![h] = [Idle EXCEPT !.kind = "usage", !.pc = "query",
               !.user = u, !.from = first, !.to = last, !.month = MonthOf[Today]]]
  /\ UNCHANGED <<clock, row, samples, charged, recorded>>

\* The samples that a range of days selects from a table.
Select(table, u, from, to) ==
  [t \in {t \in Instants : PanelDay(t) \in from..to} |-> table[u][t]]

Usage(h) ==
  /\ op[h].pc = "query"
  /\ Ends(h)
  /\ UNCHANGED <<clock, row, samples, charged, recorded>>

\* Faulty variant: the cutoff day is taken to begin at midnight UTC.
PruneInUTC ==
  /\ samples' = [u \in Users |-> [t \in Instants |->
       IF t.day < RetentionStart THEN 0 ELSE samples[u][t]]]
  /\ UNCHANGED <<clock, row, op, charged, recorded>>

Prune ==
  /\ samples' = [u \in Users |-> [t \in Instants |->
       IF Before(t, Midnight(RetentionStart)) THEN 0 ELSE samples[u][t]]]
  /\ UNCHANGED <<clock, row, op, charged, recorded>>

Tick ==
  /\ IF clock.tick + 1 < Ticks
       THEN clock' = [clock EXCEPT !.tick = @ + 1]
       ELSE /\ clock.day < MaxDay - 1
            /\ clock' = [day |-> clock.day + 1, tick |-> 0]
  /\ UNCHANGED <<row, samples, op, charged, recorded>>

-----------------------------------------------------------------------------
LedgerInit ==
  /\ clock = [day |-> StartDay, tick |-> 0]
  /\ row = [u \in Users |-> NoRow]
  /\ samples = [u \in Users |-> [t \in Instants |-> 0]]
  /\ op = [h \in Handlers |-> Idle]
  /\ charged = [u \in Users |-> [d \in Dates |-> 0]]
  /\ recorded = [u \in Users |-> [t \in Instants |-> 0]]

LedgerNext ==
  \/ Tick \/ Prune
  \/ \E h \in Handlers :
       \/ \E u \in Users :
            \/ AddTraffic(h, u) \/ GetBySubToken(h, u) \/ ReadBefore(h, u)
            \/ \E from, to \in Days : ParseUsageQuery(h, u, from, to)
       \/ Record(h) \/ CheckTrafficReset(h) \/ Usage(h)
       \/ ResetTraffic(h) \/ ResetEnds(h) \/ RestoreTraffic(h)

LedgerSpec == LedgerInit /\ [][LedgerNext]_vars

-----------------------------------------------------------------------------
(***************************************************************************)
(* Properties.                                                             *)
(***************************************************************************)

\* No user is ever charged for more than was added to the row since the date
\* its counters say they were last reset: whatever rollbacks put back, and
\* whenever the lazy reset comes between, an old month is not charged to a new
\* one.  (Less may be charged: a rollback writes over what a poll has added.)
NeverOvercharged ==
  \A u \in Users : row[u].used <= charged[u][row[u].last]

\* A subscription is refused for traffic only when the user really has used up
\* the limit since the last reset date that has come.
RefusedOnlyOverLimit ==
  [][\A h \in Handlers :
       CheckTrafficReset(h) /\ ~IsActive(h) =>
         LET u == op[h].user IN
         charged[u][IF HasResetDay(u) THEN ExpectedReset(u) ELSE Never]
           >= Limit[u]]_vars

\* A usage answer misses nothing that was recorded in the days it covers, first
\* and last day included, as long as it is read in the month it was asked in:
\* the range is clamped to the same boundary, in the same time zone, that the
\* retention loop prunes to.
UsageIsComplete ==
  \A h \in Handlers :
    op[h].pc = "query" /\ op[h].month = MonthOf[Today] =>
      Select(samples, op[h].user, op[h].from, op[h].to)
        = Select(recorded, op[h].user, op[h].from, op[h].to)

=============================================================================
