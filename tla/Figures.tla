------------------------------ MODULE Figures ------------------------------
(***************************************************************************)
(* The figures of the dashboard, computed from the stays of Rooms:         *)
(* analytics.service.ts (metrics, charts and the analytics of a property)  *)
(* and the selection of reports.service.ts.  Day 0 is a Monday and the     *)
(* first of a month; a calendar of short weeks and months has the same     *)
(* corners as the long one.                                                *)
(***************************************************************************)
EXTENDS Rooms, Sequences

CONSTANTS
    WeekLength,
    MonthStart          \* the first days of the months, as a function of 1, 2, ...

ASSUME FiguresAssumption ==
    /\ WeekLength \in Nat \ {0}
    /\ MonthStart \in Seq(Nat)
    /\ \A m, n \in DOMAIN MonthStart : m < n => MonthStart[m] < MonthStart[n]
    /\ MonthStart[1] = 0 /\ \E m \in DOMAIN MonthStart : MonthStart[m] > MaxDay

Periods == {"DAILY", "WEEKLY", "MONTHLY"}

-----------------------------------------------------------------------------
MonthOf(d) == CHOOSE m \in DOMAIN MonthStart :
    MonthStart[m] <= d /\ (m + 1 \in DOMAIN MonthStart => d < MonthStart[m + 1])

\* getBucketKey: the day, its Monday, or the first of its month.
BucketKey(d, period) ==
    CASE period = "DAILY" -> d
      [] period = "WEEKLY" -> d - (d % WeekLength)
      [] period = "MONTHLY" -> MonthStart[MonthOf(d)]

\* setDate and setMonth: the same day of the next month, or as many days beyond it
\* as the month is too short.
Advance(d, period) ==
    CASE period = "DAILY" -> d + 1
      [] period = "WEEKLY" -> d + WeekLength
      [] period = "MONTHLY" -> MonthStart[MonthOf(d) + 1] + d - MonthStart[MonthOf(d)]

\* Variant: the loop stops before the last day.
LoopBefore(d, end) == d < end

LoopOn(d, end) == d <= end

\* generateBuckets: the days the loop visits, and their keys.
Visited(start, end, period) ==
    LET visit[d \in Nat] == IF LoopOn(d, end) THEN {d} \cup visit[Advance(d, period)] ELSE {}
    IN  visit[start]

Buckets(start, end, period) == {BucketKey(d, period) : d \in Visited(start, end, period)}

-----------------------------------------------------------------------------
Earning == {"CONFIRMED", "CHECKED_IN", "COMPLETED"}

\* getDashboardMetrics, getRevenueChart: the stays that begin in the window.
Earned(start, end) == {s \in stays : s.st \in Earning /\ s.from \in start .. end}

\* getPropertyAnalytics and the reports: the stays that lie in it.
Reported(start, end) == {s \in stays : s.st \in Earning /\ s.from >= start /\ s.to <= end}

\* What the bar of a bucket stands for.
Bar(key, start, end, period) == {s \in Earned(start, end) : BucketKey(s.from, period) = key}

Charted(start, end, period) ==
    UNION {Bar(key, start, end, period) : key \in Buckets(start, end, period)}

-----------------------------------------------------------------------------
\* A day of the month that a later month of the window does not have.
Overflows(start, end) ==
    \E m \in DOMAIN MonthStart :
        /\ MonthStart[m] > start /\ MonthStart[m] <= end /\ m + 1 \in DOMAIN MonthStart
        /\ start - MonthStart[MonthOf(start)] >= MonthStart[m + 1] - MonthStart[m]

\* The revenue chart adds up to the revenue beside it: each stay that begins in the
\* window is in one bar and no other is, day by day always; by weeks and months
\* the only stays left out are those of the last bar, when the window ends earlier
\* in its week or month than it begins, and those of months that are shorter than
\* the day the window begins on.  A report of the window has no stay the chart's
\* figure has not, but for those that end before they begin, which create accepts.
ChartAddsUp ==
    \A w \in Pairs, period \in Periods :
        LET missing == Earned(w[1], w[2]) \ Charted(w[1], w[2], period)
            early == w[2] - BucketKey(w[2], period) < w[1] - BucketKey(w[1], period)
        IN  /\ \A s \in Reported(w[1], w[2]) \ Earned(w[1], w[2]) : s.to < s.from
            /\ missing # {} => period # "DAILY"
            /\ (missing # {} /\ (period = "WEEKLY" \/ ~Overflows(w[1], w[2]))) =>
                  /\ early
                  /\ \A s \in missing : BucketKey(s.from, period) = BucketKey(w[2], period)
=============================================================================
