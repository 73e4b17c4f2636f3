------------------------------ MODULE EvmMetrics -----------------------------
(***************************************************************************)
(* What the project dashboard computes of one project's stored history:    *)
(* the earned-value figures of a day, their series over the captured days, *)
(* and the executive signals derived from both.  Module PerformanceHistory *)
(* is about how the history gets stored; here days pass, a baseline is     *)
(* authored and at most one snapshot a day is captured, and the metrics    *)
(* are functions of that.                                                  *)
(*                                                                         *)
(* Amounts are ratios of integers.  The code's Decimal rounds a division   *)
(* to 28 digits, which only matters where a result is compared with a      *)
(* threshold it may equal (ForecastSignals).                               *)
(***************************************************************************)
EXTENDS Integers

CONSTANTS
    LastDay,      \* bound: the calendar is 0..LastDay
    PeriodDays,   \* dates a baseline can have a point for
    PlannedValues, Budgets, Costs,
    Whole,        \* progress_percentage of finished work: 100
    Progress      \* progress_percentage

ASSUME LastDayAssumption == LastDay \in Nat
ASSUME PeriodDaysAssumption == PeriodDays \subseteq 0..LastDay
ASSUME AmountsAssumption == PlannedValues \cup Budgets \cup Costs \subseteq Nat
ASSUME WholeAssumption == Whole \in Nat \ {0}
ASSUME ProgressAssumption == Progress \subseteq 0..Whole

VARIABLES
    today,
    baseline,  \* points of the active baseline: period -> planned value
    budget,    \* bac_reference of its points
    captured   \* snapshots: day -> <<actual cost, progress>>

metricsVars == <<today, baseline, budget, captured>>

Figures == Costs \X Progress

\* The baseline and the snapshots are functions on the dates they have.
MetricsTypeOK ==
    /\ today \in 0..LastDay
    /\ DOMAIN baseline \subseteq PeriodDays
    /\ \A d \in DOMAIN baseline : baseline[d] \in PlannedValues
    /\ budget \in Budgets
    /\ DOMAIN captured \subseteq 0..today
    /\ \A d \in DOMAIN captured : captured[d] \in Figures

MetricsInit ==
    /\ today = 0
    /\ baseline = <<>>
    /\ budget \in Budgets
    /\ captured = <<>>

PassDay ==
    /\ today < LastDay
    /\ today' = today + 1
    /\ UNCHANGED <<baseline, budget, captured>>

\* A new version of the baseline, at any time, over any dates.
AuthorBaseline ==
    /\ \E dates \in (SUBSET PeriodDays) \ {{}} : baseline' \in [dates -> PlannedValues]
    /\ budget' \in Budgets
    /\ UNCHANGED <<today, captured>>

\* The snapshot of a day is never written again.
CaptureFigures ==
    /\ today \notin DOMAIN captured
    /\ \E f \in Figures :
         captured' = [d \in DOMAIN captured \cup {today} |-> IF d = today THEN f ELSE captured[d]]
    /\ UNCHANGED <<today, baseline, budget>>

MetricsNext == PassDay \/ AuthorBaseline \/ CaptureFigures

MetricsSpec == MetricsInit /\ [][MetricsNext]_metricsVars

-----------------------------------------------------------------------------
(* MetricValue: a value, or the reason why there is none. *)

Present(num, den) == [num |-> num, den |-> den, why |-> "present"]
NA(reason) == [num |-> 0, den |-> 1, why |-> reason]
Is(m) == m.why = "present"

\* The first of two metrics that is absent gives the reason.
Missing(a, b) == IF Is(a) THEN b.why ELSE a.why

Ratio(a, b, zeroReason) ==
    CASE ~ Is(a) \/ ~ Is(b) -> NA(Missing(a, b))
      [] Is(a) /\ Is(b) /\ b.num = 0 -> NA(zeroReason)
      [] OTHER -> Present(a.num * b.den, a.den * b.num)

Difference(a, b) ==
    IF Is(a) /\ Is(b) THEN Present(a.num * b.den - b.num * a.den, a.den * b.den)
    ELSE NA(Missing(a, b))

Latest(days) == CHOOSE d \in days : \A e \in days : e <= d

\* _planned_value_at: a step function between the first date and the last.
PlannedValueAt(day) ==
    LET dates == DOMAIN baseline
        begun == {d \in dates : d <= day}
    IN  CASE dates = {} -> NA("no baseline")
          [] dates # {} /\ begun = {} -> NA("before baseline")
          [] begun # {} /\ day > Latest(dates) -> NA("after baseline")
          [] OTHER -> Present(baseline[Latest(begun)], 1)

\* _latest_snapshot_at, of the days there is one.
SnapshotDays(day) == {d \in DOMAIN captured : d <= day}

ForecastAtBudgetedRate(ac, bac, ev, cpi) ==   \* variant of EstimateAtCompletion: work left at its planned cost
    IF Is(cpi) /\ cpi.num # 0
    THEN Present(ac.num * ev.den + bac.num * ev.den - ev.num, ev.den)
    ELSE NA("zero cpi")

\* ac + (bac - ev) / cpi
EstimateAtCompletion(ac, bac, ev, cpi) ==
    LET left == Difference(bac, ev)
    IN  CASE ~ Is(ac) -> NA(ac.why)
          [] Is(ac) /\ ~ Is(left) -> NA(left.why)
          [] Is(ac) /\ Is(left) /\ ~ Is(cpi) -> NA(cpi.why)
          [] Is(cpi) /\ cpi.num = 0 -> NA("zero cpi")
          [] OTHER -> Present(ac.num * left.den * cpi.num + left.num * cpi.den * ac.den,
                              ac.den * left.den * cpi.num)

\* compute_evm_summary.
Summary(day) ==
    LET bac == IF DOMAIN baseline = {} THEN NA("no baseline") ELSE Present(budget, 1)
        pv == PlannedValueAt(day)
        days == SnapshotDays(day)
        ac == IF days = {} THEN NA("no snapshot") ELSE Present(captured[Latest(days)][1], 1)
        ev == CASE ~ Is(bac) -> bac
                [] Is(bac) /\ days = {} -> NA("no snapshot")
                [] OTHER -> Present(budget * captured[Latest(days)][2], Whole)
        cpi == Ratio(ev, ac, "zero cost")
        eac == EstimateAtCompletion(ac, bac, ev, cpi)
    IN  [bac |-> bac, pv |-> pv, ev |-> ev, ac |-> ac, cpi |-> cpi,
         spi |-> Ratio(ev, pv, "zero planned value"),
         cv |-> Difference(ev, ac), sv |-> Difference(ev, pv),
         eac |-> eac, etc |-> Difference(eac, ac), vac |-> Difference(bac, eac)]

-----------------------------------------------------------------------------
(* The signals. *)

Less(a, b) == a.num * b.den < b.num * a.den

\* build_history_series and _ratio_series: the captured days at which the
\* earned value can be divided by the other figure.
RatioOn(day, other) ==
    LET s == Summary(day)
    IN  Ratio(s.ev, IF other = "ac" THEN s.ac ELSE s.pv, "zero")

RatioDays(other) == {d \in DOMAIN captured : Is(RatioOn(d, other))}

\* _trend_signal over the two latest of them.
TrendSignal(other) ==
    LET days == RatioDays(other)
        earlier == days \ {Latest(days)}
        now == RatioOn(Latest(days), other)
        before == RatioOn(Latest(earlier), other)
    IN  CASE days = {} -> "none"
          [] days # {} /\ earlier = {} -> "none"
          [] days # {} /\ earlier # {} /\ Less(before, now) -> "recovery"
          [] days # {} /\ earlier # {} /\ Less(now, before) ->
               IF now.num < now.den THEN "critical" ELSE "warning"
          [] OTHER -> "none"

\* derive_forecast_deviation_signal: |vac| / bac against a tenth and a quarter.
\* At a threshold itself the last digit of the rounded quotients decides.
ForecastSignals(s) ==
    LET size == IF s.vac.num < 0 THEN - s.vac.num ELSE s.vac.num
        above(n, d) == size * s.bac.den * d > n * s.bac.num * s.vac.den
        at(n, d) == size * s.bac.den * d = n * s.bac.num * s.vac.den
    IN  CASE ~ Is(s.vac) \/ s.bac.num = 0 -> {"none"}
          [] OTHER -> (IF above(1, 4) \/ at(1, 4) THEN {"critical"} ELSE {})
                      \cup (IF (above(1, 10) /\ ~ above(1, 4)) \/ at(1, 10) THEN {"warning"} ELSE {})
                      \cup (IF ~ above(1, 10) THEN {"none"} ELSE {})

-----------------------------------------------------------------------------
(* Properties. *)

\* The figures reported for any day and the signals derived from them say the
\* same of the stored history, worked out another way: the estimate at
\* completion is there exactly when something is earned and spent, and it is
\* the budget times cost over earned value; so a deviation of the forecast is
\* reported exactly when cost and earned value are more than a tenth of the
\* earned value apart, and the cost trend is down exactly when the latest two
\* days with a cost show less progress for it.
SignalsFollowTheFigures ==
    \A day \in 0..today :
        LET s == Summary(day)
            days == SnapshotDays(day)
            cost == captured[Latest(days)][1]
            earned == budget * captured[Latest(days)][2]   \* times Whole
            gap == IF earned > Whole * cost THEN earned - Whole * cost ELSE Whole * cost - earned
        IN  /\ Is(s.eac) <=> DOMAIN baseline # {} /\ days # {} /\ cost > 0 /\ earned > 0
            /\ Is(s.eac) =>
                 /\ s.eac.num * earned = Whole * budget * cost * s.eac.den
                 /\ 10 * gap > earned => "none" \notin ForecastSignals(s)
                 /\ 10 * gap < earned => ForecastSignals(s) = {"none"}
                 /\ 4 * gap > earned => ForecastSignals(s) = {"critical"}
            /\ TrendSignal("ac") \in {"critical", "warning"} <=>
                 LET spent == {d \in DOMAIN captured : captured[d][1] > 0}
                     last == captured[Latest(spent)]
                     before == captured[Latest(spent \ {Latest(spent)})]
                 IN  /\ DOMAIN baseline # {} /\ budget > 0
                     /\ spent # {} /\ spent # {Latest(spent)}
                     /\ last[2] * before[1] < before[2] * last[1]

=============================================================================
