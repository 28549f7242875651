----------------------------- MODULE ProfitTruth -----------------------------
(***************************************************************************)
(* What control/services/profit_brain.py reports as earned: growth targets *)
(* (settled_profit_truth for the day and the week) and the performance     *)
(* aggregate of a market.  A report is several queries; between any two of *)
(* them payouts settle or are reversed, GenX calls end, and the usage and  *)
(* the price of ended calls become known.                                  *)
(***************************************************************************)
EXTENDS Integers, FiniteSets, Functions

CONSTANTS
    ProfitJobs,    \* jobs with a payout
    CostedCalls,   \* GenX calls
    ServedJob,     \* [CostedCalls -> ProfitJobs]
    Net,           \* what a payout is worth; a charge is 0 or 1
    Targets,       \* [Windows -> Nat] TARGET_DAILY_, TARGET_WEEKLY_SETTLED_PROFIT
    MaxDay         \* bound: days of the week

Windows == {"DAY", "WEEK"}

ASSUME ProfitAssumption ==
    /\ ServedJob \in [CostedCalls -> ProfitJobs] /\ IsFiniteSet(ProfitJobs) /\ IsFiniteSet(CostedCalls)
    /\ Net \in Nat /\ Targets \in [Windows -> Nat] /\ MaxDay \in Nat

VARIABLES
    payouts,  \* Payout rows: state and day of settlement
    costs,    \* GenXCall rows, with what the remote job really charged
    today,
    report    \* the one report in progress, and its outcome
profitVars == <<payouts, costs, today, report>>

CallRow == [status : {"NONE", "SUBMITTED", "COMPLETED", "FAILED"}, charge : 0..1, cost : 0..1,
            truth : {"ESTIMATED", "UNRESOLVED", "ACTUAL", "ACTUAL_ZERO_CREDITS", "NOT_APPLICABLE"}]
NoCall == [status |-> "NONE", charge |-> 0, cost |-> 0, truth |-> "ESTIMATED"]
NoReport == [kind |-> "NONE", step |-> "done", window |-> "DAY", day |-> 1, made |-> {}, ended |-> {}, torn |-> FALSE,
             jobs |-> [w \in Windows |-> {}], spent |-> [w \in Windows |-> 0],
             covered |-> [w \in Windows |-> FALSE]]

ProfitInit ==
    /\ payouts = [j \in ProfitJobs |-> [state |-> "PENDING", day |-> 0]]
    /\ costs = [c \in CostedCalls |-> NoCall]
    /\ today = 1
    /\ report = NoReport

Terminal(c) == costs[c].status \in {"COMPLETED", "FAILED"}
Reporting == report.step # "done"

-----------------------------------------------------------------------------
(* The rest of the system.                                                 *)

DayEnds ==
    /\ today < MaxDay
    /\ today' = today + 1
    /\ UNCHANGED <<payouts, costs, report>>

(* settled_at is the day the market names, today at the latest.            *)
SettlePayout(j, day) ==
    /\ payouts[j].state = "PENDING" /\ day <= today
    /\ payouts' = [payouts EXCEPT ![j] = [state |-> "SETTLED", day |-> day]]
    /\ UNCHANGED <<costs, today, report>>

ReversePayout(j) ==
    /\ payouts[j].state = "SETTLED"
    /\ payouts' = [payouts EXCEPT ![j].state = "REVERSED"]
    /\ report' = [report EXCEPT !.torn = @ \/ (Reporting /\ report.kind = "GROWTH")]
    /\ UNCHANGED <<costs, today>>

MakeCall(c) ==
    /\ costs[c].status = "NONE"
    /\ costs' = [costs EXCEPT ![c].status = "SUBMITTED"]
    /\ UNCHANGED <<payouts, today, report>>

(* The money of a call whose usage came with the payload or did not; a     *)
(* price per credit was in force when it ended or was not.                 *)
Valued(row, usage, price) ==
    IF ~usage THEN [row EXCEPT !.truth = IF row.status = "FAILED" THEN "NOT_APPLICABLE" ELSE "UNRESOLVED"]
    ELSE IF price THEN [row EXCEPT !.truth = "ACTUAL", !.cost = row.charge]
    ELSE [row EXCEPT !.truth = IF row.charge = 0 THEN "ACTUAL_ZERO_CREDITS" ELSE "UNRESOLVED"]

(* A failed job that reports no usage was not charged.                     *)
CallEnds(c, status, charge, usage, price) ==
    /\ costs[c].status = "SUBMITTED"
    /\ status = "FAILED" /\ ~usage => charge = 0
    /\ costs' = [costs EXCEPT ![c] = Valued([@ EXCEPT !.status = status, !.charge = charge], usage, price)]
    /\ UNCHANGED <<payouts, today, report>>

(* Usage found later, from a poll, a webhook or the operator.              *)
UsageArrives(c, price) ==
    /\ Terminal(c) /\ costs[c].truth = "UNRESOLVED"
    /\ costs' = [costs EXCEPT ![c] = Valued(@, TRUE, price)]
    /\ report' = [report EXCEPT !.torn = @ \/ (Reporting /\ report.kind = "AGGREGATE")]
    /\ UNCHANGED <<payouts, today>>

-----------------------------------------------------------------------------
(* The queries of a report.                                                *)

Settled(window) ==
    {j \in ProfitJobs : payouts[j].state = "SETTLED" /\ (window = "DAY" => payouts[j].day >= report.day)}
CallsOf(jobs) == {c \in report.made : ServedJob[c] \in jobs}

(* _genx_monetary_cost_known at the time the report began; mutant: any     *)
(* call that has ended counts as known.                                    *)
EndedIsKnown(c) == c \in report.ended
CostKnown(c) ==
    /\ c \in report.ended
    /\ \/ costs[c].truth = "ACTUAL" \/ costs[c].cost > 0
       \/ costs[c].status = "FAILED" /\ costs[c].truth = "NOT_APPLICABLE"
Spent(jobs) ==
    SumFunctionOnSet([c \in CostedCalls |-> costs[c].cost],
                     {c \in CallsOf(jobs) \cap report.ended : costs[c].status = "COMPLETED"})

BeginReport(kind) ==
    /\ report = NoReport
    /\ report' = [NoReport EXCEPT !.kind = kind, !.step = "cash",
                                  !.window = IF kind = "GROWTH" THEN "DAY" ELSE "WEEK",
                                  !.day = today,
                                  !.made = {c \in CostedCalls : costs[c].status # "NONE"},
                                  !.ended = {c \in CostedCalls : Terminal(c)}]
    /\ UNCHANGED <<payouts, costs, today>>

(* An aggregate looks at the costs first, a growth report at the coverage. *)
ReadCash ==
    /\ report.step = "cash"
    /\ report' = [report EXCEPT !.jobs[report.window] = Settled(report.window),
                                !.step = IF report.kind = "GROWTH" THEN "coverage" ELSE "cost"]
    /\ UNCHANGED <<payouts, costs, today>>

(* Only the aggregate keeps the list of payouts it began with.             *)
JobsNow == IF report.kind = "GROWTH" THEN Settled(report.window) ELSE report.jobs[report.window]

ReadCoverage ==
    /\ report.step = "coverage"
    /\ report' = [report EXCEPT !.covered[report.window] = \A c \in CallsOf(JobsNow) : CostKnown(c),
                                !.step = IF report.kind = "GROWTH" THEN "cost" ELSE "done"]
    /\ UNCHANGED <<payouts, costs, today>>

ReadCost ==
    /\ report.step = "cost"
    /\ report' = [report EXCEPT !.spent[report.window] = Spent(JobsNow),
                                !.window = "WEEK",
                                !.step = IF report.kind = "AGGREGATE" THEN "coverage"
                                         ELSE IF report.window = "DAY" THEN "cash" ELSE "done"]
    /\ UNCHANGED <<payouts, costs, today>>

(* settled_profit of the aggregate, net_settled_profit of the two windows. *)
Profit(window) == Net * Cardinality(report.jobs[window]) - report.spent[window]
AggregateProfit ==
    IF report.covered["WEEK"] \/ Profit("WEEK") < 0 THEN Profit("WEEK") ELSE 0
OnTrack == \A w \in Windows : report.covered[w] /\ Profit(w) >= Targets[w]

ProfitStep ==
    \/ DayEnds \/ ReadCash \/ ReadCoverage \/ ReadCost
    \/ \E j \in ProfitJobs : ReversePayout(j) \/ \E day \in 1..MaxDay : SettlePayout(j, day)
    \/ \E c \in CostedCalls, price \in BOOLEAN :
          MakeCall(c) \/ UsageArrives(c, price)
          \/ \E status \in {"COMPLETED", "FAILED"}, charge \in 0..1, usage \in BOOLEAN :
                CallEnds(c, status, charge, usage, price)
    \/ \E kind \in {"GROWTH", "AGGREGATE"} : BeginReport(kind)

(* Bound: one report, and nothing after it.                                *)
ProfitNext == (report = NoReport \/ Reporting) /\ ProfitStep
ProfitSpec == ProfitInit /\ [][ProfitNext]_profitVars

-----------------------------------------------------------------------------
(* What a report calls earned was earned: the positive profit of an        *)
(* aggregate and the targets of an evaluation that is on track are covered *)
(* by the settled cash less what the completed calls of those jobs really  *)
(* charged before the report began (profit_brain.py:648 "Unknown AI cost   *)
(* can never produce positive reported settled profit").  Left out, as the *)
(* code misses them: what failed calls charged, and a report torn by a     *)
(* payout reversed, or a cost resolved, between its queries.               *)
Earned(window) ==
    Net * Cardinality(report.jobs[window])
    - SumFunctionOnSet([c \in CostedCalls |-> costs[c].charge],
          {c \in CallsOf(report.jobs[window]) \cap report.ended : costs[c].status = "COMPLETED"})
ProfitIsEarned ==
    report.step = "done" /\ ~report.torn =>
        /\ report.kind = "AGGREGATE" /\ AggregateProfit > 0 => AggregateProfit <= Earned("WEEK")
        /\ report.kind = "GROWTH" /\ OnTrack => \A w \in Windows : Earned(w) >= Targets[w]
=============================================================================
