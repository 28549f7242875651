------------------------------ MODULE Portfolio ------------------------------
(***************************************************************************)
(* control/services/revenue_portfolio.py: which of the ranked candidates   *)
(* get the free slots and minutes.  A ranking is a sequence of candidates, *)
(* best score first; what the database says of each job is its evidence.   *)
(***************************************************************************)
EXTENDS Integers, Sequences, FiniteSets, Functions

CONSTANTS
    Places,        \* 1..n: positions in the ranking
    SlotChoices,   \* free slots
    MinuteChoices  \* productive minutes

ASSUME RankingAssumption ==
    /\ IsFiniteSet(Places) /\ Places = 1..Cardinality(Places)
    /\ SlotChoices \subseteq Nat /\ MinuteChoices \subseteq Nat

VARIABLES
    evidence,  \* [Places -> Evidence] the jobs in the order of their score
    capacity,  \* [slots, minutes]
    decisions  \* PortfolioDecision rows: [Places -> [selected, shadow]]
portfolioVars == <<evidence, capacity, decisions>>

(* Bounds: one blocker of a kind stands for all, only a short job can have *)
(* lost its profit to risk, and what a preflight was not asked is left at  *)
(* its best.                                                               *)
Sizes == {[minutes |-> 1, worth |-> FALSE], [minutes |-> 1, worth |-> TRUE], [minutes |-> 2, worth |-> TRUE]}
Preflights == {"NONE", "SHADOW", "ALLOWED"}
Evidence ==
    [source : {"POSTED_OPPORTUNITY", "COMMERCIAL_API"}, preflight : Preflights, safe : BOOLEAN,
     active : BOOLEAN, marketing : BOOLEAN, size : Sizes]
Representative ==
    {e \in Evidence : /\ e.source = "COMMERCIAL_API" => e.preflight = "NONE"
                      /\ e.preflight = "NONE" \/ e.marketing => e.safe /\ e.active
                      /\ e.marketing => e.preflight # "NONE"}

NoDecision == [selected |-> FALSE, shadow |-> FALSE]
PortfolioInit ==
    /\ evidence \in [Places -> Representative]
    /\ capacity \in [slots : SlotChoices, minutes : MinuteChoices]
    /\ decisions = <<>>

(* _selection_truth.                                                       *)
SelectionTruth(e) ==
    IF e.preflight = "NONE"
    THEN [eligible |-> e.source = "COMMERCIAL_API", allowed |-> e.source = "COMMERCIAL_API"]
    ELSE [eligible |-> e.safe, allowed |-> e.preflight = "ALLOWED" /\ e.safe /\ e.active]

Candidate(e) ==
    LET truth == SelectionTruth(e) IN
    [eligible |-> truth.eligible /\ ~e.marketing, allowed |-> truth.allowed /\ ~e.marketing,
     minutes |-> e.size.minutes, worth |-> e.size.worth]

(* What is left of the slots and of the minutes after the row before.      *)
Fits(c, left) == c.eligible /\ left.slots > 0 /\ c.minutes <= left.minutes /\ c.worth
Use(left, c) == [slots |-> left.slots - 1, minutes |-> left.minutes - c.minutes]

(* Mutant: the rows that may not act use the capacity too.                 *)
OneCapacity(state, c) ==
    LET shadow == Fits(c, state.shadowLeft)
    IN  [rows |-> Append(state.rows, [selected |-> shadow /\ c.allowed, shadow |-> shadow]),
         left |-> state.left,
         shadowLeft |-> IF shadow THEN Use(state.shadowLeft, c) ELSE state.shadowLeft]

RankRow(state, c) ==
    LET shadow == Fits(c, state.shadowLeft)
        selected == Fits(c, state.left) /\ c.allowed
    IN  [rows |-> Append(state.rows, [selected |-> selected, shadow |-> shadow]),
         left |-> IF selected THEN Use(state.left, c) ELSE state.left,
         shadowLeft |-> IF shadow THEN Use(state.shadowLeft, c) ELSE state.shadowLeft]

(* The loop over the ranking: after k rows.                                *)
Ranked(candidates) ==
    LET after[k \in 0..Len(candidates)] ==
          IF k = 0 THEN [rows |-> <<>>, left |-> capacity, shadowLeft |-> capacity]
          ELSE RankRow(after[k - 1], candidates[k])
    IN  after

RankCandidates(candidates) == Ranked(candidates)[Len(candidates)].rows

PersistRanking ==
    /\ decisions = <<>>
    /\ decisions' = RankCandidates([i \in Places |-> Candidate(evidence[i])])
    /\ UNCHANGED <<evidence, capacity>>

PortfolioNext == PersistRanking
PortfolioSpec == PortfolioInit /\ [][PortfolioNext]_portfolioVars

-----------------------------------------------------------------------------
(* Rows chosen for capacity: the reference definition.  A set of rows is   *)
(* the greedy choice when a row that may be chosen is in it exactly if it  *)
(* fits beside the better rows of the set.                                 *)
GreedyChoice(S, may) ==
    LET minutes == [i \in Places |-> Candidate(evidence[i]).minutes] IN
    \A i \in Places :
        LET c == Candidate(evidence[i])
            better == {k \in S : k < i}
        IN  i \in S <=> /\ i \in may /\ c.eligible /\ c.worth
                        /\ Cardinality(better) < capacity.slots
                        /\ SumFunctionOnSet(minutes, better) + c.minutes <= capacity.minutes

(* The rows selected are the greedy choice among those that may act, and   *)
(* never deprived of capacity by rows that may not (revenue_portfolio.py   *)
(* keeps two counts); the rows that would be selected if acting were       *)
(* enabled are the greedy choice among the eligible ones.                  *)
SelectionIsGreedy ==
    decisions # <<>> =>
        /\ GreedyChoice({i \in Places : decisions[i].selected},
                        {i \in Places : Candidate(evidence[i]).allowed})
        /\ GreedyChoice({i \in Places : decisions[i].shadow}, Places)
=============================================================================
