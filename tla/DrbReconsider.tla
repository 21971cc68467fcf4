---------------------------- MODULE DrbReconsider ----------------------------
(***************************************************************************)
(* The strategy decision of reconsiderStrategy (drillbeyond_operator.c),  *)
(* made after phase 1 of a DrillBeyond operator under a big-omega plan.    *)
(* Selectivities are hundredths (an integer p stands for p/100), so the   *)
(* comparison of doubles in the code is exact rational arithmetic here;   *)
(* the costs are positive integers.  The inputs are fixed in the initial   *)
(* state and never change.                                                 *)
(***************************************************************************)
EXTENDS Integers, FiniteSets

CONSTANTS
    Costs,      \* sum_costs of the partial plan above the operator
    EstSels,    \* expansion->selectivity estimated by the planner (hundredths)
    SelVals,    \* per-candidate selectivities the resolver may report
    CandNums,   \* db_num_cands
    MaxCands,   \* drb_max_num_cands
    Models      \* drb_cost_model values

OnlyS == 1
NoModel == 2
OnlyK == 3
Both == 4

VARIABLES cost, estSel, sels, selective, model

rvars == <<cost, estSel, sels, selective, model>>

RTypeOK ==
    /\ cost \in Costs
    /\ estSel \in EstSels
    /\ \E n \in CandNums : sels \in [1..n -> SelVals]
    /\ selective \in BOOLEAN
    /\ model \in Models

RInit ==
    /\ cost \in Costs
    /\ estSel \in EstSels
    /\ sels \in UNION {[1..n -> SelVals] : n \in CandNums}
    /\ selective \in BOOLEAN
    /\ model \in Models

\* The inputs of one decision stay as they are.
RNext == UNCHANGED rvars

RSpec == RInit /\ [][RNext]_rvars

\* The sum of the selectivities of the db_num_cands candidates (hundredths).
NumCands == Cardinality(DOMAIN sels)
SelSum[i \in 0..NumCands] == IF i = 0 THEN 0 ELSE SelSum[i - 1] + sels[i]
TotalSel == SelSum[NumCands]

\* The normalised cost of one big-omega execution, as numerator and
\* denominator: divided by the estimated selectivity (cost models ONLY_S and
\* BOTH, for a selective expansion) and by drb_max_num_cands (ONLY_K, BOTH).
DivS == selective /\ model \in {OnlyS, Both}
DivK == model \in {OnlyK, Both}
CostNum == cost * (IF DivS THEN 100 ELSE 1)
CostDen == (IF DivS THEN estSel ELSE 1) * (IF DivK THEN MaxCands ELSE 1)

\* shouldSwitch of reconsiderStrategy: score = sum_i cost * sel_i against
\* big_omega_cost * 0.8, both over the common denominator CostDen * 100.
CodeShouldSwitch == CostNum * TotalSel * 10 < CostNum * 8 * 100

\* Spec 4.5: lazyCost = subplanCost * average observed selectivity against
\* combinatorialCost = subplanCost / estimated selectivity, with margin 0.8.
SpecShouldSwitch ==
    cost * TotalSel * estSel < 8000 * cost * NumCands

\* reconsiderStrategy switches an attribute to DRB_DEFAULT exactly when the
\* cost comparison of spec 4.5 says the lazy strategy is cheaper.
SwitchAgreesWithSpec == CodeShouldSwitch = SpecShouldSwitch
=============================================================================
