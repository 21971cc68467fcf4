---------------------------- MODULE DrbTopProofs ----------------------------
(***************************************************************************)
(* Proofs about the combination driver drb_top (module DrbTop), for every *)
(* number of operators and every drb_max_num_cands.                        *)
(***************************************************************************)
EXTENDS DrbTop, TLAPS

\* One step of the odometer keeps every digit a candidate index.
LEMMA OdometerStepType ==
    ASSUME NEW d \in Combos
    PROVE  OdometerStep(d) \in Combos
BY MaxCandsAssumption DEF OdometerStep, Combos, Digits, Exps

\* With at least two candidates, the operators drb_top collects in resetOps
\* (and so marks for a targeted rescan) are exactly those whose digit the
\* odometer step changes: no changed operator is left to replay a stale
\* tuplestore, and no unchanged one is refetched.
LEMMA ResetOpsAreChanged ==
    ASSUME MaxCands >= 2, NEW d \in Combos
    PROVE  ResetOps(d) = {e \in Exps : OdometerStep(d)[e] # d[e]}
<1>1. ASSUME NEW e \in Exps, Visited(d, e) PROVE OdometerStep(d)[e] # d[e]
    BY <1>1, MaxCandsAssumption DEF OdometerStep, Combos, Digits, Exps
<1>2. ASSUME NEW e \in Exps, ~Visited(d, e) PROVE OdometerStep(d)[e] = d[e]
    BY <1>2 DEF OdometerStep
<1>3. QED
    BY <1>1, <1>2 DEF ResetOps

\* pow(drb_max_num_cands, #operators) fits into the int total_permutations.
FitsInt == Budget <= IntMax

\* Above zero, the wrapping decrement of total_permutations is subtraction.
LEMMA DecNoWrap ==
    ASSUME NEW x \in Nat, x >= 1
    PROVE  Dec(x) = x - 1
BY IntMaxAssumption DEF Dec, IntMin

\* The inductive invariant: the type, and the budget accounting of the
\* while-loop.  Each pass appends one digit vector and each loop test
\* decrements total_permutations, so their sum only changes by the one
\* pass that is emitted before the loop test; while the top is not done
\* the counter is at least 1.
IInv ==
    /\ TypeOK
    /\ topPc # "done" => tp >= 1
    /\ Len(emitted) + tp = Budget + (IF topPc = "eof" THEN 1 ELSE 0)

LEMMA InitIInv == FitsInt /\ InitTop => IInv
BY BudgetAssumption, MaxCandsAssumption DEF FitsInt, ToInt, InitTop, IInv, TypeOK, Combos, Digits, Exps

LEMMA NextIInv == IInv /\ [TopNext]_topVars => IInv'
<1> SUFFICES ASSUME IInv, [TopNext]_topVars PROVE IInv'
    OBVIOUS
<1> USE BudgetAssumption DEF IInv, TypeOK
<1>1. CASE TopPass
    BY <1>1 DEF TopPass
<1>2. CASE TopAdvance
    <2>1. digit' \in Combos
        BY <1>2, OdometerStepType DEF TopAdvance
    <2>2. Dec(tp) = tp - 1
        BY <1>2, DecNoWrap DEF TopAdvance
    <2>3. QED
        BY <1>2, <2>1, <2>2 DEF TopAdvance
<1>3. CASE TopFinish
    <2>0. Dec(tp) = tp - 1
        BY <1>3, DecNoWrap DEF TopFinish
    <2>1. tp = 1 /\ tp' = 0 /\ topPc = "eof" /\ topPc' = "done"
        BY <1>3, <2>0 DEF TopFinish
    <2>2. Len(emitted') = Budget
        BY <1>3, <2>1 DEF TopFinish
    <2>3. QED
        BY <1>3, <2>1, <2>2 DEF TopFinish
<1>4. CASE TopTerminated
    BY <1>4 DEF TopTerminated, topVars
<1>5. CASE UNCHANGED topVars
    BY <1>5 DEF topVars
<1>6. QED
    BY <1>1, <1>2, <1>3, <1>4, <1>5 DEF TopNext

\* drb_top keeps its digits candidate indices and its budget counter in
\* range in every run (the type invariant of MCDrbTop), whenever the budget
\* fits into an int.
THEOREM TypeCorrect ==
    ASSUME FitsInt
    PROVE  TopSpec => []TypeOK
<1>1. IInv => TypeOK
    BY DEF IInv
<1>2. QED
    BY <1>1, InitIInv, NextIInv, PTL DEF TopSpec

\* drb_top never runs more passes than pow(drb_max_num_cands, #operators)
\* (the invariant PassesWithinBudget of MCDrbTop), for every number of
\* operators and every cap whose budget fits into an int.
THEOREM BudgetRespected ==
    ASSUME FitsInt
    PROVE  TopSpec => []PassesWithinBudget
<1>1. IInv => PassesWithinBudget
    BY BudgetAssumption DEF IInv, TypeOK, PassesWithinBudget
<1>2. QED
    BY <1>1, InitIInv, NextIInv, PTL DEF TopSpec
=============================================================================
