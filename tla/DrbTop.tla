------------------------------- MODULE DrbTop -------------------------------
(***************************************************************************)
(* The combination driver ("odometer"): the DRB_TOP strategy of the        *)
(* DrillBeyondExpand operator, drb_top() in drillbeyond_compress.c.        *)
(*                                                                         *)
(* One digit per open attribute is kept in the db_current_origin field of  *)
(* the attribute's DrillBeyond operator state; the operators are listed   *)
(* in drb_operator_states in plan pre-order, and position 1 of that list   *)
(* is the least significant digit.  A pass pulls the pipeline below the    *)
(* top node until it is exhausted; between passes the odometer advances    *)
(* and the budget total_permutations is decremented.  Rows are abstracted *)
(* to passes: a pass appends the digit vector it was computed under to     *)
(* emitted, which is what drb_top writes into the drb_expandTo columns.    *)
(***************************************************************************)
EXTENDS Integers, Sequences, FiniteSets

CONSTANTS
    N,          \* number of DrillBeyond operators (open attributes)
    MaxCands,   \* the GUC drb_max_num_cands
    IntBits     \* the width of the C int total_permutations

ASSUME NAssumption == N \in Nat \ {0}
ASSUME MaxCandsAssumption == MaxCands \in Nat \ {0}
ASSUME IntBitsAssumption == IntBits \in Nat \ {0, 1}

VARIABLES
    digit,      \* digit[e]: db_current_origin of the e-th DrillBeyond state
    tp,         \* total_permutations of the DRB_TOP state
    topPc,      \* "run": a pass is due; "eof": outer returned NULL; "done"
    emitted     \* the digit vectors of the passes produced, in order

topVars == <<digit, tp, topPc, emitted>>

Exps == 1..N
Digits == 0..(MaxCands - 1)
Combos == [Exps -> Digits]
\* pow(drb_max_num_cands, #operators): the double the budget is computed as
\* (exact, far below 2^53, for every configuration worth running).
Budget == MaxCands ^ N

\* pow(drb_max_num_cands, #operators) is a positive natural number (an
\* arithmetic fact the provers do not know about ^).
ASSUME BudgetAssumption == Budget \in Nat \ {0}

\* There are pow(drb_max_num_cands, #operators) combinations of candidate
\* indices (a counting fact the provers do not know about ^).
ASSUME CombosCountAssumption == IsFiniteSet(Combos) /\ Cardinality(Combos) = Budget

\* The range of a C int.  2^(IntBits - 1) is written as two halves so that
\* TLC, whose integers are 32-bit, can evaluate it for IntBits = 32.
IntMax == 2^(IntBits - 2) - 1 + 2^(IntBits - 2)
IntMin == -IntMax - 1

\* INT_MAX is a natural number (an arithmetic fact the provers do not know
\* about ^).
ASSUME IntMaxAssumption == IntMax \in Nat

\* The assignment of the double pow(...) to the int total_permutations.
\* Out of range the conversion is undefined in C; the x86-64 build
\* (cvttsd2si) produces INT_MIN, the "integer indefinite" value.
ToInt(x) == IF x <= IntMax THEN x ELSE IntMin

\* --total_permutations: PostgreSQL is built with -fwrapv, so the
\* decrement of INT_MIN wraps to INT_MAX.
Dec(x) == IF x = IntMin THEN IntMax ELSE x - 1

TypeOK ==
    /\ digit \in Combos
    /\ tp \in 0..Budget
    /\ topPc \in {"run", "eof", "done"}
    /\ emitted \in Seq(Combos)

\* ExecInitDrillBeyondExpand for DRB_TOP and ExecInitDrillBeyond: every
\* digit starts at 0, the budget is pow(drb_max_num_cands, #operators)
\* converted to int.
InitTop ==
    /\ digit = [e \in Exps |-> 0]
    /\ tp = ToInt(Budget)
    /\ topPc = "run"
    /\ emitted = <<>>

\* Operator e is visited by the for-loop of drb_top: every operator before
\* it in drb_operator_states was at drb_max_num_cands - 1 (and was reset),
\* so the loop did not break before reaching e.
Visited(d, e) == \A i \in 1..(e - 1) : d[i] >= MaxCands - 1

\* The for-loop with its reset test off by one (db_current_origin >= max).
OdometerStepOffByOne(d) ==
    [e \in Exps |-> IF \A i \in 1..(e - 1) : d[i] >= MaxCands
                    THEN IF d[e] >= MaxCands THEN 0 ELSE d[e] + 1
                    ELSE d[e]]

\* The for-loop without the reset of the digits it passes over.
OdometerStepNoReset(d) ==
    [e \in Exps |-> IF Visited(d, e) /\ d[e] < MaxCands - 1 THEN d[e] + 1 ELSE d[e]]

\* The for-loop of drb_top: a visited operator at its maximum is reset to
\* 0; the first visited one below it is incremented and ends the loop.
OdometerStep(d) ==
    [e \in Exps |-> IF Visited(d, e)
                    THEN IF d[e] >= MaxCands - 1 THEN 0 ELSE d[e] + 1
                    ELSE d[e]]

\* resetOps with only the operator the loop incremented, not the ones it
\* reset to 0.
ResetOpsIncrementedOnly(d) == {e \in Exps : Visited(d, e) /\ d[e] < MaxCands - 1}

\* resetOps: the rti of every operator the loop visited.
ResetOps(d) == {e \in Exps : Visited(d, e)}

\* A pass: the top pulls its outer plan until it returns NULL, emitting the
\* rows of the current combination.
TopPass ==
    /\ topPc = "run"
    /\ topPc' = "eof"
    /\ emitted' = Append(emitted, digit)
    /\ UNCHANGED <<digit, tp>>

\* The while-loop condition of drb_top with the decrement placed after the
\* test (total_permutations-- > 0): one step more than the budget allows.
TopAdvancePostDecrement ==
    /\ topPc = "eof"
    /\ tp > 0
    /\ tp' = Dec(tp)
    /\ digit' = OdometerStep(digit)
    /\ topPc' = "run"
    /\ UNCHANGED emitted

\* One iteration of the while-loop: --total_permutations > 0 holds, the
\* odometer advances and the pipeline is rescanned for the next pass.
TopAdvance ==
    /\ topPc = "eof"
    /\ Dec(tp) > 0
    /\ tp' = Dec(tp)
    /\ digit' = OdometerStep(digit)
    /\ topPc' = "run"
    /\ UNCHANGED emitted

\* The loop test fails: the budget is used up and drb_top returns NULL.
TopFinish ==
    /\ topPc = "eof"
    /\ ~(Dec(tp) > 0)
    /\ tp' = Dec(tp)
    /\ topPc' = "done"
    /\ UNCHANGED <<digit, emitted>>

\* The query has ended; the executor calls the top no more.
TopTerminated ==
    /\ topPc = "done"
    /\ UNCHANGED topVars

TopNext == TopPass \/ TopAdvance \/ TopFinish \/ TopTerminated

TopSpec == InitTop /\ [][TopNext]_topVars

\* A query run to completion (ExecutePlan with no row count) pulls the top
\* node until it returns NULL, and every pass pulls the pipeline below it
\* until it is exhausted: while drb_top can take a step, it does.
TopFairSpec == TopSpec /\ WF_topVars(TopNext)

\* drb_top runs at most pow(drb_max_num_cands, #operators) passes over
\* its outer plan: the pre-decrement in the loop test stops it in time.
PassesWithinBudget == Len(emitted) <= Budget

Enum == INSTANCE DrbEnumeration WITH produced <- emitted, closed <- (topPc = "done")

\* drb_top implements the enumeration promise of spec.md 4.4 and 8.1: the
\* passes produce every combination once, in mixed-radix order, and then,
\* eventually, end-of-data; the int budget stops the loop neither early
\* nor never.
EnumerationRefined == Enum!FairSpec
=============================================================================
