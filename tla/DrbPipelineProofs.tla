-------------------------- MODULE DrbPipelineProofs --------------------------
(***************************************************************************)
(* Proofs about the pipeline below the DRB_TOP node, for every plan tree   *)
(* and every number of operators and candidate cap.  Each pipeline step    *)
(* takes a step of drb_top or leaves the driver alone; every reachable     *)
(* pipeline state is well typed; and the targeted rescan of                *)
(* drb_set_chg_param reaches every node that reads an operator whose       *)
(* digit the odometer changed.                                             *)
(***************************************************************************)
EXTENDS DrbPipeline, DrbTopRefinement, TLAPS

USE NAssumption, MaxCandsAssumption

\* Every operator whose digit is 0 up to the first nonzero one after an
\* odometer step was in resetOps: the for-loop of drb_top reached it.
LEMMA ChangedWereReset ==
    ASSUME NEW d \in Combos
    PROVE  ChangedOps(OdometerStep(d)) \subseteq ResetOps(d)
<1> SUFFICES ASSUME NEW e \in ChangedOps(OdometerStep(d)), ~Visited(d, e)
             PROVE  FALSE
    BY DEF ChangedOps, ResetOps
<1> DEFINE T == {i \in 1..(e - 1) : d[i] < MaxCands - 1}
<1>1. e \in Exps
    BY DEF ChangedOps
<1>2. T # {} /\ T \in SUBSET Nat
    BY <1>1 DEF Visited, Exps, Combos, Digits
<1>3. PICK m \in T : \A y \in T : m <= y
    BY <1>2, LeastNat, Zenon
<1>4. m \in Exps /\ m < e /\ d[m] < MaxCands - 1
    BY <1>1, <1>3 DEF Exps
<1>5. Visited(d, m)
    BY <1>1, <1>3, <1>4 DEF Visited, Exps, Combos, Digits
<1>6. OdometerStep(d)[m] = d[m] + 1
    BY <1>4, <1>5 DEF OdometerStep, Combos, Digits
<1>7. d[m] \in Nat
    BY <1>4 DEF Combos, Digits
<1>8. OdometerStep(d)[m] = 0
    BY <1>4 DEF ChangedOps, Exps
<1>9. QED
    BY <1>6, <1>7, <1>8

\* Every step of the pipeline is a step of drb_top, or leaves its state
\* alone.
LEMMA PipeStepIsTopStep == [Next]_vars => [TopNext]_topVars
BY DEF Next, Pass, Advance, Finish, Terminated, TopNext, vars, topVars

\* The pipeline of ExecDrillBeyond and drb_expand2 nodes below the top
\* node behaves, on the driver's state, as drb_top alone: the pipeline
\* never moves the odometer, the budget or the emitted combinations.
LEMMA PipelineRefinesTop == Spec => TopSpec
<1>1. PipeInit => InitTop
    BY DEF PipeInit
<1>2. QED
    BY <1>1, PipeStepIsTopStep, PTL DEF Spec, TopSpec

----------------------------------------------------------------------------

\* ChgCoversChangedOps with the type of the digits it reads.
CInv == digit \in Combos /\ ChgCoversChangedOps

LEMMA InitCInv == PipeInit => CInv
BY DEF PipeInit, InitTop, CInv, ChgCoversChangedOps, Combos, Digits, Exps

LEMMA NextCInv == CInv /\ [Next]_vars => CInv'
<1> SUFFICES ASSUME CInv, [Next]_vars PROVE CInv'
    OBVIOUS
<1>1. CASE Advance
    <2>1. digit \in Combos /\ digit' = OdometerStep(digit)
        BY <1>1 DEF CInv, Advance, TopAdvance
    <2>2. strat' = strat
        BY <1>1 DEF Advance
    <2>3. digit' \in Combos
        BY <2>1, OdometerStepType
    <2>4. ASSUME NEW e \in ChangedOps(digit'), NEW n \in Nodes,
                 Claimant(e)' \in SubtreeOf(n)
          PROVE  chg'[n]
        <3>1. e \in ResetOps(digit)
            BY <2>1, ChangedWereReset
        <3>2. Claimant(e)' = Claimant(e)
            BY <2>2 DEF Claimant, Claims, IsExpand2, StratOf
        <3>3. Marked(n, ResetOps(digit))
            BY <2>4, <3>1, <3>2 DEF Marked
        <3>4. QED
            BY <1>1, <3>3 DEF Advance
    <2>5. QED
        BY <2>3, <2>4 DEF CInv, ChgCoversChangedOps
<1>2. CASE Pass
    <2>1. digit' = digit /\ topPc' = "eof"
        BY <1>2 DEF Pass, TopPass
    <2>2. QED
        BY <2>1 DEF CInv, ChgCoversChangedOps
<1>3. CASE Finish
    <2>1. digit' = digit /\ topPc' = "done"
        BY <1>3 DEF Finish, TopFinish
    <2>2. QED
        BY <2>1 DEF CInv, ChgCoversChangedOps
<1>4. CASE Terminated \/ UNCHANGED vars
    <2>1. UNCHANGED <<digit, topPc, emitted, chg, strat>>
        BY <1>4 DEF Terminated, TopTerminated, vars, topVars, pipeVars
    <2>2. \A e \in Exps : Claimant(e)' = Claimant(e)
        BY <2>1 DEF Claimant, Claims, IsExpand2, StratOf
    <2>3. QED
        BY <2>1, <2>2 DEF CInv, ChgCoversChangedOps, ChangedOps
<1>5. QED
    BY <1>1, <1>2, <1>3, <1>4 DEF Next

\* For every plan tree, number of operators and candidate cap, every pass
\* but the first starts with bit 128 of chgParam set on each node above a
\* node that reads an operator whose digit drb_top's odometer changed.
THEOREM ChgCoversChangedOpsHolds == Spec => []ChgCoversChangedOps
<1>1. CInv => ChgCoversChangedOps
    BY DEF CInv
<1>2. QED
    BY <1>1, InitCInv, NextCInv, PTL DEF Spec
----------------------------------------------------------------------------
(* The type of what the nodes output in a pass.  Out descends the plan     *)
(* tree, children having larger numbers, so a node whose output were ill-  *)
(* typed would have an ill-typed child, and the largest such node none.    *)

\* A nonempty finite set of naturals has a largest element.
LEMMA MaxNat ==
    ASSUME NEW S \in SUBSET Nat, IsFiniteSet(S), S # {}
    PROVE  \E m \in S : \A y \in S : y <= m
<1> DEFINE NoMax(T) == ~\E m \in T : \A y \in T : y <= m
           W == {T \in FiniteSubsetsOf(S) : T # {} /\ NoMax(T)}
           R == StrictSubsetOrdering(S)
<1> SUFFICES ASSUME NoMax(S) PROVE FALSE
    OBVIOUS
<1>1. S \in W
    BY DEF FiniteSubsetsOf
<1>2. PICK T \in W : \A U \in W : ~(<<U, T>> \in R)
    <2>1. IsWellFoundedOn(R, FiniteSubsetsOf(S))
        BY FS_StrictSubsetOrderingWellFounded
    <2>2. W \subseteq FiniteSubsetsOf(S) /\ W # {}
        BY <1>1
    <2>3. QED
        BY <2>1, <2>2, WFMin, Zenon
<1>3. T \subseteq S /\ IsFiniteSet(T) /\ T # {} /\ NoMax(T)
    BY <1>2 DEF FiniteSubsetsOf
<1>4. PICK x \in T : TRUE
    BY <1>3
<1>5. CASE T \ {x} = {}
    BY <1>3, <1>5
<1>6. CASE T \ {x} # {}
    <2>1. T \ {x} \in FiniteSubsetsOf(S)
        BY <1>3, FS_Subset DEF FiniteSubsetsOf
    <2>2. <<T \ {x}, T>> \in R
        BY <1>3 DEF StrictSubsetOrdering
    <2>3. T \ {x} \notin W
        BY <1>2, <2>2
    <2>4. PICK y \in T \ {x} : \A z \in T \ {x} : z <= y
        BY <1>6, <2>1, <2>3
    <2>5. x \in Nat /\ y \in Nat
        BY <1>3
    <2>6. QED
        BY <1>3, <2>4, <2>5
<1>7. QED
    BY <1>5, <1>6
\* What a node may output in a pass: rows of the current combination, or none.
OutRows == Rows \cup {NoRows}

\* Every node is entered in one of the five modes.
LEMMA ModeType == \A n \in Nodes : Mode[n] \in Modes
<1> TAKE n \in Nodes
<1>0. Mode = [k \in Nodes |-> IF k = Root THEN RootMode
                                ELSE KidMode(Parent(k), Mode[Parent(k)], k)]
    BY DEF Mode
<1>1. Mode[n] = IF n = Root THEN RootMode ELSE KidMode(Parent(n), Mode[Parent(n)], n)
    BY <1>0
<1>2. QED
    BY <1>1 DEF RootMode, KidMode, Modes

\* A host node joining typed rows outputs typed rows.
LEMMA MergeType ==
    ASSUME NEW rs \in SUBSET OutRows
    PROVE  Merge(rs) \in OutRows
<1>1. CASE NoRows \notin rs
    <2>1. rs \subseteq Rows
        BY <1>1 DEF OutRows
    <2>2. \A x \in Exps : (\E r \in rs : r[x] # Absent) =>
                          (CHOOSE r \in rs : r[x] # Absent)[x] \in Vals
        BY <2>1 DEF Rows
    <2>3. QED
        BY <1>1, <2>2 DEF Merge, OutRows, Rows, Vals
<1>2. QED
    BY <1>1 DEF Merge, OutRows

\* A DrillBeyond or expand node has exactly one child, its outer plan.
LEMMA OuterIsKid ==
    ASSUME NEW n \in Nodes, Kind[n] # "plan"
    PROVE  OuterOf(n) \in Kids[n] /\ ExpOf[n] \in Exps
<1>1. IsFiniteSet(Kids[n])
    BY TreeAssumption, FS_Subset
<1>2. Kids[n] # {}
    BY <1>1, TreeAssumption, FS_EmptySet
<1>3. QED
    BY <1>2, TreeAssumption DEF OuterOf, NoExp
\* The defining equation of Out, node by node.
LEMMA OutDef ==
    ASSUME NEW n \in Nodes
    PROVE  Out[n] = NodeOut(n, Input(n, Out[OuterOf(n)]), KidsOut(n, Out))
<1>1. Out = [k \in Nodes |-> NodeOut(k, Input(k, Out[OuterOf(k)]), KidsOut(k, Out))]
    BY DEF Out
<1>2. QED
    BY <1>1

\* A node whose children output typed rows outputs typed rows itself.
LEMMA OutStep ==
    ASSUME digit \in Combos, store \in [Nodes -> Rows \cup {NoRows, Cleared}],
           NEW n \in Nodes, \A c \in Kids[n] : Out[c] \in OutRows
    PROVE  Out[n] \in OutRows
<1> DEFINE in == Input(n, Out[OuterOf(n)])
           kids == KidsOut(n, Out)
<1>0. Out[n] = NodeOut(n, in, kids)
    BY OutDef
<1>1. CASE Mode[n] \in {"eof", "skip"}
    BY <1>0, <1>1 DEF NodeOut, OutRows
<1>2. CASE Mode[n] \notin {"eof", "skip"} /\ Kind[n] = "plan"
    <2>1. kids \in SUBSET OutRows
        BY DEF KidsOut
    <2>2. Out[n] = Merge(kids)
        BY <1>0, <1>2 DEF NodeOut
    <2>3. QED
        BY <2>1, <2>2, MergeType
<1>3. CASE Mode[n] \notin {"eof", "skip"} /\ Kind[n] # "plan"
    <2>1. OuterOf(n) \in Kids[n] /\ ExpOf[n] \in Exps
        BY <1>3, OuterIsKid
    <2>2. in \in OutRows \cup {Cleared}
        BY <2>1 DEF Input, StoreAfter, OutRows
    <2>3. CASE in \in {NoRows, Cleared}
        BY <1>0, <1>3, <2>3 DEF NodeOut, OutRows
    <2>4. CASE in \notin {NoRows, Cleared}
        <3>1. in \in Rows
            BY <2>2, <2>4 DEF OutRows
        <3>2. digit[ExpOf[n]] \in Vals /\ Tok \in Vals
            BY <2>1 DEF Combos, Vals, Tok
        <3>3. CASE Kind[n] = "drb"
            <4>1. Out[n] = Attach(in, ExpOf[n],
                                  IF Reconsidered(n) = "default" THEN digit[ExpOf[n]] ELSE Tok)
                BY <1>0, <1>3, <2>4, <3>3 DEF NodeOut
            <4>2. QED
                BY <4>1, <3>1, <3>2, <2>1 DEF Attach, Rows, OutRows
        <3>4. CASE Kind[n] # "drb" /\ IsExpand2(n)
            <4>1. Out[n] = Substitute(in, ExpOf[n])
                BY <1>0, <1>3, <2>4, <3>4 DEF NodeOut
            <4>2. QED
                BY <4>1, <3>1, <3>2 DEF Substitute, Rows, OutRows, Vals, Digits
        <3>5. CASE Kind[n] # "drb" /\ ~IsExpand2(n)
            <4>1. Out[n] = in
                BY <1>0, <1>3, <2>4, <3>5 DEF NodeOut
            <4>2. QED
                BY <4>1, <3>1 DEF OutRows
        <3>6. QED
            BY <3>3, <3>4, <3>5
    <2>5. QED
        BY <2>3, <2>4
<1>4. QED
    BY <1>1, <1>2, <1>3

\* In a state whose digits and stores are typed, every node outputs typed
\* rows: the induction runs from the largest ill-typed node down.
LEMMA OutType ==
    ASSUME digit \in Combos, store \in [Nodes -> Rows \cup {NoRows, Cleared}]
    PROVE  \A n \in Nodes : Out[n] \in OutRows
<1> DEFINE B == {n \in Nodes : Out[n] \notin OutRows}
<1> SUFFICES ASSUME B # {} PROVE FALSE
    OBVIOUS
<1>1. B \in SUBSET Nat /\ IsFiniteSet(B)
    BY TreeAssumption, FS_Subset
<1>2. PICK m \in B : \A y \in B : y <= m
    BY <1>1, MaxNat
<1>3. PICK c \in Kids[m] : Out[c] \notin OutRows
    BY <1>2, OutStep
<1>4. c \in B /\ c > m
    BY <1>2, <1>3, TreeAssumption
<1>5. QED
    BY <1>1, <1>2, <1>4

\* The pipeline's inductive invariant: the driver's (its type and budget
\* accounting), and the type of the pipeline's own state.
PInv == IInv /\ PipeTypeOK

LEMMA InitPInv == FitsInt /\ PipeInit => PInv
<1> SUFFICES ASSUME FitsInt, PipeInit PROVE PInv
    OBVIOUS
<1>1. IInv
    BY InitIInv DEF PipeInit
<1>2. \A n \in Nodes : Kind[n] # "plan" => ExpOf[n] \in Exps
    BY OuterIsKid
<1>3. strat \in [Nodes -> {"default", "placeholder"}]
    BY <1>2, TreeAssumption DEF PipeInit
<1>4. QED
    BY <1>1, <1>3 DEF PipeInit, PInv, PipeTypeOK, IInv, Rows, Vals

\* A pass stores what each DrillBeyond and expand node read, and hands the
\* top what the root output: typed rows, or none, or a cleared store.
LEMMA PassPipeType ==
    ASSUME PInv, Pass
    PROVE  PipeTypeOK'
<1>1. digit \in Combos /\ store \in [Nodes -> Rows \cup {NoRows, Cleared}]
    BY DEF PInv, IInv, TypeOK, PipeTypeOK
<1>2. \A n \in Nodes : Out[n] \in OutRows
    BY <1>1, OutType
<1>3. \A n \in Nodes : Kind[n] = "drb" \/ IsExpand2(n) =>
                       Input(n, Out[OuterOf(n)]) \in Rows \cup {NoRows, Cleared}
    <2> TAKE n \in Nodes
    <2> HAVE Kind[n] = "drb" \/ IsExpand2(n)
    <2>1. OuterOf(n) \in Kids[n]
        BY OuterIsKid DEF IsExpand2
    <2>2. Out[OuterOf(n)] \in OutRows
        BY <2>1, <1>2, TreeAssumption
    <2>3. QED
        BY <2>2, <1>1 DEF Input, StoreAfter, OutRows
<1>4. store' \in [Nodes -> Rows \cup {NoRows, Cleared}]
    BY <1>1, <1>3 DEF Pass
<1>5. lastOut' \in Rows \cup {NoRows}
    BY <1>2, TreeAssumption DEF Pass, OutRows
<1>6. strat' \in [Nodes -> {"default", "placeholder"}]
    BY DEF Pass, Reconsidered, PInv, PipeTypeOK
<1>7. TypeOK'
    BY NextIInv DEF PInv, Pass, IInv, TopNext
<1>8. chg' \in [Nodes -> BOOLEAN] /\ fetched' \in [Nodes -> BOOLEAN]
      /\ mat' \in [Nodes -> BOOLEAN]
    BY DEF Pass, PInv, PipeTypeOK
<1>9. QED
    BY <1>4, <1>5, <1>6, <1>7, <1>8 DEF PipeTypeOK

LEMMA NextPInv == PInv /\ [Next]_vars => PInv'
<1> SUFFICES ASSUME PInv, [Next]_vars PROVE PInv'
    OBVIOUS
<1>1. IInv'
    <2>1. [TopNext]_topVars
        BY DEF Next, Pass, Advance, Finish, Terminated, TopNext, vars, topVars
    <2>2. QED
        BY <2>1, NextIInv DEF PInv
<1>2. CASE Pass
    BY <1>1, <1>2, PassPipeType DEF PInv
<1>3. CASE Advance
    BY <1>1, <1>3 DEF Advance, PInv, PipeTypeOK, IInv
<1>4. CASE Finish \/ Terminated \/ UNCHANGED vars
    BY <1>1, <1>4 DEF Finish, Terminated, PInv, PipeTypeOK, IInv, vars, pipeVars
<1>5. QED
    BY <1>2, <1>3, <1>4 DEF Next

\* PipeTypeOK, checked by the pipeline runs: in every reachable state the
\* pipeline's flags are Booleans, every DrillBeyond and expand store holds a
\* row of candidate values (or no rows, or the cleared marker), the top's
\* last row is a row or none, and every strategy is one of the two
\* drb_strategy values, whatever the plan tree, the number of operators and
\* the candidate cap, as long as the budget fits in an int.
THEOREM PipeTypeCorrect ==
    ASSUME FitsInt
    PROVE  Spec => []PipeTypeOK
<1>1. PInv => PipeTypeOK
    BY DEF PInv
<1>2. QED
    BY <1>1, InitPInv, NextPInv, PTL DEF Spec
=============================================================================
