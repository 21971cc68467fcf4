---------------------------- MODULE MCDrbPlanner ----------------------------
(***************************************************************************)
(* Plans grouping_planner hands to drillbeyond_planner_phase_three, for    *)
(* two expansions, numbered in pre-order.  A plan is a record of functions *)
(* over its nodes (tuples here): outer and inner child (0 for none), tag, *)
(* expansion of a DrillBeyond, quals, plan_rows = 1, variable subplan;    *)
(* with the query's target list and the ressortgrouprefs of its ORDER BY. *)
(* Open attributes are joined by a chain of DrillBeyond                   *)
(* joins over the scan of the relation they extend.                       *)
(***************************************************************************)
EXTENDS DrbPlanner

F == FALSE
T == TRUE

MkPlan(k, l, r, tg, x, q, v, tl, so) ==
    [nodes |-> 1..k, root |-> 1, left |-> l, right |-> r, tag |-> tg, exp |-> x,
     qual |-> q, oneRow |-> [n \in 1..k |-> FALSE], varSub |-> v,
     tlist |-> tl, sortRefs |-> so]

\* A Var of expansion e's relation (0: another relation), attno a, under
\* an Aggref or not; a target entry with ressortgroupref k.
V(e, a, g) == [exp |-> e, attno |-> a, inAgg |-> g]
TLE(k, vs) == [ref |-> k, vars |-> vs]

\* SELECT a1, a2: no aggregate, no ORDER BY.
PlainList == {TLE(0, {V(1, 1, F)}), TLE(0, {V(2, 1, F)})}

\* SELECT a1, a2 ... ORDER BY a1, a2.
SortedList == {TLE(1, {V(1, 1, F)}), TLE(2, {V(2, 1, F)})}

\* SELECT a1, a2 ... ORDER BY b, b a column of another relation.
OtherSortList == PlainList \cup {TLE(1, {V(0, 3, F)})}

\* SELECT a<g>, sum(a<s>), count(k) ... GROUP BY a<g> ORDER BY a<g>, 2,
\* with k a join column (attno 2) of the relation of a<g>.
AggList(g, s) == {TLE(1, {V(g, 1, F)}), TLE(2, {V(s, 1, T)}), TLE(3, {V(g, 2, T)})}

\* 1 Limit -> 2 Sort -> 3 Agg -> 4 NestLoop(5 DRB(1) -> 6 DRB(2) -> 7 SeqScan, 8 SeqScan),
\* for the query of AggList(g, s).
AggPlanOn(g, s) ==
    MkPlan(8, <<2, 3, 4, 5, 6, 7, 0, 0>>, <<0, 0, 0, 8, 0, 0, 0, 0>>,
           <<"limit", "sort", "agg", "nestloop", "drb", "drb", "seqscan", "seqscan">>,
           <<0, 0, 0, 0, 1, 2, 0, 0>>, <<F, F, F, F, F, F, T, T>>,
           <<F, F, F, F, F, F, F, F>>, AggList(g, s), {1, 2})

\* 1 HashJoin(2 DRB(1) -> 3 DRB(2) -> 4 IndexScan, 5 Hash -> 6 SeqScan)
HashPlan ==
    MkPlan(6, <<2, 3, 4, 0, 6, 0>>, <<5, 0, 0, 0, 0, 0>>,
           <<"hashjoin", "drb", "drb", "indexscan", "hash", "seqscan">>,
           <<0, 1, 2, 0, 0, 0>>, <<F, F, F, F, F, T>>,
           <<F, F, F, F, F, F>>, PlainList, {})

\* An IN subquery made unique by an Agg on the inner side of the join:
\* 1 NestLoop(2 DRB(1) -> 3 DRB(2) -> 4 SeqScan, 5 Agg -> 6 SeqScan)
SemiPlan ==
    MkPlan(6, <<2, 3, 4, 0, 6, 0>>, <<5, 0, 0, 0, 0, 0>>,
           <<"nestloop", "drb", "drb", "seqscan", "agg", "seqscan">>,
           <<0, 1, 2, 0, 0, 0>>, <<F, F, F, F, F, T>>,
           <<F, F, F, F, F, F>>, PlainList, {})

\* A join whose inner scan has a subplan on an open attribute in its qual,
\* sorted as the query of target list tl and sort references so say:
\* 1 Sort -> 2 NestLoop(3 DRB(1) -> 4 DRB(2) -> 5 SeqScan, 6 NestLoop(7 SeqScan, 8 IndexScan))
SubPlanSortedBy(tl, so) ==
    MkPlan(8, <<2, 3, 4, 5, 0, 7, 0, 0>>, <<0, 6, 0, 0, 0, 8, 0, 0>>,
           <<"sort", "nestloop", "drb", "drb", "seqscan", "nestloop", "seqscan", "indexscan">>,
           <<0, 0, 1, 2, 0, 0, 0, 0>>, <<F, F, F, F, F, F, T, F>>,
           <<F, F, F, F, F, F, T, F>>, tl, so)

\* The plans with an aggregate on the first attribute only.
MCInputs == {AggPlanOn(2, 1), HashPlan, SemiPlan,
             SubPlanSortedBy(SortedList, {1, 2}), SubPlanSortedBy(OtherSortList, {1})}

\* SELECT a1, agg(a2) ... GROUP BY a1: an aggregate on the second attribute.
MCInputsAggSecond == {AggPlanOn(1, 2)}
=============================================================================
