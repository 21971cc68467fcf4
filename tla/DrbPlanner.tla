----------------------------- MODULE DrbPlanner -----------------------------
(***************************************************************************)
(* Planner phase three, drillbeyond_planner_phase_three() in              *)
(* drillbeyond_planner.c: the rewriting of a finished plan tree that puts *)
(* a DRB_TOP DrillBeyondExpand above it, Material nodes above the         *)
(* subtrees no open attribute can change (add_mat_nodes), and one         *)
(* DRB_EXPAND2 DrillBeyondExpand per non-selective expansion, under a     *)
(* Limit, a sort on the attribute, or the first Agg (big omega).          *)
(*                                                                         *)
(* The plan is a pointer graph as in the code: lt and rt are lefttree and *)
(* righttree of every allocated node, and the steps rewire them.  Target  *)
(* lists, drb_cols and costs are left out: no property is about columns.  *)
(* A node of the input plan carries what the planner reads of it: its    *)
(* tag, whether it has quals (qual or indexqualorig), whether plan_rows is *)
(* 1, and whether it has a variable subplan (in its initPlan, qual or     *)
(* joinqual).  Phase one (drillbeyond_planner_phase_one and drb_walker)  *)
(* is modelled on an abstract target list: the flags aggregative and      *)
(* sorting are what the walk derives from it.                             *)
(***************************************************************************)
EXTENDS Integers, FiniteSets, Graphs

CONSTANTS
    NE,             \* number of expansions in root->drb_expansions
    Inputs,         \* the plans grouping_planner can hand to phase three
    TopLevel,       \* root->query_level = 1
    BigOmega,       \* the GUC drb_enable_big_omega
    DynOmega,       \* the GUC drb_enable_dynamic_omega
    AddCache,       \* the GUC drb_enable_additional_cache
    PullUpSel,      \* the GUC drb_enable_pull_up_selection
    ForceAgg,       \* the GUC drb_enable_force_big_omega_before_agg
    MaxCands        \* the GUC drb_max_num_cands

Exps == 1..NE
Nil == 0

ASSUME PlannerAssumption ==
    /\ NE \in Nat
    /\ MaxCands \in Nat \ {0}
    /\ {TopLevel, BigOmega, DynOmega, AddCache, PullUpSel, ForceAgg} \subseteq BOOLEAN
    /\ \A p \in Inputs : Nil \notin p.nodes /\ p.root \in p.nodes

\* Node identities: the input plan's nodes, one Material per (parent, side)
\* add_mat_nodes may wrap, one DRB_EXPAND2 per expansion, the DRB_TOP.
InIds == UNION {p.nodes : p \in Inputs}
MatId(p, s) == 1000 + 2 * p + s
MatIds == {MatId(p, s) : p \in InIds, s \in {0, 1}}
Exp2Id(e) == 2000 + e
TopId == 3000
Ids == InIds \cup MatIds \cup {Exp2Id(e) : e \in Exps} \cup {TopId}

VARIABLES
    input,        \* the plan handed to phase three, with its node facts
    sel,          \* sel[e]: expansion->selective (phase two)
    aggr,         \* aggr[e]: expansion->aggregative (phase one)
    sorting,      \* sorting[e]: expansion->sorting (phase one)
    nodes,        \* the allocated plan nodes
    tag,          \* nodeTag of every allocated node
    lt, rt,       \* lefttree (outerPlan) and righttree (innerPlan)
    opStrat,      \* opStrat[e]: drb_strategy of the DrillBeyond of e
    expandNode,   \* expandNode[e]: drb_expandNode of the DrillBeyond of e
    opMats,       \* opMats[e]: drb_addedMatNodes of the DrillBeyond of e
    matNodes,     \* addedMatNodes
    resultPlan,   \* result_plan
    topPlan,      \* topPlan
    outputPlan,   \* outputPlan, the value returned
    i,            \* the position of the foreach over root->drb_expansions
    pc            \* "loop" while the foreach runs, "done", then "exec"

vars == <<input, sel, aggr, sorting, nodes, tag, lt, rt, opStrat, expandNode,
          opMats, matNodes, resultPlan, topPlan, outputPlan, i, pc>>

Tags == {"limit", "sort", "agg", "hashjoin", "nestloop", "hash", "seqscan",
         "indexscan", "drb", "material", "expand2", "top", "none"}

\* The subtree below n in the input plan, n included.
RECURSIVE Below(_, _)
Below(p, n) == IF n = Nil THEN {}
               ELSE {n} \cup Below(p, p.left[n]) \cup Below(p, p.right[n])

\* drb_is_variable_plan: a DrillBeyond or a variable subplan below n.
IsVariable(p, n) == \E m \in Below(p, n) : p.tag[m] = "drb" \/ p.varSub[m]

\* should_materialize: Material, Sort, Hash and the scans that are cheap to
\* repeat are not wrapped; an IndexScan only without index quals; a SeqScan
\* only with quals; any other node unless the planner expects one row.
ShouldMaterialize(p, n) ==
    CASE p.tag[n] \in {"material", "sort", "hash"} -> FALSE
      [] p.tag[n] = "indexscan" -> ~p.qual[n]
      [] p.tag[n] = "seqscan" -> p.qual[n]
      [] OTHER -> ~p.oneRow[n]

\* The additional-cache GUCs under which add_mat_nodes does anything.
MatEnabled == AddCache /\ ~(BigOmega /\ ~DynOmega)

\* add_mat_nodes without the test of innerVariable / outerVariable.
RECURSIVE MatPointsNoVarTest(_, _)
MatPointsNoVarTest(p, n) ==
    IF ~MatEnabled \/ n = Nil \/ p.tag[n] = "drb" THEN {}
    ELSE LET Side(c, s) ==
                 IF c = Nil THEN {}
                 ELSE IF ShouldMaterialize(p, c) THEN {<<n, s>>}
                 ELSE MatPointsNoVarTest(p, c)
         IN  IF IsVariable(p, p.left[n]) \/ IsVariable(p, p.right[n]) \/ p.varSub[n]
             THEN Side(p.right[n], 1) \cup Side(p.left[n], 0)
             ELSE {}

\* add_mat_nodes: the (parent, side) pairs whose child gets a Material
\* node: below a node with a variable child or subplan, an invariant child
\* that should_materialize is wrapped, a variable one is descended into.
RECURSIVE MatPoints(_, _)
MatPoints(p, n) ==
    IF ~MatEnabled \/ n = Nil \/ p.tag[n] = "drb" THEN {}
    ELSE LET Side(c, s) ==
                 IF c = Nil THEN {}
                 ELSE IF ~IsVariable(p, c) /\ ShouldMaterialize(p, c) THEN {<<n, s>>}
                 ELSE MatPoints(p, c)
         IN  IF IsVariable(p, p.left[n]) \/ IsVariable(p, p.right[n]) \/ p.varSub[n]
             THEN Side(p.right[n], 1) \cup Side(p.left[n], 0)
             ELSE {}

\* drb_collect_drb_operators: the DrillBeyond nodes of the plan.
DrbOps == {n \in input.nodes : input.tag[n] = "drb"}

\* find_drb_operator: the DrillBeyond of expansion e.
OpOf(e) == CHOOSE n \in DrbOps : input.exp[n] = e

\* drb_pull_first_node: pre-order search (outer before inner) from n for
\* the first node with tag tg; fuel bounds the walk of a damaged plan.
RECURSIVE PullFirst(_, _, _)
PullFirst(n, tg, fuel) ==
    IF n = Nil \/ fuel = 0 THEN Nil
    ELSE IF tag[n] = tg THEN n
    ELSE LET o == PullFirst(lt[n], tg, fuel - 1)
         IN  IF o # Nil THEN o ELSE PullFirst(rt[n], tg, fuel - 1)

FirstAgg(n) == PullFirst(n, "agg", Cardinality(nodes))

\* The plan as a graph: an edge from every node to its outer and inner child.
PlanGraph ==
    [node |-> nodes,
     edge |-> {<<n, lt[n]>> : n \in {m \in nodes : lt[m] # Nil}}
                \cup {<<n, rt[n]>> : n \in {m \in nodes : rt[m] # Nil}}]

\* A target entry of the query's target list is its ressortgroupref and
\* the Vars of its expression, each with the expansion of its range table
\* entry (0 for a relation that is none), its attno, and whether an Aggref
\* encloses it.  The Vars of e's open attribute (attno 1) in entry tle.
OpenVars(tle, e) == {v \in tle.vars : v.exp = e /\ v.attno = 1}

\* drb_walker: e is aggregative when its open attribute occurs inside an
\* Aggref of the target list (set_aggregative) ...
Aggregative(p, e) == \E tle \in p.tlist : \E v \in OpenVars(tle, e) : v.inAgg

\* ... and sorting when it occurs in a target entry whose ressortgroupref
\* one of the query's sortClause entries names (set_sorting).
Sorting(p, e) == \E tle \in p.tlist : tle.ref \in p.sortRefs /\ OpenVars(tle, e) # {}

\* drillbeyond_planner_phase_one: both flags are reset, then the walk of
\* the target list sets them.
PhaseOne(p) == [aggr |-> [e \in Exps |-> Aggregative(p, e)],
                sorting |-> [e \in Exps |-> Sorting(p, e)]]

\* The input plans the model starts from.  Phase two sets selective when
\* the expansion's relation has a restriction; which ones do is chosen.
PlannerInit ==
    /\ \E p \in Inputs, s \in [Exps -> BOOLEAN] :
          /\ \A e \in Exps : \E n \in p.nodes : p.tag[n] = "drb" /\ p.exp[n] = e
          /\ input = p /\ sel = s
          /\ aggr = PhaseOne(p).aggr /\ sorting = PhaseOne(p).sorting
    /\ LET mp == MatPoints(input, input.root)
           mats == {MatId(q[1], q[2]) : q \in mp}
           Wrapped(n, s, c) == IF <<n, s>> \in mp THEN MatId(n, s) ELSE c
       IN  /\ matNodes = mats
           /\ nodes = input.nodes \cup mats \cup (IF TopLevel THEN {TopId} ELSE {})
           /\ tag = [n \in Ids |->
                       CASE n \in input.nodes -> input.tag[n]
                         [] n \in mats -> "material"
                         [] n = TopId /\ TopLevel -> "top"
                         [] OTHER -> "none"]
           /\ lt = [n \in Ids |->
                       CASE n \in input.nodes -> Wrapped(n, 0, input.left[n])
                         [] \E q \in mp : n = MatId(q[1], q[2]) ->
                               LET q == CHOOSE q \in mp : n = MatId(q[1], q[2])
                               IN  IF q[2] = 0 THEN input.left[q[1]] ELSE input.right[q[1]]
                         [] n = TopId /\ TopLevel -> input.root
                         [] OTHER -> Nil]
           /\ rt = [n \in Ids |->
                       IF n \in input.nodes THEN Wrapped(n, 1, input.right[n]) ELSE Nil]
    /\ outputPlan = IF TopLevel THEN TopId ELSE input.root
    /\ resultPlan = input.root
    /\ topPlan = outputPlan
    /\ opStrat = [e \in Exps |-> "default"]
    /\ expandNode = [e \in Exps |-> Nil]
    /\ opMats = [e \in Exps |-> {}]
    /\ i = 1
    /\ pc = IF BigOmega THEN "loop" ELSE "done"

PlannerTypeOK ==
    /\ nodes \subseteq Ids
    /\ tag \in [Ids -> Tags]
    /\ lt \in [Ids -> Ids \cup {Nil}] /\ rt \in [Ids -> Ids \cup {Nil}]
    /\ \A n \in nodes : tag[n] \in {"material", "expand2", "top"} => lt[n] \in nodes
    /\ opStrat \in [Exps -> {"default", "placeholder"}]
    /\ expandNode \in [Exps -> Ids \cup {Nil}]
    /\ resultPlan \in nodes /\ topPlan \in nodes /\ outputPlan \in nodes
    /\ pc \in {"loop", "done", "exec"}

\* Expansion e is skipped by the loop: selective, without pulled-up selection.
Skipped(e) == sel[e] /\ ~PullUpSel

\* The Limit and, for an expansion the query sorts on, the Sort on top of
\* result_plan are stepped over: topPlan becomes the node stepped over.
Strip(e) ==
    LET lim == tag[resultPlan] = "limit"
        r1 == IF lim THEN lt[resultPlan] ELSE resultPlan
        t1 == IF lim THEN resultPlan ELSE topPlan
        srt == sorting[e] /\ tag[r1] = "sort"
    IN  [res |-> IF srt THEN lt[r1] ELSE r1, top |-> IF srt THEN r1 ELSE t1]

\* The first Agg below result_plan takes the Expand2 below it.
UsesAgg(e, ag) == ag # Nil /\ (aggr[e] \/ ForceAgg)

\* One iteration for a skipped expansion: drb_addedMatNodes is set, then
\* the loop continues.
SkipSelective ==
    /\ pc = "loop"
    /\ i <= NE
    /\ Skipped(i)
    /\ opMats' = [opMats EXCEPT ![i] = matNodes]
    /\ i' = i + 1
    /\ UNCHANGED <<input, sel, aggr, sorting, nodes, tag, lt, rt, opStrat,
                   expandNode, matNodes, resultPlan, topPlan, outputPlan, pc>>

\* The aggregative branch that takes the Agg's inner child for its outer.
AggBranchInnerChild ==
    /\ pc = "loop"
    /\ i <= NE
    /\ ~Skipped(i)
    /\ LET s == Strip(i)
           ag == FirstAgg(s.res)
           x == Exp2Id(i)
       IN  /\ UsesAgg(i, ag)
           /\ nodes' = nodes \cup {x}
           /\ tag' = [tag EXCEPT ![x] = "expand2"]
           /\ lt' = [lt EXCEPT ![x] = rt[ag], ![ag] = x]
           /\ resultPlan' = x
           /\ topPlan' = ag
           /\ expandNode' = [expandNode EXCEPT ![i] = x]
    /\ opStrat' = [opStrat EXCEPT ![i] = "placeholder"]
    /\ opMats' = [opMats EXCEPT ![i] = matNodes]
    /\ i' = i + 1
    /\ UNCHANGED <<input, sel, aggr, sorting, rt, matNodes, outputPlan, pc>>

\* The aggregative branch without the switch of the DrillBeyond to
\* DRB_PLACEHOLDER.
AggBranchNoPlaceholder ==
    /\ pc = "loop"
    /\ i <= NE
    /\ ~Skipped(i)
    /\ LET s == Strip(i)
           ag == FirstAgg(s.res)
           x == Exp2Id(i)
       IN  /\ UsesAgg(i, ag)
           /\ nodes' = nodes \cup {x}
           /\ tag' = [tag EXCEPT ![x] = "expand2"]
           /\ lt' = [lt EXCEPT ![x] = lt[ag], ![ag] = x]
           /\ resultPlan' = x
           /\ topPlan' = ag
           /\ expandNode' = [expandNode EXCEPT ![i] = x]
    /\ opMats' = [opMats EXCEPT ![i] = matNodes]
    /\ i' = i + 1
    /\ UNCHANGED <<input, sel, aggr, sorting, rt, opStrat, matNodes, outputPlan, pc>>

\* AGGREGATIVE: the DrillBeyond becomes DRB_PLACEHOLDER and a DRB_EXPAND2
\* goes between the first Agg below result_plan and the Agg's child; it is
\* the new result_plan and the Agg the new topPlan.
AggBranch ==
    /\ pc = "loop"
    /\ i <= NE
    /\ ~Skipped(i)
    /\ LET s == Strip(i)
           ag == FirstAgg(s.res)
           x == Exp2Id(i)
       IN  /\ UsesAgg(i, ag)
           /\ nodes' = nodes \cup {x}
           /\ tag' = [tag EXCEPT ![x] = "expand2"]
           /\ lt' = [lt EXCEPT ![x] = lt[ag], ![ag] = x]
           /\ resultPlan' = x
           /\ topPlan' = ag
           /\ expandNode' = [expandNode EXCEPT ![i] = x]
    /\ opStrat' = [opStrat EXCEPT ![i] = "placeholder"]
    /\ opMats' = [opMats EXCEPT ![i] = matNodes]
    /\ i' = i + 1
    /\ UNCHANGED <<input, sel, aggr, sorting, rt, matNodes, outputPlan, pc>>

\* NON_AGG && NON_SEL: the DrillBeyond becomes DRB_PLACEHOLDER and a
\* DRB_EXPAND2 is put on top of result_plan (below a stepped-over Limit or
\* Sort); it is the new result_plan.
PlainBranch ==
    /\ pc = "loop"
    /\ i <= NE
    /\ ~Skipped(i)
    /\ LET s == Strip(i)
           x == Exp2Id(i)
       IN  /\ ~UsesAgg(i, FirstAgg(s.res))
           /\ nodes' = nodes \cup {x}
           /\ tag' = [tag EXCEPT ![x] = "expand2"]
           /\ lt' = [lt EXCEPT ![x] = s.res]
           /\ resultPlan' = x
           /\ topPlan' = s.top
           /\ expandNode' = [expandNode EXCEPT ![i] = x]
    /\ opStrat' = [opStrat EXCEPT ![i] = "placeholder"]
    /\ opMats' = [opMats EXCEPT ![i] = matNodes]
    /\ i' = i + 1
    /\ UNCHANGED <<input, sel, aggr, sorting, rt, matNodes, outputPlan, pc>>

\* After the loop, without hanging result_plan below topPlan.
FinishNoRelink ==
    /\ pc = "loop"
    /\ i > NE
    /\ pc' = "done"
    /\ UNCHANGED <<input, sel, aggr, sorting, nodes, tag, lt, rt, opStrat,
                   expandNode, opMats, matNodes, resultPlan, topPlan, outputPlan, i>>

\* After the loop: topPlan->lefttree = result_plan; outputPlan is returned.
Finish ==
    /\ pc = "loop"
    /\ i > NE
    /\ lt' = [lt EXCEPT ![topPlan] = resultPlan]
    /\ pc' = "done"
    /\ UNCHANGED <<input, sel, aggr, sorting, nodes, tag, rt, opStrat,
                   expandNode, opMats, matNodes, resultPlan, topPlan, outputPlan, i>>

\* ExecInitDrillBeyondExpand of each DRB_EXPAND2 in the plan: the
\* drb_addedMatNodes of its DrillBeyond become the states of those Material
\* nodes found below the Expand2 (drb_collect_drb_mat_states).
ExecInitMats ==
    /\ pc = "done"
    /\ LET C == ConnectionsIn(PlanGraph)
       IN  opMats' = [e \in Exps |->
                        IF expandNode[e] # Nil /\ C[outputPlan, expandNode[e]]
                        THEN {m \in opMats[e] \cap nodes : C[expandNode[e], m]}
                        ELSE opMats[e]]
    /\ pc' = "exec"
    /\ UNCHANGED <<input, sel, aggr, sorting, nodes, tag, lt, rt, opStrat,
                   expandNode, matNodes, resultPlan, topPlan, outputPlan, i>>

\* remove_mat_nodes from n: the (parent, side) pairs below n whose child is
\* a Material state of the list ms; the walk does not enter such a child.
RECURSIVE Bypass(_, _, _)
Bypass(n, ms, fuel) ==
    IF n = Nil \/ fuel = 0 THEN {}
    ELSE LET Side(c, s) ==
                 IF c = Nil THEN {}
                 ELSE IF tag[c] = "material" /\ c \in ms THEN {<<n, s>>}
                 ELSE Bypass(c, ms, fuel - 1)
         IN  Side(rt[n], 1) \cup Side(lt[n], 0)

\* reconsiderStrategy under drb_enable_dynamic_omega for a DrillBeyond with
\* an Expand2: when it does not switch, or there is one candidate, it
\* unlinks the listed Material states below the Expand2, each parent
\* taking the Material's outer child; a switch also sets the DrillBeyond
\* to DRB_DEFAULT (its effect on the passes is modelled in DrbPipeline).
RemoveMats ==
    /\ pc = "exec"
    /\ DynOmega
    /\ \E e \in Exps, shouldSwitch \in BOOLEAN :
          /\ expandNode[e] # Nil
          /\ ~shouldSwitch \/ MaxCands = 1
          /\ LET bp == Bypass(expandNode[e], opMats[e], Cardinality(nodes))
                 gone == {IF q[2] = 0 THEN lt[q[1]] ELSE rt[q[1]] : q \in bp}
             IN  /\ lt' = [n \in Ids |-> IF <<n, 0>> \in bp THEN lt[lt[n]] ELSE lt[n]]
                 /\ rt' = [n \in Ids |-> IF <<n, 1>> \in bp THEN lt[rt[n]] ELSE rt[n]]
                 /\ nodes' = nodes \ gone
          /\ opStrat' = IF shouldSwitch THEN [opStrat EXCEPT ![e] = "default"] ELSE opStrat
    /\ UNCHANGED <<input, sel, aggr, sorting, tag, expandNode, opMats, matNodes,
                   resultPlan, topPlan, outputPlan, i, pc>>

\* Planning and execution set-up are over; the plan runs.
Planned ==
    /\ pc = "exec"
    /\ UNCHANGED vars

PlannerNext ==
    \/ SkipSelective \/ AggBranch \/ PlainBranch \/ Finish
    \/ ExecInitMats \/ RemoveMats \/ Planned

PlannerSpec == PlannerInit /\ [][PlannerNext]_vars

-----------------------------------------------------------------------------

\* The node n of the rewritten plan, seen through the Material and Expand
\* nodes phase three put above it.
RECURSIVE Erase(_, _)
Erase(n, fuel) ==
    IF n = Nil \/ n \in input.nodes \/ fuel = 0 THEN n ELSE Erase(lt[n], fuel - 1)

\* Phase three only inserts nodes (add_mat_nodes, make_drillbeyondexpand
\* and the relinking at the end of the loop) and remove_mat_nodes only
\* unlinks Material nodes: the plan is a tree below outputPlan that holds
\* every node still linked, and with the inserted Material and
\* DrillBeyondExpand nodes taken out it is the plan grouping_planner
\* handed in.
RewriteKeepsPlan ==
    pc # "loop" =>
        LET G == PlanGraph
            C == ConnectionsIn(G)
            f == Cardinality(nodes)
        IN  /\ ~HasCycle(G)
            /\ \A n \in nodes : C[outputPlan, n] /\ InDegree(G, n) <= 1
            /\ Erase(outputPlan, f) = input.root
            /\ \A n \in input.nodes : /\ Erase(lt[n], f) = input.left[n]
                                      /\ Erase(rt[n], f) = input.right[n]

\* Every expansion the loop does not skip has its DrillBeyond switched to
\* DRB_PLACEHOLDER and a DRB_EXPAND2 in the returned plan above that
\* DrillBeyond, so each placeholder token is expanded on its way up (the
\* pipeline of DrbPipeline relies on it); a skipped expansion keeps its
\* DrillBeyond as it is and gets no Expand2.
ExpandCoversOp ==
    pc = "done" =>
        LET C == ConnectionsIn(PlanGraph)
        IN  \A e \in Exps :
               IF ~BigOmega \/ Skipped(e)
               THEN opStrat[e] = "default" /\ expandNode[e] = Nil
               ELSE /\ opStrat[e] = "placeholder"
                    /\ expandNode[e] = Exp2Id(e)
                    /\ C[outputPlan, Exp2Id(e)]
                    /\ C[Exp2Id(e), OpOf(e)]

\* A node whose output depends on the candidate combination.
Varies(n) == tag[n] \in {"drb", "expand2"} \/ (n \in input.nodes /\ input.varSub[n])

\* A Material node add_mat_nodes inserts, while it is in the plan, caches
\* a subtree in which nothing varies with the candidate combination, also
\* once the Expand2 nodes are in: replaying it on a rescan returns what a
\* re-execution would.
MatsInvariant ==
    pc # "loop" =>
        LET C == ConnectionsIn(PlanGraph)
        IN  \A m \in matNodes \cap nodes : \A n \in nodes : C[m, n] => ~Varies(n)
=============================================================================
