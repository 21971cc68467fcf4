----------------------------- MODULE DrbPipeline -----------------------------
(***************************************************************************)
(* The execution pipeline driven by the combination driver: the plan tree  *)
(* below the DRB_TOP node, with its DrillBeyond join operators             *)
(* (ExecDrillBeyond, ExecReScanDrillBeyond in drillbeyond_operator.c),     *)
(* its DRB_EXPAND2 expansion operators (drb_expand2,                       *)
(* ExecReScanDrillBeyondExpand in drillbeyond_compress.c), the targeted   *)
(* rescan signal (_drb_set_chg_param: bit 128 of chgParam) and the host    *)
(* plan nodes between them.                                                *)
(*                                                                         *)
(* Rows are abstracted to passes.  What a node produces in a pass is a     *)
(* Row: for every open attribute, the candidate index its rows were        *)
(* computed with, Tok if they still carry the bundle token of              *)
(* DRB_PLACEHOLDER, Absent if the attribute is not below the node; or      *)
(* NoRows if the node produced nothing.  A tuplestore holds the Row of the *)
(* pass that filled it.  Rescans are lazy, as in the executor: a node with *)
(* chgParam set is rescanned when it is next pulled.                       *)
(***************************************************************************)
EXTENDS DrbTop, FiniteSets

CONSTANTS
    Nodes,      \* plan nodes below the top node, numbered in pre-order
    Root,       \* outerPlan of the DRB_TOP node
    Kids,       \* Kids[n]: the children of n (outer, inner, subplans)
    Kind,       \* "drb" (DrillBeyond join), "expand" (DrillBeyondExpand), "plan"
    ExpOf,      \* ExpOf[n]: the open attribute of a drb or expand node
    Strat,      \* Strat[e]: drb_strategy chosen by the planner for e
    DynOmega,   \* the GUC drb_enable_dynamic_omega
    Switching   \* the attributes whose observed selectivities make
                \* reconsiderStrategy's switch test true

NoExp == 0

ASSUME TreeAssumption ==
    /\ Nodes \subseteq Nat /\ IsFiniteSet(Nodes)
    /\ Root \in Nodes
    /\ Kids \in [Nodes -> SUBSET Nodes]
    /\ \A n \in Nodes : \A c \in Kids[n] : c > n
    /\ \A c \in Nodes \ {Root} : \E p \in Nodes : c \in Kids[p]
    /\ Kind \in [Nodes -> {"drb", "expand", "plan"}]
    /\ ExpOf \in [Nodes -> Exps \cup {NoExp}]
    /\ \A n \in Nodes : Kind[n] # "plan" <=> ExpOf[n] # NoExp
    /\ \A n \in Nodes : Kind[n] # "plan" => Cardinality(Kids[n]) = 1
    /\ \A e \in Exps : \E n \in Nodes : Kind[n] = "drb" /\ ExpOf[n] = e
    /\ Strat \in [Exps -> {"default", "placeholder"}]
    /\ DynOmega \in BOOLEAN
    /\ Switching \subseteq Exps

VARIABLES
    chg,        \* chg[n]: bit 128 of n's chgParam (a pending targeted rescan)
    fetched,    \* db_fetchedResult of a DrillBeyond node
    store,      \* tuplestorestate of a DrillBeyond node, tupstore of an expand node
    mat,        \* materialized flag of an expand node
    lastOut,    \* the Row the top received in the last pass
    strat       \* drb_strategy of the plan of a drb or expand node

pipeVars == <<chg, fetched, store, mat, lastOut, strat>>
vars == <<digit, tp, topPc, emitted, chg, fetched, store, mat, lastOut, strat>>

\* Values are integers so that TLC can compare them with the digits.
Tok == -1
Absent == -2
NoRows == [x \in Exps |-> -3]
Cleared == [x \in Exps |-> -4]
Vals == Digits \cup {Tok, Absent}
Rows == [Exps -> Vals]
Modes == {"first", "drb", "normal", "eof", "skip"}

PipeTypeOK ==
    /\ TypeOK
    /\ chg \in [Nodes -> BOOLEAN]
    /\ fetched \in [Nodes -> BOOLEAN]
    /\ store \in [Nodes -> Rows \cup {NoRows, Cleared}]
    /\ mat \in [Nodes -> BOOLEAN]
    /\ lastOut \in Rows \cup {NoRows}
    /\ strat \in [Nodes -> {"default", "placeholder"}]

----------------------------------------------------------------------------
(* The shape of the plan.                                                   *)

\* Subtree[n]: n and every node below it (children have larger numbers).
Subtree[n \in Nodes] == {n} \cup UNION {Subtree[c] : c \in Kids[n]}
SubtreeOf(n) == Subtree[n]
ParentOf == [n \in Nodes \ {Root} |-> CHOOSE p \in Nodes : n \in Kids[p]]
Parent(n) == ParentOf[n]
OuterOf(n) == CHOOSE c \in Kids[n] : TRUE
StratOf(n) == strat[n]
IsExpand2(n) == Kind[n] = "expand" /\ StratOf(n) = "placeholder"

\* Nodes are numbered in pre-order, so a subtree is an interval, and the
\* DrillBeyond nodes are met in the order of their attributes (the order of
\* drb_operator_states, i.e. of the odometer's digits).
ASSUME PreOrderAssumption ==
    /\ \A n \in Nodes : SubtreeOf(n) = n..(n + Cardinality(SubtreeOf(n)) - 1)
    /\ \A n, m \in Nodes : Kind[n] = "drb" /\ Kind[m] = "drb" =>
                            (n < m <=> ExpOf[n] < ExpOf[m])

\* _drb_set_chg_param: node n takes attribute e out of resetOps if it is a
\* DrillBeyond node of e, or an expand node of e not in DRB_DEFAULT.
Claims(n, e) == ExpOf[n] = e /\ (Kind[n] = "drb" \/ IsExpand2(n))

\* The traversal is pre-order and bms_del_member changes resetOps in place,
\* so only the first claiming node in pre-order takes e.
Claimant(e) == CHOOSE n \in Nodes : Claims(n, e) /\ \A m \in Nodes : Claims(m, e) => n <= m

\* A node gets bit 128 if it, or a node below it, took an attribute.
Marked(n, R) == \E e \in R : Claimant(e) \in SubtreeOf(n)

----------------------------------------------------------------------------
(* One pass.  Mode[n] is how n is entered: "first" (fresh, no rescan),     *)
(* "drb" (rescan with bit 128), "normal" (rescan without it), "eof"         *)
(* (pulled without a rescan after a finished pass: it returns NULL), or     *)
(* "skip" (not pulled at all in this pass).                                 *)

OuterChanged(n) == chg[OuterOf(n)]

\* A rescan with bit 128 that replays the store even when the outer plan
\* below has changed (the outer chgParam test dropped).
FetchedAfterAlwaysReplay(n, m) ==
    CASE m = "drb"    -> fetched[n]
      [] m = "normal" -> FALSE
      [] OTHER        -> fetched[n]

\* ExecReScanDrillBeyond: with bit 128 the store is replayed unless the
\* outer plan has bit 128 too; a normal rescan clears it.
FetchedAfter(n, m) ==
    CASE m = "drb"    -> fetched[n] /\ ~OuterChanged(n)
      [] m = "normal" -> FALSE
      [] OTHER        -> fetched[n]

\* ExecReScanDrillBeyondExpand: materialized is set when the outer plan is
\* invariant, and left as it is otherwise.
MatAfter(n, m) == IF m = "drb" /\ ~OuterChanged(n) THEN TRUE ELSE mat[n]

StoreAfter(n, m) ==
    IF (m = "drb" /\ OuterChanged(n)) \/ m = "normal" THEN Cleared ELSE store[n]

\* Whether n pulls its children in this pass, once rescanned in mode m.
PullsKids(n, m) ==
    /\ m \notin {"eof", "skip"}
    /\ CASE Kind[n] = "drb" -> ~FetchedAfter(n, m)
         [] IsExpand2(n)    -> ~MatAfter(n, m)
         [] OTHER           -> TRUE

\* Whether n's rescan calls ExecReScan on a child without bit 128.  Host
\* nodes do (SeqScan, NestLoop, Agg); a DrillBeyond node only in a normal
\* rescan; an expand node never.
RescansKids(n, m) ==
    CASE Kind[n] = "drb"    -> m = "normal"
      [] Kind[n] = "expand" -> FALSE
      [] OTHER              -> TRUE

KidMode(p, m, c) ==
    IF ~PullsKids(p, m) THEN "skip"
    ELSE IF m = "first" THEN "first"
    ELSE IF chg[c] THEN "drb"
    ELSE IF RescansKids(p, m) THEN "normal"
    ELSE "eof"

\* ExecReScan(outerNode) in drb_top, or the first ExecProcNode.
RootMode == IF emitted = <<>> THEN "first" ELSE IF chg[Root] THEN "drb" ELSE "normal"

Mode[n \in Nodes] ==
    IF n = Root THEN RootMode ELSE KidMode(Parent(n), Mode[Parent(n)], n)

\* The value slot of a DrillBeyond node: the candidate of the current digit
\* (DRB_DEFAULT) or the bundle pointer (DRB_PLACEHOLDER).
Attach(r, e, v) == [r EXCEPT ![e] = v]

\* drb_expand2: the token of e is replaced by the value of the current digit.
Substitute(r, e) == [x \in Exps |-> IF x = e /\ r[x] = Tok THEN digit[e] ELSE r[x]]

\* A host node joins the rows of its children.
Merge(rs) ==
    IF NoRows \in rs THEN NoRows
    ELSE [x \in Exps |-> IF \E r \in rs : r[x] # Absent
                         THEN (CHOOSE r \in rs : r[x] # Absent)[x]
                         ELSE Absent]

\* The rows the children of n output, given what every node outputs.
KidsOut(n, o) == {o[c] : c \in Kids[n]}

\* What n reads: its outer plan if it pulls it, else its store.
Input(n, outerOut) ==
    IF PullsKids(n, Mode[n]) THEN outerOut ELSE StoreAfter(n, Mode[n])

Pulled(n) == Mode[n] \notin {"skip", "eof"}

\* Phase 1 of DrillBeyond node n runs in this pass.
Fetches(n) == Kind[n] = "drb" /\ Pulled(n) /\ ~FetchedAfter(n, Mode[n])

\* An attribute whose plan has a drb_expandNode (big-omega).
HasExpandNode(e) == \E n \in Nodes : Kind[n] = "expand" /\ ExpOf[n] = e

\* The switch that sets only the DrillBeyond operator's strategy, leaving
\* its expand node in DRB_EXPAND2.
ReconsideredOpOnly(n) ==
    IF /\ DynOmega
       /\ Kind[n] = "drb"
       /\ ExpOf[n] \in Switching
       /\ HasExpandNode(ExpOf[n])
       /\ Fetches(n)
    THEN "default" ELSE strat[n]

\* reconsiderStrategy, called at the end of every phase 1: with
\* drb_enable_dynamic_omega and the switch test true it sets the strategy
\* of the operator and of its expand node to DRB_DEFAULT (never back).
\* Phase 2 of the operator already runs under the new strategy; the
\* expand node above has already entered drb_expand2.
Reconsidered(n) ==
    IF /\ DynOmega
       /\ Kind[n] # "plan"
       /\ ExpOf[n] \in Switching
       /\ HasExpandNode(ExpOf[n])
       /\ \E d \in Nodes : ExpOf[d] = ExpOf[n] /\ Fetches(d)
    THEN "default" ELSE strat[n]

\* What node n outputs in this pass, given what it reads (in) and what its
\* children output (kids).
NodeOut(n, in, kids) ==
    IF Mode[n] \in {"eof", "skip"} THEN NoRows
    ELSE IF Kind[n] = "plan" THEN Merge(kids)
    ELSE IF in \in {NoRows, Cleared} THEN NoRows
    ELSE IF Kind[n] = "drb"
         THEN Attach(in, ExpOf[n], IF Reconsidered(n) = "default" THEN digit[ExpOf[n]] ELSE Tok)
    ELSE IF IsExpand2(n) THEN Substitute(in, ExpOf[n])
    ELSE in

Out[n \in Nodes] == NodeOut(n, Input(n, Out[OuterOf(n)]), KidsOut(n, Out))

----------------------------------------------------------------------------

PipeInit ==
    /\ InitTop
    /\ chg = [n \in Nodes |-> FALSE]
    /\ fetched = [n \in Nodes |-> FALSE]
    /\ store = [n \in Nodes |-> Cleared]
    /\ mat = [n \in Nodes |-> FALSE]
    /\ lastOut = NoRows
    /\ strat = [n \in Nodes |-> IF Kind[n] = "plan" THEN "default" ELSE Strat[ExpOf[n]]]

\* The top pulls its outer plan to the end.  Every node reached is rescanned
\* (its chgParam is consumed), DrillBeyond nodes that pull fill their store
\* and set db_fetchedResult, expand nodes in drb_expand2 fill their
\* tupstore and set materialized when their input ends; reconsiderStrategy
\* may switch the strategies of the operators that ran phase 1.
Pass ==
    /\ TopPass
    /\ chg' = [n \in Nodes |-> IF Mode[n] = "skip" THEN chg[n] ELSE FALSE]
    /\ fetched' = [n \in Nodes |-> IF Kind[n] = "drb" /\ Pulled(n) THEN TRUE ELSE fetched[n]]
    /\ store' = [n \in Nodes |->
                    IF (Kind[n] = "drb" \/ IsExpand2(n)) /\ Pulled(n)
                    THEN Input(n, Out[OuterOf(n)])
                    ELSE store[n]]
    /\ mat' = [n \in Nodes |-> IF IsExpand2(n) /\ Pulled(n) THEN TRUE ELSE mat[n]]
    /\ lastOut' = Out[Root]
    /\ strat' = [n \in Nodes |-> Reconsidered(n)]

\* The odometer advances and drb_set_chg_param marks the claiming nodes and
\* every node above them.
Advance ==
    /\ TopAdvance
    /\ chg' = [n \in Nodes |-> chg[n] \/ Marked(n, ResetOps(digit))]
    /\ UNCHANGED <<fetched, store, mat, lastOut, strat>>

Finish ==
    /\ TopFinish
    /\ UNCHANGED pipeVars

Terminated ==
    /\ TopTerminated
    /\ UNCHANGED pipeVars

Next == Pass \/ Advance \/ Finish \/ Terminated

Spec == PipeInit /\ [][Next]_vars

----------------------------------------------------------------------------

\* Every pass delivers to the top the rows of the combination it is in:
\* each attribute's value is the candidate of its current digit (spec.md
\* 4.3 and 8.2: a replayed store gives what recomputation would give, and a
\* cleared store is refilled from upstream).
PassCorrect == topPc = "eof" => lastOut = digit

\* The operators whose digit the last odometer step changed: the ones it
\* reset to 0 and the one it incremented, i.e. every operator up to the
\* first nonzero digit.
ChangedOps(d) == {e \in Exps : \A i \in 1..(e - 1) : d[i] = 0}

\* Before every pass but the first, drb_set_chg_param has left bit 128 of
\* chgParam on every node above a node that reads an operator whose digit
\* the odometer changed, so that the lazy rescan reaches it (spec.md 4.4, step 3).
ChgCoversChangedOps ==
    topPc = "run" /\ emitted # <<>> =>
        \A e \in ChangedOps(digit), n \in Nodes : Claimant(e) \in SubtreeOf(n) => chg[n]
=============================================================================
