---------------------------- MODULE MCDrbPipeline ----------------------------
(***************************************************************************)
(* Plan trees for DrbPipeline, numbered in pre-order.  The shapes are the  *)
(* ones drillbeyond_planner_phase_three builds: DrillBeyond joins inside    *)
(* the join tree, and, under big-omega, one DRB_EXPAND2 node per attribute *)
(* stacked above the whole join tree (the last attribute's on top).       *)
(***************************************************************************)
EXTENDS DrbPipeline

\* Three attributes in DRB_DEFAULT (selective, no pulled-up selection):
\*   1 Agg -> 2 DRB(1) -> 3 Join(4 DRB(2) -> 5 Scan, 6 Join(7 DRB(3) -> 8 Scan, 9 Scan))
DefNodes == 1..9
DefKids == [n \in DefNodes |->
              CASE n = 1 -> {2} [] n = 2 -> {3} [] n = 3 -> {4, 6}
                [] n = 4 -> {5} [] n = 6 -> {7, 9} [] n = 7 -> {8}
                [] OTHER -> {}]
DefKind == [n \in DefNodes |-> IF n \in {2, 4, 7} THEN "drb" ELSE "plan"]
DefExpOf == [n \in DefNodes |-> CASE n = 2 -> 1 [] n = 4 -> 2 [] n = 7 -> 3 [] OTHER -> NoExp]
DefStrat == [e \in 1..3 |-> "default"]

\* One attribute under big-omega: 1 Expand2(1) -> 2 DRB(1) -> 3 Scan.
OneNodes == 1..3
OneKids == [n \in OneNodes |-> IF n < 3 THEN {n + 1} ELSE {}]
OneKind == [n \in OneNodes |-> CASE n = 1 -> "expand" [] n = 2 -> "drb" [] OTHER -> "plan"]
OneExpOf == [n \in OneNodes |-> IF n < 3 THEN 1 ELSE NoExp]
OneStrat == [e \in 1..1 |-> "placeholder"]

\* Two attributes under big-omega:
\*   1 Expand2(2) -> 2 Expand2(1) -> 3 Join(4 DRB(1) -> 5 Scan, 6 DRB(2) -> 7 Scan)
TwoNodes == 1..7
TwoKids == [n \in TwoNodes |->
              CASE n = 1 -> {2} [] n = 2 -> {3} [] n = 3 -> {4, 6}
                [] n = 4 -> {5} [] n = 6 -> {7} [] OTHER -> {}]
TwoKind == [n \in TwoNodes |->
              CASE n \in {1, 2} -> "expand" [] n \in {4, 6} -> "drb" [] OTHER -> "plan"]
TwoExpOf == [n \in TwoNodes |-> CASE n \in {2, 4} -> 1 [] n \in {1, 6} -> 2 [] OTHER -> NoExp]
TwoStrat == [e \in 1..2 |-> "placeholder"]

\* Two attributes, the selective one in DRB_DEFAULT inside the join tree,
\* the other under big-omega:
\*   1 Expand2(1) -> 2 DRB(1) -> 3 DRB(2) -> 4 Scan
MixNodes == 1..4
MixKids == [n \in MixNodes |-> IF n < 4 THEN {n + 1} ELSE {}]
MixKind == [n \in MixNodes |->
              CASE n = 1 -> "expand" [] n \in {2, 3} -> "drb" [] OTHER -> "plan"]
MixExpOf == [n \in MixNodes |-> CASE n \in {1, 2} -> 1 [] n = 3 -> 2 [] OTHER -> NoExp]
MixStrat == [e \in 1..2 |-> IF e = 1 THEN "placeholder" ELSE "default"]
=============================================================================
