------------------------------ MODULE MCDrbTop ------------------------------
(* The combination driver alone, four open attributes with three candidates *)
(* each: 81 combinations, enough for every carry pattern of the odometer.   *)
EXTENDS DrbTop
=============================================================================
