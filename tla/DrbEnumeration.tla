--------------------------- MODULE DrbEnumeration ---------------------------
(***************************************************************************)
(* What the combination driver promises (spec.md 4.4, 8.1, 8.7): every     *)
(* combination of candidate indices of the open attributes is produced    *)
(* exactly once, in mixed-radix order with attribute 1 the least           *)
(* significant digit, and end-of-data is signalled only after the last.   *)
(* This is the abstract specification DrbTop is shown to implement.       *)
(***************************************************************************)
EXTENDS Naturals, Sequences

CONSTANTS N, MaxCands

\* produced: the combinations produced so far, in order; closed: end-of-data
VARIABLES produced, closed

Exps == 1..N
Digits == 0..(MaxCands - 1)
Combos == [Exps -> Digits]

\* c comes before d in mixed-radix order: they differ, and at the most
\* significant digit where they differ c is smaller.
Before(c, d) ==
    \E j \in Exps : /\ c[j] < d[j]
                    /\ \A i \in Exps : i > j => c[i] = d[i]

Seen == {produced[i] : i \in 1..Len(produced)}

\* The least combination not produced yet.
NextCombo ==
    CHOOSE c \in Combos \ Seen :
        \A d \in Combos \ Seen : c = d \/ Before(c, d)

Init ==
    /\ produced = <<>>
    /\ closed = FALSE

Produce ==
    /\ ~closed
    /\ Seen # Combos
    /\ produced' = Append(produced, NextCombo)
    /\ UNCHANGED closed

Close ==
    /\ ~closed
    /\ Seen = Combos
    /\ closed' = TRUE
    /\ UNCHANGED produced

Spec == Init /\ [][Produce \/ Close]_<<produced, closed>>

\* The enumeration does not stop while a combination is left or end-of-data
\* is still to be signalled.
FairSpec == Spec /\ WF_<<produced, closed>>(Produce \/ Close)
=============================================================================
