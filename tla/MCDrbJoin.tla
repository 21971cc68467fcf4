------------------------------ MODULE MCDrbJoin ------------------------------
(* Model values for DrbJoin: two join keys and the NULL key.               *)
EXTENDS DrbJoin

CONSTANTS k1, k2, knull

\* Keys of rows with a non-NULL join column only.
MCKeysNonNull == {k1, k2}

\* Keys including the NULL join value.
MCKeysWithNull == {k1, knull}
=============================================================================
