------------------------------ MODULE MCFreezer -----------------------------
(* An instance of Freezer for TLC.                                         *)
EXTENDS Freezer

CONSTANTS s1, s2, s3, k1

MCSlots == {s1, s2, s3}

MCThreads == {k1}
=============================================================================
