------------------------------ MODULE MCLogger ------------------------------
(* A ring of two of the longest entries.                                   *)
EXTENDS Logger

CONSTANTS w1, w2, r1

MCWriters == {w1, w2}

MCReaders == {r1}
=============================================================================
