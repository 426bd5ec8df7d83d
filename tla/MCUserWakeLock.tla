--------------------------- MODULE MCUserWakeLock ---------------------------
(* Instances of UserWakeLock for TLC.                                      *)
EXTENDS UserWakeLock

\* One name begins with the other.
MCNames == {<<1>>, <<1, 2>>}

\* Values of a u64 around the limits of a jiffy and of the time-outs that fit
\* a long.
MCFits == {0, 1, 3, 6}

\* All values.
MCAll == 0 .. (U64 - 1)
=============================================================================
