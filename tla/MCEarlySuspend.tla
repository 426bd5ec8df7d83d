--------------------------- MODULE MCEarlySuspend ---------------------------
(* An instance of EarlySuspend for TLC.                                    *)
EXTENDS EarlySuspend

CONSTANTS h1, h2, h3

\* Three handlers, two of them on the same level.
MCHandlers == {h1, h2, h3}

MCLevel == [h \in MCHandlers |-> IF h = h1 THEN 50 ELSE 100]
=============================================================================
