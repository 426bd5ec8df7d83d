--------------------------- MODULE MCPowerSystem ----------------------------
(* An instance of PowerSystem for TLC.                                     *)
EXTENDS PowerSystem

MCLevel == [h \in Handlers |-> 100]
=============================================================================
