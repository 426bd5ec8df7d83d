---------------------------- MODULE MCSuspendCore ---------------------------
(***************************************************************************)
(* An instance of SuspendCore: a device, its child and a device of its own. *)
(***************************************************************************)
EXTENDS SuspendCore

CONSTANTS d1, d2, d3

MCDevices == {d1, d2, d3}

MCParent == [d \in MCDevices |-> IF d = d2 THEN d1 ELSE NoDevice]

MCGovernors == {"performance", "userspace", "conservative"}
=============================================================================
