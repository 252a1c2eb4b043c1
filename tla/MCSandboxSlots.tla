--------------------------- MODULE MCSandboxSlots ---------------------------
(***************************************************************************)
(* Instances of SandboxSlots for TLC: more executions than slots.          *)
(***************************************************************************)
EXTENDS SandboxSlots

CONSTANTS e1, e2, e3
MCThree == {e1, e2, e3}
MCTwo == {e1, e2}
=============================================================================
