----------------------------- MODULE MCGodView -----------------------------
(***************************************************************************)
(* The page with three submissions: the third may come while the second is *)
(* still running, because the first has ended.                             *)
(***************************************************************************)
EXTENDS GodView
=============================================================================
