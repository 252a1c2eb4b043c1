---------------------------- MODULE MCKeyGateway ----------------------------
(***************************************************************************)
(* Instances of KeyGateway for TLC.                                        *)
(***************************************************************************)
EXTENDS KeyGateway

CONSTANT k1
MCKey == {k1}
MCCaps == {1, 2}
=============================================================================
