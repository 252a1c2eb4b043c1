---------------------------- MODULE MCAgentTools ----------------------------
(***************************************************************************)
(* Instances of AgentTools for TLC. The settings hold an upstream whose    *)
(* name contains a double underscore, names that collide with those of     *)
(* another upstream, a name registered twice, and an upstream and a tool   *)
(* that together resemble a built-in tool.                                 *)
(***************************************************************************)
EXTENDS AgentTools

CONSTANTS c1, c2, n1
MCClients == {c1, c2}
MCNames == {n1}

Up(name, tools) == [name |-> name, tools |-> tools]
MCSettings ==
    { <<Up(<<"a">>, << <<"b">>, <<"b", "_", "_", "c">> >>),
        Up(<<"a", "_", "_", "b">>, << <<"c">>, <<"d">> >>)>>,
      <<Up(<<"save">>, << <<"skill">> >>), Up(<<"a">>, << <<"b">> >>),
        Up(<<"save">>, << <<"draft">>, <<"skill">> >>)>> }
=============================================================================
