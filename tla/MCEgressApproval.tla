-------------------------- MODULE MCEgressApproval --------------------------
(***************************************************************************)
(* Instances of EgressApproval for TLC: a domain with a host below it,     *)
(* asked for as itself, as a wildcard, and with a final dot.               *)
(***************************************************************************)
EXTENDS EgressApproval, TLC

CONSTANTS a1, a2
MCAgents == {a1, a2}
\* Agents differ in nothing but their identity.
MCSymmetry == Permutations(MCAgents)

MCHosts == {"vendor", "api.vendor"}
MCUnder == [h \in MCHosts |-> IF h = "vendor" THEN {"api.vendor"} ELSE {}]
MCAsked == {[form |-> "plain", host |-> "api.vendor"],
            [form |-> "wild", host |-> "vendor"],
            [form |-> "rooted", host |-> "api.vendor"]}
MCConfigured == {[form |-> "plain", host |-> "vendor"]}
=============================================================================
