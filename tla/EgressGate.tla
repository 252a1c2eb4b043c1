----------------------------- MODULE EgressGate -----------------------------
(***************************************************************************)
(* What the human-approval gate promises (sandbox/egress_approval.py,      *)
(* "every new outbound domain is gated by a person"): the proxy permits a  *)
(* host only when the configuration or a person's approval admits it.      *)
(* The grants live as long as the process.                                 *)
(***************************************************************************)
CONSTANTS Hosts, Names, Configured, Admits(_, _)

VARIABLES
    granted,  \* the configured names and those a person approved
    permitted \* the hosts the proxy has opened a connection to

gvars == <<granted, permitted>>

Init == granted = Configured /\ permitted = {}

Approve ==
    /\ \E n \in Names : granted' = granted \cup {n}
    /\ UNCHANGED permitted

Permit ==
    /\ \E h \in Hosts :
        /\ \E n \in granted : Admits(n, [form |-> "plain", host |-> h])
        /\ permitted' = permitted \cup {h}
    /\ UNCHANGED granted

\* A restart: the grants are forgotten, the connections are cut.
Restart == granted' = Configured /\ permitted' = {}

Next == Approve \/ Permit \/ Restart

Spec == Init /\ [][Next]_gvars
=============================================================================
