--------------------------- MODULE McpAggregator ---------------------------
(***************************************************************************)
(* Tools of upstream MCP servers (orchestrator/mcp_aggregator.py): the     *)
(* registered upstreams, discovery at start-up, and the routing of a       *)
(* namespaced call. Upstreams are external: one may fail to list its       *)
(* tools. A name is a sequence of words and underscores. Abstracted:       *)
(* descriptions, schemas and the MCP sessions.                             *)
(***************************************************************************)
EXTENDS Integers, Sequences, FiniteSets

CONSTANTS Settings \* the possible MCP_UPSTREAMS: sequences of [name, tools]

Name == Seq(STRING)
Upstream == [name : Name, tools : Seq(Name)]
ASSUME SettingsAssumption == Settings \subseteq Seq(Upstream)

VARIABLES
    upstreams, \* _upstreams: a dict, in the order of first registration
    position,  \* the upstream that discover asks next
    listed,    \* history: the upstreams that answered
    routes,    \* _tools: namespaced name -> <<upstream, tool>>
    specs      \* _specs: the declared names, in order

aggregator == <<upstreams, position, listed, routes, specs>>

\* add: a later upstream of the same name takes the place of the earlier one.
Registered(setting) ==
    LET first == {i \in DOMAIN setting : \A j \in 1 .. i - 1 : setting[j].name # setting[i].name}
        At(p) == CHOOSE i \in first : Cardinality({j \in first : j <= i}) = p
        Last(name) == CHOOSE i \in DOMAIN setting :
                        setting[i].name = name /\ \A j \in DOMAIN setting : setting[j].name = name => j <= i
    IN [p \in 1 .. Cardinality(first) |-> setting[Last(setting[At(p)].name)]]

AggregatorInit ==
    /\ \E setting \in Settings : upstreams = Registered(setting)
    /\ position = 1
    /\ listed = {}
    /\ routes = <<>>
    /\ specs = <<>>

\* Faulty variant: a single underscore, like inside the names of the built-ins.
NamespacedShort(u, t) == u \o <<"_">> \o t

Namespaced(u, t) == u \o <<"_", "_">> \o t

Route(u, t) == <<u, t>>

\* discover, one upstream: its tools are declared, and take over the routes of
\* equal names.
Lists ==
    /\ position <= Len(upstreams)
    /\ LET up == upstreams[position]
           new == [i \in DOMAIN up.tools |-> Namespaced(up.name, up.tools[i])]
           names == {new[i] : i \in DOMAIN new}
       IN /\ specs' = specs \o new
          /\ routes' = [n \in DOMAIN routes \cup names |->
                          IF n \in names
                          THEN Route(up.name, up.tools[CHOOSE i \in DOMAIN new : new[i] = n])
                          ELSE routes[n]]
    /\ listed' = listed \cup {position}
    /\ position' = position + 1
    /\ UNCHANGED upstreams

\* An upstream that raises is skipped.
ListingFails ==
    /\ position <= Len(upstreams)
    /\ position' = position + 1
    /\ UNCHANGED <<upstreams, listed, routes, specs>>

Discovered == position > Len(upstreams)
IsAggregated(n) == n \in DOMAIN routes
Declared == {specs[i] : i \in DOMAIN specs}
=============================================================================
