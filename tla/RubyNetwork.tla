---------------------------- MODULE RubyNetwork -----------------------------
(***************************************************************************)
(* What building an interconnection network promises, whatever the         *)
(* protocol and the topology.  While the network is planned, controllers,  *)
(* routers and links may be added and none is taken away; the plan is      *)
(* given up, or the network is built once it is complete: every            *)
(* controller hangs off exactly one router, and every router can reach     *)
(* every other one.                                                        *)
(***************************************************************************)
EXTENDS FiniteSets

VARIABLES
  stage,       \* "planned", "built" or "failed"
  nodes,       \* the controllers
  routers,
  ext_links,   \* records with a node and a router
  int_links    \* records with a src and a dst

network == <<stage, nodes, routers, ext_links, int_links>>

OneRouterEach ==
  \A n \in nodes : Cardinality({l \in ext_links : l.node = n}) = 1

\* A link leaves every set of routers that is not all of them.
Connected ==
  \A S \in SUBSET routers :
    S \notin {{}, routers} => \E l \in int_links : l.src \in S /\ l.dst \notin S

Complete == OneRouterEach /\ Connected

-----------------------------------------------------------------------------
Init ==
  /\ stage = "planned"
  /\ ext_links = {}
  /\ int_links = {}

Add ==
  /\ stage = "planned"
  /\ stage' = "planned"
  /\ nodes \subseteq nodes'
  /\ routers \subseteq routers'
  /\ ext_links \subseteq ext_links'
  /\ int_links \subseteq int_links'

GiveUp == stage = "planned" /\ stage' = "failed"

Build ==
  /\ stage = "planned"
  /\ stage' = "built"
  /\ Complete
  /\ UNCHANGED <<nodes, routers, ext_links, int_links>>

Next == Add \/ GiveUp \/ Build

Spec == Init /\ [][Next]_network
=============================================================================
