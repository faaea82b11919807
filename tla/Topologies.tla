----------------------------- MODULE Topologies -----------------------------
(***************************************************************************)
(* The topologies of configs/topologies other than the meshes of           *)
(* MeshTopology: the network that makeTopology() makes of a sequence of    *)
(* controllers, of a cluster or of CHI nodes.  A network is the number of  *)
(* its routers and two sets of links; the links' numbers and latencies are *)
(* left out.                                                               *)
(***************************************************************************)
EXTENDS Integers, Sequences, FiniteSets, Functions

Ext(node, router) == [node |-> node, router |-> router]
Hop(src, dst) == [src |-> src, dst |-> dst]

NoNetwork == [routers |-> 0, ext |-> {}, int |-> {}]

\* One router for each controller, and the external link that joins them.
OwnRouters(nodes) == {Ext(nodes[i], i - 1) : i \in 1 .. Len(nodes)}

\* The last router is the crossbar.
Crossbar(nodes) ==
  LET n == Len(nodes)
  IN  [routers |-> n + 1,
       ext     |-> OwnRouters(nodes),
       int     |-> UNION {{Hop(i, n), Hop(n, i)} : i \in 0 .. n - 1}]

CrossbarGarnet(nodes) ==
  [routers |-> 1,
   ext     |-> {Ext(nodes[i], 0) : i \in 1 .. Len(nodes)},
   int     |-> {}]

\* Every router is joined to every other one.
AllToAll(n) == {Hop(i, j) : i, j \in 0 .. n - 1} \ {Hop(i, i) : i \in 0 .. n - 1}

Pt2Pt(nodes) ==
  [routers |-> Len(nodes),
   ext     |-> OwnRouters(nodes),
   int     |-> AllToAll(Len(nodes))]

\* connectControllers() of the learning scripts' MyNetwork: the same.
MyNetwork(nodes) == Pt2Pt(nodes)

-----------------------------------------------------------------------------
(* Clusters.                                                               *)

\* A cluster of controllers and of clusters that have controllers only.
ClusterOf(nodes, clusters) == [nodes |-> nodes, clusters |-> clusters]

\* A cluster makes a router for itself before its members make theirs, and
\* joins each of them both ways.
Cluster(root) ==
  [routers |-> 1 + Len(root.clusters),
   ext     |-> {Ext(n, 0) : n \in root.nodes}
               \cup UNION {{Ext(n, k) : n \in root.clusters[k]} : k \in DOMAIN root.clusters},
   int     |-> UNION {{Hop(0, k), Hop(k, 0)} : k \in DOMAIN root.clusters}]

-----------------------------------------------------------------------------
(* CustomMesh, for CHI nodes: a node has a class and its controllers on    *)
(* the network's side; params has the size of the mesh and, for a class,   *)
(* the routers it is bound to and the number of nodes of a router (0 when  *)
(* not defined).                                                           *)

\* East, west, north and south.
MeshLinks(rows, cols) ==
  LET Joined(a, b) == b = a + cols \/ (b = a + 1 /\ b % cols # 0)
  IN  {l \in {Hop(a, b) : a, b \in 0 .. (rows * cols) - 1} :
         Joined(l.src, l.dst) \/ Joined(l.dst, l.src)}

CHIClasses == {"CHI_RNF", "CHI_HNF", "CHI_SNF_MainMem", "CHI_SNF_BootMem",
               "CHI_RNI_DMA", "CHI_RNI_IO"}

OfClass(nodes, class) == {k \in DOMAIN nodes : nodes[k].class = class}

\* How many nodes of its class come before a node.
Turn(nodes, k) == Cardinality({j \in OfClass(nodes, nodes[k].class) : j < k})

\* The nodes of one class: as many to each router as it says, or in turn.
DistributeNodes(where, turn) ==
  IF where.num_nodes_per_router # 0
    THEN where.router_list[(turn \div where.num_nodes_per_router) + 1]
    ELSE where.router_list[(turn % Len(where.router_list)) + 1]

\* Faulty variant: the new router sends to the mesh and gets nothing from it.
CreateRNFRouterOneWay(node_router, mesh_router) == {Hop(node_router, mesh_router)}

\* A new router, joined to a router of the mesh both ways.
CreateRNFRouter(node_router, mesh_router) ==
  {Hop(node_router, mesh_router), Hop(mesh_router, node_router)}

\* The controllers of a node go to its router: for an RNF, a new one of its own.
\* The RNFs are placed first, so that theirs come after those of the mesh.
CustomMesh(nodes, params) ==
  LET size           == params.num_rows * params.num_cols
      rnfs           == OfClass(nodes, "CHI_RNF")
      mesh_router(k) == DistributeNodes(params.bindings[nodes[k].class], Turn(nodes, k))
      node_router(k) == size + Turn(nodes, k)
      router(k)      == IF k \in rnfs THEN node_router(k) ELSE mesh_router(k)
  IN  [routers |-> size + Cardinality(rnfs),
       ext     |-> UNION {{Ext(c, router(k)) : c \in Range(nodes[k].cntrls)} : k \in DOMAIN nodes},
       int     |-> MeshLinks(params.num_rows, params.num_cols)
                   \cup UNION {CreateRNFRouter(node_router(k), mesh_router(k)) : k \in rnfs}]

\* A class of nodes that does not fill its routers as it says is refused; so
\* is a pairing, which is handed to lists that makeTopology does not have.
CustomMeshFails(nodes, params) ==
  \/ params.pairing
  \/ \E class \in CHIClasses :
       LET where == params.bindings[class]
           n     == Cardinality(OfClass(nodes, class))
       IN  /\ n # 0
           /\ where.num_nodes_per_router # 0
           /\ Len(where.router_list) * where.num_nodes_per_router # n
=============================================================================
