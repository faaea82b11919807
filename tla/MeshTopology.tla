---------------------------- MODULE MeshTopology ----------------------------
(***************************************************************************)
(* configs/topologies: makeTopology() of Mesh_XY, Mesh_westfirst and       *)
(* MeshDirCorners_XY.  Controllers are attached to routers by external     *)
(* links, then the routers are joined by internal links, one loop over the *)
(* mesh for each direction.  The weight of a link makes the network prefer *)
(* a direction.                                                            *)
(***************************************************************************)
EXTENDS Integers, Sequences, FiniteSets

CONSTANT Meshes    \* the options: [class, num_cpus, mesh_rows, nodes]

Classes    == {"Mesh_XY", "Mesh_westfirst", "MeshDirCorners_XY"}
Directions == {"East", "West", "North", "South"}
NodeTypes  == {"cache", "directory", "dma", "other"}

ASSUME MeshAssumption ==
  Meshes \subseteq [class : Classes, num_cpus : Nat \ {0}, mesh_rows : Nat,
                    nodes : Seq(NodeTypes)]

VARIABLES
  mesh,
  pc,          \* "check", "attach", a direction, "built" or "failed"
  at,          \* the position of the current loop
  link_count,
  ext_links,   \* [id, node, router]: node is an index of mesh.nodes
  int_links    \* [id, src, dst, direction, weight]

topology == <<mesh, pc, at, link_count, ext_links, int_links>>

num_routers == mesh.num_cpus
num_rows    == mesh.mesh_rows
num_columns == num_routers \div num_rows
Routers     == 0 .. num_routers - 1

-----------------------------------------------------------------------------
(* Attaching the controllers.                                              *)

\* The nodes of these types, in the order of the list: the k-th is the one
\* with k of them up to it.
Indices(m, types) ==
  LET S == {i \in 1 .. Len(m.nodes) : m.nodes[i] \in types}
  IN  [k \in 1 .. Cardinality(S) |->
         CHOOSE i \in S : Cardinality({j \in S : j <= i}) = k]

\* The nodes beyond a multiple of the number of routers, at the end.
Remainder == Len(mesh.nodes) % num_routers
IsRemainder(k) == k > Len(mesh.nodes) - Remainder

\* Faulty variant: the nodes are shared out evenly, and none beyond that.
OrderEven(m) ==
  [k \in 1 .. Len(m.nodes) - Remainder |-> Indices(m, NodeTypes)[k]]

\* The order in which the nodes are attached.  MeshDirCorners_XY knows cache,
\* directory and DMA controllers only.
Order(m) ==
  IF m.class = "MeshDirCorners_XY"
    THEN Indices(m, {"cache"}) \o Indices(m, {"directory"}) \o Indices(m, {"dma"})
    ELSE Indices(m, NodeTypes)

\* The directories of MeshDirCorners_XY go to the corners, in this order.
Corners == <<0, num_columns - 1, num_routers - num_columns, num_routers - 1>>

\* The router of the k-th node attached.
RouterOf(k) ==
  LET caches == Len(Indices(mesh, {"cache"}))
  IN  CASE mesh.class = "MeshDirCorners_XY" /\ k <= caches -> (k - 1) % num_routers
        [] mesh.class = "MeshDirCorners_XY" /\ k \in caches + 1 .. caches + 4 ->
             Corners[k - caches]
        [] mesh.class # "MeshDirCorners_XY" /\ ~IsRemainder(k) -> (k - 1) % num_routers
        [] OTHER -> 0

\* The assertions of makeTopology().
Mismatch ==
  \/ num_rows = 0
  \/ num_rows > num_routers
  \/ num_columns * num_rows # num_routers
  \/ /\ mesh.class = "MeshDirCorners_XY"
     /\ \/ Len(Indices(mesh, {"cache"})) % num_routers # 0
        \/ Len(Indices(mesh, {"directory"})) # 4

Init ==
  /\ mesh \in Meshes
  /\ pc = "check"
  /\ at = 0
  /\ link_count = 0
  /\ ext_links = {}
  /\ int_links = {}

Check ==
  /\ pc = "check"
  /\ pc' = IF Mismatch THEN "failed" ELSE "attach"
  /\ UNCHANGED <<mesh, at, link_count, ext_links, int_links>>

\* A remaining node must be a DMA controller.  MeshDirCorners_XY does not
\* count the links of its DMA controllers.
Attach ==
  /\ pc = "attach"
  /\ at < Len(Order(mesh))
  /\ LET k    == at + 1
         node == Order(mesh)[k]
         dma  == mesh.nodes[node] = "dma"
     IN  IF mesh.class # "MeshDirCorners_XY" /\ IsRemainder(k) /\ ~dma
           THEN pc' = "failed" /\ UNCHANGED <<at, link_count, ext_links>>
           ELSE /\ ext_links' = ext_links \cup
                     {[id |-> link_count, node |-> node, router |-> RouterOf(k)]}
                /\ link_count' = IF mesh.class = "MeshDirCorners_XY" /\ dma
                                   THEN link_count ELSE link_count + 1
                /\ at' = k
                /\ UNCHANGED pc
  /\ UNCHANGED <<mesh, int_links>>

-----------------------------------------------------------------------------
(* Joining the routers.                                                    *)

\* Faulty variant: no direction is preferred.
SameWeight(class, d) == 1

Weight(class, d) ==
  IF class = "Mesh_westfirst"
    THEN IF d = "West" THEN 1 ELSE 2
    ELSE IF d \in {"East", "West"} THEN 1 ELSE 2

\* The loops visit the mesh by rows for East and West, by columns for North
\* and South.
Column(d, p) == IF d \in {"East", "West"} THEN p % num_columns ELSE p \div num_rows
Row(d, p)    == IF d \in {"East", "West"} THEN p \div num_columns ELSE p % num_rows
Router(col, row) == col + row * num_columns

\* Faulty variant: the last neighbour is left out.
HasNextNeighbour(d, p) ==
  IF d \in {"East", "West"} THEN Column(d, p) + 2 < num_columns
                            ELSE Row(d, p) + 2 < num_rows

HasNeighbour(d, p) ==
  IF d \in {"East", "West"} THEN Column(d, p) + 1 < num_columns
                            ELSE Row(d, p) + 1 < num_rows
Near(d, p) == Router(Column(d, p), Row(d, p))
Far(d, p)  == IF d \in {"East", "West"} THEN Router(Column(d, p) + 1, Row(d, p))
                                        ELSE Router(Column(d, p), Row(d, p) + 1)

Link(d, p) ==
  [id |-> link_count, direction |-> d, weight |-> Weight(mesh.class, d),
   src |-> IF d \in {"East", "North"} THEN Near(d, p) ELSE Far(d, p),
   dst |-> IF d \in {"East", "North"} THEN Far(d, p) ELSE Near(d, p)]

\* The loop after the one that is done.
After(l) == CASE l = "attach" -> "East"
              [] l = "East"   -> "West"
              [] l = "West"   -> "North"
              [] l = "North"  -> "South"
              [] l = "South"  -> "built"

Join(d) ==
  /\ pc = d
  /\ at < num_routers
  /\ IF HasNeighbour(d, at)
       THEN /\ int_links' = int_links \cup {Link(d, at)}
            /\ link_count' = link_count + 1
       ELSE UNCHANGED <<int_links, link_count>>
  /\ at' = at + 1
  /\ UNCHANGED <<mesh, pc, ext_links>>

LoopEnd ==
  /\ \/ pc = "attach" /\ at = Len(Order(mesh))
     \/ pc \in Directions /\ at = num_routers
  /\ pc' = After(pc)
  /\ at' = 0
  /\ UNCHANGED <<mesh, link_count, ext_links, int_links>>

Build == Check \/ Attach \/ LoopEnd \/ \E d \in Directions : Join(d)

Spec == Init /\ [][Build]_topology

-----------------------------------------------------------------------------
(* Properties.                                                             *)

Links == ext_links \cup int_links

\* No two links of the network, external or internal, share an identifier.
UniqueLinkIds == \A k, l \in Links : k.id = l.id => k = l

\* The controllers that a mesh attaches: MeshDirCorners_XY leaves out the types
\* it does not know.
Attached ==
  {i \in 1 .. Len(mesh.nodes) : mesh.class = "MeshDirCorners_XY" => mesh.nodes[i] # "other"}

Network == INSTANCE RubyNetwork WITH
  stage     <- IF pc \in {"built", "failed"} THEN pc ELSE "planned",
  nodes     <- Attached,
  routers   <- Routers,
  ext_links <- {[node |-> l.node, router |-> l.router] : l \in ext_links},
  int_links <- {[src |-> l.src, dst |-> l.dst] : l \in int_links}

\* The meshes keep the promise of every topology: the loops over the nodes and
\* over the directions, which each add links of one kind, end in a network
\* that has every controller on one router and joins all routers both ways.
BuildsNetwork == Network!Spec

\* Routers next to each other in a row or a column.
Adjacent(a, b) ==
  \/ a \div num_columns = b \div num_columns /\ a - b \in {1, -1}
  \/ a - b \in {num_columns, -num_columns}

\* The routers form a mesh: one link each way between those next to each
\* other, and no other.  And where every link is counted, "link counter to set
\* unique link ids" holds; MeshDirCorners_XY does not count those of DMA
\* controllers.
JoinedAsMesh ==
  /\ (mesh.class = "MeshDirCorners_XY" => Indices(mesh, {"dma"}) = <<>>) =>
       UniqueLinkIds
  /\ pc = "built" =>
    \A a, b \in Routers :
      Cardinality({l \in int_links : l.src = a /\ l.dst = b})
        = IF a # b /\ Adjacent(a, b) THEN 1 ELSE 0
=============================================================================
