--------------------------- MODULE MCMeshTopology ---------------------------
EXTENDS MeshTopology

M(c, n, rows, nodes) ==
  [class |-> c, num_cpus |-> n, mesh_rows |-> rows, nodes |-> nodes]

Repeat(type, n) == [i \in 1 .. n |-> type]

\* Meshes of every shape up to six routers, and shapes that do not fit;
\* with and without remaining DMA controllers or unknown ones.
Shapes == {<<1, 1>>, <<2, 1>>, <<4, 2>>, <<6, 2>>, <<6, 3>>, <<4, 0>>, <<4, 3>>, <<2, 3>>}

NodeLists(n) ==
  {Repeat("cache", n) \o Repeat("directory", n),
   Repeat("cache", n) \o Repeat("directory", n) \o <<"dma">>,
   <<"dma">> \o Repeat("cache", n),
   <<"directory">> \o Repeat("cache", n) \o Repeat("directory", 3),
   Repeat("cache", n) \o Repeat("directory", 4) \o <<"dma", "other">>}

MCMeshes == UNION {{M(c, s[1], s[2], l) : c \in Classes, l \in NodeLists(s[1])} : s \in Shapes}
=============================================================================
