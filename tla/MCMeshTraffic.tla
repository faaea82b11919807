--------------------------- MODULE MCMeshTraffic ---------------------------
EXTENDS MeshTraffic, MCMeshTopology

\* The smallest mesh with a cycle of links, once for each set of weights:
\* MeshDirCorners_XY has those of Mesh_XY.  It carries packets; the meshes of
\* MCMeshTopology are built only.
Square == {M(c, 4, 2, Repeat("cache", 4)) : c \in {"Mesh_XY", "Mesh_westfirst"}}

AllMeshes == MCMeshes \cup Square
=============================================================================
