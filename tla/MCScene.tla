------------------------------- MODULE MCScene -------------------------------
(***************************************************************************)
(* The scene that rays are shot into: its import from a file (Import) and  *)
(* the hierarchy over its triangles (Bvh).  They share no state.           *)
(* MCLibrary has the instances for TLC.                                    *)
(***************************************************************************)
EXTENDS Integers, Sequences, FiniteSets

CONSTANTS MaxTriangles, Bins,                            \* of Bvh
          SceneSuffixes, SceneFiles, MeshIndices,        \* of Import
          Infinity, U16

VARIABLES nodes, tris, calls, ray, dfs, answer,                         \* Bvh
          suffix, gltf, importing, imported, irMesh, localPart, meshes,
          entities, capacity, entityBlock, collecting, roots, stale     \* Import

bvhVars == <<nodes, tris, calls, ray, dfs, answer>>
importVars == <<suffix, gltf, importing, imported, irMesh, localPart, meshes,
                entities, capacity, entityBlock, collecting, roots, stale>>

Tree == INSTANCE Bvh

Importer == INSTANCE Import WITH
  PathSuffixes <- SceneSuffixes, Files <- SceneFiles,
  pc <- importing, result <- imported, block <- entityBlock, calls <- collecting

\* A part of a mesh has fewer triangles than its count can tell.
ASSUME TreeAssumption == MaxTriangles \in Nat /\ U16 \in Nat /\ MaxTriangles < U16

\* Coordinates are floats, but not NaN.
ASSUME ImportAssumption ==
  Infinity \in Nat \ {0} /\ \A f \in SceneFiles : Importer!IsFile(f)
-----------------------------------------------------------------------------
\* The tree has every triangle once, below bounds that include it, and intersect finds
\* a hit exactly if there is one.
TreeSound == Tree!TypeOK /\ Tree!TreeSound /\ Tree!IntersectExact

\* Meshes and entities are those of the file, except the children of an entity that
\* moved while they were collected.
ImportSound == Importer!TypeOK /\ Importer!MeshesFaithful /\ Importer!EntitiesFaithful
=============================================================================
