-------------------------------- MODULE Import --------------------------------
(***************************************************************************)
(* The import of a glTF file: TemplateAssetBuilder::build and the builder  *)
(* behind it, which collects the parts of the meshes and then the trees of *)
(* nodes.                                                                  *)
(*                                                                         *)
(* The file is what cgltf makes of it.  A transform is the node it was     *)
(* computed from, a position its z coordinate; buffers are bytes.  Every   *)
(* primitive has indices, as the code takes for granted.                   *)
(***************************************************************************)
EXTENDS Integers, Sequences, FiniteSets, SequencesExt

CONSTANTS PathSuffixes, \* of paths, "gltf" and "glb" are supported
          Files,        \* what files may contain; see IsFile
          MeshIndices,  \* of entities
          Infinity,     \* of floats; -Infinity is the other one
          U16           \* how many numbers a u16 can tell

VARIABLES suffix,
          gltf,         \* the parsed file
          pc,           \* how far build() is
          result,
          irMesh, localPart, \* parts collected of the mesh at hand; counts its primitives
          meshes,       \* outIr.meshes
          entities,     \* outIr.entities
          capacity, block, \* of entities, and which block of memory it is
          calls,        \* of collectEntityTree: the frames
          roots,        \* how many roots of the scenes were collected
          stale         \* indices of entities written to after they had moved

meshVars == <<irMesh, localPart, meshes>>
entityVars == <<entities, capacity, block, calls, roots, stale>>
vars == <<suffix, gltf, pc, result, meshVars, entityVars>>

\* An accessor has the bytes of count components, each stride behind the one before.
Primitive(p) ==
  /\ p.size \in {1, 2, 4} /\ p.stride \in Nat /\ p.stride >= p.size /\ p.count \in Nat
  /\ p.bytes \in Seq(0 .. 255) /\ Len(p.bytes) = p.count * p.stride
  /\ p.positions \in Seq(-Infinity .. Infinity)

\* children[n] lists the child nodes, mesh[n] is an index or -1.
IsFile(f) ==
  /\ f.children \in [DOMAIN f.children -> Seq(DOMAIN f.children)]
  /\ f.mesh \in [DOMAIN f.children -> MeshIndices \cup {-1}]
  /\ f.scenes \in Seq(Seq(DOMAIN f.children))
  /\ DOMAIN f.meshes = 1 .. Len(f.meshes) /\ Len(f.meshes) \in Nat
  /\ \A m \in 1 .. Len(f.meshes) :
       /\ DOMAIN f.meshes[m] = 1 .. Len(f.meshes[m]) /\ Len(f.meshes[m]) \in Nat
       /\ \A k \in 1 .. Len(f.meshes[m]) : Primitive(f.meshes[m][k])

Init ==
  /\ suffix \in PathSuffixes /\ gltf \in Files
  /\ pc = "start" /\ result = "none"
  /\ irMesh = <<>> /\ localPart = 1 /\ meshes = <<>>
  /\ entities = <<>> /\ capacity = 0 /\ block = 0
  /\ calls = <<>> /\ roots = 0 /\ stale = {}

Return(r) == pc' = "done" /\ result' = r

Supported == suffix \in {"gltf", "glb"}

\* What openFile and read of the file may fail with.
ReadErrors == {"eDoesNotExist", "eInvalidPermission", "assert"}

\* toResult: of the errors of cgltf only three have a Result, the others fail an assert.
CgltfErrors == {"eInvalidParam", "eNotFound", "eOutOfCapactiy", "assert"}

\* The file is read and parsed, and its buffers are loaded.
Load ==
  /\ pc = "start"
  /\ IF Supported
     THEN \/ \E r \in ReadErrors \cup CgltfErrors : Return(r)
          \/ pc' = "meshes" /\ UNCHANGED result
     ELSE Return("eInvalidParam")
  /\ UNCHANGED <<suffix, gltf, meshVars, entityVars>>
-----------------------------------------------------------------------------
(* collectMeshes: one action per primitive and one per mesh *)

\* (mutant of Components) The source is taken for tightly packed.
ComponentsPacked(p) == [k \in 1 .. p.count * p.size |-> p.bytes[k]]

\* The bytes of the components, without those between them.
Components(p) ==
  [k \in 1 .. p.count * p.size |->
     p.bytes[((k - 1) \div p.size) * p.stride + ((k - 1) % p.size) + 1]]

\* readAccessorData<u16>: they are stored one behind the other, however few bytes
\* each has, in a buffer of zeros.
ReadAccessorData(p) ==
  LET dst == Components(p) \o [k \in 1 .. p.count * (2 - p.size) |-> 0]
  IN  [i \in 1 .. p.count |-> dst[2 * i - 1] + 256 * dst[2 * i]]

\* Of each three indices the last two change places.
Mirrored(indices) ==
  LET whole == Len(indices) - (Len(indices) % 3)
  IN  [i \in DOMAIN indices |->
         indices[IF i > whole \/ i % 3 = 1 THEN i ELSE IF i % 3 = 2 THEN i + 1 ELSE i - 1]]

toMkVec(z) == -z

\* Bound::toInclude
ToInclude(bound, z) ==
  [min |-> IF z < bound.min THEN z ELSE bound.min, max |-> IF z > bound.max THEN z ELSE bound.max]

EmptyBound == [min |-> Infinity, max |-> -Infinity]

LocalBound(positions) ==
  LET bound[k \in 0 .. Len(positions)] ==
        IF k = 0 THEN EmptyBound ELSE ToInclude(bound[k - 1], positions[k])
  IN  bound[Len(positions)]

Mesh == gltf.meshes[Len(meshes) + 1]

\* The check lets every component smaller than a u32 pass.
CollectPart ==
  LET p == Mesh[localPart]
      positions == [i \in DOMAIN p.positions |-> toMkVec(p.positions[i])]
  IN  /\ pc = "meshes" /\ Len(meshes) < Len(gltf.meshes) /\ localPart <= Len(Mesh)
      /\ IF p.size >= 4
         THEN Return("eInvalidParam") /\ UNCHANGED <<irMesh, localPart>>
         ELSE /\ irMesh' = Append(irMesh, [positions |-> positions,
                                           indices |-> Mirrored(ReadAccessorData(p)),
                                           localBound |-> LocalBound(positions)])
              /\ localPart' = localPart + 1
              /\ UNCHANGED <<pc, result>>
      /\ UNCHANGED <<suffix, gltf, meshes, entityVars>>

PushMesh ==
  /\ pc = "meshes" /\ Len(meshes) < Len(gltf.meshes) /\ localPart > Len(Mesh)
  /\ meshes' = Append(meshes, irMesh)
  /\ irMesh' = <<>> /\ localPart' = 1
  /\ UNCHANGED <<suffix, gltf, pc, result, entityVars>>

MeshesCollected ==
  /\ pc = "meshes" /\ Len(meshes) = Len(gltf.meshes)
  /\ pc' = "entities"
  /\ UNCHANGED <<suffix, gltf, result, meshVars, entityVars>>
-----------------------------------------------------------------------------
(* collectEntities and collectEntityTree *)

\* EnsureCapacity of Vector: realloc may or may not move the block.
Grown(n) ==
  IF n <= capacity THEN capacity
  ELSE IF (capacity * 3) \div 2 > n THEN (capacity * 3) \div 2 ELSE n

\* The call pushes the entity of the node and keeps a reference to it.  The index
\* of the mesh of a node without one is the difference of unrelated pointers.
Collect(n) ==
  /\ \E i \in IF gltf.mesh[n] = -1 THEN MeshIndices ELSE {gltf.mesh[n]} :
       entities' = Append(entities, [transform |-> n, meshIndex |-> i, children |-> <<>>])
  /\ capacity' = Grown(Len(entities) + 1)
  /\ block' \in IF capacity' = capacity THEN {block} ELSE {block, block + 1}
  /\ calls' = Append(calls, [index |-> Len(entities), entity |-> block', node |-> n, child |-> 0])
  /\ UNCHANGED <<suffix, gltf, pc, result, meshVars, stale>>

AllRoots == FlattenSeq(gltf.scenes)

CollectRoot ==
  /\ pc = "entities" /\ calls = <<>> /\ roots < Len(AllRoots)
  /\ roots' = roots + 1
  /\ Collect(AllRoots[roots + 1])

CollectChild ==
  LET frame == Last(calls)
  IN  /\ pc = "entities" /\ calls # <<>> /\ frame.child < Len(gltf.children[frame.node])
      /\ UNCHANGED roots
      /\ Collect(gltf.children[frame.node][frame.child + 1])

\* The caller writes the index through its reference: to the entity, unless the
\* block has moved meanwhile.  An index is a u16.
ReturnIndex ==
  LET frame == Last(calls)
      caller == Last(Front(calls))
  IN  /\ pc = "entities" /\ calls # <<>> /\ frame.child = Len(gltf.children[frame.node])
      /\ IF Len(calls) = 1 THEN calls' = <<>> /\ UNCHANGED <<entities, stale>>
         ELSE /\ calls' = Append(Front(Front(calls)), [caller EXCEPT !.child = @ + 1])
              /\ IF caller.entity = block
                 THEN /\ entities' = [entities EXCEPT ![caller.index + 1].children =
                                                        Append(@, frame.index % U16)]
                      /\ UNCHANGED stale
                 ELSE stale' = stale \cup {caller.index} /\ UNCHANGED entities
      /\ UNCHANGED <<suffix, gltf, pc, result, meshVars, capacity, block, roots>>

EntitiesCollected ==
  /\ pc = "entities" /\ calls = <<>> /\ roots = Len(AllRoots)
  /\ Return("eOk")
  /\ UNCHANGED <<suffix, gltf, meshVars, entityVars>>

Done == pc = "done" /\ UNCHANGED vars

Next ==
  \/ Load \/ CollectPart \/ PushMesh \/ MeshesCollected
  \/ CollectRoot \/ CollectChild \/ ReturnIndex \/ EntitiesCollected \/ Done

Spec == Init /\ [][Next]_vars
-----------------------------------------------------------------------------
TypeOK ==
  /\ pc \in {"start", "meshes", "entities", "done"}
  /\ (result = "none") = (pc # "done")
  /\ Len(meshes) <= Len(gltf.meshes) /\ Len(entities) <= capacity
  /\ \A frame \in Range(calls) : frame.index \in 0 .. Len(entities) - 1
  /\ stale \subseteq 0 .. Len(entities) - 1

\* The mesh is mirrored: every triangle changes its winding with the sign of z, and
\* the bound holds the positions after the change.  Indices are those of the file
\* if they are two bytes wide.
PartFaithful(p, part) ==
  LET index(i) == p.bytes[(i - 1) * p.stride + 1] + 256 * p.bytes[(i - 1) * p.stride + 2]
      zs == Range(part.positions)
  IN  /\ p.size = 2 =>
           /\ Len(part.indices) = p.count
           /\ \A t \in 1 .. p.count \div 3 : LET i == 3 * t - 2 IN
                SubSeq(part.indices, i, i + 2) = <<index(i), index(i + 2), index(i + 1)>>
           /\ \A i \in 3 * (p.count \div 3) + 1 .. p.count : part.indices[i] = index(i)
      /\ Len(part.positions) = Len(p.positions)
      /\ \A i \in DOMAIN p.positions : part.positions[i] + p.positions[i] = 0
      /\ IF zs = {} THEN part.localBound = EmptyBound
         ELSE /\ {part.localBound.min, part.localBound.max} \subseteq zs
              /\ \A z \in zs : part.localBound.min <= z /\ z <= part.localBound.max

\* A mesh is kept whole or not at all, and entities only if all meshes are.
MeshesFaithful ==
  /\ \A m \in DOMAIN meshes :
       /\ Len(meshes[m]) = Len(gltf.meshes[m])
       /\ \A k \in DOMAIN meshes[m] : PartFaithful(gltf.meshes[m][k], meshes[m][k])
  /\ entities # <<>> \/ result = "eOk" => Len(meshes) = Len(gltf.meshes)

\* The entities are the nodes of the scenes, each before its children and with the
\* mesh of its node.  One that did not move while its children were collected has
\* them in order, and no other entity has them, if a u16 can tell their indices.
EntitiesFaithful ==
  LET kept(k) == entities[k].children
      whole == {k \in DOMAIN entities : k - 1 \notin stale /\ \A f \in Range(calls) : f.index # k - 1}
  IN  Len(entities) <= U16 =>
      /\ \A k \in DOMAIN entities :
           LET n == entities[k].transform IN
             /\ gltf.mesh[n] # -1 => entities[k].meshIndex = gltf.mesh[n]
             /\ \A c \in Range(kept(k)) : c + 1 > k /\ entities[c + 1].transform \in Range(gltf.children[n])
      /\ \A k \in whole :
           [j \in DOMAIN kept(k) |-> entities[kept(k)[j] + 1].transform] = gltf.children[entities[k].transform]
      /\ \A k, l \in DOMAIN entities : k # l => Range(kept(k)) \cap Range(kept(l)) = {}
=============================================================================
