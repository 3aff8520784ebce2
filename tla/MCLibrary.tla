------------------------------ MODULE MCLibrary ------------------------------
(***************************************************************************)
(* The instances for TLC of the life of jobs and of what runs in jobs and  *)
(* around them: the owners of MCOwners, the storage of MCStorage, the log, *)
(* the scene of MCScene and rays.                                          *)
(* They share no state; a behaviour runs the one that part names and       *)
(* leaves the others where they start.                                     *)
(***************************************************************************)
EXTENDS JobSystem, MCOwners, MCStorage, MCScene, TLC

CONSTANTS NaN, NegZero

VARIABLES part,
          pattern, map, lexed, formatters, result, out,                 \* Log
          shot, triangle, limit, told, yes                             \* Ray

logVars == <<pattern, map, lexed, formatters, result, out>>
rayVars == <<shot, triangle, limit, told, yes>>

ShortWrites == {<<1>>, <<1, 2>>}

PathCharacters == {"/", "\\", ".", "a"}

ShortTexts == UNION {[1 .. n -> PathCharacters] : n \in 0 .. 2}

ShortComponents == {<<"a">>, <<"a", "a">>}

\* Padding can reach 255 and go beyond it.
Patterns ==
  UNION {[1 .. n -> {"%", "-", "2", "6", "v", "#", "x"}] : n \in 0 .. 4}
    \cup {<<"%", "-", "2", "5", d, c>> : d \in {"5", "6"}, c \in {"v", "#"}}

Digit == [c \in {"2", "5", "6"} |-> CASE c = "2" -> 2 [] c = "5" -> 5 [] c = "6" -> 6]

Logger == INSTANCE Log WITH
  Builtin <- {"v", "#"}, UserFlags <- {"v", "x"}, Lengths <- {0, 3}, Lines <- {9, 10, 42, 100},
  i <- lexed

\* All forests of four nodes, one without a mesh, as one scene or as the same one twice.
Forests ==
  {LET Below(n) == SetToSortSeq({c \in 1 .. 4 : above[c] = n}, <)
   IN  [children |-> [n \in 1 .. 4 |-> Below(n)], mesh |-> <<1, -1, 1, 0>>,
        scenes |-> [s \in 1 .. k |-> Below(0)], meshes |-> <<>>] :
     above \in {f \in [1 .. 4 -> 0 .. 3] : \A n \in 1 .. 4 : f[n] < n}, k \in 1 .. 2}

\* Triangles, with two indices left over or not, packed and not.
Primitives ==
  {[size |-> bytes, stride |-> bytes + gap, count |-> n, positions |-> zs,
    bytes |-> [k \in 1 .. n * (bytes + gap) |-> k]] :
     bytes \in {1, 2, 4}, gap \in {0, 2}, n \in {3, 5}, zs \in {<<>>, <<1, -2>>}}

Models ==
  {[children |-> <<<<>>>>, mesh |-> <<0>>, scenes |-> <<<<1>>>>, meshes |-> <<<<p1>>, <<p2, p1>>>>] :
     p1, p2 \in Primitives}

ForestsAndModels == Forests \cup Models

\* From before, at a face of, inside and behind the bounds, in all directions.
Shots ==
  {r \in [o : [1 .. 3 -> {-1, 0, 1, 3}], d : [1 .. 3 -> {-2, -1, 0, NegZero, 1}]] :
     \E k \in 1 .. 3 : r.d[k] \notin {0, NegZero}}

\* One of them is flat and faces up.
Targets ==
  {<<<<0, 0, 0>>, <<2, 2, 0>>, <<2, 0, 2>>>>, <<<<2, 0, 0>>, <<2, 2, 2>>, <<0, 2, 1>>>>,
   <<<<0, 0, 0>>, <<2, 0, 0>>, <<0, 2, 0>>>>}

Geometry == INSTANCE Ray WITH
  Rays <- Shots, Triangles <- Targets, Limits <- {2, Infinity},
  Unit <- 2, Horizon <- 12, ray <- shot, asked <- told

\* Threads of one kind are alike, and so are slots.
Symmetry == Permutations(Workers) \cup Permutations(Users) \cup Permutations(Slots)
-----------------------------------------------------------------------------
Parts ==
  {"jobs", "pointer", "unique", "program", "memory", "vector", "path", "log", "files", "import",
   "tree", "ray"}

\* A part that does not run starts in one state only; its paths were moved from, about
\* which there is less to evaluate.
LibraryInit ==
  /\ part \in Parts
  /\ Init
  /\ (part # "pointer" => threadSafe = TRUE) /\ PointerInit
  /\ (part # "unique" => array = FALSE) /\ Unique!Init
  /\ Program!Init
  /\ Mem!Init
  /\ (part # "vector" => trivial = TRUE /\ storage = [v \in Vectors |-> "heap"]) /\ Vec!Init
  /\ IF part = "path" THEN Paths!Init ELSE data = [p \in PathNames |-> <<>>]
  /\ (part # "log" => pattern = <<>> /\ map = Logger!Registered({})) /\ Logger!Init
  /\ (part # "files" => node = [n \in FileNames |-> NoFile]) /\ FileSystem!Init
  /\ (part # "import" => suffix = "obj" /\ gltf = CHOOSE f \in Forests : TRUE) /\ Importer!Init
  /\ Tree!Init /\ (part # "tree" => Len(tris) = 1)
  /\ (part # "ray" => /\ shot = [o |-> <<0, 0, 0>>, d |-> <<1, 1, 1>>]
                      /\ triangle = <<<<0, 0, 0>>, <<2, 0, 0>>, <<0, 2, 0>>>> /\ limit = 2)
  /\ Geometry!Init

Runs(p) ==
  /\ part = p /\ UNCHANGED part
  /\ p # "jobs" => UNCHANGED vars
  /\ p # "pointer" => UNCHANGED pointerVars
  /\ p # "unique" => UNCHANGED uniqueVars
  /\ p # "program" => UNCHANGED programVars
  /\ p # "memory" => UNCHANGED memoryVars
  /\ p # "vector" => UNCHANGED vectorVars
  /\ p # "path" => UNCHANGED data
  /\ p # "log" => UNCHANGED logVars
  /\ p # "files" => UNCHANGED fileVars
  /\ p # "import" => UNCHANGED importVars
  /\ p # "tree" => UNCHANGED bvhVars
  /\ p # "ray" => UNCHANGED rayVars

LibraryNext ==
  \/ Runs("jobs") /\ Next
  \/ Runs("pointer") /\ PointerNext
  \/ Runs("unique") /\ Unique!Next
  \/ Runs("program") /\ Program!Next
  \/ Runs("memory") /\ Mem!Next
  \/ Runs("vector") /\ Vec!Next
  \/ Runs("path") /\ Paths!Next
  \/ Runs("log") /\ Logger!Next
  \/ Runs("files") /\ FileSystem!Next
  \/ Runs("import") /\ Importer!Next
  \/ Runs("tree") /\ Tree!Next
  \/ Runs("ray") /\ Geometry!Next

LibrarySpec ==
  LibraryInit /\ [][LibraryNext]_<<part, vars, pointerVars, uniqueVars, programVars, memoryVars,
                                   vectorVars, data, logVars, fileVars, importVars, bvhVars, rayVars>>
-----------------------------------------------------------------------------
\* What is computed of values: patterns are compiled as they are spelled and fields
\* are padded; the test of a bound finds each ray that passes it.
ValuesSound ==
  /\ part = "log" => Logger!TypeOK /\ Logger!PatternCompiled /\ Logger!FieldsPadded
  /\ part = "ray" => Geometry!BoundExact
=============================================================================
