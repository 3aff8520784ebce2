SPECIFICATION LibrarySpec
CONSTANTS
  Users = {u1, u2}
  Workers = {w1, w2}
  Slots = {s1, s2}
  Nil = Nil
  Salts = 3
  MaxJobs = 3
  Owners = {o1, o2}
  Watchers = {o2}
  Controllers = {c1, c2}
  First = c1
  MaxLost = 1
  Blocks = {b1, b2}
  Sizes = {0, 1, 20, 40}
  Alignments = {8, 16, 64}
  Vectors = {v1, v2}
  Values = {0, 1}
  Default = 0
  Raw = Raw
  Inline = 2
  MaxSize = 3
  PathNames = {p, q}
  Characters <- PathCharacters
  PathTexts <- ShortTexts
  PathComponents <- ShortComponents
  PathLength = 4
  Variables = {x1, x2}
  Objects = {y1, y2, y3}
  nullptr = nullptr
  FileUsers = {f1, f2}
  FileNames = {file}
  NoFile = NoFile
  DirEntry = DirEntry
  FileWrites <- ShortWrites
  FileLength = 2
  FileReads = 2
  MaxTriangles = 4
  Bins = 3
  SceneSuffixes = {"glb", "obj"}
  SceneFiles <- ForestsAndModels
  MeshIndices = {0, 1}
  Infinity = 1000
  U16 = 8
  NaN = NaN
  NegZero = NegZero
SYMMETRY Symmetry
INVARIANTS
  JobsCounted
  RunsAfterDependees
  WaitMeansDone
  NoJobForgotten
  PointersSound
  OwnersSound
  StorageSound
  
  FilesSound
  ImportSound
  
 
