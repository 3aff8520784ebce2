SPECIFICATION Spec
CONSTANTS
  Users = {u1, u2}
  Workers = {w1, w2}
  Slots = {s1, s2}
  Nil = Nil
  Salts = 3
  MaxJobs = 3
SYMMETRY Symmetry
INVARIANT DependsOnDependee
