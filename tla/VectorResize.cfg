SPECIFICATION Spec
CONSTANTS
  Vectors = {v1}
  Values = {0, 1}
  Default = 0
  Raw = Raw
  Inline = 2
  MaxSize = 3
  ShrinksAny = TRUE
INVARIANT ShrinkDestructs
