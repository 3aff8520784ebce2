SPECIFICATION FairSpec
CONSTANTS
  Writers = {w1, w2}
  Readers = {r1, r2}
  MaxCalls <- CallBound
  w1 = w1
  w2 = w2
  r1 = r1
  r2 = r2
INVARIANTS
  Exclusion
  NobodyForgotten
PROPERTIES
  NoEntryWhileLocked
  CallsReturn
