SPECIFICATION ClockSpec
CONSTANTS
  Writers = {w1}
  Readers = {r1}
  MaxCalls <- OneCall
INVARIANT TryLockKeepsDeadline
