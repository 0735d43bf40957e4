\* Two calls on one client, with a budget that one or two retries fit into, and a
\* session that is first fresh, then in its refresh window, then expired.
CONSTANTS
  Call = {c1, c2}
  Op = {"retrieve", "generate"}
  Budget = {2, 4}
  Margin = 1
  MaxRetries = 2
  Pause = {0, 1}
  RetryAfter = {2, 5}
  Window = 4
  Duration = 5
  MaxTime = 8
SYMMETRY CallSymmetry
SPECIFICATION Spec
INVARIANTS
  ReturnsInTime
  PaidOnce
  SessionIsSound
\* Time stops at MaxTime and every call returns.
CHECK_DEADLOCK FALSE
