\* No symmetry: RegisterKept has a liveness part.
CONSTANTS
  AgentId = {a1, a2}
  Caller = {c1, c2}
  NoCaller = NoCaller
  Ttl = 1
  MaxEntries = 1
  MaxWrites = 2
  MaxClock = 1
SPECIFICATION CacheFairSpec
INVARIANTS
  LoadsAreShared
PROPERTIES
  RegisterKept
CHECK_DEADLOCK FALSE
