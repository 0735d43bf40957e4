SPECIFICATION Spec
INVARIANTS
  WhatIsServedIsRecent
PROPERTIES
  FailuresDoNotStick
SYMMETRY Symmetry
CHECK_DEADLOCK FALSE
CONSTANTS
  shared = shared
  legacy = legacy
  Agent = {d}
  Default = d
  NoAgent = NoAgent
  Off = Off
  Rows <- RowsHere
  Entry = {shared, legacy}
  Owner <- OwnerOf
  Call = {c1, c2}
  NoCall = NoCall
  ProfileTtl = 1
  CorpusTtl = 1
  MaxProfiles = 1
  MaxCorpora = 1
  Lifetime = 1
  MaxTime = 3
  MaxEdits = 1
