CONSTANTS
  Codes = {c1, c2, c3}
  Requests = {r1, r2}
  TTL = 1
  MaxEntries = 2
  Lookups = 3
  Window = 3
  Timeout = 1
  MaxNow = 3
  NoCode = NoCode
SPECIFICATION Spec
CHECK_DEADLOCK FALSE
SYMMETRY Symmetry
INVARIANTS WindowKept CacheInOrder NoStaleNone
