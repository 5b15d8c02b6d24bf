SPECIFICATION FairSpec
CONSTANTS
  r1 = r1
  r2 = r2
  r3 = r3
  r4 = r4
  k1 = k1
  k2 = k2
  Requests = {r1, r2, r3, r4}
  Keys = {k1, k2}
  KeyOf <- MCKeyOf
  Procs = {p1}
  None = None
  Conflict = Conflict
  Error = Error
INVARIANTS
  LockIsHeld
PROPERTIES
  LockFreed
  KeepsPromise
