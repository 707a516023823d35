CONSTANTS
  Resident = {r1, r2}
  Grant = {g1, g2}
  Cred = {c1, c2, c3, c4}
  NoResident = NoResident
  NoCred = NoCred
  NoGrant = NoGrant
  NoUse = NoUse
  NoRequest = NoRequest
SYMMETRY Symmetric
SPECIFICATION Spec
INVARIANT NoLockout
INVARIANT NoOrphanAuthority
