\* Launches, consents, calls, a revocation and erasures, with one fault.
SPECIFICATION Spec
CONSTANTS
  User = {u1}
  Instructor = {u1}
  Worker = {w1, w2}
  Grant = {g1, g2}
  MaxFaults = 1
  NoUser = NoUser
  NoToken = NoToken
INVARIANTS IInv AuthorizationKept ErasureStands
PROPERTIES RevokedAdmitsNobody
