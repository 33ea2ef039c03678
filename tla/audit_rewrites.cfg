\* Appends against the retention sweep and two erasures at once.
SPECIFICATION FairSpec
CONSTANTS
  Event = {1, 2}
  User = {u1, u2}
  Consenting = {u1}
  Erasable = {u1, u2}
  Eraser = {x1, x2}
  MaxFaults = 1
  NoEvent = NoEvent
  NoUser = NoUser
INVARIANTS IInv LossOnlyInWindow ErasureHolds ConsentOnRecord
PROPERTIES RetentionReached
\* Once every entry is used and no user asks for anything, all may rest.
CHECK_DEADLOCK FALSE
