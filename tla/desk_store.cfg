\* Two handlers, the bridge and the retention sweep over one document.
SPECIFICATION Spec
CONSTANTS
  r1 = r1
  r2 = r2
  Job = {j1}
  Request = {r1, r2}
  Edit = {e1}
  Ops = {"request_edits", "edit", "revert", "delete", "score"}
  Expirable = {j1}
  Removable = {j1}
  MaxFaults = 1
  NoJob = NoJob
  NoBody = NoBody
SYMMETRY Handlers
INVARIANTS IInv PendingAgrees ScoreFollowsRecord DeletionForgets
\* Faculty, Reflow and time may all stop acting.
CHECK_DEADLOCK FALSE
