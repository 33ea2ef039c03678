\* Two handlers and the bridge over one document that may pause for privacy.
SPECIFICATION FairSpec
CONSTANTS
  r1 = r1
  r2 = r2
  Job = {j1}
  Request = {r1, r2}
  Edit = {e1}
  Ops = {"approve", "review_approve", "reject", "review_reject", "convert", "view", "preview", "approved", "denied"}
  Expirable = {}
  Removable = {}
  MaxFaults = 1
  NoJob = NoJob
  NoBody = NoBody
INVARIANTS AuditTellsTheDecision DecisionRecorded ServedWasApproved
PROPERTY PiiWaitReachesQueue
\* Faculty, Reflow and time may all stop acting.
CHECK_DEADLOCK FALSE
