\* Liveness under faults, sweeps and handlers.
SPECIFICATION FairSpec
CONSTANTS
  j1 = j1
  j2 = j2
  f1 = f1
  f2 = f2
  t1 = t1
  t2 = t2
  r1 = r1
  r2 = r2
  Job = {j1}
  File = {f1}
  Title = {t1}
  FileOf <- OwnFileOf
  TitleOf <- OneTitleOf
  Guess <- GuessOf
  Authored = {}
  Copy = {1, 2}
  Request = {r1}
  Ops = {"approve", "reject", "review_approve", "review_reject", "request_edits", "unpublish", "convert", "delete"}
  Cutoffs = {"stale"}
  Removable = {f1}
  MaxFaults = 1
  NoJob = NoJob
  NoPage = NoPage
PROPERTIES OutcomeReachesRecord
\* Faculty, Reflow and time may all stop acting.
CHECK_DEADLOCK FALSE
