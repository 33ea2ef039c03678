\* Two instructors and the background workers on one job, whose title
\* is taken for that of a Page an instructor wrote.
SPECIFICATION Spec
CONSTANTS
  j1 = j1
  j2 = j2
  f1 = f1
  f2 = f2
  t1 = t1
  t2 = t2
  r1 = r1
  r2 = r2
  Job = {j1}
  File = {f1}
  Title = {t1, t2}
  FileOf <- OwnFileOf
  TitleOf <- OddTitleOf
  Guess <- GuessOf
  Authored = {t1}
  Copy = {1, 2}
  Request = {r1, r2}
  Ops = {"approve", "reject", "review_approve", "review_reject", "request_edits", "unpublish", "convert", "delete"}
  Cutoffs = {"stale", "expired"}
  Removable = {}
  MaxFaults = 0
  NoJob = NoJob
  NoPage = NoPage
INVARIANTS FirmDecisionStands IInv
\* Faculty, Reflow and time may all stop acting.
CHECK_DEADLOCK FALSE
SYMMETRY Instructors
