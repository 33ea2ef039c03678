\* Two files with one title, with a fault.
SPECIFICATION Spec
CONSTANTS
  j1 = j1
  j2 = j2
  f1 = f1
  f2 = f2
  t1 = t1
  t2 = t2
  r1 = r1
  r2 = r2
  Job = {j1, j2}
  File = {f1, f2}
  Title = {t1}
  FileOf <- OwnFileOf
  TitleOf <- OneTitleOf
  Guess <- GuessOf
  Authored = {}
  Copy = {1, 2}
  Request = {r1}
  Ops = {"approve", "review_reject"}
  Cutoffs = {}
  Removable = {f2}
  MaxFaults = 1
  NoJob = NoJob
  NoPage = NoPage
INVARIANTS OnePagePerTitle PublicNeedsApproval
PROPERTY ImplementsGate
\* Faculty, Reflow and time may all stop acting.
CHECK_DEADLOCK FALSE
