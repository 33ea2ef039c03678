\* Two copies of one document, deletions, re-conversions, one fault.
SPECIFICATION Spec
CONSTANTS
  f1 = f1
  f2 = f2
  f3 = f3
  c1 = c1
  c2 = c2
  File = {f1, f2}
  Content = {c1}
  Job = {j1, j2}
  ContentOf <- CopiedContent
  Dropped = {f1}
  Removable = {f1}
  Cap = 0
  Drops = {j1, j2}
  Rewritten = {j1, j2}
  MaxFaults = 1
  NoFile = NoFile
  NoJob = NoJob
SYMMETRY Jobs
INVARIANTS PaidOncePerContent
PROPERTIES ImplementsConversions
\* Faculty may stop, and an idle course may have nothing to scan.
CHECK_DEADLOCK FALSE
