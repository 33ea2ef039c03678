\* Two contents against a budget of one document a month, with a fault.
SPECIFICATION FairSpec
CONSTANTS
  f1 = f1
  f2 = f2
  f3 = f3
  c1 = c1
  c2 = c2
  File = {f1, f3}
  Content = {c1, c2}
  Job = {j1, j2, j3}
  ContentOf <- CopiedContent
  Dropped = {f1}
  Removable = {}
  Cap = 1
  Drops = {}
  Rewritten = {j1}
  MaxFaults = 1
  NoFile = NoFile
  NoJob = NoJob
INVARIANTS IInv CapHolds ProcessedIsServed
PROPERTIES EveryFileHandled
\* Faculty may stop, and an idle course may have nothing to scan.
CHECK_DEADLOCK FALSE
