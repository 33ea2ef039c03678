\* Two POSTs and a download over one cached token, a limit of one POST per
\* window, revocation, withdrawn tokens and one fault.
SPECIFICATION Spec
CONSTANTS
  tab1 = tab1
  tab2 = tab2
  viewer = viewer
  Caller = {tab1, tab2, viewer}
  Limited = {tab1, tab2}
  Calls <- MCCalls
  Attempts <- MCAttempts
  Limit = 1
  MaxWindow = 1
  MaxPosts = 2
  MaxFaults = 1
  NoToken = NoToken
INVARIANTS QuotaIsExact
PROPERTIES RefusedOnlyFresh RevocationReached
