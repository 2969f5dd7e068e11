CONSTANTS
  e1 = e1
  e2 = e2
  hook1 = hook1
  Events <- MCEvents
  Provider <- MCMixed
  Hook <- MCOneHook
  Handlers = {h1, h2}
  MaxFaults = 2
  MaxPurges = 1
  None = None
SPECIFICATION FairSpec
INVARIANT StoredOnce
INVARIANT AckedWasStored
INVARIANT StoredIsAnnounced
PROPERTY EventuallyStored
