CONSTANTS
  e1 = e1
  e2 = e2
  hook1 = hook1
  Events <- MCEvents
  Provider <- MCGithub
  Hook <- MCOneHook
  Handlers = {h1, h2}
  MaxFaults = 0
  MaxPurges = 0
  None = None
SPECIFICATION Spec
INVARIANT AckedWasStored
