CONSTANTS
  Events = {1, 2}
  QueueWorkers = {q1}
  RetryWorkers = {r1}
  ReplayWorker = rp
  QueueBatch = 2
  RetryBatch = 2
  MaxRetries = 1
  RetryInterval = 1
  RetryAfters = {}
  Answers = {"2xx", "429/503", "4xx", "5xx", "other"}
  StaleAfter = 1
  BusyLimit = 1
  MaxFaults = 1
  MaxReplays = 0
  None = None
SPECIFICATION Spec
INVARIANT TypeOK
INVARIANT ExclusiveHolder
INVARIANT DeliveredWasAccepted
INVARIANT InFlightIsHeld
INVARIANT NothingForgotten
PROPERTY DeliveredIsFinal
