CONSTANTS
  Requests = {r1, r2}
  Initial = Initial
  MaxFaults = 1
  None = None
  CPUs = {1}
  MaxOutages = 1
SPECIFICATION Spec
INVARIANT CachedWasCommitted
INVARIANT CacheAgrees
INVARIANT HealthHonest
PROPERTY ServingResumes
PROPERTY ProbeEnds
