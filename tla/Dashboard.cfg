CONSTANTS
  Ids <- MCIds
  CreatedAt <- MCCreatedAt
  ReceivedAt <- MCReceivedAt
  MaxRetries = 0
  MaxRows = 1
  Codes = {200}
  Worked = {2}
  Horizons = {}
  MaxFaults = 1
  FirstPage = 1
  EventCap = 1
  Unborn = Unborn
  Deleted = Deleted
  None = None
SPECIFICATION Spec
INVARIANT TypeOK
INVARIANT ShowsWhatIsKnown
PROPERTY FrozenView
PROPERTY FirstPageConverges
