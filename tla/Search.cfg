CONSTANTS
  Ids <- MCIds
  CreatedAt <- MCCreatedAt
  ReceivedAt <- MCReceivedAt
  Provider <- MCProvider
  EventId <- MCEventId
  EventType <- MCEventType
  Texts <- MCTexts
  TooLong = {}
  Forms <- MCForms
  PageLimit = 1
  MaxInputs = 2
  MaxRetries = 0
  MaxRows = 1
  Codes = {200}
  Worked = {2}
  Horizons = {2}
  MaxFaults = 1
  Unborn = Unborn
  Deleted = Deleted
  None = None
SPECIFICATION Spec
INVARIANT TypeOK
INVARIANT AnsweredUnlessFault
INVARIANT PagesUnique
INVARIANT PagesComplete
PROPERTY DeletesOnlyExcess
PROPERTY RetentionHolds
CHECK_DEADLOCK FALSE
