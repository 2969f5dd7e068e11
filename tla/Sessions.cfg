CONSTANTS
  b1 = b1
  b2 = b2
  page = page
  poll = poll
  other = other
  Browsers <- MCBrowsers
  Callers <- MCCallers
  Browser <- MCBrowser
  AccessTTL = 1
  RefreshTTL = 2
  MaxTime = 2
  MaxLogins = 2
  MaxFaults = 1
  None = None
SPECIFICATION Spec
INVARIANT TypeOK
INVARIANT SessionKept
INVARIANT RowsAccounted
