SPECIFICATION SpecAll
CONSTANTS
  Callers = {c1, c2, c3}
  Symbols = {S, T, U}
  NoFlight = NoFlight
  MAX_CONCURRENCY = 2
  RETRY_COUNT = 1
  MAX_CACHE_ENTRIES = 2
  MaxPrice = 1
  Keys = {a, b}
  FreshMs = 1
  StaleMs = 1
  MaxEntries = 1
  Requests = {1, 2, 3}
  Attempts = 2
  Concurrency = 1
  MinIntervalMs = 1
  MaxQueued = 1
INVARIANTS TypeOK SlotsAccountedFor SecValuesGoForward
PROPERTIES AnswersNeverGoBack EveryCallReturns SecRequestsFlow
