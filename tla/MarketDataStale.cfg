SPECIFICATION Spec
CONSTANTS
  Callers = {c1, c2, c3}
  Symbols = {S, T}
  NoFlight = NoFlight
  MAX_CONCURRENCY = 2
  RETRY_COUNT = 0
  MAX_CACHE_ENTRIES = 2
  MaxPrice = 0
PROPERTIES StaleOnError
