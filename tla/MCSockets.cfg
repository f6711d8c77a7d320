SPECIFICATION SpecAll
CONSTANTS
  Sockets = {s1, s2}
  MaxVersion = 2
  ClientSockets = {1, 2, 3, 4}
  Alerts = {1, 2}
  Fetches = {1}
  Users = {1, 2}
  Tabs = {1, 2}
  MaxRequests = 3
INVARIANTS TypeOK NoStaleSocket TabHolds
PROPERTIES DismissalsAuthorized StaleSocketsClose TabSettles
