SPECIFICATION Spec
CONSTANTS
  CheckInterval = 2
  BufferWindow = 1
  AlertIds = {1, 2}
  MaxAlertNow = 5
  Hours = 6
  LastDay = 8
  ZoneOffsets <- AFewOffsets
  ZoneChanges = {17, 18, 19, 20, 21, 22, 23, 24, 25}
  TriggerHour = 3
  MonthEnds = {4, 6, 9, 16}
  Alerts = {1}
  SymbolOf <- OneSymbol
  Levels = {0, 1}
  CheckRuns = {1, 2}
  Users = {1, 2}
  MaxLinks = 2
  MaxPartnerCalls = 2
  Items = {1, 2}
  Fields = {"d"}
  MaxRequests = 2
  DiaryDates = {1, 2}
  MaxLookups = 3
  NoteDates = {1, 2}
  MaxNoteVersions = 2
  MaxPostVersions = 3
  MaxVisits = 2
  PostIds = {1, 2}
  Titles = {"t"}
  MaxPostCalls = 2
  MaxPostNow = 3
  ThesisDues = {3}
  MaxThesisNow = 3
  MaxThesisCalls = 2
  MaxThesisReviews = 2
  DiaryIds = {1, 2}
  Dues = {2, 4}
  ReviewTimes = {1, 2}
  ReviewLimit = 1
  MaxEdits = 1
  Stocks = {"a"}
  Insights = {1, 2}
  Openings = {1}
  StockSlots = {1, 2}
  PlanDiaryOf <- OwnDiaries
  Plans = {1}
  PlanPrices = {1, 2}
  MaxPlanCalls = 1
  AccountIds = {3}
  Emails = {"a", "b"}
  Passwords = {"p", "q"}
  MaxAccountCalls = 2
  ThesisTexts = {1}
  MaxReviews = 2
  HubLimit = 1
  Months = {1, 2, 3}
  Today = 2
  MaxMonthChanges = 1
  MaxRules = 3
  MaxRuleRequests = 1
  TableRows = {1, 2}
  TablePage = 1
  MaxTableRequests = 2
  ListedIds = {1, 2, 3}
  LaterIds = {2}
  ListLimit = 1
  MaxRefreshes = 1
  MaxListPage = 3
  ListedPosts = {1, 2, 3}
  PostLimit = 1
  MaxPostLists = 1
  FeedTimes = {1, 2, 3}
  MaxFeedRows = 3
  MaxFeedWrites = 1
  FeedSource = 1
  FeedPage = 1
  MergeIds = {1, 2, 3, 4}
  MergeDays = {1, 2}
  MergeStocks = {1}
  MaxMergeTexts = 3
  MaxMergeWrites = 1
INVARIANTS
  TypeOK AlertsReachTheUser TriggersAreEarned ConsentHonoured ReadsAgree
  DraftsHold ListsAreWhole RecordsHold
PROPERTIES WritesKeep
CHECK_DEADLOCK FALSE
