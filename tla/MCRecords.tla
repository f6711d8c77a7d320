----------------------------- MODULE MCRecords -----------------------------
(***************************************************************************)
(* Components that keep what one user wrote, consented to or asked for,    *)
(* and those that remind of it.                                            *)
(* They share no state: each is checked alone on a small instance, a       *)
(* behaviour being one of the component that part names, and RecordsProofs *)
(* proves them for every value of the constants.  Each is instantiated     *)
(* over the slots s1 to s15; those it does not use stay 0.                 *)
(***************************************************************************)
EXTENDS Integers, FiniteSets

CONSTANTS
  CheckInterval, BufferWindow, AlertIds, MaxAlertNow,       \* pusher
  Hours, LastDay, ZoneOffsets, ZoneChanges, TriggerHour, MonthEnds, \* days
  Alerts, SymbolOf, Levels, CheckRuns,                      \* price alerts
  Users, MaxLinks, MaxPartnerCalls,                         \* partners
  Items, Fields, MaxRequests,                               \* partners page
  DiaryDates, MaxLookups,                                   \* editor
  NoteDates, MaxNoteVersions,                               \* note
  MaxPostVersions, MaxVisits,                               \* post draft
  PostIds, Titles, MaxPostCalls, MaxPostNow,                \* posts
  ThesisDues, MaxThesisNow, MaxThesisCalls, MaxThesisReviews, \* thesis
  DiaryIds, Dues, ReviewTimes, ReviewLimit, MaxEdits,       \* reviews
  Stocks, Insights, Openings, StockSlots,                   \* stocks
  PlanDiaryOf, Plans, PlanPrices, MaxPlanCalls,             \* trade plans
  AccountIds, Emails, Passwords, MaxAccountCalls,           \* accounts
  ThesisTexts, HubLimit, MaxReviews,                        \* company page
  Months, Today, MaxMonthChanges,                           \* calendar
  MaxRules, MaxRuleRequests,                                \* disciplines
  TableRows, TablePage, MaxTableRequests                    \* admin lists

\* Ids, prices and dates are numbers; 0 is none of them but an alert's or a
\* user's, and the marks of a draft are no date.  There is a title to write, a
\* stock and a text to capture, the seed needs two addresses, and the clock
\* has room inside the day.  The tables are finite, and a page, or the bucket
\* of completed reviews, has a row.
ASSUME RecordsAssumption ==
  /\ CheckInterval \in Nat /\ BufferWindow \in Nat
  /\ AlertIds \subseteq Nat \ {0} /\ IsFiniteSet(AlertIds) /\ MaxAlertNow \in Nat
  /\ Hours \in Nat /\ LastDay \in Nat \ {0} /\ TriggerHour \in 1..(Hours - 2)
  /\ ZoneOffsets \subseteq (2 - Hours)..(Hours - 2) /\ ZoneChanges \subseteq Int
  /\ MonthEnds \subseteq 0..(7 * LastDay) /\ \E e \in MonthEnds : LastDay < e
  /\ Alerts \subseteq Nat /\ IsFiniteSet(Alerts)
  /\ Levels \subseteq Nat /\ Levels # {}
  /\ Users \subseteq Nat
  /\ 0 \notin Items
  /\ DiaryDates \subseteq Nat /\ DiaryDates \cap {0, 99, 100} = {}
  /\ PostIds \subseteq Nat /\ Titles # {}
  /\ ThesisDues \subseteq Nat /\ MaxThesisNow \in Nat /\ 2 <= MaxThesisNow
  /\ Dues \subseteq Nat /\ ReviewTimes \subseteq Nat \ {0} /\ ReviewLimit \in Nat \ {0}
  /\ HubLimit \in Nat \ {0}
  /\ Stocks # {} /\ Insights # {} /\ Openings \subseteq Nat \ {0}
  /\ Passwords # {} /\ \E e, f \in Emails : e # f
  /\ Months \subseteq Nat /\ Today \in Months
  /\ TableRows \subseteq Nat /\ IsFiniteSet(TableRows) /\ TablePage \in Nat \ {0}

AFewOffsets == -2..2
OneSymbol == [a \in Alerts |-> "S"]
OwnDiaries == [u \in Users |-> u]

VARIABLES part, s1, s2, s3, s4, s5, s6, s7, s8, s9, s10, s11, s12, s13, s14, s15

\* The slots after the first n.
after14 == <<s15>>
after13 == <<s14, after14>>
after12 == <<s13, after13>>
after10 == <<s11, s12, after12>>
after7 == <<s8, s9, s10, after10>>
after5 == <<s6, s7, after7>>
after4 == <<s5, after5>>
after2 == <<s3, s4, after4>>

Unused14 == s15 = 0
Unused13 == s14 = 0 /\ Unused14
Unused12 == s13 = 0 /\ Unused13
Unused10 == s11 = 0 /\ s12 = 0 /\ Unused12
Unused7 == s8 = 0 /\ s9 = 0 /\ s10 = 0 /\ Unused10
Unused5 == s6 = 0 /\ s7 = 0 /\ Unused7
Unused4 == s5 = 0 /\ Unused5
Unused2 == s3 = 0 /\ s4 = 0 /\ Unused4

all == <<part, s1, s2, after2>>

Pusher == INSTANCE AlertPusher WITH Ids <- AlertIds, MaxNow <- MaxAlertNow, now <- s1,
  nextTick <- s2, ticks <- s3, row <- s4, owed <- s5, seen <- s6, outage <- s7
PriceAlert == INSTANCE PriceAlerts WITH Runs <- CheckRuns, price <- s1, row <- s2,
  run <- s3, pushes <- s4, cause <- s5, disturbed <- s6, overlapped <- s7
Editor == INSTANCE DiaryEditor WITH Dates <- DiaryDates, page <- s1, date <- s2,
  content <- s3, baseline <- s4, diaryId <- s5, appendToExisting <- s6,
  committedDate <- s7, pendingConflict <- s8, dateLookupError <- s9,
  ignoreDateWatchFor <- s10, lookups <- s11, latest <- s12, saving <- s13,
  copying <- s14, looked <- s15
Note == INSTANCE QuickNote WITH Dates <- NoteDates, MaxVersions <- MaxNoteVersions,
  shown <- s1, content <- s2, date <- s3, saveMode <- s4, saveModeTouched <- s5,
  typed <- s6, draft <- s7, pending <- s8, lookups <- s9, existingDiaryForDate <- s10,
  saving <- s11, posted <- s12, kept <- s13
Draft == INSTANCE BlogDraft WITH MaxVersions <- MaxPostVersions, kind <- s1, page <- s2,
  form <- s3, typed <- s4, status <- s5, draft <- s6, pending <- s7,
  readyForAutosave <- s8, request <- s9, stored <- s10, published <- s11, visits <- s12
Partner == INSTANCE Partners WITH MaxCalls <- MaxPartnerCalls, links <- s1,
  created <- s2, calls <- s3, read <- s4, agreed <- s5, says <- s6, since <- s7
Post == INSTANCE Posts WITH Ids <- PostIds, MaxCalls <- MaxPostCalls,
  MaxNow <- MaxPostNow, posts <- s1, next <- s2, now <- s3, calls <- s4, last <- s5
Thesis == INSTANCE Theses WITH Dues <- ThesisDues, MaxNow <- MaxThesisNow,
  MaxCalls <- MaxThesisCalls, MaxReviews <- MaxThesisReviews, now <- s1, thesis <- s2,
  reviews <- s3, calls <- s4, crossed <- s5
Review == INSTANCE DiaryReviews WITH Diaries <- DiaryIds, Times <- ReviewTimes,
  CompletedLimit <- ReviewLimit, MaxCalls <- MaxEdits, diaries <- s1, calls <- s2,
  page <- s3, toRead <- s4, raced <- s5
Stock == INSTANCE StockLibrary WITH Symbols <- Stocks, Texts <- Insights,
  Slots <- StockSlots, watch <- s1, records <- s2, opening <- s3, dialog <- s4,
  call <- s5, submitted <- s6, archived <- s7
Plan == INSTANCE TradePlans WITH OwnerOf <- PlanDiaryOf, Prices <- PlanPrices,
  MaxCalls <- MaxPlanCalls, diaries <- s1, plans <- s2, deleted <- s3, calls <- s4
Month == INSTANCE Calendar WITH MaxLoads <- MaxMonthChanges, month <- s1, diaries <- s2,
  gone <- s3, activity <- s4, loads <- s5, holidayDateSet <- s6, holidayLoadToken <- s7,
  loadingHolidays <- s8, holidayLoads <- s9, excludeHolidaysInStats <- s10,
  steps <- s11, unseen <- s12, loaded <- s13, failed <- s14
UserDay == INSTANCE UserDays WITH Offsets <- ZoneOffsets, Changes <- ZoneChanges,
  zone <- s1, now <- s2
Rules == INSTANCE Disciplines WITH MaxRows <- MaxRules, MaxRequests <- MaxRuleRequests,
  rows <- s1, created <- s2, list <- s3, timer <- s4, requests <- s5, raced <- s6,
  failed <- s7
Account == INSTANCE Accounts WITH Ids <- AccountIds, MaxCalls <- MaxAccountCalls,
  users <- s1, next <- s2, calls <- s3, raced <- s4, lapsed <- s5
AdminList == INSTANCE AdminLists WITH Rows <- TableRows, Limit <- TablePage,
  MaxRequests <- MaxTableRequests, surface <- s1, stored <- s2, narrow <- s3,
  filter <- s4, timer <- s5, shown <- s6, page <- s7, totalPages <- s8, selected <- s9,
  loading <- s10, requests <- s11, upset <- s12, thinned <- s13
Company == INSTANCE CompanyPage WITH Texts <- ThesisTexts, thesis <- s1, reviews <- s2,
  hub <- s3, view <- s4, load <- s5, panel <- s6, writing <- s7, note <- s8,
  misled <- s9, lost <- s10
PartnerPage == INSTANCE PartnersPage WITH surface <- s1, server <- s2, page <- s3,
  requests <- s4, crossed <- s5

-----------------------------------------------------------------------------
RecordsInit ==
  \/ part = "pusher" /\ Pusher!Init /\ Unused7
  \/ part = "price alerts" /\ PriceAlert!Init /\ Unused7
  \/ part = "editor" /\ Editor!Init
  \/ part = "note" /\ Note!Init /\ Unused13
  \/ part = "post draft" /\ Draft!Init /\ Unused12
  \/ part = "partners" /\ Partner!Init /\ Unused7
  \/ part = "posts" /\ Post!Init /\ Unused5
  \/ part = "thesis" /\ Thesis!Init /\ Unused5
  \/ part = "reviews" /\ Review!Init /\ Unused5
  \/ part = "stocks" /\ Stock!Init /\ Unused7
  \/ part = "trade plans" /\ Plan!Init /\ Unused4
  \/ part = "calendar" /\ Month!Init /\ Unused14
  \/ part = "days" /\ UserDay!Init /\ Unused2
  \/ part = "disciplines" /\ Rules!Init /\ Unused7
  \/ part = "accounts" /\ Account!Init /\ Unused5
  \/ part = "admin lists" /\ AdminList!Init /\ Unused13
  \/ part = "company page" /\ Company!Init /\ Unused10
  \/ part = "partners page" /\ PartnerPage!Init /\ Unused5

RecordsNext ==
  \/ part = "pusher" /\ Pusher!Next /\ UNCHANGED <<part, after7>>
  \/ part = "price alerts" /\ PriceAlert!Next /\ UNCHANGED <<part, after7>>
  \/ part = "editor" /\ Editor!Next /\ UNCHANGED part
  \/ part = "note" /\ Note!Next /\ UNCHANGED <<part, after13>>
  \/ part = "post draft" /\ Draft!Next /\ UNCHANGED <<part, after12>>
  \/ part = "partners" /\ Partner!Next /\ UNCHANGED <<part, after7>>
  \/ part = "posts" /\ Post!Next /\ UNCHANGED <<part, after5>>
  \/ part = "thesis" /\ Thesis!Next /\ UNCHANGED <<part, after5>>
  \/ part = "reviews" /\ Review!Next /\ UNCHANGED <<part, after5>>
  \/ part = "stocks" /\ Stock!Next /\ UNCHANGED <<part, after7>>
  \/ part = "trade plans" /\ Plan!Next /\ UNCHANGED <<part, after4>>
  \/ part = "calendar" /\ Month!Next /\ UNCHANGED <<part, after14>>
  \/ part = "days" /\ UserDay!Next /\ UNCHANGED <<part, after2>>
  \/ part = "disciplines" /\ Rules!Next /\ UNCHANGED <<part, after7>>
  \/ part = "accounts" /\ Account!Next /\ UNCHANGED <<part, after5>>
  \/ part = "admin lists" /\ AdminList!Next /\ UNCHANGED <<part, after13>>
  \/ part = "company page" /\ Company!Next /\ UNCHANGED <<part, after10>>
  \/ part = "partners page" /\ PartnerPage!Next /\ UNCHANGED <<part, after5>>

RecordsSpec == RecordsInit /\ [][RecordsNext]_all

-----------------------------------------------------------------------------
\* No due alert is skipped by the ticks, a recurring series is dismissed
\* whole, and its days and hours are those of the user.
AlertsReachTheUser ==
  /\ part = "pusher" => Pusher!NoAlertSkipped /\ Pusher!SeriesDismissedWhole
  /\ part = "days" => UserDay!DaysHold

\* A price alert goes off for a price that meets its condition, and once.
TriggersAreEarned ==
  /\ part = "price alerts" => PriceAlert!TriggersAreEarned

\* A partner is shown what its owner consented to at some moment of the
\* request, and the page of the owner shows it.
ConsentHonoured ==
  /\ part = "partners" => Partner!ConsentHonoured
  /\ part = "partners page" => PartnerPage!PageIsTrue

\* What was written is not lost to an answer that comes late, and a draft
\* that was posted does not come back.
DraftsHold ==
  /\ part = "editor" => Editor!LastLookupWins
  /\ part = "note" => Note!PostedNotesStayGone
  /\ part = "post draft" => Draft!PublishedIsNoDraft

\* The columns that several writes keep in step agree, an administrator is
\* left, the disciplines have one order, and a page that is ready shows what
\* the server has, whatever writes overlap and whatever comes late.
RecordsHold ==
  /\ part = "posts" => Post!DatedIffPublished
  /\ part = "thesis" => Thesis!ThesisHolds /\ Thesis!SignalsAgree
  /\ part = "reviews" => Review!BucketsPartition
  /\ part = "stocks" => Stock!CaptureHolds
  /\ part = "trade plans" => Plan!PlansHold
  /\ part = "accounts" => Account!AdminRemains
  /\ part = "company page" => Company!HubHolds
  /\ part = "calendar" => Month!CalendarHolds
  /\ part = "disciplines" => Rules!OrderHolds
  /\ part = "admin lists" => AdminList!TablesHold

\* What no step may do: replace a draft unasked, move the date of a post that
\* stays published, take back a review, replace a password unproved, or change
\* the text of a thesis by archiving it.
WritesKeep ==
  [][/\ part = "editor" => Editor!KeepsDraft
     /\ part = "posts" => Post!KeepsDate
     /\ part = "reviews" => Review!StaysReviewed
     /\ part = "accounts" => Account!PasswordHeld
     /\ part = "company page" => Company!ArchivedAsItWas]_all
=============================================================================
