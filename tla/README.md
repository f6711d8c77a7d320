# TLA+ models of invest-diary

invest-diary is a Nuxt application (Vue pages, Nitro server, Prisma over MariaDB)
in which investors keep a diary: one entry per calendar date with the buys and
sells of that date, a review to be written later, alerts, and the companies the
entry is about. One server process serves HTTP, holds the WebSockets and runs the
schedulers (the `README.md` of the repository: "one active realtime/scheduler instance");
MariaDB keeps everything that outlives a request.

This directory models the parts of server and client whose correctness depends on
the order in which things happen: several handlers, timers, tabs or answers touch
the same rows, cookies or refs between two awaits. Paths below are relative to the
root of the repository.

## 1. Inventory

| Component | State | Operations | Interacts with |
|---|---|---|---|
| Diary write path (`server/utils/diary-write.ts`, `diary-review.ts`, `diary-stock-context.ts`, `alert-persistence.ts`) | rows of `diaries`, `transactions`, `alerts`, contexts | create, append, edit, delete, structured review | ledger validation; alerts; REST and agent API call the same functions |
| Ledger validation (`lib/diary-authoring/validation.ts`) | none (pure) | order rows, replay, refuse | called by the write path and by the editor |
| Read side of the ledger (`lib/position-state.ts`, `lib/trade-analytics.ts`, `server/utils/performance-stats.ts`) | none (pure) | positions, closed trades, equity, drawdown | replays the rows the write path stored |
| Refresh sessions (`server/utils/native-auth-session.ts`, `auth-session.ts`, `user-queries.ts`) | `users.token_version`, `users.password`, `refresh_tokens` | login, rotate, replay detection, logout, logout of all, password change, account deletion | tells the connection manager of revocations |
| Web session (`server/middleware/auth.ts`, `server/api/auth/*`, `composables/useAuth.ts`) | two cookies, the user each tab shows | sign in and out, renew, page load, refused call | refresh sessions |
| WebSocket sessions (`server/websocket/*`) | sockets, minimum token versions, timers | handshake, register, revoke, expire, emit, `alert:dismiss` | reads `users`; alert pusher and price alerts emit through it |
| Tab socket and alert inbox (`plugins/websocket.client.ts`, `composables/useAlerts.ts`) | one socket, queue of alerts, markers | connect, refresh, destroy; push, poll, dismiss | WebSocket sessions, alert list |
| Market data (`lib/market-data/cache.ts`, `yahoo-request-queue.ts`, `quote.ts`) | cache map, in-flight map, slot counter, wait queue | cached read, fetch, retry, eviction | Yahoo Finance; price alerts, company hub, market pages |
| SEC EDGAR client (`server/utils/sec-edgar/*`) | queue, cache with stale window | bounded requests with a start gate, retries | SEC |
| Alerts and pusher (`server/schedulers/alert-pusher.ts`, `server/utils/alert-queries.ts`, `lib/recurring-alerts.ts`) | rows of `alerts` | tick with look-ahead, dismiss (one or a series), recurring series | WebSockets, write path |
| Days and time zones (`lib/dates/user-tz.ts`) | none (pure) | wall clock to instant, range of a day, dates of a series | alerts, review page |
| Price alerts (`server/schedulers/price-alert-checker.ts`, `server/utils/price-alert-queries.ts`) | rows of `price_alerts` | tick, trigger, re-arm, delete | market data, WebSockets |
| Market rotation batch (`server/utils/market-rotation-*.ts`) | daily prices, snapshots | per-scope batch, comparison window, upserts | CronJob and admin trigger |
| Posts, theses, diary reviews, disciplines, partners, trade plans, stock library | their rows | read-then-write editors and small state machines | diaries, stocks, review page |
| Activity feed (`server/utils/investment-activity.ts`) | a cursor per reader | pages over four tables | diaries, theses, reviews, records |
| Client editors and lists (diary editor, quick note, post draft, research capture, calendar, timeline, diary list, article list) | drafts, lists, loads under way | edit, autosave, restore, look up, save, page, refresh | the endpoints above, answered late or never |
| Reconciliation script (`scripts/diary-reconcile-duplicates.ts`) | diaries, audit rows | load, merge a group, stop, run again | diaries before the unique key exists |
| Accounts (`server/utils/user-queries.ts`, `server/api/auth/register.post.ts`, `server/middleware/admin.ts`) | rows of `users` | register, change of password, role and deletion by an administrator | refresh sessions, connection manager |
| Administration pages (`pages/admin/*`) | a page of a table, a selection, filters | turn, filter, select, write one or many | posts, accounts |
| Partners page and API keys (`pages/partners/index.vue`, `api-key-queries.ts`) | links and keys as shown | request, accept, share, remove; create, revoke | partners, agent API |
| Company page (`pages/stocks/[symbol].vue`, `company-hub-query.ts`) | the hub as loaded, forms | load, edit, archive, review, note | theses, notes, portfolio |
| Rate limiter, other pages, generated client | counters | single statements, presentation | - |

What is hard in this code, and where it bites, is listed line by line under
`hazards` in `PROJECT.json`. In short:

* A write is several round trips, and only the last one is a transaction. What the
  preflight read and what the validation read may be stale at the commit. Which
  checks are repeated by a database constraint and which are not is what
  `DiaryWrite`, `TradePlans`, `Posts`, `Theses`, `Partners`, `Disciplines` and
  `StockLibrary` are about.
* A rotation of a refresh token signs two JWTs between its read and its claim;
  clients lose answers and present old tokens; a replay has to end one device and
  no other; a password change runs through all of that.
* A WebSocket handshake reads the user, waits, and registers later; revocations
  commit first and reach the connection manager later, in any order, and a timer
  forgets them again. The tab at the other end refreshes its token and makes a new
  socket while the old one is still being refused.
* Request queues hand slots from one promise to the next, callers share flights,
  and a stale fallback depends on what other keys, or newer loads, did to the cache.
* Schedulers tick late, read rows, wait, and act on what they read.
* A page shows what several requests answered, in an order nobody chose, after the
  user went on.

What makes each component correct:

* ledger: an accepted list sells nothing that is not held, up to the tolerance; a
  covered one is accepted; symbols are independent; input order means nothing
  between different dates; the read side accounts for the same shares and money;
* write path: one diary per date, no row without its diary, rows never change
  diary, reviews are kept, appends only add, and the ledger stays replayable;
* sessions: one live token per device, dead devices stay dead, only who proved the
  present password can use a token, a replay stays local; the cookies and what the
  tabs show belong to one user;
* sockets: no connection outlives its session, a dismissal starts only in force,
  idle stale connections are closed in the end; a tab has one socket and shows every
  alert it marked;
* market data and SEC: slots are neither lost nor doubled, every call returns,
  answers never go back in time, failure falls back on what was quoted before;
* alerts: none that is due is skipped, a dismissed series is dismissed as a whole, a
  price alert goes off once and for its own price, a series has the right days;
* rows written by several handlers: the columns that belong together agree;
* consent: a partner is shown what its owner agreed to, and the owner's page says what
  the server has;
* accounts: an administrator is left, a password gives way only to who proved it;
* drafts: text is replaced only when the user was asked, what was posted does not
  come back;
* lists: every row once, none of another filter, none missing.

## 2. Modules

```
Ledger  <-- EXTENDS -- DiaryWrite (five cfgs)
   ^                      ^-- DiaryWriteProofs --> LedgerProofs
   ^-- LedgerProofs <-- MCLedger
   ^-- INSTANCE ------ Positions

SessionDevices <-- INSTANCE -- Sessions (MCSessions.cfg) <-- SessionsProofs

SocketSessions
   ^-- EXTENDS -- MCSockets -- INSTANCE --> ClientSocket, AlertInbox, WebSession
                     ^-- AlertChannelProofs
MarketData (MarketDataStale.cfg)
   ^-- EXTENDS -- MCMarketData -- INSTANCE --> SecEdgar
                     ^-- MarketDataProofs
RotationBatch (MCRotationDates.cfg)

MCRecords -- INSTANCE --> PriceAlerts, Partners, PartnersPage, DiaryEditor, QuickNote,
   ^   ^                  BlogDraft, Posts, Theses, DiaryReviews, StockLibrary,
   ^   ^                  TradePlans, Accounts, CompanyPage, AlertPusher, UserDays,
   ^   ^                  Calendar, Disciplines, AdminLists
   ^   ^-- RecordsProofs
   ^-- EXTENDS -- MCApplication -- INSTANCE --> RotationBatch, Positions
                        |
ListsProofs <-- EXTENDS -'
   ^-- INSTANCE --> ActivityFeed, DiaryFeeds, ArticleFeed, Reconciliation
```

The parts under `MCRecords` and `MCApplication` share no variable. A behaviour is one of
the part that the variable `part` names, chosen at the start; each part is instantiated
over as many of the slots `s1` to `s15` as it has variables, and the others stay 0. The
state graph is the disjoint union of the graphs of the parts, so that a property of
the bundle is one statement on several of them, and each is checked as if alone.
`MCRecords` holds the eighteen parts that are proved about: its constants have no values but
in the configuration, and what they must satisfy is `RecordsAssumption`.
`ListsProofs` does the same for four more, the lists, over slots `v1` to `v14` of its own
under the variable `which`, with `ListsAssumption`, and proves about them in the same module.
`MCApplication` adds the other two, with the values of the run, and is what TLC runs.
The bodies and dates of the five configurations of `DiaryWrite` are at the end of that module.
`MCSockets` and `MCMarketData` do the same for the two ends of the wire and for the
two upstream services; there, the part that is not named rests.

Many modules have an operator under the comment "A slip": it is what the definition
after it would be if the code had lost a guard or a reset. Each property was seen to be
violated with the slips that belong to it; `mutants` in `PROJECT.json` names one for
each.

### Ledger

Rows are a function from numbers: positions in a list, or ids in the table.
`TradeOrder` is `orderedTransactions` (trade date, then the number): the k-th row is the
one that k - 1 others precede. `calculateLedgerHoldings` is a fold over the rows in that
order, `ApplyEntry` one turn of the replay loop, `Refused` its two conditions,
`ok = FALSE` the thrown error. Quantities are whole multiples of a smallest unit and
`Epsilon` is the tolerance 0.0001 in that unit. The second part of the module is the
reference: `Balance` and `Slack` sum the rows that precede one, and neither sort nor replay.

### DiaryWrite

One account. `diary` and `txn` are the tables, functions from AUTO_INCREMENT ids to
rows; `req` holds what each request has read so far. A request passes through

1. `Receive...`: the preflight reads. `updateDiaryForUser` reads its own diary and
   then looks for another one on the new date; the two are one step here, because
   both are repeated at the commit and decide only which error is answered.
2. `Validate`: one SELECT of all rows of the user, in date and id order
   (`Persisted`), minus those that the write replaces, followed by the rows of the
   body. It is outside of the transaction, as in the code.
3. `Commit...`: the Prisma transaction, as a whole. What makes it throw is in its
   guard: the unique key on (user, date), the CHECK
   `diaries_review_lifecycle_v1_check`, `updateMany` that hits no row, a foreign
   key. An append has one more step, `LockAppend`, for its `SELECT ... FOR UPDATE`;
   the lock is held until `CommitAppend` and every other writer of the row waits.

`Abort` is a deadlock victim, a database error or a restart. Text, alerts and
companies of a diary are the sets of requests they come from: enough to see a lost
update, and nothing else depends on them. `Stored` is the rounding of
`Decimal(15,4)`; `Step` is 0.0001 shares in units of the quantity. A body that names
one id twice writes the later of the two rows over the earlier (`LastNaming`), as the
loop of `persistTransactionDiff` does.

### Sessions

The `users` row and the `refresh_tokens` table of one account. `password` counts
the passwords set, and a token remembers (as a ghost) which one its login has
proved. Handlers are cut at their awaits: `LoginRead` / bcrypt / `LoginCreate`,
`RotateRead` / signing / `RotateClaim`, then `RevokeFamily` or `MarkExpired` as
statements of their own. A client may present any token ever issued, any number of
times: that is at once the lost answer, the retry and the copied token. The web
refresh (`refresh.post.ts`) changes no row while its token is valid and is no
action; the refused web refresh that deletes an expired row is left out (its JWT
has the same lifetime and is refused first). `rotateNativeRefreshToken` reads the
row with its user in two SELECTs, merged in `RotateRead`: a bump in between revokes
or deletes the row, so the claim that follows fails as in the model. The rewriting
of legacy unhashed rows is left out. A change of role does not touch the version.

`SessionDevices` is what all of this promises: devices sign in, replace their one
token, and stay out once signed out. `Sessions` implements it under
`issued <- nextToken - 1` and `holds <-` the live rows by family.

### SocketSessions

`minimum` is `minimumTokenVersions`, `pending` the committed revocations that still
have to call `revokeUser`, `early` the handshakes that were under way when it ran
last (a ghost). A handshake is `Handshake` (the read of the user), `Middleware` (the
check against the minimum and `next()`), `Connection` (the second check and the
registration). `Cleanup` is the timer that deletes the minimum after the lifetime of
an access token (1 h); it may fire only when no handshake of `early` is left, because
Socket.IO ends a handshake after `connectTimeout` (45 s). `DismissRead` and
`DismissStart` are the two sides of the await in `alert:dismiss`. A deleted user has
the minimum `Number.MAX_SAFE_INTEGER`, here `Deleted`.

### MarketData

`getOrSetCached` for quotes over the process-wide cache and `runYahooRequest`. A
promise of `inFlight` is named by the call that opened it. A step is one macrotask
with the microtasks it triggers: at the end of a fetch the slot is handed over, the
in-flight entry removed, the cache written and every sharing caller answered before
the event loop turns. `price` counts the changes of the upstream price; an answer
shows a price between the sending of the request and its arrival. `bypassCache` is a
call that does not take `Hit`. TTLs are left to `Expire`; the arithmetic that picks
them, and the batch of `fetchQuotesBounded`, are left out.

### Positions

The read side of `Ledger`, which it instantiates: `computePositionState` (open
positions at average cost, dust written off, a sale of more than is held cut and
reported) and the matching of closed trades with their statistics, equity curve and
drawdown. Both are folds over the same rows. Amounts are exact fractions; the
rounding of doubles is left out. The rows are built one by one, so that every prefix is
judged.

### AlertPusher and UserDays

`AlertPusher`: a tick takes its clock (`Tick`), its query is answered later (`Push`,
or `TickFails`), the timer fires up to `BufferWindow` late, and meanwhile alerts are
persisted singly or as a series of root and children (`PersistSingle`,
`PersistSeries`), dismissed and replaced. `owed` remembers the alerts that a tick no
later than their time could have seen, `seen` those it pushed. What the mode of a
recurrence decides, the dates, is `UserDays`: an instant and an offset are numbers of
hours, a zone changes its offset once by one hour, and the dates of a series and the
range of today are computed as in the code and compared with the definition by wall
clocks. Its premise `Known` excludes two midnights that the code gets wrong, see
section 6.

### PriceAlerts

A run of the checker is cut at its awaits: `Start` reads the armed rows, `FetchQuote`
one symbol each, `Judge` one row each, by the row it read and with an update by id,
`Push`. Runs overlap when quotes are slow. `disturbed` marks the alerts that were
written while a run held them: they are judged by the row as it was, and nothing is
claimed of them. `overlapped` marks those that two runs held at once: they too go off
only for a price that their threshold asks for, but may be pushed twice. A PUT that would
leave `isTriggered` and `triggeredAt` apart is refused by a CHECK and is no step.

### RotationBatch

One rank scope. `bar` is the last date of every symbol; `Read` takes them, `Resolve`
computes the comparison date from the window of qualified dates with this run's
candidate, `Upsert` writes one row, `Aborts` stops anywhere. `SameBoundary` compares
with what the monitor computes from the stored rows without a candidate. Indicators
and ranks are arithmetic on one symbol or one date and left out; that the rows ranked
together have one date is a property of its own, and violated (section 5).

### Posts, Theses, DiaryReviews, Disciplines, Partners, TradePlans, StockLibrary

Rows written by a read and a later write, with nothing around them: each module keeps
the writes under way in `calls` (`requests`, `call`), and a write uses what it read.

* `Posts`: create, update, publish, archive, bulk publish and delete; the slug with
  its unique key, and the date of publication.
* `Theses`: save and review of one thesis; the review page, the attention list and
  the health shown with the thesis compute their signal from different columns, and
  `SignalsAgree` compares the three.
* `DiaryReviews`: the lifecycle of a review and the review page, five queries in any
  order. An edit that read a diary before it was reviewed would set it back; `Admits` is
  the CHECK of the migration, which refuses it, and `EditRefused` the roll-back. `Latest` is
  the limit of the bucket of completed reviews. Unless a diary was written between the
  queries, each open one is in one bucket, and a reviewed one that the page leaves out has
  given way to as many later ones as the limit.
* `Disciplines`: orders that are one above a maximum read before; imports that delete
  and then insert; the page that swaps two rows at once and commits a moment later.
* `Partners`: links, consents and the read of what a partner shares. The ghosts
  `agreed`, `says` and `since` are the last words of both users; `got` is what an
  answer holds.
* `TradePlans`: the plan is found, the diary is looked for, the row is written. What
  holds in between is due to the triggers, the CHECK and the foreign key of
  the migration, which are `Allowed` and `DeleteDiary`.
* `StockLibrary`: the watchlist upsert that is a SELECT and an INSERT or UPDATE, the
  record that follows it, and the dialog of the client, which gives up on an answer
  and tries again with the same idempotency key. `opening` is the ghost that says
  which visit of the dialog a record comes from.

### ActivityFeed

Pages over four tables behind a cursor. A page reads `SourceLimit` rows of each,
merges, drops the records that a diary of the page stands for, and cuts. Instants are
half days, since a diary counts as the noon of its date. `overrun` is set when a page
drops more of a full window than it has to spare, which the code does not notice.

### DiaryEditor, QuickNote, BlogDraft

Text that a user types while requests are under way. `DiaryEditor` is the page with
the date controller: lookups in flight with their token, the conflict question, edit
or append, copy, save, leave. `QuickNote` is the composer: the debounced autosave,
the draft in local storage, lookups, the save that first waits for a lookup. `BlogDraft`
is the post form with its autosave, the offer to restore, and the visits of the page.
In all three a number stands for a version of the text.

### DiaryFeeds, ArticleFeed, Calendar

Lists that grow while filters change and rows are written. Requests are cut into
asking, the server's read, and the answer. `DiaryFeeds` has both surfaces, `timeline`
with its generation and `list` without one; `ArticleFeed` has pages fetched ahead, an
origin, and posts that others publish or take back at any time, which shifts the offsets
of the pages not yet read; `Calendar` merges ranges of days and keeps the holidays of the latest month.
The ghosts (`changed`, `raced`, `unseen`) mark what no list could show.

### Accounts

The `users` table under registration, password changes and administrators. A call is
cut between its queries: the first looks for the address, compares the old password, or
finds the role of the caller (`adminGuard`, `server/middleware/admin.ts`), then the
target is looked for, and the write goes by id whatever the row has become.
`deleteUserAdmin` and `updateUserRoleAdmin` have the same shape and are one pair of
actions with a `kind`. What the writes do to sessions is in `Sessions`. The ghosts
`raced` and `lapsed` mark the two things nothing in the code prevents, see section 6.

### AdminLists, PartnersPage, CompanyPage

Pages whose operations may overlap, against the server they write to. A request is sent,
served, and answered, or fails before or after it was served.

* `AdminLists`: the tables of posts and of users, `surface` says which. Any answer that
  comes is shown; `resolveReloadPageAfterDelete`, the reset of the selection and of the
  page by a filter keep the table in step. `upset` marks overlapping and failed requests,
  `thinned` rows that left other than by one deletion.
* `PartnersPage`: links and API keys, in the same way. `Operate` shows a row before the
  answer, `Rollback` is what a failure puts back: a switch its link, a removal or a
  revocation the whole list. `crossed` collects the items for which the page promises
  nothing. The partner at the other end is in `Partners`.
* `CompanyPage`: all that is shown comes from one load of the hub, whose two reads are
  cut and which has the latest reviews up to its limit; each write loads it again. The
  panel of the thesis is unmounted meanwhile, which `Mounted` models. `misled` says that a
  review keeps another text than was shown, `lost` that the answer of a served write did
  not arrive.

### Reconciliation

The one-off script against writers that maintenance did not keep out. `Load` groups,
`reconcileGroup` is the transaction of one group, `Stop` any end before the last. The
content of a diary is the set of diaries it was first written in, so that a text, a
child row or a company that is lost or doubled shows. The transaction is one step; see
section 6 for what that leaves out.

### ClientSocket, AlertInbox, WebSession

The browser. `ClientSocket` is the socket plugin of a tab: several socket objects may
be alive, one is current; refusals, drops and the one refresh. `AlertInbox` is the
queue of the modal with its markers, fed by pushes and polls, and the dismissal that is
tried over the socket and then over HTTP; an event the tab gave up on may still be
served (`ServeLate`). `WebSession` has two cookies that all tabs share, the middleware
that renews one from the other, and the user every tab shows; answers come in any order
or not at all. `mixed` marks that an answer from before a sign-in or sign-out came after
it.

### SecEdgar

The cache (`CacheNext`): loads of one key are joined, a value that expired is put back when
a load fails, the least recently used entry goes. The request queue (`QueueNext`): a slot is
given back and taken again by the waiter that was woken, a gate starts requests apart,
some are retried. Neither reads a variable of the other: the loads of the cache are the
callers of the queue, and each is checked with every behaviour of its callers. Ages and
waits are capped where the code no longer tells them apart.

## 3. Runs

| Run | Question | Bounds, and why they are enough |
|---|---|---|
| `ledger` | Does the replay agree with a definition of the balance that neither sorts nor replays? | All lists of up to 4 rows, 2 symbols, 2 dates, quantities below, at and well above the tolerance 2. Two dates and four rows give every pattern of ties and of write-off followed by another SELL. |
| `diary_race` | Do constraints and row locks keep the tables consistent under concurrency? | 4 requests at once, 2 dates, bodies of every kind, row ids that are new, own, foreign and deleted. A violation takes one request to set up and two or three that race. |
| `diary_sequential` | Served one at a time, is the table that is written the one validated? | 3 requests in sequence, 3 dates, edits with one or two rows, ids own and foreign. |
| `diary_oversell` | Is the validation authoritative when requests race? | One BUY and two SELLs. Violated, see section 5. |
| `diary_tie` | Is it when rows share a trade date? | Three requests, one date. Violated. |
| `diary_dust` | Do malformed rows stay out of the table? | One quantity below half a stored step. Violated. |
| `sessions` | Do rotations, replays, logouts, password changes keep sessions apart and alone, and do they implement `SessionDevices`? | 5 requests, any of which may be any operation with any token or password: login, rotation, replay, and two that race with them. Every request is used once, so ids and versions are bounded by the number of requests. |
| `sockets` | Does revocation win against handshakes, dismissals, timers and restarts? Does a tab keep one socket, show what it marked, and show the user whose cookies it sends? | Server: 2 sockets, 2 revocations (out of order in every way), deletion; the sockets interact only through the minimum, and two are needed for one to be early and one late. `ClientSocket`: 4 socket objects, one more than a chain of refusal, refresh and sign-in makes. `AlertInbox`: 2 alerts, so that one waits behind the other. `WebSession`: 2 users, 2 tabs, 3 requests; 4 requests held as well (5.0 million states). |
| `market_data` | Are slots, flights and waiters accounted for, does every call return? Does SEC's cache go forward, does its queue start requests apart and end every one? | Yahoo: 3 calls, 3 symbols, 2 slots, 1 retry, 2 entries: a waiter, a shared flight, an eviction and a fallback all occur. SEC: 2 keys in a cache of 1; 3 requests for 1 slot, 1 waiter and 2 attempts, so that a request is refused, one waits and one retries. 4 requests for 2 slots held as well. No symmetry, because liveness is checked. |
| `market_stale` | Is the stale value there when it is needed? | 3 calls, 2 symbols, room for both. Violated. |
| `application` | The parts of `MCApplication`, each on its own. | See the table below. |
| `rotation_dates` | Are the rows ranked together of one date? | 2 symbols, 3 dates, 1 run. Violated. |

`application` has one set of bounds for each part:

| Part | Bounds |
|---|---|
| `AlertPusher` | interval 2, window 1, clock to 5, 2 ids: a late timer, a late query, a series of two |
| `UserDays` | days of 6 hours, offsets -2..2 before the change, changes on days 2 to 4, clock over 8 days, the hour of the trigger 3: both kinds of change, both sides of UTC, before, at and after midnight and trigger |
| `PriceAlerts` | 1 alert, 2 levels, 2 overlapping runs |
| `RotationBatch` | 2 symbols, 3 dates, 1 run at a time (`SameBoundary` has no claim for two) |
| `Positions` | up to 3 rows with quantities around the tolerance, 2 prices |
| `Partners` | 2 users, 2 links ever, 2 writes and 1 read under way |
| `Posts` | 2 posts, 2 calls, clock to 3 |
| `Theses` | 2 calls, 2 reviews, clock to 3, a due date in the day; dates before, in and after it as well (1.8 million states) held alone |
| `DiaryReviews` | 2 diaries, the due dates on which the day of the page begins and ends, 2 times of reviews, 1 row of completed reviews, 1 edit under way; a due date before the day as well (1.9 million states) held alone |
| `Disciplines` | 3 rows ever, 1 request under way (overlapping ones are excluded by the premise) |
| `TradePlans` | 2 users with 1 diary each, 1 plan, 2 prices, 1 write under way, diaries deleted in between; 2 writes held as well |
| `StockLibrary` | 1 stock, 2 texts, 1 opening of the dialog, 2 requests; 2 stocks, and 2 openings, held as well |
| `ActivityFeed` | 3 instants, 3 rows, 1 write, windows and pages of 1; 4 rows and windows of 2 without a write held as well |
| `DiaryEditor` | 2 dates, 3 lookups |
| `QuickNote` | 2 dates, 2 versions |
| `BlogDraft` | 3 versions, 2 visits |
| `DiaryFeeds` | 3 diaries, 1 of them written later, pages of 1, 1 refresh |
| `ArticleFeed` | 3 posts, any of them published at first, pages of 1, 1 new list |
| `Calendar` | 3 months, 1 change or write; 2 months with 3 changes and writes held as well |
| `Accounts` | the two users of the seed and one more, 2 addresses, 2 passwords, 2 calls under way |
| `AdminLists` | 2 rows, pages of 1, 2 requests under way |
| `PartnersPage` | 2 links or keys, 1 of the two shared resources, 2 requests under way, the load among them; 2 resources held as well |
| `CompanyPage` | an empty thesis and a text, 2 reviews of which the hub has 1, one write and one note under way; 2 texts held as well |
| `Reconciliation` | up to 4 diaries on 2 days, 1 stock, content of at most 3 diaries, 1 write of others |

Two requests that race, and one of a third kind that falls between them, are what a
violation of each of these properties took whenever a guard was removed; larger
instances that were run by hand are named above.

`MaxInFlight`, `MaxRows`, `MaxVersion`, `MaxPrice`, `MaxNow`, `MaxCalls`, `MaxRequests`,
`MaxGen`, `MaxVisits` and their like are bounds of the models, not of the code.
`MAX_CONCURRENCY`, `RETRY_COUNT`, `MAX_CACHE_ENTRIES`, `PAGE_SIZE`,
`COMPARISON_OFFSET` and the intervals are constants of the code, with smaller values in
the runs. Requests are interchangeable in `DiaryWrite` and `Sessions`, so these runs
use symmetry; they check no liveness.

Deadlock is checked in all runs but two. `application` and `rotation_dates` say
`CHECK_DEADLOCK FALSE`, because there the systems may really come to rest: a batch is
done, a script has nothing to merge, a clock has reached its bound. In the others the
only states without a step are those in which everything is answered, and they stutter
explicitly.

### Properties of bundles

| Property | What it says of which part |
|---|---|
| `AlertsReachTheUser` | `NoAlertSkipped` and `SeriesDismissedWhole` of the pusher; `DaysHold` of the days |
| `TriggersAreEarned` | price alerts |
| `ConsentHonoured` | partners; `PageIsTrue` of the partners page |
| `ReadsAgree` | positions: `ReadsAgree` and `StatsAgree`; `SameBoundary` of the rotation batch |
| `DraftsHold` | `LastLookupWins` of the editor, `PostedNotesStayGone` of the note, `PublishedIsNoDraft` of the post |
| `ListsAreWhole` | the two diary lists, the articles, the activity feed; `NothingIsLost` of the reconciliation |
| `RecordsHold` | `DatedIffPublished` of posts, `ThesisHolds` and `SignalsAgree` of theses, `BucketsPartition` of the diary reviews, `CaptureHolds` of the stock library, `PlansHold` of the trade plans, `AdminRemains` of the accounts, `HubHolds` of the company page, `CalendarHolds` of the calendar, `OrderHolds` of the disciplines, `TablesHold` of the tables of the administrators |
| `WritesKeep` (of steps) | `KeepsDraft` of the editor, `KeepsDate` of posts, `StaysReviewed` of the diary reviews (no step takes a review back), `PasswordHeld` of the accounts, `ArchivedAsItWas` of the company page: the action forms of `DraftKept`, `DatesKept`, `ReviewsStay`, `KeepsPasswords` and `KeepsArchived` |
| `TabHolds` | `OneLiveSocket` of the tab socket; `MarkedAlertsAreShown` and `PollingGoesOn` of the inbox; `OneIdentity` of the web session; the types of the three |
| `TabSettles` (liveness) | `ConnectingEnds` of the tab socket; `DismissalsEnd` of the inbox |
| `SecValuesGoForward` | `ValuesGoForward` of the cache of SEC |
| `SecRequestsFlow` (liveness) | `NoIdleSlot`, `StartsSpaced` and `RequestsEnd` of the queue of SEC |

The conjuncts were checked one by one against these slips: `AlertPusher`
`IsRecurringRootByNull`, `WindowBare`; `UserDays` `zonedPartsToUtcAtOnce`; `Partners`
`MayAnyone`, `sideSharesOwn`; `Positions` `CostOfSale`, `AppliedInFull`; `DiaryEditor`
`AskForDate`, `AnyLookup`; `QuickNote` `StillCurrent`, `Outdated`; `BlogDraft`
`ReadyAfterSave`; `DiaryFeeds` `Welcome`, `Chained`; `ArticleFeed` `CurrentAlways`;
`ActivityFeed` `EarlierDays`; `Calendar` `Replaced`, `CurrentAlways`; `Posts`
`resolvePublishedAtFresh`, `resolvePublishedAtKept`; `Theses` `LastReviewOutcomeKept`;
`DiaryReviews` `BeforeTodayInclusive`, `LatestUnlimited`, `AdmitsAll`; `PriceAlerts` `ArmedAll`; `Disciplines`
`NextOrderByCount`; `TradePlans` `ZoneOnly`, `LinkOnly`; `StockLibrary` `KeyOfAttempt`,
`UpsertedIfNew`; `Reconciliation` `MergedAlone`, `MergedUnnamed`; `RotationBatch`
`WindowRepeating`; `SecEdgar` `WakesIfOk`, `GateOpenAlways`; `AlertInbox`
`PollAfterReload`, `SettledNever`; `WebSession` `ClearAccess`; `Accounts` `UpsertUser`,
`AnyPassword`, `OwnRoleAllowed`; `AdminLists` `SelectionKept`, `ReloadSamePage`,
`FilterFetchesPage`; `PartnersPage` `SwitchStays`, `ListBack`; `CompanyPage` `FormKept`,
`HubKept`.

### Fairness

* `SocketSessions`: a handler that waits for the database resumes (`Middleware`,
  `Connection`), a committed revocation calls `revokeUser`, and the expiry timer of
  a socket fires. This is the event loop of a running process; a restart closes the
  sockets instead. Nothing is assumed of clients, of the clean-up timer, or of new
  revocations.
* `ClientSocket`: an attempt to connect ends (socket.io has a timeout) and a refresh
  is answered. Nothing is assumed of the user or of the server's refusals.
* `AlertInbox`: the timeout of a dismissal over the socket fires
  (`DISMISS_TIMEOUT_MS`), and a fetch ends, with an answer or an error.
* `MarketData`: an upstream call ends, with an answer or an error, and a sleep ends.
  That the Yahoo client ends its calls is an assumption about a library: there is no
  timeout in `runYahooRequest`.
* `SecEdgar`: timers fire, a fetch ends by its own timeout (`client.ts` sets one),
  and the microtasks run.

## 4. What is proved

TLAPS proves, for every value of the constants that the assumptions below admit:

| Module | Theorems of runs' properties |
|---|---|
| `SessionsProofs` | `TypeOK`, `OneLiveTokenPerFamily`, `RotationIsAChain`, `UsableTokenKnowsPassword`, `OnlyCurrentTokensRotate`, `ReplayRevokesOneFamily`, `DeadFamiliesStayDead`, and `ImplementsDevices`, the refinement |
| `AlertChannelProofs` | of the server: `TypeOK`, `NoStaleSocket`, `DismissalsAuthorized`; of the tab: `TabHolds` |
| `MCLedger` | `AcceptedIsCovered`, `CoveredIsAccepted`, `SymbolsIndependent`, `RowOrderIrrelevant`, for lists of any length, over the lemmas of `LedgerProofs` |
| `DiaryWriteProofs` | `TypeOK`, `OneDiaryPerDay`, `RowsHaveDiary`, `RowsStayPut`, `ReviewKept`, `AppendsOnlyAdd`; and, for requests served one at a time, `LedgerValidWithoutTies` |
| `MarketDataProofs` | `TypeOK`, `SlotsAccountedFor`, `AnswersNeverGoBack`, and `SecValuesGoForward` of the SEC cache |
| `RecordsProofs` | `AlertsReachTheUser`, `TriggersAreEarned`, `ConsentHonoured`, `DraftsHold`, `RecordsHold`, `WritesKeep`: every property of `MCRecords` |
| `ListsProofs` | `ListsAreWhole`: the diary lists, the articles, the activity feed and the reconciliation script |

No property of a state machine is inductive alone, because what acts now acts on what it read before. Each
module adds what the one that waits still knows, TLC checked it before it was proved, and
the proof has one step for each action.

**Sessions.** The invariant `IInv` adds two families of facts. `TokenFacts`:
no row bears a version of the future, one that bears the present version knows the
present password (a login that lost the race against a password change leaves a live
row of an old version, which no one can use), families are numbers already issued, and
a parent is a revoked row. `RequestFacts`: what a waiting handler remembers still holds
of the row, if that exists - its family and version never change, and *if the row is
still live, that version is the present one*. That last clause is the reason why the check
before the signing of the JWTs may be trusted after it: each bump of the version revokes or
deletes every row in the same transaction. Most actions only shrink the set of live rows;
the lemmas on `Shrinks` do their common part once, and `LoginCreate` and `RotateClaim`, the
two that insert, are treated on their own. The refinement maps each step to a sign-in, a
rotation, a sign-out or a stutter; a revocation of a family is the sign-out of one
device because of `OneLiveTokenPerFamily`.

**Sockets.** The invariant says of a handshake whose version has been revoked
that either the revocation has still to call `revokeUser`, or the minimum already
exceeds its version *and the handshake belongs to `early`*: so the clean-up timer
cannot forget the minimum before the handshake is over, and the check at registration
catches it. Without the ghost nothing ties the timer to the handshakes.

**Tab.** `OneLiveSocket` needs that the socket being refreshed, if it is still the
current one, is inactive and the plugin says `isConnecting`: nothing opens a second. Of
the inbox: the queue has each alert once, and a dismissal under way is of the alert on
the screen, so that what is taken away when it ends is what the user dismissed. Of the
cookies: a request under way carries the cookies of one user, and unless an answer came
late (`mixed`), every tab, cookie and request that is not late belongs to the last
sign-in. Versions and rows are bounded by the number of requests that are done, which
takes a count of a finite set.

**Ledger.** Nothing here is inductive over steps; the work is what a fold computes, and no
induction theorem of the library can be used, because they take an operator as a
parameter. Instead, a set of numbers has a least one (`LeastNat`, from
`WFMin`), and a counterexample with the fewest elements gives a smaller one:

1. the order exists and is the only one: the numbers of rows that precede are
   all different and fill `0 .. n - 1` (`OrderIs`);
2. a fold over a finite set exists, by the number of elements (`FoldExists`), hence the
   `CHOOSE` inside `FoldLeft` and `MapThenSumSet` finds it: the replay is a sequence of
   books, one for each row (`LedgerReplays`), and a sum loses exactly the row that is
   taken out, whichever that is (`TotalRemoves`);
3. after k rows, none of them refused, the holding of a symbol differs from the balance of
   those rows by at most one tolerance for each SELL among them (`ReplayInBalance`). The
   first two theorems are the two sides of it;
4. rows that are alike, put in the same order, leave the same book whatever
   their numbers are (`SameLedger`), which gives `RowOrderIrrelevant`, and the book of all
   rows and that of one symbol agree on that symbol (`BooksAgree`).

**Write path, the ledger.** `LedgerInv` adds to the invariant below that one request at most is in
flight, and that the ledger a validated request projects is still accepted
(`ValidatedStands`): nobody else has changed the rows since. At the commit, the rows projected
and the rows then stored are the same up to their numbers (`StoredAsProjected`: new rows get
ids of their own, one for each; named rows keep theirs, and the rest of the table is what
was read), and without ties rows that are the same in that sense are accepted together
(`SameWithoutTies`). The theorem has three hypotheses, and each is needed:

* `MaxInFlight = 1`: `diary_oversell` shows what happens without;
* `QuantitiesFit`, the bodies' quantities are whole steps of the column: `diary_dust`;
* `RowsNamedOnce`, no PUT names the id of a row twice: the proof could not be
  finished without it, and rightly so, see section 6.

**Write path.** `LocksHold`: a request that holds the lock of an append has its diary, no
other holds it, and the text it has read contains the text that is there; whoever writes
the diary waits for the lock. `OneDiaryPerDay` and `RowsHaveDiary` follow from what the
commits check, not from the preflight reads, of which the invariant says nothing: they
may be stale. That rows are new and not reused takes a count: the ids of the rows a commit
creates are the first ones not given yet, one for each (`CreatedCounts`).

**Market data.** `OneFlightPerSymbol`: the in-flight map, the flights and the callers that
wait name each other. With it, values are in order: a cached value and an answer are not
newer than the sending of any flight of the symbol, which is not newer than the price; so
whatever arrives later is not older. `clearExpired` filters a sequence; that it keeps
the entries it keeps, each once and in number at most the limit, is a lemma about
ranks in a finite set (`Cardinality({j : j <= i})`), since no induction over sequences is
available. **SEC.** A key has one load; an entry is of the latest value, and so is one that a
load holds to fall back on. A failing load may put its entry back into a cache
that has been filled meanwhile; so the length plus the number of loads that might is
bounded by the limit plus the number of callers.

**Records.** `RecordsInv` is a conjunction, one invariant for each part of `MCRecords`:

* pusher (`AwaitsItsTick`): an owed alert that may still be pushed was pushed, lies in the
  window of a tick whose query is not answered, or at least `BufferWindow` after the moment
  the next tick is due; as timers are no later than that, the next window begins before it.
  `SeriesInv`: who has instances is a root, so that whoever dismisses it takes them along;
* days: nothing changes but the clock, and the work is arithmetic. A midnight that is known
  divides the instants (`KnownDivides`), by cases of the change; a day is its hours
  (`DayIs`); the first end of a week or of the months is found (`EndDayIs`);
* price alerts (`AlertUndisturbed`): an alert that nobody disturbed is held by at most one
  run; one still to be judged is armed and as it was read; one being pushed is marked and
  was not pushed;
* partners: the columns of a link say what its two users said last (`LinksMeant`), and a
  request that reads has noted everyone who consented since it began (`RequestNoted`); so
  whatever the three reads of one answer saw was consented to at some moment of it;
* partners page (`Undisputed`): at most one request is about an item that no two crossed
  on, and that request knows what the server has: its list, the row to roll back to, or the
  answer; with no request, the page shows what the server has;
* editor: the latest token is of the date looked up last, and the baseline of an open
  page is never the draft, so that a draft is dirty and asked about; the latest lookup is
  one, and a question or an error is there only when it is over (`LookupFollowed`);
* quick note and post draft: the versions that are about - on the screen, kept, in a
  pending autosave that still counts - are none of those a diary has; once a post is
  published, nothing is kept, asked for or armed that could become its draft
  (`NoteInv`, `DraftInv`);
* posts (`StillAsRead`): a write that no other write of its post overtook knows the date it
  will keep, or one later than the last;
* theses: a save under way that would leave the thesis active has its text and its date of
  activation, because it read them in the same query (`ThesisCallsSound`); reviews that did
  not overlap are stored in the order of their times (`ReviewsInOrder`), which is what the
  two ways of finding the last one need to agree;
* reviews (`ReviewInv`): every row satisfies the CHECK, so that an edit that is admitted
  leaves a review as it is; a bucket of the page that has been read is an answer its query
  may still give, until a diary is written between two of the reads (`PageExact`), and of
  completed reviews such an answer has the limit or all of them;
* stock library: a record has the key of the opening it comes from; the dialog waits for
  one request, of its own opening, and when that is about to insert, its stock is on
  the list and watched unless it was archived since (`RequestsSound`, `DialogWaits`);
* trade plans: `PlansHold` with the types of the rows is inductive, thanks to the triggers
  and the foreign key: nothing is needed of the calls under way;
* accounts: until two calls raced, a password call under way has proved the password that
  is stored, and is alone with its user; a call of an administrator that has found its
  target is about another account, so that the caller is left, if it still was one
  (`AdminsLeft`);
* company page (`HubInStep`): while no write that was served waits for its answer and none was
  lost, the hub shown, the loads under way and the writes under way are in step with the
  server;
* calendar: the latest run of `loadHolidays`, and it alone, is for the month shown
  (`HolidayInv`); a diary of the month is shown or some load under way brings it
  (`MonthInv`);
* disciplines (`RuleInv`): each id and each order is there once, and while no two requests
  crossed, the one under way knows what the list and the rows are;
* tables of the administrators (`TableInv`): the table is the page of the server that it
  says, unless a request is under way that knows what it will be. A page is a set of ranks
  in a finite set, so that a removal moves each row by at most one.

**Lists.** What a list shows is a stretch of all its rows in an order, chosen by `CHOOSE`. So
the module begins with finite sets in an order: each member has a place, the number of
those before it; every place is taken by one member (`PlaceTaken`); hence there is a sequence
that lists the set, and only one. What a page takes, and what a merge of a page adds, are
then stretches of that sequence. `ListsInv` is a conjunction, one invariant for each part:

* diary lists (`FeedInv`): while no page raced, one later page at a time is for the list, and
  it is the next one (`FeedOneMore`); none is while a first page is awaited (`FeedQuiet`); and
  until a diary is written, what was read is what there is (`FeedFresh`). That no diary is
  shown twice needs none of this: `mergeDiariesById` sees to it whatever arrives;
* articles (`ArticleInv`): of the requests under way one at most is of the present search; it
  holds the flag that keeps others from starting, and a later page is the page after those
  shown (`ArticleOne`); that page, and those fetched ahead, are what the server has until
  a post comes or goes (`ArticleFresh`);
* activity feed (`ActivityInv`): a row that is not shown and was not written since comes after
  the cursor, or some window ran out (`ActivityWaits`). This needs that `afterActivityCursor`
  says of each of the four tables what comes after the cursor in the order of the merge
  (`CursorGoesOn`), and that a row its query found and did not take has a whole
  page of items before it (`LeftOut`), which is where the records dropped from a window count;
* reconciliation (`MergeInv`): a text is in exactly one diary unless its owner deleted it; the
  audit rows of a diary add up to what it was given; two diaries of one day that were there
  when the run loaded are in a group still to be merged (`GroupsHold`). The sum is a fold by
  `CHOOSE`, so its existence and that it does not depend on the order are proved first, from
  the least counterexample, as for the ledger.

The assumptions about constants are those the modules state, each with its reason there:
`SocketAssumption`, `TabAssumption`, `LedgerAssumption`, `DiaryAssumption`,
`MCLedgerAssumption`, `MarketDataAssumption`, `SecAssumption`, `RecordsAssumption`,
`ListsAssumption`. They fix the kinds of things (ids, dates and prices
are numbers, a null is none of them), that there is something to write where the model
needs a first member, and finiteness where something is counted; the clock of `Theses`
has room inside the day (`2 <= MaxThesisNow`), an offset is less than a day and the
trigger hour is not next to midnight, as with 24 hours and 9 o'clock, and the ends of
months given to `UserDays` reach beyond its clock; the rows of an administrator's table are
finitely many and a page has at least one, as have the pages of the lists, and a page of the
activity feed is no longer than what is read of each table (50 at most, and 100, in the code). Nothing is assumed of how many requests,
sockets, users or rows there are.

Only model-checked:

* liveness (`StaleSocketsClose`, `TabSettles`, `EveryCallReturns`, `SecRequestsFlow`):
  fairness and ENABLED are out of reach of the provers used;
* `ReadsAgree`: the matching of `Positions` divides amounts by quantities and compares
  fractions built by a fold; the arithmetic is not linear;
* `SameBoundary` of the rotation batch, and the types of the parts, `TypeOK` of
  `MCApplication`: see section 7.

## 5. Findings

* **Oversell by a race** (`diary_oversell`). The ledger is validated before the
  transaction and nothing is locked, so two SELLs of one holding are both accepted;
  from then on the account cannot write transactions until it deletes one.
* **Ties** (`diary_tie`). An edited row is validated as the last of its date but
  stored under its old id, in front of the rows of the same date. The ledger accepted
  is not the one read back.
* **Dust** (`diary_dust`). A quantity below 0.00005 is above 0 in validation and 0 in
  the column, and then blocks the validation of every later write.
* **Stale on error** (`market_stale`). Every write to the cache drops the expired
  entries of all keys, so the value that `getCachedQuote` promises to fall back on is
  gone as soon as another symbol is refreshed.
* **Ranks over two dates** (`rotation_dates`). A scope is ranked over the last bar of
  every symbol, whatever its date: a symbol whose provider is a day late is ranked
  against bars of the next day, though `enrichScopes` asks for snapshots of one date.

`diary_sequential` and `LedgersStayValid` show that these, and a row named twice (section
6), are the whole story: one request at a time, without ties, with quantities that the column
holds and rows that are named once, every write leaves a valid ledger.

## 6. Not modelled, and behaviours seen on the way

Each component left out is listed in `PROJECT.json` with its reason: pages without a
state of their own and generated code are presentation; the check of an API key is one
lookup by its hash, the rate limiter is a counter of one process; indicator, TTL and
calculator arithmetic is numeric code in which no interleaving takes part; SEC parsing
and downloads are I/O. Profile edits are written as they come. Prices are left
out of `DiaryWrite`: they are checked to be above 0 like quantities, rounded by the same
`Decimal(15,4)`, and take no part in the balance; a price below half a stored step would
fail in the way of the dust finding. ETF watchlists, the order of the stock watchlist,
and the import of prices and breadth are left out as single statements. The pages that
show market boards and holdings load and show; they keep no text and write nothing.

While modelling, the following behaviours were met that the properties exclude by a
premise, or that no comment or document speaks against. They are listed so that a
reader knows what the premises are for.

* Diary edits: a PUT that names the id of one row twice, as a BUY and as a SELL, is
  validated as two rows and stored as the last of them: `diffTransactions` and
  `persistTransactionDiff` (`diary-write.ts:207` and `:248`) do not look for repeated ids,
  nor does the schema of the body, so that a SELL without its BUY can be left. The editor
  keeps the rows it was given, and does not send such a body. It was met by the proof of `LedgersStayValid`.
* Alerts: an alert pushed while a tab is disconnected, and due after it reconnects, is
  never fetched, although the log of `alert-pusher.ts:133` says that it will be; one
  created after a tick for a time before the next tick is not pushed. A poll answered
  after sign-out still enqueues; a stale poll shows a dismissed alert again; signing out
  during a dismissal may drop another alert.
* Days: in zones west of UTC whose summer time skips midnight (Santiago, Havana) the
  midnight is taken for 23:00 of the day before, and east of UTC a midnight that comes
  twice is taken for the second, so that in that hour the range of today does not contain
  the present instant (`user-tz.ts:9` and `:168` say it does).
* Price alerts: a row written while a run waits for quotes is judged as it was read; two
  runs that hold an alert at once may both push it.
* Posts: two publications at once set the date twice; an edit that read PUBLISHED and an
  archive at once publish again with the old date; a bulk operation stops at a post that
  was deleted meanwhile.
* Theses: a save that read no activation date overwrites one set at the same time; a
  review may be recorded on a thesis archived meanwhile; overlapping reviews leave
  `lastReviewedAt` and the latest row apart.
* Diary reviews: a write between the five queries may put a diary in two buckets; an edit
  that read "not reviewed" and comes after the review of its diary is refused by
  `diaries_review_lifecycle_v1_check`, with its rows and its text, as a server error; of
  the reviewed diaries the page shows the latest 50 (`diary-read.ts:461`), an older one is
  in no bucket; the bucket `unscheduled` is always empty. The theses of the page and of the
  attention list are the first 100 (`diary-read.ts:486`); `Theses` has one.
* Disciplines: two creations at once get one order; a replacing import that fails leaves
  nothing; a move made while the list is being fetched is lost without a word.
* Trade plans: a put that names one bound of the zone is judged without the stored other
  one, and the CHECK answers with a server error.
* Stock library: a text edited after a lost answer is reported saved while the record
  keeps the first; two upserts of one item at once may fail on the unique key.
* Partners page: the rollback of a failed switch restores the link as it was before, that
  of a failed removal or revocation the whole list: what was answered meanwhile for other
  items is no longer shown, until the page is loaded again.
* Accounts: two administrators who demote or delete each other at once leave none; two
  changes of one password that both proved the old one both commit, and the later
  replaces a password its caller did not know.
* Administration: a bulk deletion, or a change of status under a filter, that empties the
  last page leaves it empty; of two requests the later answer is shown, whichever filter
  it was for.
* Company page: saving a note loads the hub again, which discards a thesis or a review
  that was being typed, and saving a thesis discards a note; after a lost answer,
  archiving puts back the text from before, and a review that is sent again is stored
  twice.
* Diary editor: after an automatic change of the date the next change by the user may be
  taken for it (`ignoreDateWatchFor`). Quick note: modal and one-liner share one draft; text
  typed during a save is marked clean. Post editor: leaving always stores a draft.
* `pages/diaries/index.vue` gives its requests no generation: a late page of the former
  filter is merged into the new list, and a refresh leaves `currentPage`.
* Articles: behind an error, scrolling adds pages of the new search to the old list. Pages
  go by offset (`post-queries.ts:125`, `:219`) and are joined as they come
  (`articles/index.vue:399`): after a post was published the next page begins with the last
  article of the one before, which is shown twice; after one was taken back it skips one.
* Activity feed: records are left out after the windows are cut, so that more of them than
  a window can spare hide later ones, although `investment-activity.ts:75` says that none is
  omitted; a record older than its diary is shown or not depending on the page boundary.
* Calendar: a deleted day stays until the page is left; `pending` is cleared by the first of
  two loads.
* Web session: a renewal answered after a logout, or after the login of another user, sets
  an access cookie of the former session; a logout whose answer is lost leaves the cookies;
  a tab that missed a sign-in elsewhere shows the former user.
* SEC: a body that fails to be read is neither retried nor covered by the stale value.
* Reconciliation: a diary moved to another day between the load and the transaction of its
  group is merged into the old day. The transaction reads without locks: a text that a
  writer commits to a diary of its group while it runs is overwritten, and a row or a company
  that is added to a merged one after its own were moved on is deleted with it. The
  procedure keeps writers out (`docs/operations/DEPLOYMENT.md`); the model lets them in
  between two transactions only.

## 7. Plan

1. `TypeOK` of the parts of `MCApplication`, most of which their invariants already imply;
   `SameBoundary` of the rotation batch.
2. `AlertPusher` composed with `SocketSessions` and `AlertInbox` through emission.
