---------------------------- MODULE DiaryEditor ----------------------------
(***************************************************************************)
(* A page that writes a diary (pages/diaries/new.vue,                      *)
(* pages/diaries/[id]/edit.vue): the form, the guard of its unsaved draft  *)
(* (lib/diary-authoring/draft-guard.ts) and the controller that looks up   *)
(* which diary a chosen date has (date-conflict.ts).  The lookups are      *)
(* requests whose answers come in any order.                               *)
(***************************************************************************)
EXTENDS Naturals, FiniteSets

CONSTANTS
  Dates,        \* positive numbers
  MaxLookups    \* bound on the lookups of one visit

VARIABLES
  page,               \* "new" or "edit"; the phase of the page
  date, content,      \* the form: its date and the rest
  baseline,           \* draftGuard: the content marked clean
  diaryId, appendToExisting, committedDate, pendingConflict, dateLookupError,
  ignoreDateWatchFor,
  lookups, latest,    \* requests in flight; the latest token
  saving,             \* the request of saveDiary is under way
  copying,            \* the request of copyFromLatest is under way
  looked              \* ghost: the date of the latest lookup

controller == <<diaryId, appendToExisting, committedDate, pendingConflict, dateLookupError>>
vars == <<page, date, content, baseline, controller, ignoreDateWatchFor, lookups, latest,
          saving, copying, looked>>

None == 0
Kinds == {"new", "edit"}

(* The rest of the form: empty, what the user wrote, or the diary of a     *)
(* date as it was read.  A diary is named by its date.                     *)
Typed == 100
Empty == 99
Content == {Typed, Empty} \cup Dates

TypeOK ==
  /\ page \in [kind : Kinds, phase : {"loading", "open", "left"}]
  /\ date \in Dates /\ content \in Content /\ baseline \in Content
  /\ diaryId \in Dates \cup {None} /\ committedDate \in Dates
  /\ appendToExisting \in BOOLEAN /\ dateLookupError \in BOOLEAN
  /\ pendingConflict \in Dates \cup {None}
  /\ ignoreDateWatchFor \in Dates \cup {None}
  /\ lookups \subseteq [token : 1..MaxLookups, date : Dates, initial : BOOLEAN, preserve : BOOLEAN]
  /\ latest \in 0..MaxLookups
  /\ saving \in BOOLEAN /\ copying \in BOOLEAN
  /\ looked \in Dates

(* The date input is disabled while a conflict is shown, the form hidden.  *)
FormShown == page.phase = "open" /\ pendingConflict = None

checkingDate == \E l \in lookups : l.token = latest

isContentDirty == content # baseline

Lookup(d, initial, preserve) ==
  /\ latest' = latest + 1
  /\ lookups' = lookups \cup {[token |-> latest + 1, date |-> d, initial |-> initial, preserve |-> preserve]}
  /\ looked' = d

(* replaceForm, restoreCommittedDate: the watcher is told to ignore the    *)
(* date; it runs, and forgets it, only if the date changes.                *)
SetDate(d) ==
  /\ date' = d
  /\ ignoreDateWatchFor' = IF d = date THEN d ELSE None

(* Mounting: new.vue looks its date up before it shows the form; edit.vue  *)
(* waits for its diary.                                                    *)
Init ==
  \E d \in Dates : \E kind \in Kinds :
    /\ page = [kind |-> kind, phase |-> "loading"]
    /\ date = d /\ content = Empty /\ baseline = Empty
    /\ diaryId = IF kind = "edit" THEN d ELSE None
    /\ committedDate = d /\ appendToExisting = FALSE
    /\ pendingConflict = None /\ dateLookupError = FALSE
    /\ ignoreDateWatchFor = None
    /\ lookups = IF kind = "edit" THEN {}
                 ELSE {[token |-> 1, date |-> d, initial |-> TRUE, preserve |-> FALSE]}
    /\ latest = IF kind = "edit" THEN 0 ELSE 1
    /\ saving = FALSE /\ copying = FALSE
    /\ looked = d

(* edit.vue's diary arrives; it may be of another date than today. *)
Hydrate(d) ==
  /\ page.kind = "edit" /\ page.phase = "loading"
  /\ page' = [page EXCEPT !.phase = "open"]
  /\ SetDate(d)
  /\ content' = d /\ baseline' = d
  /\ diaryId' = d /\ committedDate' = d /\ looked' = d
  /\ appendToExisting' = FALSE /\ pendingConflict' = None /\ dateLookupError' = FALSE
  /\ UNCHANGED <<lookups, latest, saving, copying>>

Types ==
  /\ FormShown
  /\ content' = Typed
  /\ UNCHANGED <<page, date, baseline, controller, ignoreDateWatchFor, lookups, latest,
                 saving, copying, looked>>

(* The user picks a date, and the watcher of form.date runs. *)
ChangeDate(d) ==
  /\ FormShown
  /\ d # date
  /\ latest < MaxLookups
  /\ date' = d
  /\ IF ignoreDateWatchFor = d
       THEN ignoreDateWatchFor' = None /\ UNCHANGED <<lookups, latest, looked, dateLookupError>>
       ELSE Lookup(d, FALSE, FALSE) /\ dateLookupError' = FALSE /\ UNCHANGED ignoreDateWatchFor
  /\ UNCHANGED <<page, content, baseline, diaryId, appendToExisting, committedDate,
                 pendingConflict, saving, copying>>

(* retryDateLookup *)
Retry ==
  /\ page.phase = "open" /\ dateLookupError
  /\ latest < MaxLookups
  /\ Lookup(committedDate, FALSE, TRUE)
  /\ dateLookupError' = FALSE
  /\ UNCHANGED <<page, date, content, baseline, diaryId, appendToExisting, committedDate,
                 pendingConflict, ignoreDateWatchFor, saving, copying>>

(* A plausible mistake: answers are taken as they come. *)
AnyLookup(l) == TRUE

(* latestLookup.isLatest *)
IsLatest(l) == l.token = latest

(* A lookup has ended; new.vue shows the form once its first one has. *)
Ended(l) ==
  /\ l \in lookups
  /\ lookups' = lookups \ {l}
  /\ page' = IF l.initial THEN [page EXCEPT !.phase = IF @ = "loading" THEN "open" ELSE @] ELSE page
  /\ UNCHANGED <<latest, saving, copying, looked>>

(* The date has a diary: the user is asked. *)
Found(l) ==
  /\ Ended(l)
  /\ pendingConflict' = IF IsLatest(l) THEN l.date ELSE pendingConflict
  /\ UNCHANGED <<date, content, baseline, diaryId, appendToExisting, committedDate,
                 dateLookupError, ignoreDateWatchFor>>

(* A plausible mistake: the draft is judged by the date alone. *)
AskForDate(l) == ~l.initial /\ content = Empty

(* A draft is discarded only if the user confirms. *)
MustAsk(l) == ~l.initial /\ isContentDirty

(* The date is free: a new diary, unless the author keeps the draft.       *)
Free(l, confirmed) ==
  /\ Ended(l)
  /\ IF ~IsLatest(l) \/ l.preserve
       THEN UNCHANGED <<date, content, baseline, controller, ignoreDateWatchFor>>
     ELSE IF MustAsk(l) /\ ~confirmed
       THEN /\ SetDate(committedDate)
            /\ UNCHANGED <<content, baseline, controller>>
       ELSE /\ SetDate(l.date)
            /\ content' = Empty /\ baseline' = Empty
            /\ diaryId' = None /\ appendToExisting' = FALSE
            /\ committedDate' = l.date /\ pendingConflict' = None
            /\ UNCHANGED dateLookupError

(* The lookup fails: back to the committed date. *)
LookupFails(l) ==
  /\ Ended(l)
  /\ IF IsLatest(l)
       THEN /\ dateLookupError' = TRUE
            /\ pendingConflict' = None
            /\ IF l.date # committedDate
                 THEN SetDate(committedDate)
                 ELSE UNCHANGED <<date, ignoreDateWatchFor>>
            /\ UNCHANGED <<content, baseline, diaryId, appendToExisting, committedDate>>
       ELSE UNCHANGED <<date, content, baseline, controller, ignoreDateWatchFor>>

(* The session is over: the answer is dropped, whatever it was about. *)
LookupUnauthorised(l) ==
  /\ Ended(l)
  /\ UNCHANGED <<date, content, baseline, controller, ignoreDateWatchFor>>

(* resolveDateConflict *)
Cancel ==
  /\ page.phase = "open" /\ pendingConflict # None
  /\ SetDate(committedDate)
  /\ pendingConflict' = None
  /\ UNCHANGED <<page, content, baseline, diaryId, appendToExisting, committedDate,
                 dateLookupError, lookups, latest, saving, copying, looked>>

Edit ==
  /\ page.phase = "open" /\ pendingConflict # None
  /\ SetDate(pendingConflict)
  /\ content' = pendingConflict /\ baseline' = pendingConflict
  /\ diaryId' = pendingConflict /\ committedDate' = pendingConflict
  /\ appendToExisting' = FALSE /\ pendingConflict' = None /\ dateLookupError' = FALSE
  /\ UNCHANGED <<page, lookups, latest, saving, copying, looked>>

AppendToIt ==
  /\ page.phase = "open" /\ pendingConflict # None
  /\ diaryId' = None /\ appendToExisting' = TRUE
  /\ committedDate' = pendingConflict
  /\ pendingConflict' = None /\ dateLookupError' = FALSE
  /\ UNCHANGED <<page, date, content, baseline, ignoreDateWatchFor, lookups, latest,
                 saving, copying, looked>>

(* copyFromLatest: the transactions are added to the form there is when    *)
(* they arrive.                                                            *)
Copy ==
  /\ FormShown /\ page.kind = "new" /\ ~copying
  /\ copying' = TRUE
  /\ UNCHANGED <<page, date, content, baseline, controller, ignoreDateWatchFor, lookups, latest,
                 saving, looked>>

CopyEnds(found) ==
  /\ copying
  /\ copying' = FALSE
  /\ content' = IF found /\ page.phase = "open" THEN Typed ELSE content
  /\ UNCHANGED <<page, date, baseline, controller, ignoreDateWatchFor, lookups, latest, saving, looked>>

(* saveDiary: allowed while a date is being looked up. *)
Save ==
  /\ FormShown /\ ~saving
  /\ saving' = TRUE
  /\ UNCHANGED <<page, date, content, baseline, controller, ignoreDateWatchFor, lookups, latest,
                 copying, looked>>

SaveEnds(ok) ==
  /\ saving
  /\ saving' = FALSE
  /\ IF ok
       THEN baseline' = content /\ page' = [page EXCEPT !.phase = "left"]
       ELSE UNCHANGED <<page, baseline>>
  /\ UNCHANGED <<date, content, controller, ignoreDateWatchFor, lookups, latest, copying, looked>>

(* cancelAuthoring, or another way out that routeLeaveGuard let through.   *)
Leave ==
  /\ page.phase = "open"
  /\ page' = [page EXCEPT !.phase = "left"]
  /\ UNCHANGED <<date, content, baseline, controller, ignoreDateWatchFor, lookups, latest,
                 saving, copying, looked>>

Next ==
  \/ \E d \in Dates : Hydrate(d) \/ ChangeDate(d)
  \/ \E l \in lookups :
       \/ Found(l) \/ LookupFails(l) \/ LookupUnauthorised(l)
       \/ \E confirmed \in BOOLEAN : Free(l, confirmed)
  \/ Types \/ Retry \/ Cancel \/ Edit \/ AppendToIt
  \/ Copy \/ (\E found \in BOOLEAN : CopyEnds(found))
  \/ Save \/ (\E ok \in BOOLEAN : SaveEnds(ok))
  \/ Leave

Spec == Init /\ [][Next]_vars

-----------------------------------------------------------------------------
(* What the user wrote is replaced only in a step that asked: the user     *)
(* chose to edit the other diary, or confirmed when a lookup, not an early *)
(* one and not a retry, found the chosen date free.                        *)
KeepsDraft ==
  page.phase = "open" /\ content = Typed /\ content' # Typed =>
    \/ Edit
    \/ \E l \in lookups : Free(l, TRUE) /\ ~Free(l, FALSE) /\ ~l.initial /\ ~l.preserve
                          /\ l.date = looked
DraftKept == [][KeepsDraft]_vars

(* Answers that arrive out of order leave the state of the latest lookup:  *)
(* a question on the screen is about the date that was looked up last, and *)
(* what a save replaces or appends to is a date the user was asked about   *)
(* or the form was made for, never that of an overtaken answer.            *)
LastLookupWins ==
  /\ pendingConflict # None /\ ~checkingDate => pendingConflict = looked
  /\ diaryId # None => diaryId = committedDate /\ ~appendToExisting
=============================================================================
