----------------------------- MODULE QuickNote -----------------------------
(***************************************************************************)
(* The quick note composer (composables/useQuickNoteComposer.ts) as the    *)
(* modal and the one-liner use it: a note is autosaved to local storage    *)
(* after a pause, restored by the next visit, and posted as a diary of its *)
(* date or appended to the one there.  Title, tags, symbols and template   *)
(* go with the content: a version stands for them all.                     *)
(***************************************************************************)
EXTENDS Naturals, FiniteSets

CONSTANTS
  Dates,
  MaxVersions   \* bound on the edits

VARIABLES
  shown,                   \* the composer is initialised, and not disposed
  content, date,           \* of the state; 0 is the empty note
  saveMode, saveModeTouched,
  typed,                   \* the last version typed
  draft,                   \* local storage: a version, or 0
  pending,                 \* the debounced autosave that waits: {} or {[version,
                           \* current]}, current: of the autosaveGeneration
  lookups,                 \* by-date requests: [date, save, current], current: of
                           \* the existingDiarySyncGeneration
  existingDiaryForDate,
  saving,                  \* of handleSave: "no", "sync", "post"
  posted,                  \* what the request of save carries
  kept                     \* ghost: versions a diary has

sync == <<lookups, existingDiaryForDate>>
vars == <<shown, content, date, saveMode, saveModeTouched, typed, draft, pending,
          sync, saving, posted, kept>>

Modes == {"create", "append"}
NoPost == [version |-> 0, date |-> 0, mode |-> "create"]

TypeOK ==
  /\ shown \in BOOLEAN
  /\ content \in 0..MaxVersions /\ typed \in 0..MaxVersions /\ draft \in 0..MaxVersions
  /\ date \in Dates
  /\ saveMode \in Modes /\ saveModeTouched \in BOOLEAN
  /\ pending \subseteq [version : 0..MaxVersions, current : BOOLEAN] /\ Cardinality(pending) <= 1
  /\ lookups \subseteq [date : Dates, save : BOOLEAN, current : BOOLEAN]
  /\ existingDiaryForDate \in BOOLEAN
  /\ saving \in {"no", "sync", "post"}
  /\ kept \subseteq 1..MaxVersions

Init ==
  /\ shown = FALSE
  /\ content = 0 /\ date \in Dates
  /\ saveMode = "create" /\ saveModeTouched = FALSE
  /\ typed = 0
  /\ draft = 0 /\ pending = {}
  /\ lookups = {} /\ existingDiaryForDate = FALSE
  /\ saving = "no" /\ posted = NoPost
  /\ kept = {}

(* A plausible mistake: the autosave that waits is not put off.            *)
AutosaveEach(version) ==
  pending' = IF version = 0 THEN pending ELSE pending \cup {[version |-> version, current |-> TRUE]}

(* The watcher: a note worth keeping is put in the debounced autosave.     *)
Autosave(version) ==
  pending' = IF version = 0 THEN pending ELSE {[version |-> version, current |-> TRUE]}

Overtaken == {[l EXCEPT !.current = FALSE] : l \in lookups}

(* syncExistingDiaryForDate, up to its await *)
Sync(d, save) ==
  /\ lookups' = Overtaken \cup {[date |-> d, save |-> save, current |-> TRUE]}
  /\ UNCHANGED existingDiaryForDate

(* A plausible mistake: an autosave that waits is left to run. *)
StillCurrent == pending

(* Reset and dispose outdate the autosave that waits. *)
Outdated == {[p EXCEPT !.current = FALSE] : p \in pending}

(* resetState: the empty note of today; the watcher is suppressed. *)
Reset(d) ==
  /\ pending' = Outdated
  /\ date' = d
  /\ content' = 0
  /\ saveMode' = "create" /\ saveModeTouched' = FALSE

(* initialize: a draft that is not too old is restored or, if the user     *)
(* declines, cleared.                                                      *)
Open(restore) ==
  /\ ~shown
  /\ shown' = TRUE
  /\ content' = IF restore THEN draft ELSE content
  /\ draft' \in IF restore \/ draft = 0 THEN {draft} ELSE {0, draft}
  /\ saveModeTouched' = FALSE
  /\ IF restore THEN draft # 0 /\ Autosave(draft) ELSE UNCHANGED pending
  /\ Sync(date, FALSE)
  /\ UNCHANGED <<date, saveMode, typed, saving, posted, kept>>

(* setTitle, setContent, applySnippet, ... *)
Type ==
  /\ shown /\ typed < MaxVersions
  /\ typed' = typed + 1
  /\ content' = typed + 1
  /\ Autosave(typed + 1)
  /\ UNCHANGED <<shown, date, saveMode, saveModeTouched, draft, sync,
                 saving, posted, kept>>

SetDate(d) ==
  /\ shown /\ d # date
  /\ date' = d
  /\ saveModeTouched' = FALSE
  /\ Sync(d, FALSE)
  /\ Autosave(content)
  /\ UNCHANGED <<shown, content, saveMode, typed, draft, saving, posted, kept>>

SetSaveMode(mode) ==
  /\ shown /\ mode # saveMode
  /\ saveMode' = mode /\ saveModeTouched' = TRUE
  /\ Autosave(content)
  /\ UNCHANGED <<shown, content, date, typed, draft, sync, saving, posted, kept>>

(* The debounced saveDraft runs, a second after the last edit. *)
SaveDraft ==
  \E p \in pending :
    /\ pending' = {}
    /\ draft' = IF p.current THEN p.version ELSE draft
    /\ UNCHANGED <<shown, content, date, saveMode, saveModeTouched, typed, sync, saving, posted, kept>>

(* The answer of a lookup, or its failure; save goes on after its own. *)
LookupEnds(l, found, ok) ==
  /\ l \in lookups
  /\ lookups' = lookups \ {l}
  /\ IF ok /\ l.current /\ l.date = date
       THEN /\ existingDiaryForDate' = found
            /\ saveMode' = IF saveModeTouched THEN saveMode ELSE IF found THEN "append" ELSE "create"
       ELSE UNCHANGED <<existingDiaryForDate, saveMode>>
  /\ IF l.save
       THEN IF content = 0
         THEN saving' = "no" /\ UNCHANGED posted
         ELSE saving' = "post" /\ posted' = [version |-> content, date |-> date, mode |-> saveMode']
       ELSE UNCHANGED <<saving, posted>>
  /\ IF saveMode' # saveMode THEN Autosave(content) ELSE UNCHANGED pending
  /\ UNCHANGED <<shown, content, date, saveModeTouched, typed, draft, kept>>

(* handleSave, then save up to its first await *)
Save ==
  /\ shown /\ saving = "no"
  /\ saving' = "sync"
  /\ Sync(date, TRUE)
  /\ UNCHANGED <<shown, content, date, saveMode, saveModeTouched, typed, draft, pending,
                 posted, kept>>

(* The note is posted: the draft is cleared and the composer reset; the    *)
(* modal closes.                                                           *)
Posted(d, closes) ==
  /\ saving = "post"
  /\ saving' = "no" /\ posted' = NoPost
  /\ kept' = kept \cup {posted.version}
  /\ draft' = 0
  /\ Reset(d)
  /\ shown' = (shown /\ ~closes)
  /\ UNCHANGED <<typed, sync>>

(* The request fails: the note stays. *)
PostFails ==
  /\ saving = "post"
  /\ saving' = "no" /\ posted' = NoPost
  /\ UNCHANGED <<shown, content, date, saveMode, saveModeTouched, typed, draft, pending,
                 sync, kept>>

(* Cancelling the one-liner, or closing the modal, which disposes of the   *)
(* composer too; the draft remains for the next visit.                     *)
Cancel(d, closes) ==
  /\ shown
  /\ Reset(d)
  /\ shown' = ~closes
  /\ lookups' = IF closes THEN Overtaken ELSE lookups
  /\ UNCHANGED <<typed, draft, existingDiaryForDate, saving, posted, kept>>

Next ==
  \/ \E restore \in BOOLEAN : Open(restore)
  \/ Type \/ SaveDraft \/ Save \/ PostFails
  \/ \E d \in Dates : SetDate(d) \/ \E closes \in BOOLEAN : Posted(d, closes) \/ Cancel(d, closes)
  \/ \E mode \in Modes : SetSaveMode(mode)
  \/ \E l \in lookups : \E found, ok \in BOOLEAN : LookupEnds(l, found, ok)

Spec == Init /\ [][Next]_vars

-----------------------------------------------------------------------------
(* A note that was posted does not come back: not as the draft offered by  *)
(* the next visit, whatever autosave was waiting when the answer came, and *)
(* not in the composer, where it would be appended to the diary again.     *)
PostedNotesStayGone == draft \notin kept /\ (saving = "no" => content \notin kept)
=============================================================================
