----------------------------- MODULE BlogDraft -----------------------------
(***************************************************************************)
(* The draft of a blog post (composables/useBlogDraft.ts) on the pages     *)
(* that write one (pages/admin/blog/new.vue, [id]/edit.vue): autosaved     *)
(* five seconds after an edit and when the page is left, offered by the    *)
(* next visit, cleared when the post is published.  One page is open at a  *)
(* time, and none is opened before the request of the last one has ended.  *)
(***************************************************************************)
EXTENDS Naturals, FiniteSets

CONSTANTS
  MaxVersions,  \* bound on the edits
  MaxVisits     \* bound on the visits of the page

VARIABLES
  kind,               \* "new": new.vue; "edit": [id]/edit.vue
  page,               \* "away", "loading", "open"
  form, typed,        \* the version in the form, and the last one written; 0 is empty
  status,             \* of the form: "DRAFT" or "PUBLISHED"
  draft,              \* local storage
  pending,            \* the debounced persistDraft that waits: of the current
                      \* or outdated by a clear or a disable
  readyForAutosave,
  request,            \* the save under way: {} or {[version, status]}
  stored, published,  \* the post on the server; ghost: versions this visit published
  visits

vars == <<kind, page, form, typed, status, draft, pending, readyForAutosave,
          request, stored, published, visits>>

Versions == 0..MaxVersions
Statuses == {"DRAFT", "PUBLISHED"}

TypeOK ==
  /\ kind \in {"new", "edit"}
  /\ page \in {"away", "loading", "open"}
  /\ form \in Versions /\ typed \in Versions /\ draft \in Versions /\ stored \in Versions
  /\ status \in Statuses
  /\ pending \in {"none", "current", "outdated"}
  /\ readyForAutosave \in BOOLEAN
  /\ request \subseteq [version : Versions, status : Statuses] /\ Cardinality(request) <= 1
  /\ published \subseteq Versions
  /\ visits \in 0..MaxVisits

Init ==
  /\ kind \in {"new", "edit"}
  /\ page = "away" /\ form = 0 /\ status = "DRAFT"
  /\ draft = 0 /\ pending = "none" /\ readyForAutosave = FALSE
  /\ request = {} /\ stored = (IF kind = "edit" THEN 1 ELSE 0) /\ typed = stored
  /\ published = {} /\ visits = 0

(* The page is mounted, a new instance of the composable with it; the one  *)
(* that edits a post fetches it first.                                     *)
Visit ==
  /\ page = "away" /\ request = {} /\ visits < MaxVisits
  /\ visits' = visits + 1
  /\ page' = "loading"
  /\ form' = 0 /\ status' = "DRAFT"
  /\ pending' = "none" /\ readyForAutosave' = FALSE
  /\ published' = {}
  /\ UNCHANGED <<kind, typed, draft, request, stored>>

(* The post is there: an old draft is restored or cleared; the watcher     *)
(* sees the form change.                                                   *)
Opened(restore) ==
  /\ page = "loading"
  /\ page' = "open"
  /\ form' = IF draft # 0 /\ restore THEN draft ELSE IF kind = "edit" THEN stored ELSE 0
  /\ draft' = IF restore THEN draft ELSE 0
  /\ pending' = IF form' # form THEN "current" ELSE pending
  /\ readyForAutosave' = TRUE
  /\ UNCHANGED <<kind, typed, status, request, stored, published, visits>>

(* The fetch fails: an error is shown, and nothing is autosaved. *)
LoadFails ==
  /\ page = "loading" /\ kind = "edit"
  /\ page' = "away"
  /\ UNCHANGED <<kind, form, typed, status, draft, pending, readyForAutosave,
                 request, stored, published, visits>>

Edits ==
  /\ page = "open" /\ typed < MaxVersions
  /\ typed' = typed + 1 /\ form' = typed + 1
  /\ pending' = "current"
  /\ UNCHANGED <<kind, page, status, draft, readyForAutosave, request, stored,
                 published, visits>>

(* persistDraftNow, five seconds later; the form is the live one. *)
Autosaves ==
  /\ pending # "none"
  /\ pending' = "none"
  /\ draft' = IF pending = "current" /\ readyForAutosave THEN form ELSE draft
  /\ UNCHANGED <<kind, page, form, typed, status, readyForAutosave, request, stored, published,
                 visits>>

Outdated == IF pending = "none" THEN "none" ELSE "outdated"

(* createPost, updatePost *)
Save(s) ==
  /\ page = "open" /\ request = {} /\ form # 0
  /\ status' = s
  /\ request' = {[version |-> form, status |-> s]}
  /\ UNCHANGED <<kind, page, form, typed, draft, pending, readyForAutosave,
                 stored, published, visits>>

(* A plausible mistake: publishing leaves autosave on until the page is    *)
(* gone.                                                                   *)
ReadyAfterSave == TRUE

(* disableAutosave: what is edited before the page is gone is not kept.    *)
ReadyOnceSaved == FALSE

(* The answer: a published post needs its draft no more, and the page is   *)
(* left (Leave).  The status that counts is the form's.                    *)
Saved ==
  \E r \in request :
    /\ request' = {}
    /\ stored' = r.version
    /\ published' = IF r.status = "PUBLISHED" THEN published \cup {r.version} ELSE published
    /\ draft' = IF status = "PUBLISHED" THEN 0 ELSE draft
    /\ pending' = Outdated
    /\ readyForAutosave' = ReadyOnceSaved
    /\ UNCHANGED <<kind, page, form, typed, status, visits>>

SaveFails ==
  /\ request # {}
  /\ request' = {}
  /\ UNCHANGED <<kind, page, form, typed, status, draft, pending,
                 readyForAutosave, stored, published, visits>>

(* onBeforeUnmount: what is in the form is kept, unless it was saved. *)
Leave ==
  /\ page = "open"
  /\ page' = "away"
  /\ draft' = IF readyForAutosave THEN form ELSE draft
  /\ pending' = Outdated
  /\ readyForAutosave' = FALSE
  /\ UNCHANGED <<kind, form, typed, status, request, stored, published, visits>>

Next ==
  \/ Visit \/ LoadFails \/ Edits \/ Autosaves \/ Saved \/ SaveFails \/ Leave
  \/ \E restore \in BOOLEAN : Opened(restore)
  \/ \E s \in Statuses : Save(s)

Spec == Init /\ [][Next]_vars

-----------------------------------------------------------------------------
(* A version that was published is not kept as an unsaved draft, whatever  *)
(* autosave waited when the answer came and however the page is left.      *)
PublishedIsNoDraft == page = "away" /\ request = {} => draft \notin published
=============================================================================
