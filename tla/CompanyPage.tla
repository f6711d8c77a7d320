---------------------------- MODULE CompanyPage ----------------------------
(***************************************************************************)
(* The page of a stock (pages/stocks/[symbol].vue) with the panel of its   *)
(* thesis (components/stocks/InvestmentThesisPanel.vue), over the read     *)
(* model of server/utils/company-hub-query.ts.  Everything shown comes     *)
(* from one load of the hub; each write that succeeds loads it again, and  *)
(* while it is loaded the panel and the note editor are not mounted: what  *)
(* was typed in them is gone.  Of loads, the last one that was started     *)
(* counts (useLazyFetch).                                                  *)
(***************************************************************************)
EXTENDS Naturals, FiniteSets

CONSTANTS
  Texts,      \* what the user types for a thesis
  HubLimit,   \* reviews in one load of the hub: 10
  MaxReviews  \* bound on the reviews

Null == 0
Statuses == {"DRAFT", "ACTIVE", "ARCHIVED"}
NoThesis == [text |-> Null, status |-> "none"]
\* A thesis may be empty until it is activated.
Theses == {t \in [text : Texts \union {Null}, status : Statuses] :
             t.status = "ACTIVE" => t.text # Null} \union {NoThesis}

VARIABLES
  thesis,   \* the row of the server
  reviews,  \* how many reviews the server has
  hub,      \* what the page has: [thesis, reviews], the reviews by their numbers
  view,     \* "pending", "error" or "ready"
  load,     \* the load under way: {} or {[phase, thesis, reviews]}
  panel,    \* [editing, form, reviewing]
  writing,  \* saveThesis or completeReview under way: {} or {[kind, phase, thesis]}
  note,     \* the note: "closed", "open", "sent" or "served"
  misled,   \* ghost: a review keeps another thesis than the page showed
  lost      \* ghost: a write was served and its answer lost

vars == <<thesis, reviews, hub, view, load, panel, writing, note, misled, lost>>

TypeOK ==
  /\ thesis \in Theses
  /\ reviews \in 0..MaxReviews
  /\ hub.thesis \in Theses /\ hub.reviews \subseteq 1..MaxReviews
  /\ view \in {"pending", "error", "ready"} /\ (view = "pending") = (load # {})
  /\ Cardinality(load) <= 1 /\ \A l \in load : l.phase \in {"sent", "thesis", "served"}
  /\ panel.editing \in BOOLEAN /\ panel.reviewing \in BOOLEAN /\ panel.form \in Texts \union {Null}
  /\ Cardinality(writing) <= 1
  /\ \A w \in writing : w.kind \in {"save", "review"} /\ w.phase \in {"sent", "served"}
  /\ note \in {"closed", "open", "sent", "served"}
  /\ misled \in BOOLEAN /\ lost \in BOOLEAN

(* A panel that is mounted takes the thesis it is given into its form; one *)
(* that is not mounted is written as that of no thesis.                    *)
Mounted(t) == [editing |-> FALSE, form |-> t.text, reviewing |-> FALSE]
Request == {[phase |-> "sent", thesis |-> NoThesis, reviews |-> {}]}

Init ==
  /\ thesis \in {t \in Theses : t.status # "ARCHIVED"}
  /\ reviews = 0
  /\ hub = [thesis |-> NoThesis, reviews |-> {}]
  /\ view = "pending" /\ load = Request
  /\ panel = Mounted(NoThesis)
  /\ writing = {} /\ note = "closed" /\ misled = FALSE /\ lost = FALSE

----------------------------------------------------------------------------
(* The load.  The thesis is read with the stock and the quote, its reviews *)
(* after that: the latest HUB_LIMIT of them.                               *)
Latest(n) == {k \in 1..n : k + HubLimit > n}

getCompanyHub ==
  /\ \E l \in load :
       load' = {CASE l.phase = "sent" -> [l EXCEPT !.phase = "thesis", !.thesis = thesis]
                  [] l.phase = "thesis" ->
                       [l EXCEPT !.phase = "served",
                                 !.reviews = IF l.thesis = NoThesis THEN {} ELSE Latest(reviews)]
                  [] OTHER -> l}
  /\ load' # load
  /\ UNCHANGED <<thesis, reviews, hub, view, panel, writing, note, misled, lost>>

ShowHub ==
  /\ \E l \in load : /\ l.phase = "served"
                     /\ hub' = [thesis |-> l.thesis, reviews |-> l.reviews]
                     /\ panel' = Mounted(l.thesis)
  /\ view' = "ready" /\ load' = {}
  /\ UNCHANGED <<thesis, reviews, writing, note, misled, lost>>

LoadFails ==
  /\ load # {}
  /\ view' = "error" /\ load' = {}
  /\ UNCHANGED <<thesis, reviews, hub, panel, writing, note, misled, lost>>

Retry ==
  /\ view = "error"
  /\ view' = "pending" /\ load' = Request
  /\ UNCHANGED <<thesis, reviews, hub, panel, writing, note, misled, lost>>

----------------------------------------------------------------------------
(* The panel.                                                              *)
startEdit ==
  /\ view = "ready" /\ ~panel.editing
  /\ panel' = [panel EXCEPT !.editing = TRUE, !.form = hub.thesis.text]
  /\ UNCHANGED <<thesis, reviews, hub, view, load, writing, note, misled, lost>>

Type(text) ==
  /\ view = "ready" /\ panel.editing /\ panel.form # text
  /\ panel' = [panel EXCEPT !.form = text]
  /\ UNCHANGED <<thesis, reviews, hub, view, load, writing, note, misled, lost>>

(* Cancel leaves the form as it is.                                        *)
CancelEdit ==
  /\ view = "ready" /\ panel.editing
  /\ panel' = [panel EXCEPT !.editing = FALSE]
  /\ UNCHANGED <<thesis, reviews, hub, view, load, writing, note, misled, lost>>

toggleReviewing ==
  /\ view = "ready"
  /\ panel.reviewing \/ (~panel.editing /\ hub.thesis.status \in {"DRAFT", "ACTIVE"})
  /\ panel' = [panel EXCEPT !.reviewing = ~@]
  /\ UNCHANGED <<thesis, reviews, hub, view, load, writing, note, misled, lost>>

(* saveThesis sends the whole form; the buttons are disabled meanwhile.    *)
Send(kind, t) ==
  /\ view = "ready" /\ writing = {}
  /\ writing' = {[kind |-> kind, phase |-> "sent", thesis |-> t]}
  /\ UNCHANGED <<thesis, reviews, hub, view, load, note, misled, lost>>

submitThesis(status) ==
  /\ panel.editing /\ (status = "ACTIVE" => panel.form # Null)
  /\ Send("save", [text |-> panel.form, status |-> status])
  /\ UNCHANGED panel

(* A slip: what is in the form is archived, cancelled or not.              *)
FormKept(p) == p.form
hydrate(p) == hub.thesis.text

archive ==
  /\ ~panel.editing /\ hub.thesis.status \in {"DRAFT", "ACTIVE"}
  /\ panel' = [panel EXCEPT !.form = hydrate(panel)]
  /\ Send("save", [text |-> hydrate(panel), status |-> "ARCHIVED"])

submitReview ==
  /\ panel.reviewing
  /\ Send("review", hub.thesis)
  /\ panel' = [panel EXCEPT !.reviewing = FALSE]

----------------------------------------------------------------------------
(* The server: a save replaces the thesis, a review is of an ACTIVE one,   *)
(* whose text it keeps.                                                    *)
Serve ==
  /\ \E w \in writing :
       /\ w.phase = "sent"
       /\ writing' = {[w EXCEPT !.phase = "served"]}
       /\ \/ w.kind = "save" /\ thesis' = w.thesis /\ UNCHANGED reviews
          \/ /\ w.kind = "review" /\ thesis.status = "ACTIVE"
             /\ reviews < MaxReviews /\ reviews' = reviews + 1
             /\ UNCHANGED thesis
       /\ misled' = (misled \/ (w.kind = "review" /\ ~lost /\ w.thesis # thesis))
  /\ UNCHANGED <<hub, view, load, panel, note, lost>>

ServeNote ==
  /\ note = "sent" /\ note' = "served"
  /\ UNCHANGED <<thesis, reviews, hub, view, load, panel, writing, misled, lost>>

----------------------------------------------------------------------------
(* Answers.  A slip: the hub stays as it was shown.                        *)
HubKept(w) == w.kind = "review"
Refreshes(w) == TRUE

Refresh == view' = "pending" /\ load' = Request /\ panel' = Mounted(NoThesis)

Written ==
  /\ \E w \in writing :
       /\ w.phase = "served"
       /\ IF Refreshes(w) THEN Refresh ELSE UNCHANGED <<view, load, panel>>
  /\ writing' = {}
  /\ UNCHANGED <<thesis, reviews, hub, note, misled, lost>>

(* Refused, failed or its answer lost: a toast, and the form as it was.    *)
WriteFails ==
  /\ \E w \in writing : lost' = (lost \/ w.phase = "served")
  /\ writing' = {}
  /\ UNCHANGED <<thesis, reviews, hub, view, load, panel, note, misled>>

(* A note: its editor, the request, the answer, which closes the editor    *)
(* and loads the hub again.                                                *)
Note ==
  /\ \/ note = "closed" /\ note' = "open" /\ UNCHANGED <<view, load, panel>>
     \/ note = "open" /\ view = "ready" /\ note' \in {"closed", "sent"}
        /\ UNCHANGED <<view, load, panel>>
     \/ note = "served" /\ note' = "closed" /\ Refresh
     \/ note \in {"sent", "served"} /\ note' = "open"
        /\ UNCHANGED <<view, load, panel>>
  /\ UNCHANGED <<thesis, reviews, hub, writing, misled, lost>>

Next ==
  \/ getCompanyHub \/ ShowHub \/ LoadFails \/ Retry
  \/ startEdit \/ CancelEdit \/ toggleReviewing \/ archive \/ submitReview
  \/ \E text \in Texts \union {Null} : Type(text)
  \/ \E status \in {"DRAFT", "ACTIVE"} : submitThesis(status)
  \/ Serve \/ ServeNote \/ Written \/ WriteFails \/ Note

Spec == Init /\ [][Next]_vars

----------------------------------------------------------------------------
(* Once every write and load is answered, the page shows the thesis and    *)
(* the latest reviews of the server, whatever notes were saved at the same *)
(* time, in both of their reads; and a review keeps the text of the thesis *)
(* that was reviewed.  Unless the answer of a write was lost.              *)
HubHolds ==
  /\ view = "ready" /\ writing = {} /\ ~lost =>
       hub = [thesis |-> thesis, reviews |-> Latest(reviews)]
  /\ ~misled

(* "Archiving echoes persisted values (discarding any cancelled edits)":   *)
(* it changes the status of a thesis and never its text.                   *)
ArchivedAsItWas ==
  thesis'.status = "ARCHIVED" /\ ~lost => thesis'.text = thesis.text
KeepsArchived == [][ArchivedAsItWas]_vars
=============================================================================
