------------------------------ MODULE Partners ------------------------------
(***************************************************************************)
(* Partner links (server/utils/partner.ts, partner-queries.ts,             *)
(* lib/partners/policy.ts) and the reads they permit: the comparison of    *)
(* diaries, and the notes on a stock.  A write reads the link, checks it   *)
(* and then updates it by id, in two queries; a read goes over the links   *)
(* once or twice before it fetches what the partner shares.                *)
(***************************************************************************)
EXTENDS Naturals, FiniteSets

CONSTANTS
  Users,     \* naturals: a pair is stored with the smaller id first
  MaxLinks,  \* bound on the links ever created
  MaxCalls   \* bound on the writes under way

Resources == {"diaries", "stockNotes"}
Nobody == 0

VARIABLES
  links,    \* partner_links: [id, a, b, initiator, accepted, shares], with
            \* shares a set of <<side, resource>>, side "a" or "b"
  created,  \* links created so far; the next id
  calls,    \* writes that have read their link and not yet written:
            \* [kind, user, id, on, resource], or a creation with its pair a, b
  read,     \* the viewer's request: [step, viewer, resource, partner, got]
  agreed,   \* ghost: <<user, id>>: the user created or accepted the link
  says,     \* ghost: <<user, id, resource>>: the user's last word is to share
  since     \* ghost: the users who consented to it at some moment since the
            \* request began

vars == <<links, created, calls, read, agreed, says, since>>

Idle == [step |-> "idle", viewer |-> Nobody, resource |-> "diaries",
         partner |-> Nobody, got |-> {}]

TypeOK ==
  /\ \A l \in links : /\ l.id \in 1..created /\ l.a \in Users /\ l.b \in Users /\ l.a < l.b
                      /\ l.initiator \in {l.a, l.b} /\ l.accepted \in BOOLEAN
                      /\ l.shares \subseteq {"a", "b"} \X Resources
  /\ \A l, m \in links : (l.a = m.a /\ l.b = m.b) => l = m
  /\ created \in 0..MaxLinks
  /\ Cardinality(calls) <= MaxCalls
  /\ \A c \in calls : c.kind \in {"create", "accept", "remove", "share"} /\ c.user \in Users
  /\ read.step \in {"idle", "select", "check", "fetch", "answered"}
  /\ read.viewer \in Users \union {Nobody} /\ read.got \subseteq Users
  /\ agreed \subseteq Users \X (1..created)
  /\ says \subseteq Users \X (1..created) \X Resources

----------------------------------------------------------------------------
(* lib/partners/policy.ts *)

isParticipant(l, u) == u \in {l.a, l.b}
SideOf(l, u) == IF l.a = u THEN "a" ELSE "b"
PartnerOf(l, u) == IF l.a = u THEN l.b ELSE l.a

getPartnerLinkStatus(l, u) ==
  IF l.accepted THEN "connected"
  ELSE IF l.initiator = u THEN "pending_outgoing" ELSE "pending_incoming"

(* A slip: the viewer's own switch is read in place of the partner's. *)
sideSharesOwn(l, viewer, resource) == <<SideOf(l, viewer), resource>> \in l.shares
sideSharesResource(l, viewer, resource) ==
  <<SideOf(l, PartnerOf(l, viewer)), resource>> \in l.shares

getSharingUpdateData(l, u, on, resource) ==
  IF on THEN l.shares \union {<<SideOf(l, u), resource>>}
        ELSE l.shares \ {<<SideOf(l, u), resource>>}

LinksOf(u) == {l \in links : isParticipant(l, u)}

listSharingPartners(viewer, resource) ==
  {PartnerOf(l, viewer) : l \in {k \in LinksOf(viewer) :
     getPartnerLinkStatus(k, viewer) = "connected" /\ sideSharesResource(k, viewer, resource)}}

----------------------------------------------------------------------------
(* Whose records the request may have, by the calls of both. *)
Consents(ls, ag, sa, viewer, resource) ==
  {o \in Users : \E l \in ls :
     /\ isParticipant(l, viewer) /\ PartnerOf(l, viewer) = o
     /\ {<<o, l.id>>, <<viewer, l.id>>} \subseteq ag /\ <<o, l.id, resource>> \in sa}

Consented ==
  since' = IF read.step = "idle" THEN {}
           ELSE since \union Consents(links', agreed', says', read.viewer, read.resource)

Init ==
  /\ links = {} /\ created = 0 /\ calls = {} /\ read = Idle
  /\ agreed = {} /\ says = {} /\ since = {}

(* createPartnerLink: the partner is looked up by address, the pair is     *)
(* ordered, an existing link refused.                                      *)
CreateRead(u, p) ==
  /\ Cardinality(calls) < MaxCalls /\ u # p
  /\ LET a == IF u < p THEN u ELSE p
         b == IF u < p THEN p ELSE u
     IN /\ ~\E l \in links : l.a = a /\ l.b = b
        /\ calls' = calls \union {[kind |-> "create", user |-> u, a |-> a, b |-> b]}
  /\ UNCHANGED <<links, created, read, agreed, says, since>>

(* The unique key of the pair refuses a second row. *)
CreateWrite(c) ==
  /\ c.kind = "create"
  /\ calls' = calls \ {c}
  /\ IF \E l \in links : l.a = c.a /\ l.b = c.b
     THEN UNCHANGED <<links, created, agreed>>
     ELSE /\ created < MaxLinks
          /\ created' = created + 1
          /\ links' = links \union {[id |-> created + 1, a |-> c.a, b |-> c.b,
                                     initiator |-> c.user, accepted |-> FALSE, shares |-> {}]}
          /\ agreed' = agreed \union {<<c.user, created + 1>>}
  /\ UNCHANGED <<read, says>>
  /\ Consented

(* acceptPartnerLink: only the invited one.  removePartnerLink: either of  *)
(* the two.  updatePartnerSharing: either, once connected.                 *)
(* A slip: whoever takes part may accept, the one who invited included. *)
MayAnyone(kind, l, u) ==
  isParticipant(l, u) /\ (kind = "share" => getPartnerLinkStatus(l, u) = "connected")
May(kind, l, u) ==
  /\ isParticipant(l, u)
  /\ kind = "accept" => getPartnerLinkStatus(l, u) = "pending_incoming"
  /\ kind = "share" => getPartnerLinkStatus(l, u) = "connected"

WriteRead(kind, l, u, on, resource) ==
  /\ Cardinality(calls) < MaxCalls
  /\ May(kind, l, u)
  /\ calls' = calls \union {[kind |-> kind, user |-> u, id |-> l.id, on |-> on, resource |-> resource]}
  /\ UNCHANGED <<links, created, read, agreed, says, since>>

(* The update goes by id: of the columns in its data, on the row as it is  *)
(* by now; a row that has gone is an error.                                *)
WriteCommit(c) ==
  /\ c.kind # "create"
  /\ calls' = calls \ {c}
  /\ LET hit == {l \in links : l.id = c.id}
     IN /\ links' = (links \ hit) \union
             (CASE c.kind = "accept" -> {[l EXCEPT !.accepted = TRUE] : l \in hit}
                [] c.kind = "remove" -> {}
                [] c.kind = "share"  -> {[l EXCEPT !.shares =
                     getSharingUpdateData(l, c.user, c.on, c.resource)] : l \in hit})
        /\ agreed' = {x \in agreed \union (IF c.kind = "accept" THEN {<<c.user, c.id>>} ELSE {}) :
                       \E l \in links' : l.id = x[2]}
        /\ says' = {x \in (IF c.kind = "share"
                           THEN IF c.on THEN says \union {<<c.user, c.id, c.resource>>}
                                        ELSE says \ {<<c.user, c.id, c.resource>>}
                           ELSE says) : \E l \in links' : l.id = x[2]}
  /\ UNCHANGED <<created, read>>
  /\ Consented

----------------------------------------------------------------------------
(* A request for what a partner shares.  The comparison picks a link first *)
(* (loadCompareContext: the one asked for, or any accepted one) and reads  *)
(* the links again; the notes of one partner (resolveSharedStockNotesOwner)*)
(* and the company page (getCompanyHub) read them once.                    *)

Ask(viewer, resource) ==
  /\ read.step = "idle"
  /\ read' = [Idle EXCEPT !.step = IF resource = "diaries" THEN "select" ELSE "check",
                          !.viewer = viewer, !.resource = resource]
  /\ since' = Consents(links, agreed, says, viewer, resource)
  /\ UNCHANGED <<links, created, calls, agreed, says>>

(* No accepted link, or only a pending one with the partner asked for,     *)
(* ends the request.                                                       *)
loadCompareContext ==
  /\ read.step = "select"
  /\ \/ \E l \in LinksOf(read.viewer) :
          /\ getPartnerLinkStatus(l, read.viewer) = "connected"
          /\ read' = [read EXCEPT !.step = "check", !.partner = PartnerOf(l, read.viewer)]
     \/ /\ \E p \in Users \ {read.viewer} :
             ~\E l \in LinksOf(read.viewer) :
                getPartnerLinkStatus(l, read.viewer) = "connected" /\ PartnerOf(l, read.viewer) = p
        /\ read' = [read EXCEPT !.step = "answered"]
  /\ UNCHANGED <<links, created, calls, agreed, says, since>>

(* Whose records the fetch will ask for: of a comparison the partner's if  *)
(* it still shares, of the notes one sharing partner's, or all of theirs.  *)
CheckSharing ==
  /\ read.step = "check"
  /\ LET sharing == listSharingPartners(read.viewer, read.resource)
     IN \/ /\ read.resource = "diaries"
           /\ read' = [read EXCEPT !.step = "fetch", !.got = {read.partner} \intersect sharing]
        \/ /\ read.resource = "stockNotes"
           /\ \E p \in SUBSET sharing :
                /\ Cardinality(p) = 1 \/ p = sharing
                /\ read' = [read EXCEPT !.step = "fetch", !.got = p]
  /\ UNCHANGED <<links, created, calls, agreed, says, since>>

Fetch ==
  /\ read.step = "fetch"
  /\ read' = [read EXCEPT !.step = "answered"]
  /\ UNCHANGED <<links, created, calls, agreed, says, since>>

Done ==
  /\ read.step = "answered"
  /\ read' = Idle /\ since' = {}
  /\ UNCHANGED <<links, created, calls, agreed, says>>

Next ==
  \/ \E u, p \in Users : CreateRead(u, p)
  \/ \E c \in calls : CreateWrite(c)
  \/ \E l \in links, u \in Users, kind \in {"accept", "remove"} :
       WriteRead(kind, l, u, TRUE, "diaries")
  \/ \E l \in links, u \in Users, on \in BOOLEAN, r \in Resources :
       WriteRead("share", l, u, on, r)
  \/ \E c \in calls : WriteCommit(c)
  \/ \E v \in Users, r \in Resources : Ask(v, r)
  \/ loadCompareContext
  \/ CheckSharing
  \/ Fetch
  \/ Done

Spec == Init /\ [][Next]_vars

----------------------------------------------------------------------------
(* What a partner keeps to itself is not read: an answer holds records of  *)
(* another user only when both of them had agreed to the link, and the     *)
(* owner's own last word was to share that resource, at some moment since  *)
(* the request began.  (A switch turned off between the check and the      *)
(* fetch is honoured by the next request.)                                 *)
ConsentHonoured ==
  read.step \in {"fetch", "answered"} =>
    read.got \subseteq since
=============================================================================
