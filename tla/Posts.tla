------------------------------- MODULE Posts -------------------------------
(***************************************************************************)
(* Blog posts as the administrators write them (server/utils/post-write.ts *)
(* and server/api/blog).  A write reads the post, decides its slug and the *)
(* date of its publication, and updates it by id: two queries, with no     *)
(* transaction around them.                                                *)
(***************************************************************************)
EXTENDS Naturals, FiniteSets, Sequences

CONSTANTS
  Ids,       \* 1..n: the ids of the posts
  Titles,
  MaxCalls,  \* bound on the writes under way
  MaxNow     \* bound on the clock

Statuses == {"DRAFT", "PUBLISHED", "ARCHIVED"}
Null == 0

VARIABLES
  posts,  \* [id, title, slug, status, publishedAt]; a slug is <<title, suffix>>
  next,    \* the id of the next post
  now,    \* advances with every read, so that no two writes have the same date
  calls,  \* writes under way, see Call
  last    \* ghost: the greatest date each post has had

vars == <<posts, next, now, calls, last>>

AnyTitle == CHOOSE t \in Titles : TRUE  \* of the writes that leave it alone

(* A call goes on with the ids in todo; once it has read the first of them *)
(* it holds what it will write.  disturbed is a ghost: another write of    *)
(* that post took effect since the read.                                   *)
Waiting(kind, todo, status, title) ==
  [phase |-> "read", kind |-> kind, todo |-> todo, status |-> status, title |-> title,
   slug |-> <<title, 0>>, date |-> Null, disturbed |-> FALSE]

TypeOK ==
  /\ next \in Nat /\ now \in 0..MaxNow
  /\ \A p \in posts : /\ p.id \in Ids /\ p.id < next /\ p.status \in Statuses
                      /\ p.title \in Titles /\ p.publishedAt \in 0..now
  /\ \A p, q \in posts : p.id = q.id \/ p.slug = q.slug => p = q
  /\ Cardinality(calls) <= MaxCalls
  /\ \A c \in calls : c.kind \in {"create", "update", "set", "bulk"} /\ c.date \in 0..now
  /\ last \in [Ids -> 0..MaxNow]

Init == posts = {} /\ next = 1 /\ now = 0 /\ calls = {} /\ last = [i \in Ids |-> Null]

Post(id) == CHOOSE p \in posts : p.id = id
Exists(id) == \E p \in posts : p.id = id

(* A slip: whoever publishes sets the date. *)
resolvePublishedAtFresh(status, publishedAt, nextStatus, date) ==
  IF nextStatus # "PUBLISHED" THEN Null ELSE date
(* A slip: the date of the first publication outlives the archive. *)
resolvePublishedAtKept(status, publishedAt, nextStatus, date) ==
  IF publishedAt # Null THEN publishedAt
  ELSE IF nextStatus # "PUBLISHED" THEN Null ELSE date
resolvePublishedAt(status, publishedAt, nextStatus, date) ==
  IF nextStatus # "PUBLISHED" THEN Null
  ELSE IF status = "PUBLISHED" /\ publishedAt # Null THEN publishedAt
  ELSE date

(* A clash with another post gives the slug a timestamp. *)
uniqueSlugFor(title, others) ==
  IF \E p \in others : p.slug = <<title, 0>> THEN <<title, now'>> ELSE <<title, 0>>

Start(c) ==
  /\ Cardinality(calls) < MaxCalls
  /\ calls' = calls \union {c}
  /\ UNCHANGED <<posts, next, now, last>>

Create(title, status)     == Start(Waiting("create", <<>>, status, title))
Update(id, title, status) == Start(Waiting("update", <<id>>, status, title))
SetStatus(id, status)     == Start(Waiting("set", <<id>>, status, AnyTitle))
BulkPublish(ids)          == Start(Waiting("bulk", ids, "PUBLISHED", AnyTitle))

Ready(c, slug, date) == [c EXCEPT !.phase = "write", !.slug = slug, !.date = date, !.disturbed = FALSE]

(* The read half: findUnique, and findFirst for the slug when the title is *)
(* another.  A post that is not there ends the call; the bulk one goes on  *)
(* with the next id.                                                       *)
Read(c) ==
  /\ c.phase = "read" /\ now < MaxNow
  /\ now' = now + 1
  /\ calls' = (calls \ {c}) \union
       (CASE c.kind = "create" ->
               {Ready(c, uniqueSlugFor(c.title, posts),
                      resolvePublishedAt("DRAFT", Null, c.status, now'))}
          [] c.kind # "create" /\ Exists(c.todo[1]) ->
               LET p == Post(c.todo[1])
               IN {Ready(c, IF c.kind = "update" /\ c.title # p.title
                            THEN uniqueSlugFor(c.title, posts \ {p}) ELSE p.slug,
                         resolvePublishedAt(p.status, p.publishedAt, c.status, now'))}
          [] OTHER -> IF c.kind = "bulk" /\ Len(c.todo) > 1
                      THEN {[c EXCEPT !.todo = Tail(@)]} ELSE {})
  /\ UNCHANGED <<posts, next, last>>

(* The others that have read this post no longer know it. *)
Disturb(cs, id) ==
  {IF c.phase = "write" /\ c.kind # "create" /\ c.todo[1] = id
   THEN [c EXCEPT !.disturbed = TRUE] ELSE c : c \in cs}

Store(p) ==
  /\ posts' = {q \in posts : q.id # p.id} \union {p}
  /\ last' = [last EXCEPT ![p.id] = IF p.publishedAt > @ THEN p.publishedAt ELSE @]

Fails(c) ==
  /\ calls' = calls \ {c}
  /\ UNCHANGED <<posts, next, last>>

(* The write half; the unique key refuses a slug another post has taken. *)
WriteNew(c) ==
  /\ c.phase = "write" /\ c.kind = "create"
  /\ IF \E p \in posts : p.slug = c.slug THEN Fails(c)
     ELSE /\ next \in Ids
          /\ Store([id |-> next, title |-> c.title, slug |-> c.slug, status |-> c.status,
                    publishedAt |-> c.date])
          /\ next' = next + 1
          /\ calls' = calls \ {c}
  /\ UNCHANGED now

(* A post deleted since the read is an error, and the bulk call ends. *)
Write(c) ==
  /\ c.phase = "write" /\ c.kind # "create"
  /\ LET id == c.todo[1]
     IN IF ~Exists(id) \/ (c.kind = "update" /\ \E p \in posts : p.id # id /\ p.slug = c.slug)
        THEN Fails(c)
        ELSE /\ LET p == Post(id)
                IN Store([p EXCEPT !.title = IF c.kind = "update" THEN c.title ELSE @,
                                   !.slug = IF c.kind = "update" THEN c.slug ELSE @,
                                   !.status = c.status, !.publishedAt = c.date])
             /\ calls' = Disturb(calls \ {c}, id) \union
                         (IF Len(c.todo) > 1
                          THEN {[c EXCEPT !.phase = "read", !.todo = Tail(@)]} ELSE {})
             /\ UNCHANGED next
  /\ UNCHANGED now

(* [id].delete.ts and bulk-delete.post.ts. *)
Delete(ids) ==
  /\ posts' = {p \in posts : p.id \notin ids}
  /\ UNCHANGED <<next, now, calls, last>>

Next ==
  \/ \E t \in Titles, s \in Statuses : Create(t, s)
  \/ \E id \in Ids, t \in Titles, s \in Statuses : Update(id, t, s)
  \/ \E id \in Ids, s \in {"PUBLISHED", "ARCHIVED"} : SetStatus(id, s)
  \/ BulkPublish(<<1, 2>>)
  \/ \E c \in calls : Read(c)
  \/ \E c \in calls : WriteNew(c)
  \/ \E c \in calls : Write(c)
  \/ \E ids \in {{1}, Ids} : Delete(ids)

Spec == Init /\ [][Next]_vars

----------------------------------------------------------------------------
(* The public pages ask for posts that are published and have a date:      *)
(* whatever writes overlap, a post has a date exactly when it is published.*)
DatedIffPublished == \A p \in posts : (p.status = "PUBLISHED") = (p.publishedAt # Null)

(* "re-publish never resets", "archive, re-publish: fresh date": unless    *)
(* another write of the post fell between its read and its update, a write *)
(* leaves the date of a published post as it is, and gives a post that was *)
(* not published a date later than any it had.                             *)
KeepsDate ==
  \A p \in posts, q \in posts' :
    p.id = q.id /\ q.status = "PUBLISHED" /\ q.publishedAt # p.publishedAt =>
      \/ p.status # "PUBLISHED" /\ q.publishedAt > last[p.id]
      \/ \E c \in calls : c.phase = "write" /\ c.disturbed /\ c.todo[1] = p.id /\ c.date = q.publishedAt
DatesKept == [][KeepsDate]_vars
=============================================================================
