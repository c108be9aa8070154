------------------------------- MODULE Content -------------------------------
(***************************************************************************)
(* The texts of the shop: info pages and home notices, each a draft edited *)
(* in place and a published copy frozen as a numbered version.  A handler  *)
(* reads the row, works on its copy and saves all of it; publishing saves  *)
(* the version and then the row, with no transaction around them, so the   *)
(* steps of two requests interleave and a restart may fall between them.   *)
(*                                                                         *)
(* A text is a model value, "" the blank one.  All pages are created with  *)
(* the same title: a slug is its suffix, 1 for none, and a freed slug 0.   *)
(***************************************************************************)
EXTENDS Integers, FiniteSets, FiniteSetsExt

CONSTANTS
  Pages,         \* ids of cms_pages
  Notices,       \* those of kind home-notice
  Texts,         \* contents, the blank one included
  Windows,       \* schedules: from, until
  Requests,      \* requests of the panel that may overlap
  MaxVersions,   \* bound: versions of a page
  Null

VARIABLES
  pages,      \* the rows
  versions,   \* the rows of cms_page_versions
  requests    \* where each request is, and its copy of the row

vars == <<pages, versions, requests>>

-----------------------------------------------------------------------------
(* Types *)

Times == (UNION {{w[1], w[2]} : w \in Windows}) \ {Null}

CmsPage == [state : {"none", "live", "deleted"}, slug : 0 .. Cardinality(Pages),
            content : Texts, isActive : BOOLEAN,
            startsAt : Times \cup {Null}, endsAt : Times \cup {Null},
            published : 0 .. MaxVersions]

NoPage == [state |-> "none", slug |-> 0, content |-> "", isActive |-> FALSE,
           startsAt |-> Null, endsAt |-> Null, published |-> 0]

CmsPageVersion == [pageId : Pages, version : 1 .. MaxVersions, content : Texts]

Idle == [pc |-> "idle", page |-> Null, copy |-> NoPage]

TypeOK ==
  /\ pages \in [Pages -> CmsPage]
  /\ versions \subseteq CmsPageVersion
  /\ \A r \in Requests :
       /\ requests[r].pc \in {"idle", "insert", "update", "publish", "point", "rename", "delete"}
       /\ requests[r].copy \in CmsPage

Go(r, pc, p, copy) == requests' = [requests EXCEPT ![r] = [pc |-> pc, page |-> p, copy |-> copy]]
Done(r) == requests' = [requests EXCEPT ![r] = Idle]

-----------------------------------------------------------------------------
(* Helpers *)

isBlankText(content) == content = ""

contentOf(p, n) == {v.content : v \in {w \in versions : w.pageId = p /\ w.version = n}}

(* unpublished, published as it is, or with changes the store does not show. *)
publicationStatusOf(p, copy) ==
  IF copy.published = 0 THEN "unpublished"
  ELSE IF copy.content \in contentOf(p, copy.published) THEN "published" ELSE "pending-changes"

(* Only notices have dates, and they end after they start.                  *)
resolveSchedule(p, window) ==
  IF p \notin Notices THEN [ok |-> TRUE, startsAt |-> Null, endsAt |-> Null]
  ELSE [ok |-> window[1] # Null /\ window[2] # Null => window[2] > window[1],
        startsAt |-> window[1], endsAt |-> window[2]]

(* The first suffix no other page has, deleted ones included; a deleted     *)
(* holder gives it up instead.                                              *)
ensureUniqueSlug(p) ==
  Min({k \in 1 .. Cardinality(Pages) :
         \A q \in Pages \ {p} : pages[q].slug = k => pages[q].state = "deleted"})

Reclaimed(slug) ==
  [q \in Pages |-> IF pages[q].state = "deleted" /\ pages[q].slug = slug
                   THEN [pages[q] EXCEPT !.slug = 0] ELSE pages[q]]

(* The unique index on the slug.                                            *)
SlugFree(p, slug) == slug = 0 \/ \A q \in Pages \ {p} : pages[q].slug # slug

(* TypeORM writes every column in which the copy differs from the row: the  *)
(* row becomes the copy.  The index may refuse it.                          *)
Save(p, copy) ==
  pages' = IF SlugFree(p, copy.slug) THEN [pages EXCEPT ![p] = copy] ELSE pages

-----------------------------------------------------------------------------
(* CmsPagesService: the back office *)

Create(r, p, content, window) ==
  /\ requests[r].pc = "idle"
  /\ pages[p].state = "none" /\ \A k \in Requests : requests[k].page # p
  /\ LET schedule == resolveSchedule(p, window)
         slug == ensureUniqueSlug(p)
     IN  /\ schedule.ok
         /\ pages' = Reclaimed(slug)
         /\ Go(r, "insert", p,
               [state |-> "live", slug |-> slug, content |-> content, isActive |-> TRUE,
                startsAt |-> schedule.startsAt, endsAt |-> schedule.endsAt, published |-> 0])
  /\ UNCHANGED versions

Insert(r) ==
  /\ requests[r].pc = "insert"
  /\ Save(requests[r].page, requests[r].copy)
  /\ Done(r) /\ UNCHANGED versions

(* get: a live row of the kind.                                             *)
Get(r, p) == requests[r].pc = "idle" /\ pages[p].state = "live"

Update(r, p, content, active, window) ==
  LET schedule == resolveSchedule(p, window) IN
  /\ Get(r, p) /\ schedule.ok
  /\ Go(r, "update", p,
        [pages[p] EXCEPT !.content = content, !.isActive = active,
                         !.startsAt = schedule.startsAt, !.endsAt = schedule.endsAt])
  /\ UNCHANGED <<pages, versions>>

(* A new slug, asked from the page's own title: the freed one comes back.   *)
Rename(r, p) ==
  /\ Get(r, p)
  /\ LET slug == ensureUniqueSlug(p)
     IN  /\ slug # pages[p].slug
         /\ pages' = Reclaimed(slug)
         /\ Go(r, "update", p, [pages[p] EXCEPT !.slug = slug])
  /\ UNCHANGED versions

SaveUpdate(r) ==
  /\ requests[r].pc = "update"
  /\ Save(requests[r].page, requests[r].copy)
  /\ Done(r) /\ UNCHANGED versions

Publish(r, p) ==
  /\ Get(r, p)
  /\ ~ isBlankText(pages[p].content)
  /\ publicationStatusOf(p, pages[p]) # "published"
  /\ pages[p].published < MaxVersions
  /\ Go(r, "publish", p, pages[p])
  /\ UNCHANGED <<pages, versions>>

(* Mutant: the index on (page, version) is not there. *)
InsertVersion_NoIndex(r) ==
  LET q == requests[r]
      row == [pageId |-> q.page, version |-> q.copy.published + 1,
              content |-> q.copy.content]
  IN
  /\ q.pc = "publish"
  /\ versions' = versions \cup {row}
  /\ Go(r, "point", q.page, [q.copy EXCEPT !.published = row.version])
  /\ UNCHANGED pages

(* The version after the one the copy shows; the unique index refuses a     *)
(* number that is taken, and the request ends there.                        *)
InsertVersion(r) ==
  LET q == requests[r]
      row == [pageId |-> q.page, version |-> q.copy.published + 1,
              content |-> q.copy.content]
      taken == \E v \in versions : v.pageId = row.pageId /\ v.version = row.version
  IN
  /\ q.pc = "publish"
  /\ versions' = IF taken THEN versions ELSE versions \cup {row}
  /\ IF taken THEN Done(r)
     ELSE Go(r, "point", q.page, [q.copy EXCEPT !.published = row.version])
  /\ UNCHANGED pages

PointAtVersion(r) ==
  /\ requests[r].pc = "point"
  /\ Save(requests[r].page, requests[r].copy)
  /\ Done(r) /\ UNCHANGED versions

Remove(r, p) ==
  /\ Get(r, p)
  /\ Go(r, "rename", p, [pages[p] EXCEPT !.slug = 0])
  /\ UNCHANGED <<pages, versions>>

(* The slug is freed first, then the row is marked deleted.                 *)
FreeSlug(r) ==
  /\ requests[r].pc = "rename"
  /\ Save(requests[r].page, requests[r].copy)
  /\ Go(r, "delete", requests[r].page, requests[r].copy)
  /\ UNCHANGED versions

SoftDelete(r) ==
  /\ requests[r].pc = "delete"
  /\ pages' = [pages EXCEPT ![requests[r].page].state = "deleted"]
  /\ Done(r) /\ UNCHANGED versions

(* The server goes down: what was under way is lost.                        *)
Restart ==
  /\ requests # [r \in Requests |-> Idle]
  /\ requests' = [r \in Requests |-> Idle]
  /\ UNCHANGED <<pages, versions>>

-----------------------------------------------------------------------------
(* CmsPagesService: the store *)

Public(p) == pages[p].state = "live" /\ pages[p].isActive /\ pages[p].published # 0

listPublishedPages == {p \in Pages \ Notices : Public(p)}

listVisibleHomeNotices(now) ==
  {p \in Notices : /\ Public(p)
                   /\ pages[p].startsAt # Null => pages[p].startsAt <= now
                   /\ pages[p].endsAt # Null => pages[p].endsAt > now}

Init ==
  /\ pages = [p \in Pages |-> NoPage] /\ versions = {}
  /\ requests = [r \in Requests |-> Idle]

Next ==
  \/ Restart
  \/ \E r \in Requests, p \in Pages :
       \/ \E content \in Texts, window \in Windows :
            \/ Create(r, p, content, window)
            \/ \E active \in BOOLEAN : Update(r, p, content, active, window)
       \/ Rename(r, p) \/ Publish(r, p) \/ Remove(r, p)
  \/ \E r \in Requests : Insert(r) \/ SaveUpdate(r) \/ InsertVersion(r) \/ PointAtVersion(r)
                         \/ FreeSlug(r) \/ SoftDelete(r)

Spec == Init /\ [][Next]_vars

-----------------------------------------------------------------------------
(* Properties *)

(***************************************************************************)
(* RecordComplete: the versions answer what the terms said when a customer *)
(* bought.  Whatever requests overlap, and wherever the server stops, the  *)
(* versions of a page are numbered without gaps or repetitions, and what   *)
(* the store shows, on a page or a notice at any time, is one of them.     *)
(***************************************************************************)
RecordComplete ==
  \A p \in Pages :
    LET numbers == {v.version : v \in {w \in versions : w.pageId = p}} IN
    /\ numbers = 1 .. Cardinality({w \in versions : w.pageId = p})
    /\ \A now \in Times : p \in listPublishedPages \cup listVisibleHomeNotices(now)
                          => pages[p].published \in numbers

(***************************************************************************)
(* PublishedIsLatest: the version the store shows is the last one, as the  *)
(* comment of publish says, whenever no request is under way.              *)
(***************************************************************************)
PublishedIsLatest ==
  requests = [r \in Requests |-> Idle] =>
    \A p \in Pages : pages[p].state = "live" =>
      pages[p].published = Cardinality({v \in versions : v.pageId = p})
=============================================================================
