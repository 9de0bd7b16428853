------------------------------ MODULE Content ------------------------------
(***************************************************************************)
(* src/modules/content: an article, its revisions, the redirects from its  *)
(* former slugs, and the count of its views.  Every write of the article   *)
(* increments its version; an update stores the article in a revision of   *)
(* that number in the same transaction.  A text is the version that        *)
(* brought it.  A request may stop between any two transactions.           *)
(***************************************************************************)
EXTENDS Requests

CONSTANTS
  Slugs, FirstSlug,
  MaxArticleVersion,   \* bound
  Visitors

ArticleVersions == 1..MaxArticleVersion

\* The columns that the model keeps, and what a revision keeps of them.
ArticleRow ==
  [version : ArticleVersions, status : {"DRAFT", "APPROVED", "SCHEDULED", "PUBLISHED", "ARCHIVED"},
   slug : Slugs, text : ArticleVersions, deleted : BOOLEAN]
RevisionRow == [text : ArticleVersions, slug : Slugs]

NewText == 0

\* What an update of the article carries.
UpdateRequest ==
  [op : {"updateArticle"}, at : {"check", "write", "redirect"}, before : Slugs \cup {None},
   slug : Slugs \cup {None}, text : ArticleVersions \cup {None, NewText},
   expected : ArticleVersions \cup {None}, current : ArticleRow \cup {None}]

ASSUME ContentAssumption ==
  /\ FirstSlug \in Slugs /\ MaxArticleVersion \in Nat \ {0}
  /\ None \notin ArticleRow \cup RevisionRow \cup UpdateRequest \cup [op : {"view"}, at : {"count"}]

VARIABLES
  article,     \* content_articles: version, status, slug, text, deleted; or None
  revision,    \* content_revisions of the article: text and slug by version, or None
  texts,       \* history: text and slug of the article at each version
  redirect,    \* content_redirects: the destination of a slug, or None
  former,      \* history: the slugs that updateArticle has replaced
  overlapped,  \* history: updates overlapped, one stopped, or a revision brought a slug
  viewed,      \* content_article_views: pairs of a visitor and a day
  views        \* count in content_article_statistics, and rows whose request stopped

contentVars == <<article, revision, texts, redirect, former, overlapped, viewed, views>>
engagementVars == <<viewed, views>>

ContentInit ==
  /\ article = None
  /\ revision = [v \in ArticleVersions |-> None] /\ texts = [v \in ArticleVersions |-> None]
  /\ redirect = [s \in Slugs |-> None] /\ former = {} /\ overlapped = FALSE
  /\ viewed = {} /\ views = [counted |-> 0, lost |-> 0]

-----------------------------------------------------------------------------
(* The article.                                                            *)

Readable == article # None /\ ~article.deleted

\* What a snapshot keeps of a row.
Body(row) == [text |-> row.text, slug |-> row.slug]

\* A write of the row: version: { increment: 1 }.
ArticleWritten(row) ==
  /\ row.version < MaxArticleVersion
  /\ article' = [row EXCEPT !.version = @ + 1]
  /\ texts' = [texts EXCEPT ![row.version + 1] = Body(article')]

CreateArticle ==
  /\ article = None
  /\ article' = [version |-> 1, status |-> "DRAFT", slug |-> FirstSlug, text |-> 1, deleted |-> FALSE]
  /\ texts' = [texts EXCEPT ![1] = Body(article')]
  /\ revision' = [revision EXCEPT ![1] = Body(article')]
  /\ UNCHANGED <<req, clock, redirect, former, overlapped, engagementVars>>

Updating == {p \in Procs : Running(p, "updateArticle")}

\* updateArticle, getArticle: the slug of before.  The client sends a text or a
\* slug, and the version that it has read or none.
UpdateArticleRead(p, slug, expected) ==
  /\ Readable
  /\ Start(p, [op |-> "updateArticle", at |-> "check", before |-> article.slug, slug |-> slug,
               text |-> IF slug = None THEN NewText ELSE None,
               expected |-> IF expected THEN article.version ELSE None, current |-> None])
  /\ overlapped' = (overlapped \/ Updating # {})
  /\ UNCHANGED <<article, revision, texts, redirect, former, engagementVars, clock>>

\* restoreRevision: the fields of the snapshot, and the version of the row that
\* it reads.
RestoreRevisionRead(p, v) ==
  /\ Readable /\ revision[v] # None
  /\ Start(p, [op |-> "updateArticle", at |-> "check", before |-> None,
               slug |-> revision[v].slug, text |-> revision[v].text, expected |-> article.version,
               current |-> None])
  /\ overlapped' = TRUE
  /\ UNCHANGED <<article, revision, texts, redirect, former, engagementVars, clock>>

\* update of the repository: the read of the transaction.
CheckVersion(p) ==
  /\ Running(p, "updateArticle") /\ At(p, "check")
  /\ IF Readable /\ (req[p].expected # None => req[p].expected = article.version)
     THEN req' = [req EXCEPT ![p].at = "write", ![p].current = article]
     ELSE Done(p)
  /\ UNCHANGED <<contentVars, clock>>

\* Mutant: the revision holds the article as it was read before the update.
SnapshotOfRead(p, row) == Body(req[p].current)

\* What the revision stores: the row as the update leaves it.
Snapshot(p, row) == Body(row)

\* Mutant: the redirect starts at the slug after the update.
RedirectFromResult(p) == [redirect EXCEPT ![article.slug] = article.slug]

\* ensureSlugRedirect from the slug of before to the slug of the result.
RedirectFromBefore(p) == [redirect EXCEPT ![req[p].before] = req[p].slug]

\* The writes of the transaction, by id: the columns that were sent.
UpdateArticle(p) ==
  /\ Running(p, "updateArticle") /\ At(p, "write")
  /\ ArticleWritten([article EXCEPT
       !.slug = IF req[p].slug = None THEN @ ELSE req[p].slug,
       !.text = CASE req[p].text = None    -> @
                  [] req[p].text = NewText -> article.version + 1
                  [] OTHER -> req[p].text])
  /\ revision' = [revision EXCEPT ![article'.version] = Snapshot(p, article')]
  /\ IF req[p].before # None /\ article'.slug # req[p].before
     THEN former' = former \cup {req[p].before} /\ Goto(p, "redirect")
     ELSE UNCHANGED former /\ Done(p)
  /\ UNCHANGED <<redirect, overlapped, engagementVars, clock>>

EnsureRedirect(p) ==
  /\ Running(p, "updateArticle") /\ At(p, "redirect")
  /\ redirect' = RedirectFromBefore(p)
  /\ Done(p)
  /\ UNCHANGED <<article, revision, texts, former, overlapped, engagementVars, clock>>

TransitionsFrom(action) ==
  CASE action = "publish"   -> {"APPROVED", "SCHEDULED", "DRAFT"}
    [] action = "unpublish" -> {"PUBLISHED"}
    [] action = "archive"   -> {"PUBLISHED", "APPROVED"}

StatusAfter(action) ==
  CASE action = "publish" -> "PUBLISHED" [] action = "unpublish" -> "DRAFT" [] OTHER -> "ARCHIVED"

TransitionArticleRead(p, action) ==
  /\ Readable /\ article.status \in TransitionsFrom(action)
  /\ Start(p, [op |-> "transitionArticle", at |-> "write", status |-> StatusAfter(action)])
  /\ UNCHANGED <<contentVars, clock>>

\* By uuid alone: an article that was deleted or changed since is written too.
TransitionArticle(p) ==
  /\ Running(p, "transitionArticle")
  /\ ArticleWritten([article EXCEPT !.status = req[p].status])
  /\ Done(p)
  /\ UNCHANGED <<revision, redirect, former, overlapped, engagementVars, clock>>

SoftDeleteArticle ==
  /\ Readable
  /\ ArticleWritten([article EXCEPT !.deleted = TRUE])
  /\ UNCHANGED <<req, clock, revision, redirect, former, overlapped, engagementVars>>

RestoreArticle ==
  /\ article # None
  /\ ArticleWritten([article EXCEPT !.deleted = FALSE])
  /\ UNCHANGED <<req, clock, revision, redirect, former, overlapped, engagementVars>>

\* revise: the article is read, and stored as a revision of its version.
ReviseRead(p) ==
  /\ Readable
  /\ Start(p, [op |-> "revise", at |-> "write", version |-> article.version, body |-> Body(article)])
  /\ UNCHANGED <<contentVars, clock>>

\* Unique (entityType, entityUuid, version).
RevisionFree(v) == revision[v] = None

CreateRevision(p) ==
  /\ Running(p, "revise")
  /\ revision' = IF RevisionFree(req[p].version)
                 THEN [revision EXCEPT ![req[p].version] = req[p].body] ELSE revision
  /\ Done(p)
  /\ UNCHANGED <<article, texts, redirect, former, overlapped, engagementVars, clock>>

ContentAbandon(p) ==
  /\ req[p] # None
  /\ overlapped' = (overlapped \/ p \in Updating)
  /\ views' = IF Running(p, "view") THEN [views EXCEPT !.lost = @ + 1] ELSE views
  /\ Done(p)
  /\ UNCHANGED <<article, revision, texts, redirect, former, viewed, clock>>

ArticleNext ==
  \/ CreateArticle \/ SoftDeleteArticle \/ RestoreArticle
  \/ \E p \in Procs :
       \/ \E slug \in Slugs \cup {None}, e \in BOOLEAN : UpdateArticleRead(p, slug, e)
       \/ \E v \in ArticleVersions : RestoreRevisionRead(p, v)
       \/ CheckVersion(p) \/ UpdateArticle(p) \/ EnsureRedirect(p)
       \/ \E a \in {"publish", "unpublish", "archive"} : TransitionArticleRead(p, a)
       \/ TransitionArticle(p) \/ ReviseRead(p) \/ CreateRevision(p) \/ ContentAbandon(p)

-----------------------------------------------------------------------------
(* Views of a published article.                                           *)

\* Mutant: the views have no unique key.
ViewRowFreeAlways(x) == TRUE

\* Unique (articleId, fingerprint, viewedDate).
ViewRowFree(x) == x \notin viewed

ViewArticle(p, visitor) ==
  /\ ViewRowFree(<<visitor, clock>>)
  /\ viewed' = viewed \cup {<<visitor, clock>>}
  /\ Start(p, [op |-> "view", at |-> "count"])
  /\ UNCHANGED <<article, revision, texts, redirect, former, overlapped, views, clock>>

CountView(p) ==
  /\ Running(p, "view")
  /\ views.counted + views.lost < 2 * Cardinality(Visitors) * (MaxClock + 1)
  /\ views' = [views EXCEPT !.counted = @ + 1]
  /\ Done(p)
  /\ UNCHANGED <<article, revision, texts, redirect, former, overlapped, viewed, clock>>

ViewsNext ==
  \/ Tick /\ UNCHANGED contentVars
  \/ \E p \in Procs : CountView(p) \/ ContentAbandon(p) \/ \E v \in Visitors : ViewArticle(p, v)

ContentNext ==
  \/ focus = "content article" /\ ArticleNext
  \/ focus = "content views" /\ ViewsNext

-----------------------------------------------------------------------------
(* Properties.                                                             *)

\* The rows have the types of the schema.
ContentTypeOK ==
  /\ article \in ArticleRow \cup {None}
  /\ revision \in [ArticleVersions -> RevisionRow \cup {None}]
  /\ redirect \in [Slugs -> Slugs \cup {None}]
  /\ viewed \subseteq Visitors \X (0..MaxClock)

\* Restoring revision n brings back the article of version n: whatever updates,
\* transitions, deletions and revise requests overlap, the text and slug of a
\* revision are those that the article had at that version (update and createRevision).
RevisionOfItsVersion ==
  \A v \in ArticleVersions : revision[v] # None => revision[v] = texts[v]

\* "old article slugs are represented by permanent redirects": as long as updates
\* neither overlap nor stop half-way and no revision brings a slug back, a slug that
\* was replaced has a redirect (updateArticle and ensureSlugRedirect).
FormerSlugRedirected ==
  ~overlapped /\ Updating = {} => \A s \in former : redirect[s] \in Slugs \ {s}

\* A visitor counts once a day, and every row of a view whose request did not
\* stop is counted, however many requests overlap (viewHash).
ViewsCounted ==
  views.counted + views.lost + Cardinality({p \in Procs : Running(p, "view")}) = Cardinality(viewed)
=============================================================================
