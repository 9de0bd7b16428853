-------------------------------- MODULE Seo --------------------------------
(***************************************************************************)
(* src/modules/seo: the redirects between paths, which createRedirect      *)
(* checks for cycles by following them one read at a time, and the parts   *)
(* of the sitemap, each of which page cuts out of four tables.  The rows   *)
(* of a table are numbered in the order of their ids.                      *)
(***************************************************************************)
EXTENDS Requests

CONSTANTS
  Paths,
  MaxChain,            \* reads of wouldCycle
  KindCounts,          \* numbers of rows of the properties, listings, articles, pages
  ChunkSizes

\* What createRedirect carries through the walk.
RedirectRequest ==
  [op : {"redirect"}, at : {"walk", "upsert"}, source : Paths, destination : Paths,
   seen : SUBSET Paths, cursor : Paths, reads : 0 .. MaxChain]

ASSUME SeoAssumption ==
  /\ MaxChain \in Nat \ {0}
  /\ ChunkSizes # {} /\ ChunkSizes \subseteq Nat \ {0}
  /\ KindCounts # {} /\ KindCounts \subseteq Nat
  /\ IsFiniteSet(Paths) /\ None \notin Paths \cup RedirectRequest

VARIABLES
  hop,        \* content_redirects that are active: the destination of a path, or None
  unchecked,  \* history: creations overlapped, or a redirect came from elsewhere
  sitemap     \* counts, size, part, kind of the loop in page, cursor, entries so far

seoVars == <<hop, unchecked, sitemap>>

SitemapStart(counts, size) ==
  [counts |-> counts, size |-> size, part |-> 1, kind |-> 1, cursor |-> 0, entries |-> {}, twice |-> {}]

SeoInit ==
  LET of(S) == IF focus = "seo sitemap" THEN S ELSE {CHOOSE x \in S : TRUE}
  IN  /\ hop = [s \in Paths |-> None] /\ unchecked = FALSE
      /\ \E counts \in of([1..4 -> KindCounts]), size \in of(ChunkSizes) :
           sitemap = SitemapStart(counts, size)

-----------------------------------------------------------------------------
(* Redirects.                                                              *)

Creating == {p \in Procs : Running(p, "redirect")}

\* Mutant: the walk does not remember the source.
SeenAtFirst(source) == {}

\* The set that wouldCycle starts with.
Seen(source) == {source}

CreateRedirect(p, source, destination) ==
  /\ source # destination
  /\ Start(p, [op |-> "redirect", at |-> "walk", source |-> source, destination |-> destination,
               seen |-> Seen(source), cursor |-> destination, reads |-> 0])
  /\ unchecked' = (unchecked \/ Creating # {})
  /\ UNCHANGED <<hop, sitemap, clock>>

\* One round of the loop: a path that was seen and a chain that is too long are
\* conflicts.
WouldCycle(p) ==
  LET r == req[p]
  IN  /\ Running(p, "redirect") /\ At(p, "walk")
      /\ IF r.cursor \in r.seen \/ r.reads = MaxChain THEN Done(p)
         ELSE IF hop[r.cursor] = None THEN Goto(p, "upsert")
         ELSE req' = [req EXCEPT ![p].seen = @ \cup {r.cursor}, ![p].cursor = hop[r.cursor],
                                 ![p].reads = @ + 1]
      /\ UNCHANGED <<seoVars, clock>>

UpsertRedirect(p) ==
  /\ Running(p, "redirect") /\ At(p, "upsert")
  /\ hop' = [hop EXCEPT ![req[p].source] = req[p].destination]
  /\ Done(p)
  /\ UNCHANGED <<unchecked, sitemap, clock>>

DeactivateRedirect(s) ==
  /\ hop[s] # None
  /\ hop' = [hop EXCEPT ![s] = None]
  /\ UNCHANGED <<req, clock, unchecked, sitemap>>

\* The content module writes the same table without the check.
ContentRedirect(s, d) ==
  /\ hop' = [hop EXCEPT ![s] = d] /\ unchecked' = TRUE
  /\ UNCHANGED <<req, clock, sitemap>>

RedirectNext ==
  \/ \E s, d \in Paths : ContentRedirect(s, d) \/ \E p \in Procs : CreateRedirect(p, s, d)
  \/ \E s \in Paths : DeactivateRedirect(s)
  \/ \E p \in Procs : WouldCycle(p) \/ UpsertRedirect(p)

-----------------------------------------------------------------------------
(* The sitemap.  sitemapIndex has told the reader the number of parts.     *)

Total == sitemap.counts[1] + sitemap.counts[2] + sitemap.counts[3] + sitemap.counts[4]
Parts == (Total + sitemap.size - 1) \div sitemap.size

Least(a, b) == IF a < b THEN a ELSE b
Greatest(a, b) == IF a > b THEN a ELSE b

\* Mutant: the rows to skip are counted from the first table.
SkippedFromStart(overlapStart) == overlapStart

\* skip: the rows of the table before the overlap.
Skipped(overlapStart) == overlapStart - sitemap.cursor

\* One round of the loop over the tables: the rows of the kind in the part.
PageOfKind ==
  LET start == (sitemap.part - 1) * sitemap.size
      end == start + sitemap.size
      typeEnd == sitemap.cursor + sitemap.counts[sitemap.kind]
      overlapStart == Greatest(start, sitemap.cursor)
      overlapEnd == Least(end, typeEnd)
      skip == Skipped(overlapStart)
      last == Least(skip + overlapEnd - overlapStart, sitemap.counts[sitemap.kind])
      rows == IF overlapStart < overlapEnd THEN {<<sitemap.kind, i>> : i \in skip + 1 .. last} ELSE {}
      ends == typeEnd >= end \/ sitemap.kind = 4
  IN  /\ sitemap.part <= Parts
      /\ sitemap' = [sitemap EXCEPT !.entries = @ \cup rows, !.twice = @ \cup (sitemap.entries \cap rows),
                       !.kind = IF ends THEN 1 ELSE @ + 1, !.cursor = IF ends THEN 0 ELSE typeEnd,
                       !.part = IF ends THEN @ + 1 ELSE @]
      /\ UNCHANGED <<req, clock, hop, unchecked>>

SeoNext ==
  \/ focus = "seo redirects" /\ RedirectNext
  \/ focus = "seo sitemap" /\ PageOfKind

-----------------------------------------------------------------------------
(* Properties.                                                             *)

\* The row and the sitemap have their types.
SeoTypeOK ==
  hop \in [Paths -> Paths \cup {None}] /\ sitemap.part \in 1..Parts + 1 /\ sitemap.kind \in 1..4

Hops(s) ==
  LET after[k \in 0..Cardinality(Paths)] ==
        IF k = 0 THEN s ELSE IF after[k - 1] = None THEN None ELSE hop[after[k - 1]]
  IN  {after[k] : k \in 1..Cardinality(Paths)}

\* As long as creations do not overlap and every redirect comes through
\* createRedirect, no path leads back to itself: the walk sees also the cycles that
\* replacing or reactivating the redirect of the source closes (wouldCycle).
NoRedirectCycle == ~unchecked => \A s \in Paths : s \notin Hops(s)

\* The parts of the sitemap hold every row of the four tables once, at every
\* boundary between tables and parts, while the tables do not change (page and
\* sitemapIndex).
SitemapComplete ==
  /\ sitemap.twice = {}
  /\ sitemap.part > Parts => Cardinality(sitemap.entries) = Total
=============================================================================
