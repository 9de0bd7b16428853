--------------------------- MODULE MatchingEngine ---------------------------
(***************************************************************************)
(* How src/modules/property-matching ranks listings for a preference: the  *)
(* query that selects the candidates (listCandidates), the loop that       *)
(* scores them (MatchingEngine.evaluate) and the sort.  Money is in cents, *)
(* a score in hundredths, the points of a criterion in tenths.  The        *)
(* distance of a listing from the preferred point is one of its            *)
(* attributes; a reference (a type, a place) is any value but None.        *)
(***************************************************************************)
EXTENDS Requests, Sequences

CONSTANTS
  ListingIds,    \* positive integers: the order of the uuids
  Preferences, Rules, Candidates,
  MaxCandidatePool

ASSUME MatchingEngineAssumption ==
  /\ Preferences # {} /\ Rules # {} /\ Candidates # {}
  /\ \A pref \in Preferences : pref.budget # None =>
       pref.budget.tolerance \in Nat /\ {pref.budget.min, pref.budget.max} \subseteq Nat \cup {None}
  /\ \A row \in Candidates : row.price # None =>
       {row.price.min, row.price.max} \subseteq Nat \cup {None}

LOCAL Ext == INSTANCE SequencesExt

VARIABLE engine  \* preference, rule, listings (all rows), todo (the pool), results

engineVars == <<engine>>

Hardable == {"transactionType", "propertyType", "propertyCategory", "location", "budget"}
Levels == <<"country", "province", "city", "district", "subdistrict">>
Specs == {"bedrooms", "bathrooms", "areaSqm", "parkingSpaces", "furnishedStatus", "condition"}

MinSafeScore == 3500

-----------------------------------------------------------------------------
(* The criteria.                                                           *)

\* The share of the requested levels that agree, from the top to the first
\* that does not: matched and requested.
Hierarchy(want, have) ==
  LET requested == {i \in DOMAIN Levels : want.levels[i] # None}
      agree == {i \in requested : \A j \in requested : j <= i => have.levels[j] = want.levels[j]}
      reached == {i \in requested : \A j \in requested : j < i => have.levels[j] = want.levels[j]}
  IN  [matched |-> Cardinality(agree), requested |-> Cardinality(reached)]

Within(want, have) == have.distance # None /\ have.distance <= want.radius

LocationHardMatch(want, have) ==
  want # None =>
    LET h == Hierarchy(want, have)
        wanted == h.requested > 0
    IN  /\ wanted => h.matched = h.requested
        /\ IF want.radius # None THEN Within(want, have) ELSE wanted

\* locationScore > 0.
LocationScored(want, have) ==
  \/ Hierarchy(want, have).matched > 0
  \/ want.radius # None /\ have.distance # None /\ have.distance < want.radius

\* min ?? max and max ?? min of the price of a listing.
Low(price) == IF price.min # None THEN price.min ELSE price.max
High(price) == IF price.max # None THEN price.max ELSE price.min

BudgetFit(want, price) ==
  want # None =>
    /\ price # None
    /\ price.money = want.money
    /\ Low(price) # None
    /\ want.max # None => Low(price) <= (want.max * (100 + want.tolerance)) \div 100
    /\ want.min # None => High(price) >= (want.min * (100 - want.tolerance)) \div 100

RangeMatch(want, value) ==
  /\ value # None
  /\ want.min # None => value >= want.min
  /\ want.max # None => value <= want.max

-----------------------------------------------------------------------------
(* The candidates.                                                         *)

\* Mutant: the price without a lower end is not let through.
PriceFilterNoNull(want, price) ==
  /\ price # None
  /\ price.money = want.money
  /\ want.max # None => price.min # None /\ price.min * 100 <= want.max * (100 + want.tolerance)
  /\ want.min # None /\ price.max # None => price.max * 100 >= want.min * (100 - want.tolerance)

\* The condition on the price: a missing end of the price is not compared.
PriceFilter(want, price) ==
  /\ price # None
  /\ price.money = want.money
  /\ want.max # None /\ price.min # None => price.min * 100 <= want.max * (100 + want.tolerance)
  /\ want.min # None /\ price.max # None => price.max * 100 >= want.min * (100 - want.tolerance)

\* The where clause of listCandidates: it knows the preference's hard criteria
\* and not the rule's, and leaves out those without a value.
Selected(pref, row) ==
  LET among(k, wanted, value) == k \in pref.hard /\ wanted # {} => value \in wanted
  IN  /\ row.visible
      /\ among("transactionType", pref.transactionTypes, row.transactionType)
      /\ among("propertyType", pref.propertyTypes, row.propertyType)
      /\ among("propertyCategory", pref.propertyCategories, row.propertyCategory)
      /\ "location" \in pref.hard /\ pref.location # None =>
           \A i \in DOMAIN Levels :
             pref.location.levels[i] # None => row.levels[i] = pref.location.levels[i]
      /\ "budget" \in pref.hard /\ pref.budget # None => PriceFilter(pref.budget, row.price)

Newer(rows, a, b) ==
  \/ rows[a].publishedAt > rows[b].publishedAt
  \/ rows[a].publishedAt = rows[b].publishedAt /\ a < b

ListCandidates(pref, rows) ==
  LET selected == {l \in ListingIds : Selected(pref, rows[l])}
      newest == Ext!SetToSortSeq(selected, LAMBDA a, b : Newer(rows, a, b))
  IN  IF Len(newest) > MaxCandidatePool THEN SubSeq(newest, 1, MaxCandidatePool) ELSE newest

-----------------------------------------------------------------------------
(* The score.                                                              *)

EvaluateHardCriteria(pref, row, hard) ==
  /\ "transactionType" \in hard => row.transactionType \in pref.transactionTypes
  /\ "propertyType" \in hard => row.propertyType \in pref.propertyTypes
  /\ "propertyCategory" \in hard => row.propertyCategory \in pref.propertyCategories
  /\ "location" \in hard => LocationHardMatch(pref.location, row)
  /\ "budget" \in hard => BudgetFit(pref.budget, row.price)

\* The criteria that are scored: those the preference gives that are not hard.
Scored(pref, hard) ==
  ({k \in Hardable :
      CASE k = "transactionType"  -> pref.transactionTypes # {}
        [] k = "propertyType"     -> pref.propertyTypes # {}
        [] k = "propertyCategory" -> pref.propertyCategories # {}
        [] k = "location"         -> pref.location # None
        [] k = "budget"           -> pref.budget # None} \ hard)
  \cup {k \in Specs : pref.specification[k] # None}

Met(pref, row, k) ==
  CASE k = "transactionType"  -> row.transactionType \in pref.transactionTypes
    [] k = "propertyType"     -> row.propertyType \in pref.propertyTypes
    [] k = "propertyCategory" -> row.propertyCategory \in pref.propertyCategories
    [] k = "location"         -> LocationScored(pref.location, row)
    [] k = "budget"           -> BudgetFit(pref.budget, row.price)
    [] k \in {"furnishedStatus", "condition"} -> row.specification[k] = pref.specification[k]
    [] OTHER -> RangeMatch(pref.specification[k], row.specification[k])

\* Mutant: the views are looked at before the inquiries.
BehaviorViewsFirst(signal, weight) ==
  LET points == weight * ((IF signal.saved THEN 4 ELSE 0) + (IF signal.viewed THEN 2 ELSE 0)
                          + (IF signal.views > 0 THEN 1 ELSE IF signal.inquiries > 0 THEN 4 ELSE 0))
  IN  IF points > 10 * weight THEN 10 * weight ELSE points

Behavior(signal, weight) ==
  LET points == weight * ((IF signal.saved THEN 4 ELSE 0) + (IF signal.viewed THEN 2 ELSE 0)
                          + (IF signal.inquiries > 0 THEN 4 ELSE IF signal.views > 0 THEN 1 ELSE 0))
  IN  IF points > 10 * weight THEN 10 * weight ELSE points

WeightedScore(pref, row, rule) ==
  LET scored == Scored(pref, pref.hard \cup rule.hard)
      sum(S) == Ext!FoldSet(LAMBDA k, n : n + rule.weights[k], 0, S)
      possible == sum(scored) + rule.weights["behavior"]
      earned == 10 * sum({k \in scored : Met(pref, row, k)})
                + Behavior(row.signal, rule.weights["behavior"])
  IN  IF possible = 0 THEN 0
      ELSE (2 * earned * 1000 + possible) \div (2 * possible)   \* Math.round

-----------------------------------------------------------------------------
(* evaluate: the loop over the pool, then the sort.                        *)

MatchingEngineInit ==
  LET of(S) == IF focus = "matching engine" THEN S ELSE {CHOOSE x \in S : TRUE}
  IN  \E pref \in of(Preferences), rule \in of(Rules), rows \in [ListingIds -> of(Candidates)] :
        engine = [preference |-> pref, rule |-> rule, listings |-> rows,
                  todo |-> ListCandidates(pref, rows), results |-> <<>>, sorted |-> FALSE]

Row(l) == engine.listings[l]
Score(l) == WeightedScore(engine.preference, Row(l), engine.rule)
Hard == engine.preference.hard \cup engine.rule.hard
Floor == IF engine.rule.minimumScore > MinSafeScore THEN engine.rule.minimumScore ELSE MinSafeScore

Keep(l) == EvaluateHardCriteria(engine.preference, Row(l), Hard) /\ Score(l) >= Floor

EvaluateOne ==
  /\ engine.todo # <<>>
  /\ engine' = [engine EXCEPT !.todo = Tail(@),
                  !.results = IF Keep(Head(engine.todo)) THEN Append(@, Head(engine.todo)) ELSE @]
  /\ UNCHANGED <<req, clock>>

RanksBefore(a, b) ==
  \/ Score(a) > Score(b)
  \/ Score(a) = Score(b) /\ Newer(engine.listings, a, b)

SortResults ==
  /\ engine.todo = <<>> /\ ~engine.sorted
  /\ engine' = [engine EXCEPT !.sorted = TRUE,
                  !.results = Ext!SetToSortSeq(Ext!ToSet(@), RanksBefore)]
  /\ UNCHANGED <<req, clock>>

MatchingEngineNext == EvaluateOne \/ SortResults

-----------------------------------------------------------------------------
(* Properties.                                                             *)

\* What the engine sees of a listing is as good in a as in b for the preference.
AsGood(a, b) ==
  LET pref == engine.preference
  IN  /\ \A k \in Scored(pref, {}) : Met(pref, Row(b), k) => Met(pref, Row(a), k)
      /\ Row(b).signal.saved => Row(a).signal.saved
      /\ Row(b).signal.viewed => Row(a).signal.viewed
      /\ Row(b).signal.inquiries <= Row(a).signal.inquiries
      /\ Row(b).signal.views <= Row(a).signal.views

Position(l) == CHOOSE i \in DOMAIN engine.results : engine.results[i] = l

\* A listing that is as good as another by every criterion and every signal,
\* and newer, is ranked above it: neither the hard criteria, the weights, the
\* shares of the behaviour, the rounding nor the floor turn the order round
\* (matching-engine.ts, weightedScore and evaluate).  Where the preferred place
\* is a hard criterion the two have to be in it alike.
BetterRanksHigher ==
  engine.sorted =>
    \A i \in DOMAIN engine.results, a \in ListingIds :
      LET b == engine.results[i]
      IN  /\ Selected(engine.preference, Row(a))
          /\ Newer(engine.listings, a, b)
          /\ AsGood(a, b)
          /\ "location" \in Hard => Row(a).levels = Row(b).levels /\ Row(a).distance = Row(b).distance
          => a \in Ext!ToSet(engine.results) /\ Position(a) < i

\* The query of listCandidates and the engine decide about the budget with
\* different arithmetic (exact decimals, whole cents; a missing end of the
\* price).  A listing that the engine would accept is left out by the query
\* only for a price less than a cent under the lowest one.
QueryMissesNoMatch ==
  \A l \in ListingIds :
    LET pref == engine.preference
    IN  /\ Row(l).visible
        /\ EvaluateHardCriteria(pref, Row(l), Hard)
        /\ ~Selected(pref, Row(l))
        => /\ "budget" \in pref.hard /\ pref.budget.min # None /\ Row(l).price.max # None
           /\ Row(l).price.max * 100 < pref.budget.min * (100 - pref.budget.tolerance)
           /\ (Row(l).price.max + 1) * 100 > pref.budget.min * (100 - pref.budget.tolerance)
=============================================================================
