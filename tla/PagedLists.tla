---------------------------- MODULE PagedLists ----------------------------
(***************************************************************************)
(* Every list of the API that is read page by page.  A list is one query   *)
(* with skip, take and orderBy, and a count of the same rows: mostly two   *)
(* statements that nothing holds together, in two lists one transaction,   *)
(* in one list no count at all.  A client walks from the first page to the *)
(* last while others write.  The rows of the model are those that pass the *)
(* list's filter: a row that starts or ceases to pass it is inserted or    *)
(* removed.  Rows that the order does not tell apart come in any order, a  *)
(* new one for each query.                                                 *)
(***************************************************************************)
EXTENDS Requests, Sequences

LOCAL Ext == INSTANCE SequencesExt

CONSTANTS
  PageSize,     \* the limit the list grants
  LastPage,     \* the highest page of a list that caps it (100, 10000 in the code)
  StartRows,    \* rows at the start of the walk
  MaxWrites     \* bound: writes during the walk

ASSUME PagedListsAssumption == PageSize \in Nat \ {0} /\ LastPage \in Nat \ {0}

VARIABLES
  list,   \* the list that is walked
  rows,   \* its rows by id, with their sort values
  walk,   \* the client: its page, what it got, and the writes that met it
  used    \* ids given so far

pagingVars == <<list, rows, walk, used>>

-----------------------------------------------------------------------------
(* What a list sorts by.  A time of creation and an identifier never change, *)
(* an update may change any other field.                                     *)
CreationTimes == {"createdAt", "occurredAt", "assignedAt", "generatedAt", "calculatedAt"}
Identifiers   == {"id", "uuid", "roleId", "key", "version"}

Kind(field) ==
  CASE field \in CreationTimes -> "time"
    [] field = "id" -> "id"
    [] field \in Identifiers \ {"id"} -> "uuid"
    [] OTHER -> "value"

Asc(field)  == [by |-> Kind(field), descending |-> FALSE]
Desc(field) == [by |-> Kind(field), descending |-> TRUE]

\* How the count is read, and whether the page number has a maximum.
Listing(order, total, capped) == [order |-> order, total |-> total, capped |-> capped]
Counted(order)  == Listing(order, "separately", FALSE)
Together(order) == Listing(order, "together", FALSE)

\* The lists, by the module of the API.
ListUsers           == Counted(<<Asc("sortBy"), Asc("uuid")>>)
ListPermissions     == Counted(<<Asc("sortBy")>>)
ListRoles           == Counted(<<Asc("sortBy")>>)
ListRolePermissions == Counted(<<Desc("createdAt")>>)
ListUserRoles       == Counted(<<Desc("assignedAt"), Asc("roleId")>>)
ListSessions        == Listing(<<Desc("createdAt")>>, "none", FALSE)
ListAuditLogs       == Counted(<<Desc("createdAt")>>)

\* pageOf of the sales module is used for the page number as well as for the limit.
SalesPage(order) == Listing(order, "separately", TRUE)

\* Mutant: the deals of one moment are not told apart.
DealsByTime == SalesPage(<<Desc("createdAt")>>)

ListPipelines     == SalesPage(<<Asc("sortOrder"), Asc("createdAt")>>)
ListOpportunities == SalesPage(<<Desc("createdAt"), Desc("uuid")>>)
ListStageHistory  == SalesPage(<<Desc("occurredAt"), Desc("uuid")>>)
ListSalesActivities == SalesPage(<<Desc("createdAt"), Desc("uuid")>>)
ListViewings      == SalesPage(<<Asc("scheduledAt"), Asc("uuid")>>)
ListDeals         == SalesPage(<<Desc("createdAt"), Desc("uuid")>>)
CommissionReport  == SalesPage(<<Desc("calculatedAt"), Desc("uuid")>>)

ListContacts       == Counted(<<Asc("sortBy"), Asc("uuid")>>)
ListLeads          == Counted(<<Asc("sortBy"), Asc("uuid")>>)
ListLeadHistory    == Counted(<<Desc("createdAt"), Asc("uuid")>>)
ListDuplicates     == Counted(<<Desc("createdAt")>>)
ListConfigs        == Counted(<<Desc("createdAt")>>)
ListInquiries      == Counted(<<Desc("createdAt")>>)
ListCrmActivities  == Counted(<<Asc("dueAt")>>)
ListCommunications == Counted(<<Desc("createdAt")>>)
ListTemplates      == Counted(<<Desc("createdAt")>>)

ListWorkflows     == Counted(<<Desc("updatedAt")>>)
ListExecutions    == Counted(<<Asc("priority"), Asc("createdAt")>>)
ListNotifications == Counted(<<Desc("createdAt")>>)

ListRecommendationHistory == Counted(<<Desc("generatedAt"), Desc("id")>>)
ListMatchingRules         == Together(<<Asc("name"), Desc("version")>>)

ListArticles         == Listing(<<Asc("sortBy"), Desc("id")>>, "together", TRUE)
ListContentResources == Listing(<<Asc("sortBy"), Desc("id")>>, "separately", TRUE)

\* orderOf of the master data: the field asked for if it is allowed, then the uuid.
OrderOf            == <<Asc("sortBy"), Asc("uuid")>>
ListCategories     == Counted(OrderOf)
ListSubcategories  == Counted(OrderOf)
ListLocations      == Counted(OrderOf)
ListFacilities     == Counted(OrderOf)
ListProperties     == Counted(OrderOf)
ListPropertyTypes  == Counted(<<Asc("sortBy"), Asc("uuid")>>)
ListPropertyHistory == Counted(<<Desc("occurredAt"), Desc("id")>>)
SearchListings     == Counted(<<Asc("sortBy"), Desc("id")>>)

ListSubscriptions == Counted(<<Desc("createdAt"), Desc("id")>>)
ListDeliveries    == Counted(<<Desc("createdAt"), Desc("id")>>)
ListActivity      == Counted(<<Desc("createdAt"), Desc("id")>>)
ListIntegrations  == Counted(<<Desc("updatedAt"), Desc("id")>>)
ListExports       == Counted(<<Desc("createdAt"), Desc("id")>>)
ListImports       == Counted(<<Desc("createdAt"), Desc("id")>>)
ListSettings      == Counted(<<Asc("key")>>)

\* The lists whose order is total, and those that leave ties to the database.
TotalLists ==
  {ListUsers, ListUserRoles, ListOpportunities, ListStageHistory, ListSalesActivities,
   ListViewings, ListDeals, CommissionReport, ListContacts, ListLeads, ListLeadHistory,
   ListRecommendationHistory, ListMatchingRules, ListArticles, ListContentResources,
   ListCategories, ListSubcategories, ListLocations, ListFacilities, ListProperties,
   ListPropertyTypes, ListPropertyHistory, SearchListings, ListSubscriptions,
   ListDeliveries, ListActivity, ListIntegrations, ListExports, ListImports, ListSettings}

TiedLists ==
  {ListPermissions, ListRoles, ListRolePermissions, ListSessions, ListAuditLogs,
   ListPipelines, ListDuplicates, ListConfigs, ListInquiries, ListCrmActivities,
   ListCommunications, ListTemplates, ListWorkflows, ListExecutions, ListNotifications}

-----------------------------------------------------------------------------
SortsBy(kind) == \E k \in DOMAIN list.query.order : list.query.order[k].by = kind

\* A field the order does not look at has one value.
TimesOfRow  == IF SortsBy("time") THEN 1 .. 2 ELSE {1}
ValuesOfRow == IF SortsBy("value") THEN 1 .. 2 ELSE {1}
RanksOfRow  == IF SortsBy("uuid") THEN 1 .. StartRows + MaxWrites ELSE {1}

SortValue(id, kind) == IF kind = "id" THEN id ELSE rows[id][kind]

\* Row a sorts strictly before row b.
Before(a, b) ==
  LET order == list.query.order
      Smaller(k) == IF order[k].descending
                    THEN SortValue(a, order[k].by) > SortValue(b, order[k].by)
                    ELSE SortValue(a, order[k].by) < SortValue(b, order[k].by)
  IN  \E k \in DOMAIN order :
        Smaller(k) /\ \A j \in 1 .. k - 1 : SortValue(a, order[j].by) = SortValue(b, order[j].by)

\* The orders in which the database may return the rows.
Arrangements ==
  {s \in Ext!SetToSeqs(DOMAIN rows) : \A i, j \in DOMAIN s : i < j => ~Before(s[j], s[i])}

\* Mutant: pages are counted from zero, as if page 1 skipped one page.
SkipFromZero(page) == page * PageSize

Skip(page) ==
  (IF list.query.capped /\ page > LastPage THEN LastPage - 1 ELSE page - 1) * PageSize

Walkable == [query : TotalLists, tied : {FALSE}] \cup [query : TiedLists, tied : {TRUE}]

PagedListsInit ==
  /\ \/ /\ focus = "lists" /\ list \in Walkable
        /\ rows \in [1 .. StartRows -> [time : TimesOfRow, value : ValuesOfRow, uuid : RanksOfRow]]
        /\ \A a, b \in 1 .. StartRows :
             /\ a < b => rows[a].time <= rows[b].time
             /\ SortsBy("uuid") /\ a < b => rows[a].uuid # rows[b].uuid
     \/ focus # "lists" /\ list = [query |-> ListSettings, tied |-> FALSE] /\ rows = <<>>
  /\ used = StartRows
  /\ walk = [page |-> 1, seen |-> <<>>, items |-> None, total |-> None, writes |-> {},
             torn |-> FALSE, left |-> MaxWrites, done |-> FALSE]

\* A write of someone else; it tears a page from its count if one of them is read.
Writes(kind) ==
  /\ ~walk.done /\ walk.left > 0
  /\ walk' = [walk EXCEPT !.left = @ - 1, !.writes = @ \cup {kind},
                          !.torn = @ \/ /\ list.query.total = "separately"
                                         /\ (walk.items = None) # (walk.total = None)]
  /\ UNCHANGED list

InsertRow ==
  /\ Writes("insert")
  /\ used' = used + 1
  /\ \E row \in [time : TimesOfRow, value : ValuesOfRow, uuid : RanksOfRow] :
       /\ \A id \in DOMAIN rows : /\ rows[id].time <= row.time
                                  /\ SortsBy("uuid") => rows[id].uuid # row.uuid
       /\ rows' = [id \in DOMAIN rows \cup {used + 1} |-> IF id = used + 1 THEN row ELSE rows[id]]

UpdateRow ==
  /\ Writes("update")
  /\ \E id \in DOMAIN rows, value \in ValuesOfRow : rows' = [rows EXCEPT ![id].value = value]
  /\ UNCHANGED used

RemoveRow ==
  /\ Writes("remove")
  /\ \E gone \in DOMAIN rows : rows' = [id \in DOMAIN rows \ {gone} |-> rows[id]]
  /\ UNCHANGED used

PageOf(arrangement) ==
  SubSeq(arrangement, Skip(walk.page) + 1,
         IF Len(arrangement) < Skip(walk.page) + PageSize THEN Len(arrangement)
         ELSE Skip(walk.page) + PageSize)

\* findMany and count, as two statements in either order.
FindMany ==
  /\ ~walk.done /\ walk.items = None /\ list.query.total # "together"
  /\ \E s \in Arrangements : walk' = [walk EXCEPT !.items = PageOf(s)]
  /\ UNCHANGED <<list, rows, used>>

\* Mutant: the count leaves out the filter, so that it counts removed rows.
CountAllRows ==
  /\ ~walk.done /\ walk.total = None /\ list.query.total = "separately"
  /\ walk' = [walk EXCEPT !.total = used]
  /\ UNCHANGED <<list, rows, used>>

CountRows ==
  /\ ~walk.done /\ walk.total = None /\ list.query.total = "separately"
  /\ walk' = [walk EXCEPT !.total = Cardinality(DOMAIN rows)]
  /\ UNCHANGED <<list, rows, used>>

\* The two statements in one transaction read one snapshot.
FindAndCount ==
  /\ ~walk.done /\ walk.items = None /\ list.query.total = "together"
  /\ \E s \in Arrangements :
       walk' = [walk EXCEPT !.items = PageOf(s), !.total = Cardinality(DOMAIN rows)]
  /\ UNCHANGED <<list, rows, used>>

\* The client goes on until it has the pages of the total, or gets a page that is
\* not full where there is no total.
TurnPage ==
  /\ ~walk.done /\ walk.items # None
  /\ list.query.total # "none" => walk.total # None
  /\ LET last == IF list.query.total = "none" THEN Len(walk.items) < PageSize
                 ELSE walk.page * PageSize >= walk.total
     IN  walk' = [walk EXCEPT !.seen = @ \o walk.items, !.items = None, !.total = None,
                              !.page = IF last THEN @ ELSE @ + 1, !.done = last]
  /\ UNCHANGED <<list, rows, used>>

PagedListsNext ==
  /\ focus = "lists"
  /\ (InsertRow \/ UpdateRow \/ RemoveRow \/ FindMany \/ CountRows \/ FindAndCount \/ TurnPage)
  /\ UNCHANGED <<req, clock>>

-----------------------------------------------------------------------------
PagedListsTypeOK ==
  /\ list.query \in TotalLists \cup TiedLists /\ used \in StartRows .. StartRows + MaxWrites
  /\ DOMAIN rows \subseteq 1 .. used
  /\ walk.page \in 1 .. used + 1 /\ walk.writes \subseteq {"insert", "update", "remove"}

Seen == {walk.seen[k] : k \in DOMAIN walk.seen}

\* What a list does not promise: ties come in any order, the pages after the
\* highest one repeat it, and an update may move a row that is sorted by what it
\* changes.
Unpredictable ==
  \/ list.tied
  \/ list.query.capped /\ walk.page > LastPage
  \/ "update" \in walk.writes /\ SortsBy("value")

\* A walk over a list with a total order meets every row that was there from its
\* start to its end (skip and take of every list method).  Inserts alone hide a
\* row only if one fell between a page and its count, so that the walk ended early.
WalkMissesNothing ==
  walk.done /\ ~Unpredictable /\ ~walk.torn /\ "remove" \notin walk.writes
    => 1 .. StartRows \subseteq Seen

\* Without an insert, no row is met twice.
WalkRepeatsNothing ==
  ~Unpredictable /\ "insert" \notin walk.writes => Cardinality(Seen) = Len(walk.seen)

\* A page has as many rows as its total leaves for it, in the lists that read both
\* in one transaction always, in the others unless a write came between.
PageMatchesTotal ==
  walk.items # None /\ walk.total # None /\ ~walk.torn =>
    LET rest == walk.total - Skip(walk.page)
    IN  Len(walk.items) = IF rest < 0 THEN 0 ELSE IF rest > PageSize THEN PageSize ELSE rest
=============================================================================
