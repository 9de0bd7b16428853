----------------------------- MODULE MCBusiness -----------------------------
(***************************************************************************)
(* The components of the business (leads and contacts, agents, properties  *)
(* and listings, matching, content) for TLC.  As in MCPlatform each        *)
(* behaviour is about one of them, its focus, and the others rest.         *)
(***************************************************************************)
EXTENDS CrmLeads, CrmRecords, AgentManagement, Listings, PropertyDetails,
        MatchingEngine, PropertyMatching, Content, Seo, MasterData, SalesWork,
        ContentResources, TLC

CONSTANT Ids   \* rows that each component has, and that are alike for it

Focuses ==
  {"crm leads", "crm contact", "crm inquiry", "crm activity", "crm message",
   "agent assignment", "agent specialization", "agent availability", "agent target",
   "listings", "property row", "property media", "property order", "property document",
   "matching engine", "matching preference", "matching rule",
   "content article", "content views", "content menus", "content likes",
   "content comments", "seo redirects", "seo sitemap",
   "taxonomy", "copies", "facilities", "locations",
   "sales stages", "sales viewings", "sales activities"}

-----------------------------------------------------------------------------
(* Preferences, rules and rows for the matching engine.                    *)

MCExpiryDates == {1}

InCity == <<"id", "jb", "bdg", None, None>>
NoLevels == <<None, None, None, None, None>>
NoSpecification == [k \in Specs |-> None]

MCPreferences ==
  [hard : {{}, {"transactionType"}, {"budget"}},
   transactionTypes : {{"SALE"}}, propertyTypes : {{"HOUSE"}}, propertyCategories : {{}},
   location : {[levels |-> InCity, radius |-> None], [levels |-> NoLevels, radius |-> 5]},
   budget : {[min |-> 101, max |-> 300, money |-> "IDR", tolerance |-> 1],
             [min |-> None, max |-> 200, money |-> "IDR", tolerance |-> 10]},
   specification : {[NoSpecification EXCEPT !["bedrooms"] = [min |-> 2, max |-> None]]}]

Weights ==
  [k \in Specs \cup Hardable \cup {"behavior"} |->
     CASE k = "transactionType" -> 30 [] k = "propertyType" -> 15 [] k = "budget" -> 20
       [] k = "location" -> 15 [] k \in {"propertyCategory", "behavior"} -> 10 [] OTHER -> 5]

MCRules ==
  {[weights |-> Weights, hard |-> {}, minimumScore |-> 0],
   [weights |-> Weights, hard |-> {"location"}, minimumScore |-> 5000]}

\* Prices: without a lower end, just below the lowest one, above the highest one.
MCCandidates ==
  [visible : {TRUE}, transactionType : {"SALE", "RENT"}, propertyType : {"HOUSE"},
   propertyCategory : {"NEW"},
   price : {[min |-> None, max |-> 150, money |-> "IDR"], [min |-> 99, max |-> 99, money |-> "IDR"],
            [min |-> 250, max |-> 400, money |-> "IDR"]},
   levels : {InCity, <<"id", None, None, None, None>>}, distance : {4},
   specification : {[NoSpecification EXCEPT !["bedrooms"] = 2]},
   publishedAt : {1},
   signal : {s \in [saved : {FALSE}, viewed : {FALSE}, inquiries : {0, 1}, views : {0, 1}] :
               s.inquiries + s.views > 0}]

-----------------------------------------------------------------------------
(* Master data: a type with a category; two countries; a facility and a    *)
(* property, whose own references rest.                                    *)
MCLevelOf ==
  [house |-> "type", villa |-> "category", beach |-> "subcategory", first |-> "property",
   second |-> "property", pool |-> "facility", home |-> "property",
   country1 |-> "country", country2 |-> "country", province |-> "province"]
MCRowsOf ==
  [taxonomy |-> {"house", "villa", "beach", "first"},
   copies |-> {"house", "villa", "first", "second"},
   facilities |-> {"pool", "home", "second"},
   locations |-> {"country1", "country2", "province"}]
MCFirstRows ==
  [house |-> {}, villa |-> {"house"}, pool |-> {}, home |-> {}, country1 |-> {}, country2 |-> {}]

-----------------------------------------------------------------------------
\* Each focus is of one component.
ASSUME FocusesAssumption == DOMAIN RowsOf \subseteq {"taxonomy", "copies", "facilities", "locations"}

crmVars == <<leadVars, recordVars, workVars>>
estateVars == <<listingVars, detailVars, masterVars>>
rankingVars == <<engineVars, matchingVars>>
publicVars == <<contentVars, seoVars, resourceVars>>

vars == <<req, clock, focus, crmVars, agentVars, estateVars, rankingVars, publicVars>>

MCInit ==
  /\ RequestsInit /\ focus \in Focuses
  /\ CrmLeadsInit /\ CrmRecordsInit /\ AgentManagementInit /\ ListingsInit /\ PropertyDetailsInit
  /\ MatchingEngineInit /\ PropertyMatchingInit /\ ContentInit /\ SeoInit
  /\ MasterDataInit /\ SalesWorkInit /\ ContentResourcesInit

MCNext ==
  \/ /\ \/ focus = "crm leads" /\ CrmLeadsNext /\ UNCHANGED <<recordVars, workVars>>
        \/ /\ focus \in {"crm contact", "crm inquiry", "crm activity", "crm message"}
           /\ CrmRecordsNext /\ UNCHANGED <<leadVars, workVars>>
        \/ SalesWorkNext /\ UNCHANGED <<leadVars, recordVars>>
     /\ UNCHANGED <<focus, agentVars, estateVars, rankingVars, publicVars>>
  \/ /\ AgentManagementNext
     /\ UNCHANGED <<focus, crmVars, estateVars, rankingVars, publicVars>>
  \/ /\ \/ focus = "listings" /\ ListingsNext /\ UNCHANGED <<detailVars, masterVars>>
        \/ PropertyDetailsNext /\ UNCHANGED <<listingVars, masterVars>>
        \/ /\ focus \in DOMAIN RowsOf /\ MasterDataNext
           /\ UNCHANGED <<listingVars, detailVars>>
     /\ UNCHANGED <<focus, crmVars, agentVars, rankingVars, publicVars>>
  \/ /\ \/ focus = "matching engine" /\ MatchingEngineNext /\ UNCHANGED matchingVars
        \/ PropertyMatchingNext /\ UNCHANGED engineVars
     /\ UNCHANGED <<focus, crmVars, agentVars, estateVars, publicVars>>
  \/ /\ \/ ContentNext /\ UNCHANGED <<seoVars, resourceVars>>
        \/ SeoNext /\ UNCHANGED <<contentVars, resourceVars>>
        \/ ContentResourcesNext /\ UNCHANGED <<contentVars, seoVars>>
     /\ UNCHANGED <<focus, crmVars, agentVars, estateVars, rankingVars>>

MCSpec == MCInit /\ [][MCNext]_vars

Symmetry == {p @@ i : p \in Permutations(Procs), i \in Permutations(Ids)}

-----------------------------------------------------------------------------
\* The rows of every component have the types of the schema.
BusinessTypeOK ==
  /\ CrmLeadsTypeOK /\ CrmRecordsTypeOK /\ AgentManagementTypeOK /\ ListingsTypeOK
  /\ PropertyDetailsTypeOK /\ PropertyMatchingTypeOK /\ ContentTypeOK /\ SeoTypeOK
  /\ MasterDataTypeOK /\ SalesWorkTypeOK /\ ContentResourcesTypeOK

(* The properties of the components, gathered by what they protect.        *)

\* Leads, contacts and agents: the owner of a lead is the one it is assigned to, a
\* converted lead has its opportunity, a contact has one primary row of a kind, and
\* the times of inquiries, activities and messages agree with their statuses.  The
\* work of an agent exceeds the capacity by the racing requests at most, one
\* specialisation is primary, and the week is that of one save.  The stages of a
\* pipeline are numbered as asked, and viewings are neither booked twice nor closed
\* twice, but for requests that overlapped.
PeopleInvariant ==
  /\ OwnerIsAssigned /\ ConvertedHasOpportunity /\ OnePrimary /\ TimestampsFollowStatus
  /\ CapacityOverrunBounded /\ OnePrimarySpecialization /\ AvailabilityOfOneSave
  /\ StagesContiguous /\ StagesAsAsked /\ NoDoubleBooking /\ OneOutcome

\* Properties: a sale is told of the listing and its property together, the rest
\* of the row stays valid, there is one cover, the order is one that was asked for,
\* and the versions of a document have no gaps.  No live row has a removed parent,
\* and no attached facility is removed, but for requests that overlapped.
EstateInvariant ==
  /\ SoldTogether /\ ExtrasStayValid /\ OneCover /\ OrderIsAsked /\ VersionsContiguous
  /\ NoOrphans /\ AttachedIsKept

\* What clients and visitors are shown: the query of the recommendations misses no
\* match, what is not stale is current, and at most one rule is active.  A revision
\* holds its version, a former slug leads on, visits are counted, redirects close no
\* cycle and the sitemap is complete.  A menu has the items of its last save in their
\* places, and likes and comments are counted.  Views and comments are counted with the
\* requests to view and to comment, which a behaviour about another component has not.
PublishingInvariant ==
  /\ QueryMissesNoMatch /\ NotStaleIsCurrent /\ OneActiveRule
  /\ RevisionOfItsVersion /\ FormerSlugRedirected
  /\ focus = "content views" => ViewsCounted
  /\ NoRedirectCycle /\ SitemapComplete
  /\ ItemsOfLastSave /\ ItemsInPlaces /\ LikesCounted /\ CommentsSpaced
  /\ focus = "content comments" => CommentsCounted

\* A listing moves along its transition table, and is activated only verified.
ListingSteps == ListingAlongTransitions /\ ActivatedVerified
=============================================================================
