------------------------------ MODULE Listings ------------------------------
(***************************************************************************)
(* A property of src/modules/property, its one market listing and the      *)
(* assignments of agents to it.  Both rows carry a version that every      *)
(* write increments and that a client sends back; a version never returns, *)
(* so the model keeps, for each version that a request holds, whether it   *)
(* is still the row's (fresh, of the listing, and pfresh, of the property).*)
(* A transaction reads its snapshot in one step and writes, under the row  *)
(* locks, in another.                                                      *)
(***************************************************************************)
EXTENDS Requests

CONSTANTS
  Agents,
  ListingTargets,    \* statuses that clients ask for a listing
  PropertyTargets,   \* and for a property
  ExpiryDates        \* values of expiresAt

PropertyStatuses == {"DRAFT", "IN_REVIEW", "ACTIVE", "ARCHIVED", "SOLD", "RENTED"}
ListingStatuses == {"DRAFT", "IN_REVIEW", "VERIFIED", "ACTIVE", "PUBLISHED", "UNPUBLISHED",
                    "EXPIRED", "SOLD", "RENTED", "ARCHIVED"}

\* A row of property_listings.
ListingRow == [status : ListingStatuses, priced : BOOLEAN, expires : ExpiryDates]

ASSUME ListingsAssumption ==
  /\ ListingTargets \subseteq ListingStatuses /\ PropertyTargets \subseteq PropertyStatuses
  /\ None \notin ListingRow

VARIABLES
  property,      \* properties: status, verified (verifiedAt), deleted (deletedAt)
  listing,       \* property_listings: status, priced, expires (expiresAt); or None
  assignment     \* property_agent_assignments: "primary", "secondary", "unassigned" or None

listingVars == <<property, listing, assignment>>

PropertyTransitions ==
       ({"DRAFT"} \X {"IN_REVIEW", "ACTIVE", "ARCHIVED"})
  \cup ({"IN_REVIEW"} \X {"DRAFT", "ACTIVE", "ARCHIVED"})
  \cup ({"ACTIVE"} \X {"ARCHIVED", "SOLD", "RENTED"})
  \cup ({"ARCHIVED"} \X {"DRAFT", "ACTIVE"})
  \cup ({"RENTED"} \X {"ACTIVE", "ARCHIVED"})

ListingTransitions ==
       ({"DRAFT"} \X {"IN_REVIEW", "ARCHIVED"})
  \cup ({"IN_REVIEW"} \X {"DRAFT", "VERIFIED", "ARCHIVED"})
  \cup ({"VERIFIED"} \X {"ACTIVE", "IN_REVIEW", "ARCHIVED"})
  \cup ({"ACTIVE"} \X {"PUBLISHED", "ARCHIVED", "SOLD", "RENTED"})
  \cup ({"PUBLISHED"} \X {"UNPUBLISHED", "SOLD", "RENTED", "EXPIRED", "ARCHIVED"})
  \cup ({"UNPUBLISHED"} \X {"ACTIVE", "PUBLISHED", "ARCHIVED"})
  \cup ({"EXPIRED"} \X {"ACTIVE", "ARCHIVED"})
  \cup ({"SOLD", "RENTED"} \X {"ARCHIVED"})
  \cup ({"ARCHIVED"} \X {"DRAFT", "ACTIVE"})

\* createProperty takes the status of its input, DRAFT without one.
CreateProperty ==
  property \in [status : {"DRAFT"} \cup (IF focus = "listings" THEN PropertyTargets ELSE {}),
                verified : {FALSE}, deleted : {FALSE}]

ListingsInit ==
  /\ CreateProperty
  /\ listing = None
  /\ assignment = [a \in Agents |-> None]

\* The requests after p's write to the property (isProperty) and to the listing.
Written(p, isListing, isProperty) ==
  req' = [q \in Procs |->
            IF q = p \/ req[q] = None THEN IF q = p THEN None ELSE req[q]
            ELSE [req[q] EXCEPT !.fresh = @ /\ ~isListing, !.pfresh = @ /\ ~isProperty]]

\* A version that a request does not compare is not fresh from the start.
Request(op, at, to) ==
  [op |-> op, at |-> at, to |-> to,
   fresh |-> op \in {"transitionListing", "updateListing", "expireDue"},
   pfresh |-> op \in {"updateProperty", "verifyProperty", "publishProperty"}]

-----------------------------------------------------------------------------
(* The property.                                                           *)

PropertyUnchanged == UNCHANGED <<listing, assignment, clock>>

\* The client has read the property and sends its version.
PropertyRequest(p, op, to) ==
  /\ ~property.deleted
  /\ Start(p, Request(op, "service", to))
  /\ UNCHANGED property /\ PropertyUnchanged

\* The service's read: activation is not an update's to make.
UpdatePropertyCheck(p) ==
  /\ Running(p, "updateProperty") /\ At(p, "service") /\ ~property.deleted
  /\ req[p].to = "ACTIVE" => property.status = "ACTIVE"
  /\ property.status = req[p].to \/ <<property.status, req[p].to>> \in PropertyTransitions
  /\ Goto(p, "write")
  /\ UNCHANGED property /\ PropertyUnchanged

\* Mutant: the update is by id alone.
SameVersionAlways(p) == TRUE

\* where: { id, version } and count !== 1.
SameVersion(p) == req[p].pfresh

UpdatePropertyWrite(p) ==
  /\ Running(p, "updateProperty") /\ At(p, "write")
  /\ SameVersion(p) /\ ~property.deleted
  /\ property' = [property EXCEPT !.status = req[p].to]
  /\ Written(p, FALSE, TRUE)
  /\ PropertyUnchanged

VerifyProperty(p) ==
  /\ Running(p, "verifyProperty") /\ req[p].pfresh
  /\ property.status = "IN_REVIEW"
  /\ property' = [property EXCEPT !.verified = TRUE]
  /\ Written(p, FALSE, TRUE)
  /\ PropertyUnchanged

\* Mutant: publication does not ask for verifiedAt.
VerifiedAlways == TRUE

Verified == property.verified

PublishProperty(p) ==
  /\ Running(p, "publishProperty") /\ req[p].pfresh
  /\ property.status = "IN_REVIEW" /\ Verified
  /\ property' = [property EXCEPT !.status = "ACTIVE"]
  /\ Written(p, FALSE, TRUE)
  /\ PropertyUnchanged

\* deleteProperty and restoreProperty take no version.
DeleteProperty(p) ==
  /\ req[p] = None /\ ~property.deleted
  /\ property' = [property EXCEPT !.deleted = TRUE]
  /\ Written(p, FALSE, TRUE)
  /\ PropertyUnchanged

RestoreProperty(p) ==
  /\ req[p] = None /\ property.deleted
  /\ property' = [property EXCEPT !.deleted = FALSE]
  /\ Written(p, FALSE, TRUE)
  /\ PropertyUnchanged

-----------------------------------------------------------------------------
(* The listing.                                                            *)

\* One listing of a property (unique key).
CreateListing(priced, expires) ==
  /\ listing = None /\ ~property.deleted
  /\ listing' = [status |-> "DRAFT", priced |-> priced, expires |-> expires]
  /\ UNCHANGED <<req, property, assignment, clock>>

ListingRequest(p, op, to) ==
  /\ listing # None
  /\ Start(p, Request(op, "read", to))
  /\ UNCHANGED <<listingVars, clock>>

\* update: a price, another expiresAt, or none of the two.
UpdateListing(p) ==
  /\ Running(p, "updateListing") /\ req[p].fresh
  /\ listing' \in {listing, [listing EXCEPT !.priced = TRUE]}
               \cup {[listing EXCEPT !.expires = e] : e \in ExpiryDates}
  /\ Written(p, TRUE, FALSE)
  /\ UNCHANGED <<property, assignment, clock>>

assertPublishable ==
  /\ property.status = "ACTIVE" /\ listing.priced
  /\ \E a \in Agents : assignment[a] = "primary"
  /\ listing.expires # None => listing.expires > clock

\* The snapshot of the transaction: the version of the property that SOLD and
\* RENTED compare is read in it, too.
TransitionRead(p) ==
  /\ Running(p, "transitionListing") /\ At(p, "read") /\ req[p].fresh
  /\ <<listing.status, req[p].to>> \in ListingTransitions
  /\ req[p].to = "PUBLISHED" => assertPublishable
  /\ req' = [req EXCEPT ![p].at = "write", ![p].pfresh = req[p].to \in {"SOLD", "RENTED"}]
  /\ UNCHANGED <<listingVars, clock>>

\* Mutant: the transition is written by id alone.
SameListingVersionAlways(p) == TRUE

SameListingVersion(p) == req[p].fresh

\* SOLD and RENTED take the property with them, whatever its status was.
SoldProperty(p) == [property EXCEPT !.status = req[p].to]

TransitionWrite(p) ==
  /\ Running(p, "transitionListing") /\ At(p, "write") /\ SameListingVersion(p)
  /\ listing' = [listing EXCEPT !.status = req[p].to]
  /\ IF req[p].to \in {"SOLD", "RENTED"}
     THEN req[p].pfresh /\ property' = SoldProperty(p) /\ Written(p, TRUE, TRUE)
     ELSE UNCHANGED property /\ Written(p, TRUE, FALSE)
  /\ UNCHANGED <<assignment, clock>>

\* ListingExpiryWorker.
ExpireDueRead(p) ==
  /\ listing # None /\ listing.status = "PUBLISHED"
  /\ listing.expires # None /\ listing.expires <= clock
  /\ Start(p, Request("expireDue", "write", "EXPIRED"))
  /\ UNCHANGED <<listingVars, clock>>

Expirable(p) == req[p].fresh /\ listing.status = "PUBLISHED"

ExpireDueWrite(p) ==
  /\ Running(p, "expireDue") /\ Expirable(p)
  /\ listing' = [listing EXCEPT !.status = "EXPIRED"]
  /\ Written(p, TRUE, FALSE)
  /\ UNCHANGED <<property, assignment, clock>>

-----------------------------------------------------------------------------
(* The agents of the property.                                             *)

AgentsUnchanged == UNCHANGED <<property, listing, clock>>

\* assignAgent of the listing: the other open assignments are no longer primary.
AssignAgent(a, primary) ==
  /\ ~property.deleted
  /\ assignment' = [b \in Agents |->
                      IF b = a THEN IF primary THEN "primary" ELSE "secondary"
                      ELSE IF primary /\ assignment[b] = "primary" THEN "secondary"
                      ELSE assignment[b]]
  /\ UNCHANGED req /\ AgentsUnchanged

\* changeAgent of the listing: an open assignment is given to agent b, who has
\* no other (unique key), as the primary one or not.
ChangeAgent(a, b, primary) ==
  /\ ~property.deleted /\ assignment[a] \in {"primary", "secondary"}
  /\ b = a \/ assignment[b] = None
  /\ assignment' = [[c \in Agents |-> IF primary /\ assignment[c] = "primary" THEN "secondary"
                                     ELSE assignment[c]]
                       EXCEPT ![a] = None, ![b] = IF primary THEN "primary" ELSE "secondary"]
  /\ UNCHANGED req /\ AgentsUnchanged

\* The adapter for agent management: the snapshot is older than the lock.
\* reassign closes the assignment of an agent (from) if that one is open.
AdapterRead(p, op, a, from) ==
  /\ ~property.deleted
  /\ (assignment[a] \in {"primary", "secondary"}) = (op = "unassign")
  /\ from # None => op = "reassign" /\ assignment[from] \in {"primary", "secondary"}
  /\ Start(p, Request(op, from, a))
  /\ UNCHANGED assignment /\ AgentsUnchanged

\* A row that has appeared since makes the creation fail; one that was there is
\* updated by its id, and no other assignment stops being primary.
AdapterAssign(p) ==
  /\ Running(p, "assign")
  /\ assignment' = [assignment EXCEPT ![req[p].to] = "primary"]
  /\ Done(p)
  /\ AgentsUnchanged

AdapterUnassign(p) ==
  /\ Running(p, "unassign")
  /\ assignment' = [assignment EXCEPT ![req[p].to] = "unassigned"]
  /\ Done(p)
  /\ AgentsUnchanged

AdapterReassign(p) ==
  /\ Running(p, "reassign")
  /\ assignment' = [b \in Agents |-> IF b = req[p].to THEN "primary"
                                    ELSE IF b = req[p].at THEN "unassigned" ELSE assignment[b]]
  /\ Done(p)
  /\ AgentsUnchanged

-----------------------------------------------------------------------------
\* A request that is refused or fails; its transaction is rolled back.
ListingsAbandon(p) == req[p] # None /\ Done(p) /\ UNCHANGED <<listingVars, clock>>

ListingsNext ==
  \/ \E b \in BOOLEAN, e \in ExpiryDates : CreateListing(b, e)
  \/ \E a \in Agents, primary \in BOOLEAN :
       AssignAgent(a, primary) \/ \E b \in Agents : ChangeAgent(a, b, primary)
  \/ Tick /\ UNCHANGED listingVars
  \/ \E p \in Procs :
       \/ \E s \in PropertyTargets : PropertyRequest(p, "updateProperty", s)
       \/ \E op \in {"verifyProperty", "publishProperty"} : PropertyRequest(p, op, None)
       \/ UpdatePropertyCheck(p) \/ UpdatePropertyWrite(p)
       \/ VerifyProperty(p) \/ PublishProperty(p) \/ DeleteProperty(p) \/ RestoreProperty(p)
       \/ \E s \in ListingTargets : ListingRequest(p, "transitionListing", s)
       \/ ListingRequest(p, "updateListing", None)
       \/ UpdateListing(p) \/ TransitionRead(p) \/ TransitionWrite(p)
       \/ ExpireDueRead(p) \/ ExpireDueWrite(p)
       \/ \E op \in {"assign", "unassign", "reassign"}, a \in Agents, from \in Agents \cup {None} :
            AdapterRead(p, op, a, from)
       \/ AdapterAssign(p) \/ AdapterUnassign(p) \/ AdapterReassign(p)
       \/ ListingsAbandon(p)

ListingsSpec ==
  /\ RequestsInit /\ focus = "listings" /\ ListingsInit
  /\ [][ListingsNext /\ UNCHANGED focus]_<<req, clock, focus, listingVars>>

-----------------------------------------------------------------------------
\* The rows have the types of the schema.
ListingsTypeOK ==
  /\ property \in [status : PropertyStatuses, verified : BOOLEAN, deleted : BOOLEAN]
  /\ listing \in ListingRow \cup {None}
  /\ assignment \in [Agents -> {"primary", "secondary", "unassigned", None}]

\* Whatever requests and expiry runs overlap, a listing's status moves along
\* LISTING_TRANSITIONS: a status checked on an old version is never written.
ListingAlongTransitions ==
  [][listing # None /\ listing'.status # listing.status
       => <<listing.status, listing'.status>> \in ListingTransitions]_listingVars

\* A listing that is SOLD has sold its property, and no update that was under way
\* takes the property back.
SoldTogether == listing # None /\ listing.status = "SOLD" => property.status = "SOLD"

\* A property becomes ACTIVE only by publication, and only when it was verified.
ActivatedVerified ==
  [][property.status # "ACTIVE" /\ property'.status = "ACTIVE" => property.verified]_listingVars

\* SOLD is terminal: "SOLD -> (terminal)", docs/27-property-401-509-verification.md.
SoldStaysSold == [][property.status = "SOLD" => property'.status = "SOLD"]_listingVars
=============================================================================
