----------------------------- MODULE SalesDeals -----------------------------
(***************************************************************************)
(* The deal pipeline of the sales module: an opportunity is qualified and  *)
(* negotiated, an accepted offer turns it into a deal, the deal is edited, *)
(* closed or lost, and a closed deal earns a commission.                   *)
(*                                                                         *)
(* Requests run side by side (Procs).  A request is a Read step, in which  *)
(* the repository loads the rows it decides on, and a Commit step, its     *)
(* final transaction.  Between the two the rows may change; the code       *)
(* defends itself with a conditional updateMany on (status, version) where *)
(* it does, and where it does not the Commit step has no such guard.  The  *)
(* service's own earlier read of the same row can only refuse the request, *)
(* so it is part of the Read step.  A transaction runs under REPEATABLE    *)
(* READ, MySQL's default: its reads come from the snapshot of its first    *)
(* read, its writes act on the latest rows.                                *)
(*                                                                         *)
(* Permissions, ownership, texts, idempotency keys (a repeated key returns *)
(* the row it created and writes nothing) and audit records are left out.  *)
(***************************************************************************)
EXTENDS Naturals, FiniteSets, FiniteSetsExt

CONSTANTS
  Opps,         \* opportunities; a deal is named by its opportunity (unique)
  Negotiations,
  Offers,
  Items,        \* deal items
  Procs,        \* concurrent requests
  Amounts,      \* the money amounts that clients submit
  None,         \* a row that does not exist, a process without a request
  MaxVersion    \* bound: no version column grows beyond it

ASSUME AmountsAssumption == Amounts \subseteq Nat
ASSUME MaxVersionAssumption == MaxVersion \in Nat \ {0}
ASSUME ItemsAssumption == IsFiniteSet(Items)

VARIABLES
  opp,          \* sales_opportunities: status and version
  negotiation,  \* sales_negotiations
  offer,        \* sales_offers
  deal,         \* sales_deals, by opportunity
  total,        \* their totalAmount, 0 without a deal
  item,         \* sales_deal_items: their deal and line amount; uuids are not
                \* used again, so a deleted item stays, without an amount
  closing,      \* the deals with a row in sales_closings
  commission,   \* sales_commissions, by deal
  req           \* what each process is doing, with the rows it has read

rows == <<opp, negotiation, offer, deal, total, item, closing, commission>>
vars == <<opp, negotiation, offer, deal, total, item, closing, commission, req>>

-----------------------------------------------------------------------------
(* The lifecycles of sales.types.ts.                                       *)

OpportunityTransitions ==
  [OPEN        |-> {"QUALIFIED", "LOST"},
   QUALIFIED   |-> {"NEGOTIATING", "LOST"},
   NEGOTIATING |-> {"WON", "LOST"},
   WON         |-> {"ARCHIVED"},
   LOST        |-> {"OPEN", "ARCHIVED"},
   ARCHIVED    |-> {}]

NegotiationTransitions ==
  [OPEN     |-> {"ACTIVE", "REJECTED", "CLOSED"},
   ACTIVE   |-> {"ACCEPTED", "REJECTED", "CLOSED"},
   ACCEPTED |-> {"CLOSED"},
   REJECTED |-> {"CLOSED"},
   CLOSED   |-> {}]

OfferTransitions ==
  [DRAFT     |-> {"SUBMITTED", "REJECTED"},
   SUBMITTED |-> {"ACCEPTED", "REJECTED", "EXPIRED"},
   ACCEPTED  |-> {},
   REJECTED  |-> {},
   EXPIRED   |-> {}]

DealTransitions ==
  [OPEN           |-> {"IN_PROGRESS", "READY_TO_CLOSE", "LOST", "CANCELLED"},
   IN_PROGRESS    |-> {"READY_TO_CLOSE", "LOST", "CANCELLED"},
   READY_TO_CLOSE |-> {"CLOSED", "LOST"},
   CLOSED         |-> {},
   LOST           |-> {},
   CANCELLED      |-> {}]

OpportunityStatus == DOMAIN OpportunityTransitions
NegotiationStatus == DOMAIN NegotiationTransitions
OfferStatus       == DOMAIN OfferTransitions
DealStatus        == DOMAIN DealTransitions
CommissionStatus  == {"PENDING", "APPROVED", "SETTLED"}

TerminalDeal == {"CLOSED", "LOST", "CANCELLED"}
Versions     == 1..MaxVersion

-----------------------------------------------------------------------------
OpportunityRow == [status : OpportunityStatus, version : Versions]
NegotiationRow == [opp : Opps, status : NegotiationStatus, version : Versions]
OfferRow       == [negotiation : Negotiations, version : Nat,
                   amount : Amounts, status : OfferStatus]
DealRow        == [offer : Offers, status : DealStatus, version : Versions]
ItemRow        == [deal : Opps, amount : Amounts \cup {None}]   \* None: deleted
CommissionRow  == [base : Nat, status : CommissionStatus]

ASSUME NoneAssumption ==
  None \notin NegotiationRow \cup OfferRow \cup DealRow \cup ItemRow

(* A request after its Read step: "seen" is what the rows looked like.     *)
Request ==
  [op : {"transitionOpportunity"}, on : Opps, to : OpportunityStatus, seen : OpportunityRow]
    \cup [op : {"updateOpportunity", "createNegotiation"}, on : Opps, seen : OpportunityRow]
    \cup [op : {"transitionNegotiation"}, on : Negotiations, to : NegotiationStatus,
          seen : NegotiationRow]
    \cup [op : {"createOffer"}, on : Negotiations, amount : Amounts, latest : Nat]
    \cup [op : {"transitionOffer"}, on : Offers, to : OfferStatus, seen : OfferRow]
    \cup [op : {"createDeal"}, on : Opps, offer : Offers, seen : OpportunityRow]
    \cup [op : {"transitionDeal"}, on : Opps, to : DealStatus, seen : DealRow]
    \cup [op : {"closeDeal"}, on : Opps, seen : DealRow]
    \cup [op : {"addDealItem"}, on : Opps, amount : Amounts]
    \cup [op : {"editDealItem"}, on : Items, deal : Opps, amount : Amounts \cup {None}]
    \cup [op : {"editDealItemTx"}, on : Items, deal : Opps, amount : Amounts \cup {None},
          seen : [Items -> ItemRow \cup {None}]]
    \cup [op : {"calculateCommission"}, on : Opps, base : Nat]
    \cup [op : {"approveCommission", "settleCommission"}, on : Opps]

(* Type invariant: what the columns of the sales tables and the requests   *)
(* in flight can hold.                                                     *)
TypeOK ==
  /\ opp \in [Opps -> OpportunityRow]
  /\ negotiation \in [Negotiations -> NegotiationRow \cup {None}]
  /\ offer \in [Offers -> OfferRow \cup {None}]
  /\ deal \in [Opps -> DealRow \cup {None}]
  /\ total \in [Opps -> Nat]
  /\ item \in [Items -> ItemRow \cup {None}]
  /\ closing \subseteq Opps
  /\ commission \in [Opps -> CommissionRow \cup {None}]
  /\ req \in [Procs -> Request \cup {None}]

(* createOpportunity has just inserted each opportunity.                   *)
Init ==
  /\ opp = [o \in Opps |-> [status |-> "OPEN", version |-> 1]]
  /\ negotiation = [n \in Negotiations |-> None]
  /\ offer = [f \in Offers |-> None]
  /\ deal = [o \in Opps |-> None]
  /\ total = [o \in Opps |-> 0]
  /\ item = [i \in Items |-> None]
  /\ closing = {}
  /\ commission = [o \in Opps |-> None]
  /\ req = [p \in Procs |-> None]

-----------------------------------------------------------------------------
(* A process starts a request, having read what r holds, and ends it.      *)
Start(p, r) ==
  /\ req[p] = None
  /\ req' = [req EXCEPT ![p] = r]
  /\ UNCHANGED rows

Running(p, op) == req[p] # None /\ req[p].op = op
Done(p)        == req' = [req EXCEPT ![p] = None]

(* The request is refused (count of the conditional update is not 1, a     *)
(* unique key is taken, a row is gone) or its transaction is rolled back.  *)
Fail(p) == req[p] # None /\ Done(p) /\ UNCHANGED rows

(* Versions are capped: a write that would pass the bound is not modelled. *)
Room(row) == row.version < MaxVersion

-----------------------------------------------------------------------------
(* Opportunities.                                                          *)

TransitionOpportunityRead(p, o, to) ==
  /\ to \in OpportunityTransitions[opp[o].status]
  /\ Start(p, [op |-> "transitionOpportunity", on |-> o, to |-> to, seen |-> opp[o]])

LostOpportunityRead(p, o) ==
  /\ opp[o].status \in {"OPEN", "QUALIFIED", "NEGOTIATING"}
  /\ Start(p, [op |-> "transitionOpportunity", on |-> o, to |-> "LOST", seen |-> opp[o]])

(* Mutant: the count of the conditional update is not looked at.           *)
OpportunityUnchangedIgnored(o, seen) == TRUE

(* The conditional update of an opportunity matches one row: it is still   *)
(* what the request has seen.                                              *)
OpportunityUnchanged(o, seen) ==
  opp[o].status = seen.status /\ opp[o].version = seen.version

SetOpportunity(o, to) ==
  /\ Room(opp[o])
  /\ opp' = [opp EXCEPT ![o] = [status |-> to, version |-> @.version + 1]]

TransitionOpportunityCommit(p) ==
  /\ Running(p, "transitionOpportunity")
  /\ OpportunityUnchanged(req[p].on, req[p].seen)
  /\ SetOpportunity(req[p].on, req[p].to)
  /\ Done(p)
  /\ UNCHANGED <<negotiation, offer, deal, total, item, closing, commission>>

(* updateOpportunity, attachProperty and detachProperty: the version comes *)
(* from an earlier read, by the client or by the service.                  *)
UpdateOpportunityRead(p, o) ==
  Start(p, [op |-> "updateOpportunity", on |-> o, seen |-> opp[o]])

UpdateOpportunityCommit(p) ==
  LET o == req[p].on
  IN  /\ Running(p, "updateOpportunity")
      /\ opp[o].version = req[p].seen.version
      /\ opp[o].status \notin {"WON", "LOST", "ARCHIVED"}
      /\ SetOpportunity(o, opp[o].status)
      /\ Done(p)
      /\ UNCHANGED <<negotiation, offer, deal, total, item, closing, commission>>

AssignOpportunity(o) ==
  /\ SetOpportunity(o, opp[o].status)
  /\ UNCHANGED <<negotiation, offer, deal, total, item, closing, commission, req>>

-----------------------------------------------------------------------------
(* Negotiations and offers.                                                *)

CreateNegotiationRead(p, o) ==
  /\ opp[o].status \in {"QUALIFIED", "NEGOTIATING"}
  /\ Start(p, [op |-> "createNegotiation", on |-> o, seen |-> opp[o]])

(* Only a QUALIFIED opportunity is moved on, and only then is it checked   *)
(* that it did not change.                                                 *)
CreateNegotiationCommit(p, n) ==
  LET o == req[p].on
  IN  /\ Running(p, "createNegotiation")
      /\ negotiation[n] = None
      /\ negotiation' = [negotiation EXCEPT ![n] =
                           [opp |-> o, status |-> "OPEN", version |-> 1]]
      /\ IF req[p].seen.status = "QUALIFIED"
           THEN OpportunityUnchanged(o, req[p].seen) /\ SetOpportunity(o, "NEGOTIATING")
           ELSE UNCHANGED opp
      /\ Done(p)
      /\ UNCHANGED <<offer, deal, total, item, closing, commission>>

TransitionNegotiationRead(p, n, to) ==
  /\ negotiation[n] # None
  /\ to \in NegotiationTransitions[negotiation[n].status]
  /\ Start(p, [op |-> "transitionNegotiation", on |-> n, to |-> to, seen |-> negotiation[n]])

TransitionNegotiationCommit(p) ==
  LET n == req[p].on
  IN  /\ Running(p, "transitionNegotiation")
      /\ negotiation[n] = req[p].seen
      /\ Room(negotiation[n])
      /\ negotiation' = [negotiation EXCEPT ![n].status = req[p].to,
                                            ![n].version = @ + 1]
      /\ Done(p)
      /\ UNCHANGED <<opp, offer, deal, total, item, closing, commission>>

OffersOf(n) == {f \in Offers : offer[f] # None /\ offer[f].negotiation = n}

(* The latest version of the negotiation's offers, 0 when there is none.   *)
CreateOfferRead(p, n, amount) ==
  /\ negotiation[n] # None
  /\ \E v \in {0} \cup {offer[f].version : f \in OffersOf(n)} :
       /\ \A f \in OffersOf(n) : offer[f].version <= v
       /\ Start(p, [op |-> "createOffer", on |-> n, amount |-> amount, latest |-> v])

(* (negotiation, version) is unique: a concurrent offer took the version.  *)
CreateOfferCommit(p, f) ==
  /\ Running(p, "createOffer")
  /\ offer[f] = None
  /\ \A g \in OffersOf(req[p].on) : offer[g].version # req[p].latest + 1
  /\ offer' = [offer EXCEPT ![f] =
                 [negotiation |-> req[p].on, version |-> req[p].latest + 1,
                  amount |-> req[p].amount, status |-> "DRAFT"]]
  /\ Done(p)
  /\ UNCHANGED <<opp, negotiation, deal, total, item, closing, commission>>

TransitionOfferRead(p, f, to) ==
  /\ offer[f] # None
  /\ to \in OfferTransitions[offer[f].status]
  /\ Start(p, [op |-> "transitionOffer", on |-> f, to |-> to, seen |-> offer[f]])

(* Mutant: the update is by uuid alone.                                    *)
OfferUnchangedIgnored(f, seen) == TRUE

OfferUnchanged(f, seen) == offer[f].status = seen.status

TransitionOfferCommit(p) ==
  /\ Running(p, "transitionOffer")
  /\ OfferUnchanged(req[p].on, req[p].seen)
  /\ offer' = [offer EXCEPT ![req[p].on].status = req[p].to]
  /\ Done(p)
  /\ UNCHANGED <<opp, negotiation, deal, total, item, closing, commission>>

-----------------------------------------------------------------------------
(* Deals.                                                                  *)

CreateDealRead(p, o, f) ==
  /\ opp[o].status \in {"QUALIFIED", "NEGOTIATING"}
  /\ offer[f] # None /\ offer[f].status = "ACCEPTED"
  /\ negotiation[offer[f].negotiation].opp = o
  /\ Start(p, [op |-> "createDeal", on |-> o, offer |-> f, seen |-> opp[o]])

(* One transaction inserts the deal, unique by opportunity, and wins the   *)
(* opportunity.                                                            *)
CreateDealCommit(p) ==
  LET o == req[p].on
      f == req[p].offer
  IN  /\ Running(p, "createDeal")
      /\ deal[o] = None
      /\ OpportunityUnchanged(o, req[p].seen)
      /\ SetOpportunity(o, "WON")
      /\ deal' = [deal EXCEPT ![o] = [offer |-> f, status |-> "OPEN", version |-> 1]]
      /\ total' = [total EXCEPT ![o] = offer[f].amount]
      /\ Done(p)
      /\ UNCHANGED <<negotiation, offer, item, closing, commission>>

TransitionDealRead(p, o, to) ==
  /\ deal[o] # None
  /\ to \in DealTransitions[deal[o].status]
  /\ Start(p, [op |-> "transitionDeal", on |-> o, to |-> to, seen |-> deal[o]])

LostDealRead(p, o) ==
  /\ deal[o] # None
  /\ deal[o].status \notin TerminalDeal
  /\ Start(p, [op |-> "transitionDeal", on |-> o, to |-> "LOST", seen |-> deal[o]])

CloseDealRead(p, o) ==
  /\ deal[o] # None
  /\ deal[o].status \in {"OPEN", "IN_PROGRESS", "READY_TO_CLOSE"}
  /\ Start(p, [op |-> "closeDeal", on |-> o, seen |-> deal[o]])

(* Mutant: the deal is updated by uuid alone.                              *)
DealUnchangedIgnored(o, seen) == TRUE

DealUnchanged(o, seen) ==
  deal[o].status = seen.status /\ deal[o].version = seen.version

SetDeal(o, to) ==
  /\ Room(deal[o])
  /\ deal' = [deal EXCEPT ![o].status = to, ![o].version = @ + 1]

TransitionDealCommit(p) ==
  /\ Running(p, "transitionDeal")
  /\ DealUnchanged(req[p].on, req[p].seen)
  /\ SetDeal(req[p].on, req[p].to)
  /\ Done(p)
  /\ UNCHANGED <<opp, negotiation, offer, total, item, closing, commission>>

(* The closing is inserted in the transaction that closes the deal.        *)
CloseDealCommit(p) ==
  LET o == req[p].on
  IN  /\ Running(p, "closeDeal")
      /\ DealUnchanged(o, req[p].seen)
      /\ o \notin closing
      /\ SetDeal(o, "CLOSED")
      /\ closing' = closing \cup {o}
      /\ Done(p)
      /\ UNCHANGED <<opp, negotiation, offer, total, item, commission>>

-----------------------------------------------------------------------------
(* Deal items.  Whether the deal may be edited is read before the          *)
(* transaction that edits it.                                              *)

Editable(o) == deal[o] # None /\ deal[o].status \notin TerminalDeal

Exists(i, items) == items[i] # None /\ items[i].amount # None

(* recalculateDealTotal: the sum of the lines of a deal, among the items   *)
(* that the transaction sees.                                              *)
Total(o, seen) ==
  MapThenSumSet(LAMBDA i : seen[i].amount,
                {i \in Items : Exists(i, seen) /\ seen[i].deal = o})

AddDealItemRead(p, o, amount) ==
  /\ Editable(o)
  /\ Start(p, [op |-> "addDealItem", on |-> o, amount |-> amount])

(* The insert locks the deal through its foreign key until the commit, so  *)
(* that the items summed are the latest.                                   *)
AddDealItemCommit(p, i) ==
  LET o     == req[p].on
      after == [item EXCEPT ![i] = [deal |-> o, amount |-> req[p].amount]]
  IN  /\ Running(p, "addDealItem")
      /\ item[i] = None
      /\ item' = after
      /\ total' = [total EXCEPT ![o] = Total(o, after)]
      /\ Done(p)
      /\ UNCHANGED <<opp, negotiation, offer, deal, closing, commission>>

(* updateDealItem with a new line amount, removeDealItem with None.        *)
EditDealItemRead(p, i, amount) ==
  /\ Exists(i, item)
  /\ Editable(item[i].deal)
  /\ Start(p, [op |-> "editDealItem", on |-> i, deal |-> item[i].deal, amount |-> amount])

(* Prisma's update and delete select the row first: the transaction's      *)
(* snapshot.                                                               *)
EditDealItemSelect(p) ==
  /\ Running(p, "editDealItem")
  /\ Exists(req[p].on, item)
  /\ req' = [req EXCEPT ![p] =
               [op |-> "editDealItemTx", on |-> req[p].on, deal |-> req[p].deal,
                amount |-> req[p].amount, seen |-> item]]
  /\ UNCHANGED rows

(* The write needs the row to be there still; the sum is that of the       *)
(* snapshot with the transaction's own write.                              *)
EditDealItemCommit(p) ==
  LET o   == req[p].deal
      i   == req[p].on
      new == [deal |-> o, amount |-> req[p].amount]
  IN  /\ Running(p, "editDealItemTx")
      /\ Exists(i, item)
      /\ item' = [item EXCEPT ![i] = new]
      /\ total' = [total EXCEPT ![o] = Total(o, [req[p].seen EXCEPT ![i] = new])]
      /\ Done(p)
      /\ UNCHANGED <<opp, negotiation, offer, deal, closing, commission>>

-----------------------------------------------------------------------------
(* Commissions.                                                            *)

(* Mutant: a commission is calculated for any deal.                        *)
CalculateCommissionReadAnyDeal(p, o) ==
  /\ deal[o] # None
  /\ Start(p, [op |-> "calculateCommission", on |-> o, base |-> total[o]])

CalculateCommissionRead(p, o) ==
  /\ deal[o] # None /\ deal[o].status = "CLOSED"
  /\ Start(p, [op |-> "calculateCommission", on |-> o, base |-> total[o]])

CalculateCommissionCommit(p) ==
  LET o == req[p].on
  IN  /\ Running(p, "calculateCommission")
      /\ commission[o] = None
      /\ commission' = [commission EXCEPT ![o] = [base |-> req[p].base, status |-> "PENDING"]]
      /\ Done(p)
      /\ UNCHANGED <<opp, negotiation, offer, deal, total, item, closing>>

ApproveCommissionRead(p, o) ==
  /\ commission[o] # None /\ commission[o].status = "PENDING"
  /\ Start(p, [op |-> "approveCommission", on |-> o])

SettleCommissionRead(p, o) ==
  /\ commission[o] # None /\ commission[o].status = "APPROVED"
  /\ Start(p, [op |-> "settleCommission", on |-> o])

(* Both update by uuid alone, whatever the status is by now.               *)
SetCommission(p, op, to) ==
  /\ Running(p, op)
  /\ commission' = [commission EXCEPT ![req[p].on].status = to]
  /\ Done(p)
  /\ UNCHANGED <<opp, negotiation, offer, deal, total, item, closing>>

(* Mutant: the status is one of an offer.                                  *)
ApproveCommissionCommitWrongStatus(p) ==
  SetCommission(p, "approveCommission", "ACCEPTED")

ApproveCommissionCommit(p) == SetCommission(p, "approveCommission", "APPROVED")
SettleCommissionCommit(p)  == SetCommission(p, "settleCommission", "SETTLED")

-----------------------------------------------------------------------------
ReadStep(p) ==
  \/ \E o \in Opps :
       \/ \E to \in OpportunityStatus : TransitionOpportunityRead(p, o, to)
       \/ LostOpportunityRead(p, o)
       \/ UpdateOpportunityRead(p, o)
       \/ CreateNegotiationRead(p, o)
       \/ \E f \in Offers : CreateDealRead(p, o, f)
       \/ \E to \in DealStatus : TransitionDealRead(p, o, to)
       \/ LostDealRead(p, o)
       \/ CloseDealRead(p, o)
       \/ \E a \in Amounts : AddDealItemRead(p, o, a)
       \/ CalculateCommissionRead(p, o)
       \/ ApproveCommissionRead(p, o)
       \/ SettleCommissionRead(p, o)
  \/ \E n \in Negotiations :
       \/ \E to \in NegotiationStatus : TransitionNegotiationRead(p, n, to)
       \/ \E a \in Amounts : CreateOfferRead(p, n, a)
  \/ \E f \in Offers, to \in OfferStatus : TransitionOfferRead(p, f, to)
  \/ \E i \in Items, a \in Amounts \cup {None} : EditDealItemRead(p, i, a)

CommitStep(p) ==
  \/ TransitionOpportunityCommit(p)
  \/ UpdateOpportunityCommit(p)
  \/ \E n \in Negotiations : CreateNegotiationCommit(p, n)
  \/ TransitionNegotiationCommit(p)
  \/ \E f \in Offers : CreateOfferCommit(p, f)
  \/ TransitionOfferCommit(p)
  \/ CreateDealCommit(p)
  \/ TransitionDealCommit(p)
  \/ CloseDealCommit(p)
  \/ \E i \in Items : AddDealItemCommit(p, i)
  \/ EditDealItemSelect(p)
  \/ EditDealItemCommit(p)
  \/ CalculateCommissionCommit(p)
  \/ ApproveCommissionCommit(p)
  \/ SettleCommissionCommit(p)

Next ==
  \/ \E p \in Procs : ReadStep(p) \/ CommitStep(p) \/ Fail(p)
  \/ \E o \in Opps : AssignOpportunity(o)

Spec == Init /\ [][Next]_vars

-----------------------------------------------------------------------------
(* A deal exists only for an opportunity that was won with it, and rests   *)
(* on an accepted offer that was made in a negotiation of that             *)
(* opportunity: createDeal checks all of this on a snapshot, and a loss,   *)
(* a rejection or another deal may commit before its own transaction does. *)
DealMeansWon ==
  \A o \in Opps : deal[o] # None =>
    /\ opp[o].status \in {"WON", "ARCHIVED"}
    /\ offer[deal[o].offer] # None
    /\ offer[deal[o].offer].status = "ACCEPTED"
    /\ negotiation[offer[deal[o].offer].negotiation].opp = o

(* A closing and a commission belong to a deal that is CLOSED, although    *)
(* closeDeal, lostDeal, dealStatus and calculateCommission overlap.        *)
PaidMeansClosed ==
  \A o \in Opps :
    (o \in closing \/ commission[o] # None) => deal[o] # None /\ deal[o].status = "CLOSED"

(* A CLOSED, LOST or CANCELLED deal keeps its status and version for good: *)
(* no request that read the deal while it was open moves it.               *)
TerminalDealRests ==
  [][\A o \in Opps :
       deal[o] # None /\ deal[o].status \in TerminalDeal =>
         /\ deal'[o].status = deal[o].status
         /\ deal'[o].version = deal[o].version]_vars

(* The status of an opportunity moves along OPPORTUNITY_TRANSITIONS only,  *)
(* or to WON together with the creation of its deal, however many requests *)
(* decided on the same earlier status.                                     *)
OpportunityLifecycle ==
  [][\A o \in Opps :
       \/ opp'[o].status = opp[o].status
       \/ opp'[o].status \in OpportunityTransitions[opp[o].status]
       \/ opp'[o].status = "WON" /\ deal[o] = None /\ deal'[o] # None]_vars

(* What the repository answers to an edit of a terminal deal, "Terminal    *)
(* deal cannot be edited", and to reopenDeal, "Terminal deals are          *)
(* immutable": the total of a terminal deal does not change.               *)
TerminalDealFixed ==
  [][\A o \in Opps :
       deal[o] # None /\ deal[o].status \in TerminalDeal =>
         total'[o] = total[o]]_vars
=============================================================================
