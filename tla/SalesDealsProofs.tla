-------------------------- MODULE SalesDealsProofs --------------------------
(***************************************************************************)
(* Proofs about SalesDeals for any number of opportunities, negotiations,  *)
(* offers, items and concurrent requests.                                  *)
(***************************************************************************)
EXTENDS SalesDeals, FiniteSetTheorems, WellFoundedInduction, TLAPS

\* What the lifecycle tables allow, as far as the proofs need it.
LEMMA Tables ==
  /\ \A s \in OpportunityStatus : \A t \in OpportunityTransitions[s] :
       /\ t \in OpportunityStatus
       /\ s \in {"WON", "ARCHIVED"} => t = "ARCHIVED"
  /\ \A s \in OfferStatus : \A t \in OfferTransitions[s] :
       t \in OfferStatus /\ s # "ACCEPTED"
  /\ \A s \in DealStatus : \A t \in DealTransitions[s] :
       t \in DealStatus /\ s \notin TerminalDeal
  /\ \A s \in NegotiationStatus : \A t \in NegotiationTransitions[s] :
       t \in NegotiationStatus
  /\ {"OPEN", "QUALIFIED", "NEGOTIATING", "WON", "LOST", "ARCHIVED"} = OpportunityStatus
  /\ {"OPEN", "ACTIVE", "ACCEPTED", "REJECTED", "CLOSED"} = NegotiationStatus
  /\ {"DRAFT", "SUBMITTED", "ACCEPTED", "REJECTED", "EXPIRED"} = OfferStatus
  /\ {"OPEN", "IN_PROGRESS", "READY_TO_CLOSE", "CLOSED", "LOST", "CANCELLED"} = DealStatus
  BY DEF OpportunityTransitions, OfferTransitions, DealTransitions, NegotiationTransitions,
         OpportunityStatus, OfferStatus, DealStatus, NegotiationStatus, TerminalDeal

-----------------------------------------------------------------------------
(* The inductive invariant.                                                *)

\* The columns that the proofs look at.
Shape ==
  /\ opp \in [Opps -> OpportunityRow]
  /\ negotiation \in [Negotiations -> NegotiationRow \cup {None}]
  /\ offer \in [Offers -> OfferRow \cup {None}]
  /\ deal \in [Opps -> DealRow \cup {None}]
  /\ DOMAIN commission = Opps
  /\ DOMAIN req = Procs

\* An offer belongs to a negotiation that exists.
References ==
  \A f \in Offers : offer[f] # None => negotiation[offer[f].negotiation] # None

\* An accepted offer that was made in a negotiation of o.
AcceptedFor(f, o) ==
  /\ f \in Offers
  /\ offer[f] # None
  /\ offer[f].status = "ACCEPTED"
  /\ negotiation[offer[f].negotiation].opp = o

IsClosed(o) == deal[o] # None /\ deal[o].status = "CLOSED"

\* What a request in flight has checked and still holds, whatever commits
\* before it does.
ReqOK(r) ==
  /\ r.op = "transitionOpportunity" =>
       /\ r.on \in Opps
       /\ r.seen.status \in OpportunityStatus
       /\ r.to \in OpportunityTransitions[r.seen.status]
  /\ r.op = "updateOpportunity" => r.on \in Opps
  /\ r.op = "createNegotiation" => r.on \in Opps
  /\ r.op = "transitionNegotiation" =>
       /\ r.on \in Negotiations
       /\ r.to \in NegotiationStatus
       /\ negotiation[r.on] # None
  /\ r.op = "createOffer" =>
       /\ r.on \in Negotiations
       /\ r.amount \in Amounts
       /\ r.latest \in Nat
       /\ negotiation[r.on] # None
  /\ r.op = "transitionOffer" =>
       /\ r.on \in Offers
       /\ offer[r.on] # None
       /\ r.seen.status \in OfferStatus
       /\ r.to \in OfferTransitions[r.seen.status]
  /\ r.op = "createDeal" =>
       /\ r.on \in Opps
       /\ r.seen.status \in {"QUALIFIED", "NEGOTIATING"}
       /\ AcceptedFor(r.offer, r.on)
  /\ r.op = "transitionDeal" =>
       /\ r.on \in Opps
       /\ deal[r.on] # None
       /\ r.seen.status \notin TerminalDeal
       /\ r.to \in DealStatus
  /\ r.op = "closeDeal" =>
       /\ r.on \in Opps
       /\ deal[r.on] # None
       /\ r.seen.status \notin TerminalDeal
  /\ r.op \in {"calculateCommission", "approveCommission", "settleCommission"} =>
       r.on \in Opps /\ IsClosed(r.on)

ReqInv == \A p \in Procs : req[p] # None => ReqOK(req[p])

IInv == Shape /\ References /\ ReqInv /\ DealMeansWon /\ PaidMeansClosed

\* What no step takes back: rows stay, an offer stays with its negotiation
\* and a negotiation with its opportunity, an accepted offer stays accepted,
\* a terminal deal stays as it is, a won opportunity is never lost.
Persist ==
  /\ \A n \in Negotiations : negotiation[n] # None =>
       negotiation'[n] # None /\ negotiation'[n].opp = negotiation[n].opp
  /\ \A f \in Offers : offer[f] # None =>
       /\ offer'[f] # None
       /\ offer'[f].negotiation = offer[f].negotiation
       /\ offer[f].status = "ACCEPTED" => offer'[f].status = "ACCEPTED"
  /\ \A o \in Opps : deal[o] # None =>
       /\ deal'[o] # None
       /\ deal'[o].offer = deal[o].offer
       /\ deal[o].status \in TerminalDeal =>
            deal'[o].status = deal[o].status /\ deal'[o].version = deal[o].version
  /\ \A o \in Opps : opp[o].status \in {"WON", "ARCHIVED"} =>
       opp'[o].status \in {"WON", "ARCHIVED"}

-----------------------------------------------------------------------------
LEMMA Initial == Init => IInv
  <1> SUFFICES ASSUME Init PROVE IInv
    OBVIOUS
  <1>1. Shape
    BY Tables, MaxVersionAssumption DEF Init, Shape, OpportunityRow, Versions
  <1>2. References /\ ReqInv /\ DealMeansWon /\ PaidMeansClosed
    BY DEF Init, References, ReqInv, DealMeansWon, PaidMeansClosed
  <1> QED
    BY <1>1, <1>2 DEF IInv

\* A request that starts holds what it checked.
LEMMA StartKeeps ==
  ASSUME IInv, NEW p \in Procs, NEW r, ReqOK(r), Start(p, r)
  PROVE  IInv'
  <1>1. UNCHANGED rows /\ req' = [req EXCEPT ![p] = r]
    BY DEF Start
  <1>2. Shape' /\ References' /\ DealMeansWon' /\ PaidMeansClosed'
    BY <1>1 DEF IInv, Shape, References, DealMeansWon, PaidMeansClosed, rows
  <1>3. ASSUME NEW q \in Procs, req'[q] # None PROVE ReqOK(req[q])'
    <2>1. ReqOK(req'[q])
      BY <1>1, <1>3 DEF IInv, Shape, ReqInv
    <2> QED
      BY <1>1, <2>1 DEF ReqOK, AcceptedFor, IsClosed, rows
  <1> QED
    BY <1>2, <1>3 DEF IInv, ReqInv

\* A step that ends a request, or none, leaves the others what they hold.
LEMMA OthersKeep ==
  ASSUME IInv, Persist, NEW p \in Procs, req' = req \/ Done(p)
  PROVE  ReqInv' /\ DOMAIN req' = Procs
  <1>1. DOMAIN req' = Procs
    BY DEF IInv, Shape, Done
  <1>2. ASSUME NEW q \in Procs, req'[q] # None PROVE ReqOK(req[q])'
    <2>1. req'[q] = req[q] /\ ReqOK(req[q])
      BY <1>2 DEF IInv, Shape, Done, ReqInv
    <2>2. \A f \in Offers, o \in Opps : AcceptedFor(f, o) =>
            /\ offer'[f] # None
            /\ offer'[f].status = "ACCEPTED"
            /\ negotiation'[offer'[f].negotiation].opp = o
      <3> SUFFICES ASSUME NEW f \in Offers, NEW o \in Opps, AcceptedFor(f, o)
                   PROVE  /\ offer'[f] # None
                          /\ offer'[f].status = "ACCEPTED"
                          /\ negotiation'[offer'[f].negotiation].opp = o
        OBVIOUS
      <3>1. offer[f].negotiation \in Negotiations /\ negotiation[offer[f].negotiation] # None
        BY DEF IInv, Shape, References, AcceptedFor, OfferRow
      <3> QED
        BY <3>1 DEF Persist, AcceptedFor
    <2>3. \A o \in Opps : IsClosed(o) => deal'[o] # None /\ deal'[o].status = "CLOSED"
      BY DEF Persist, IsClosed, TerminalDeal
    <2>4. req[q].op = "createDeal" =>
            req[q].on \in Opps /\ req[q].offer \in Offers /\ AcceptedFor(req[q].offer, req[q].on)
      BY <2>1 DEF ReqOK, AcceptedFor
    <2>5. req[q].op \in {"calculateCommission", "approveCommission", "settleCommission"} =>
            req[q].on \in Opps /\ IsClosed(req[q].on)
      BY <2>1 DEF ReqOK
    <2> QED
      BY <2>1, <2>2, <2>3, <2>4, <2>5 DEF ReqOK, Persist, AcceptedFor, IsClosed
  <1> QED
    BY <1>1, <1>2 DEF ReqInv

-----------------------------------------------------------------------------
LEMMA ReadKeeps ==
  ASSUME IInv, NEW p \in Procs, ReadStep(p)
  PROVE  IInv'
  <1> USE DEF ReqOK
  <1>1. ASSUME NEW o \in Opps, NEW to \in OpportunityStatus, TransitionOpportunityRead(p, o, to)
        PROVE  IInv'
    BY <1>1, StartKeeps, Tables
       DEF TransitionOpportunityRead, IInv, Shape, OpportunityRow
  <1>2. ASSUME NEW o \in Opps, LostOpportunityRead(p, o) PROVE IInv'
    <2>1. "LOST" \in OpportunityTransitions[opp[o].status]
      BY <1>2 DEF LostOpportunityRead, OpportunityTransitions
    <2> QED
      BY <1>2, <2>1, StartKeeps, Tables DEF LostOpportunityRead, IInv, Shape, OpportunityRow
  <1>3. ASSUME NEW o \in Opps, UpdateOpportunityRead(p, o) PROVE IInv'
    BY <1>3, StartKeeps DEF UpdateOpportunityRead
  <1>4. ASSUME NEW o \in Opps, CreateNegotiationRead(p, o) PROVE IInv'
    BY <1>4, StartKeeps DEF CreateNegotiationRead
  <1>5. ASSUME NEW o \in Opps, NEW f \in Offers, CreateDealRead(p, o, f) PROVE IInv'
    BY <1>5, StartKeeps DEF CreateDealRead, AcceptedFor
  <1>6. ASSUME NEW o \in Opps, NEW to \in DealStatus, TransitionDealRead(p, o, to) PROVE IInv'
    BY <1>6, StartKeeps, Tables DEF TransitionDealRead, IInv, Shape, DealRow
  <1>7. ASSUME NEW o \in Opps, LostDealRead(p, o) PROVE IInv'
    BY <1>7, StartKeeps, Tables DEF LostDealRead
  <1>8. ASSUME NEW o \in Opps, CloseDealRead(p, o) PROVE IInv'
    BY <1>8, StartKeeps DEF CloseDealRead, TerminalDeal
  <1>9. ASSUME NEW o \in Opps, NEW a \in Amounts, AddDealItemRead(p, o, a) PROVE IInv'
    BY <1>9, StartKeeps DEF AddDealItemRead
  <1>10. ASSUME NEW o \in Opps, CalculateCommissionRead(p, o) PROVE IInv'
    BY <1>10, StartKeeps DEF CalculateCommissionRead, IsClosed
  <1>11. ASSUME NEW o \in Opps, ApproveCommissionRead(p, o) PROVE IInv'
    BY <1>11, StartKeeps DEF ApproveCommissionRead, IsClosed, IInv, PaidMeansClosed
  <1>12. ASSUME NEW o \in Opps, SettleCommissionRead(p, o) PROVE IInv'
    BY <1>12, StartKeeps DEF SettleCommissionRead, IsClosed, IInv, PaidMeansClosed
  <1>13. ASSUME NEW n \in Negotiations, NEW to \in NegotiationStatus,
                TransitionNegotiationRead(p, n, to)
         PROVE  IInv'
    BY <1>13, StartKeeps DEF TransitionNegotiationRead
  <1>14. ASSUME NEW n \in Negotiations, NEW a \in Amounts, CreateOfferRead(p, n, a) PROVE IInv'
    <2>1. PICK v \in {0} \cup {offer[f].version : f \in OffersOf(n)} :
            Start(p, [op |-> "createOffer", on |-> n, amount |-> a, latest |-> v])
      BY <1>14 DEF CreateOfferRead
    <2>2. v \in Nat
      BY DEF OffersOf, IInv, Shape, OfferRow
    <2> QED
      BY <1>14, <2>1, <2>2, StartKeeps DEF CreateOfferRead
  <1>15. ASSUME NEW f \in Offers, NEW to \in OfferStatus, TransitionOfferRead(p, f, to)
         PROVE  IInv'
    BY <1>15, StartKeeps DEF TransitionOfferRead, IInv, Shape, OfferRow
  <1>16. ASSUME NEW i \in Items, NEW a \in Amounts \cup {None}, EditDealItemRead(p, i, a)
         PROVE  IInv'
    BY <1>16, StartKeeps DEF EditDealItemRead
  <1> QED
    BY <1>1, <1>2, <1>3, <1>4, <1>5, <1>6, <1>7, <1>8, <1>9, <1>10, <1>11, <1>12, <1>13,
       <1>14, <1>15, <1>16 DEF ReadStep

-----------------------------------------------------------------------------
\* A step that writes the opportunity alone and does not take a win back.
LEMMA SetOpportunityKeeps ==
  ASSUME IInv, NEW p \in Procs, req' = req \/ Done(p),
         NEW o \in Opps, NEW to \in OpportunityStatus, SetOpportunity(o, to),
         opp[o].status \in {"WON", "ARCHIVED"} => to \in {"WON", "ARCHIVED"},
         UNCHANGED <<negotiation, offer, deal, item, closing, commission>>
  PROVE  IInv' /\ Persist
  <1>1. opp' \in [Opps -> OpportunityRow]
    BY MaxVersionAssumption DEF SetOpportunity, Room, IInv, Shape, OpportunityRow, Versions
  <1>2. \A q \in Opps : opp'[q].status = IF q = o THEN to ELSE opp[q].status
    BY DEF SetOpportunity, IInv, Shape, OpportunityRow
  <1>3. Persist
    BY <1>2 DEF Persist
  <1>4. ReqInv' /\ DOMAIN req' = Procs
    BY <1>3, OthersKeep
  <1>5. DealMeansWon'
    BY <1>2 DEF IInv, DealMeansWon
  <1> QED
    BY <1>1, <1>3, <1>4, <1>5 DEF IInv, Shape, References, PaidMeansClosed

\* A step that writes the deal alone, from a status that is not terminal.
LEMMA SetDealKeeps ==
  ASSUME IInv, NEW p \in Procs, Done(p),
         NEW o \in Opps, NEW to \in DealStatus, SetDeal(o, to),
         deal[o] # None, deal[o].status \notin TerminalDeal,
         closing' = closing \/ (closing' = closing \cup {o} /\ to = "CLOSED"),
         UNCHANGED <<opp, negotiation, offer, item, commission>>
  PROVE  IInv' /\ Persist
  <1>1. deal[o] \in DealRow
    BY DEF IInv, Shape
  <1>2. [deal[o] EXCEPT !.status = to, !.version = @ + 1] \in DealRow
    <2>1. deal[o].version < MaxVersion
      BY DEF SetDeal, Room
    <2>2. deal[o].version + 1 \in Versions
      BY <1>1, <2>1, MaxVersionAssumption DEF DealRow, Versions
    <2> QED
      BY <1>1, <2>2 DEF DealRow
  <1>3. deal' = [deal EXCEPT ![o] = [deal[o] EXCEPT !.status = to, !.version = @ + 1]]
    BY <1>1 DEF SetDeal, IInv, Shape, DealRow
  <1>4. /\ deal' \in [Opps -> DealRow \cup {None}]
        /\ deal'[o] # None
        /\ deal'[o].status = to
        /\ deal'[o].offer = deal[o].offer
        /\ \A q \in Opps \ {o} : deal'[q] = deal[q]
    BY <1>1, <1>2, <1>3, NoneAssumption DEF IInv, Shape, DealRow
  <1>5. Persist
    BY <1>4 DEF Persist
  <1>6. ReqInv' /\ DOMAIN req' = Procs
    BY <1>5, OthersKeep
  <1>7. DealMeansWon'
    BY <1>4 DEF IInv, DealMeansWon
  <1>8. PaidMeansClosed'
    BY <1>4 DEF IInv, PaidMeansClosed, TerminalDeal
  <1> QED
    BY <1>4, <1>5, <1>6, <1>7, <1>8 DEF IInv, Shape, References

\* A step that writes none of the rows that the invariant looks at, except
\* commissions of closed deals.
LEMMA OtherRowsKeep ==
  ASSUME IInv, NEW p \in Procs, req' = req \/ Done(p),
         UNCHANGED <<opp, negotiation, offer, deal, closing>>,
         DOMAIN commission' = Opps,
         \A o \in Opps : commission'[o] # commission[o] => IsClosed(o)
  PROVE  IInv' /\ Persist
  <1>1. Persist
    BY DEF Persist
  <1>2. ReqInv' /\ DOMAIN req' = Procs
    BY <1>1, OthersKeep
  <1>3. PaidMeansClosed'
    BY DEF IInv, PaidMeansClosed, IsClosed
  <1> QED
    BY <1>1, <1>2, <1>3 DEF IInv, Shape, References, DealMeansWon

-----------------------------------------------------------------------------
LEMMA CreateNegotiationKeeps ==
  ASSUME IInv, NEW p \in Procs, NEW n \in Negotiations, CreateNegotiationCommit(p, n)
  PROVE  IInv' /\ Persist
  <1> DEFINE o == req[p].on
             new == [opp |-> o, status |-> "OPEN", version |-> 1]
  <1>1. o \in Opps
    BY DEF CreateNegotiationCommit, Running, IInv, ReqInv, ReqOK
  <1>2. /\ negotiation' \in [Negotiations -> NegotiationRow \cup {None}]
        /\ \A m \in Negotiations : negotiation[m] # None => negotiation'[m] = negotiation[m]
    <2>1. new \in NegotiationRow
      BY <1>1, Tables, MaxVersionAssumption DEF NegotiationRow, Versions
    <2> QED
      BY <2>1 DEF CreateNegotiationCommit, IInv, Shape
  <1>3. /\ opp' \in [Opps -> OpportunityRow]
        /\ \A q \in Opps : opp[q].status \in {"WON", "ARCHIVED"} => opp'[q] = opp[q]
    <2>1. CASE req[p].seen.status = "QUALIFIED"
      <3>1. SetOpportunity(o, "NEGOTIATING") /\ opp[o].status = "QUALIFIED"
        BY <2>1 DEF CreateNegotiationCommit, OpportunityUnchanged
      <3> QED
        BY <1>1, <3>1, Tables, MaxVersionAssumption
           DEF SetOpportunity, Room, IInv, Shape, OpportunityRow, Versions
    <2>2. CASE req[p].seen.status # "QUALIFIED"
      BY <2>2 DEF CreateNegotiationCommit, IInv, Shape
    <2> QED
      BY <2>1, <2>2
  <1>4. UNCHANGED <<offer, deal, closing, commission>> /\ Done(p)
    BY DEF CreateNegotiationCommit
  <1>5. Persist
    BY <1>2, <1>3, <1>4 DEF Persist
  <1>6. ReqInv' /\ DOMAIN req' = Procs
    BY <1>4, <1>5, OthersKeep
  <1>7. References'
    BY <1>2, <1>4 DEF IInv, References, Shape, OfferRow
  <1>8. DealMeansWon'
    <2> SUFFICES ASSUME NEW q \in Opps, deal[q] # None
                 PROVE  /\ opp'[q].status \in {"WON", "ARCHIVED"}
                        /\ offer[deal[q].offer] # None
                        /\ offer[deal[q].offer].status = "ACCEPTED"
                        /\ negotiation'[offer[deal[q].offer].negotiation].opp = q
      BY <1>4 DEF DealMeansWon
    <2>1. deal[q].offer \in Offers /\ offer[deal[q].offer] # None
      BY DEF IInv, Shape, DealRow, DealMeansWon
    <2>2. /\ offer[deal[q].offer].negotiation \in Negotiations
          /\ negotiation[offer[deal[q].offer].negotiation] # None
      BY <2>1 DEF IInv, Shape, OfferRow, References
    <2> QED
      BY <1>2, <1>3, <2>1, <2>2 DEF IInv, DealMeansWon
  <1> QED
    BY <1>2, <1>3, <1>4, <1>5, <1>6, <1>7, <1>8 DEF IInv, Shape, PaidMeansClosed

LEMMA TransitionNegotiationKeeps ==
  ASSUME IInv, NEW p \in Procs, TransitionNegotiationCommit(p)
  PROVE  IInv' /\ Persist
  <1> DEFINE n == req[p].on
             new == [negotiation[n] EXCEPT !.status = req[p].to, !.version = @ + 1]
  <1>1. n \in Negotiations /\ req[p].to \in NegotiationStatus /\ negotiation[n] \in NegotiationRow
    BY DEF TransitionNegotiationCommit, Running, IInv, ReqInv, ReqOK, Shape
  <1>2. negotiation' = [negotiation EXCEPT ![n] = new] /\ negotiation[n].version < MaxVersion
    BY <1>1 DEF TransitionNegotiationCommit, Room, IInv, Shape, NegotiationRow
  <1>3. new \in NegotiationRow /\ new.opp = negotiation[n].opp
    <2>1. negotiation[n].version + 1 \in Versions
      BY <1>1, <1>2, MaxVersionAssumption DEF NegotiationRow, Versions
    <2> QED
      BY <1>1, <2>1 DEF NegotiationRow
  <1>4. /\ negotiation' \in [Negotiations -> NegotiationRow \cup {None}]
        /\ \A m \in Negotiations : negotiation[m] # None =>
             negotiation'[m] # None /\ negotiation'[m].opp = negotiation[m].opp
    BY <1>1, <1>2, <1>3, NoneAssumption DEF IInv, Shape
  <1>5. UNCHANGED <<opp, offer, deal, closing, commission>> /\ Done(p)
    BY DEF TransitionNegotiationCommit
  <1>6. Persist
    BY <1>4, <1>5 DEF Persist
  <1>7. ReqInv' /\ DOMAIN req' = Procs
    BY <1>5, <1>6, OthersKeep
  <1>8. References' /\ DealMeansWon'
    BY <1>4, <1>5 DEF IInv, References, DealMeansWon, Shape, OfferRow, DealRow
  <1> QED
    BY <1>4, <1>5, <1>6, <1>7, <1>8 DEF IInv, Shape, PaidMeansClosed

LEMMA CreateOfferKeeps ==
  ASSUME IInv, NEW p \in Procs, NEW f \in Offers, CreateOfferCommit(p, f)
  PROVE  IInv' /\ Persist
  <1>1. /\ req[p].on \in Negotiations /\ negotiation[req[p].on] # None
        /\ req[p].amount \in Amounts
        /\ req[p].latest \in Nat
    BY DEF CreateOfferCommit, Running, IInv, ReqInv, ReqOK
  <1>2. UNCHANGED <<opp, negotiation, deal, closing, commission>> /\ Done(p) /\ offer[f] = None
    BY DEF CreateOfferCommit
  <1>3. /\ offer' \in [Offers -> OfferRow \cup {None}]
        /\ offer'[f].negotiation = req[p].on
        /\ \A g \in Offers \ {f} : offer'[g] = offer[g]
    BY <1>1, Tables DEF CreateOfferCommit, IInv, Shape, OfferRow
  <1>4. Persist
    BY <1>2, <1>3 DEF Persist
  <1>5. ReqInv' /\ DOMAIN req' = Procs
    BY <1>2, <1>4, OthersKeep
  <1>6. References'
    BY <1>1, <1>2, <1>3 DEF IInv, References
  <1>7. DealMeansWon'
    BY <1>2, <1>3 DEF IInv, DealMeansWon, Shape, DealRow
  <1> QED
    BY <1>2, <1>3, <1>4, <1>5, <1>6, <1>7 DEF IInv, Shape, PaidMeansClosed

LEMMA TransitionOfferKeeps ==
  ASSUME IInv, NEW p \in Procs, TransitionOfferCommit(p)
  PROVE  IInv' /\ Persist
  <1> DEFINE f == req[p].on
             new == [offer[f] EXCEPT !.status = req[p].to]
  <1>1. f \in Offers /\ offer[f] \in OfferRow
    BY DEF TransitionOfferCommit, Running, IInv, ReqInv, ReqOK, Shape
  <1>2. req[p].to \in OfferStatus /\ offer[f].status # "ACCEPTED"
    <2>1. /\ req[p].seen.status \in OfferStatus
          /\ req[p].to \in OfferTransitions[req[p].seen.status]
      BY DEF TransitionOfferCommit, Running, IInv, ReqInv, ReqOK
    <2>2. offer[f].status = req[p].seen.status
      BY DEF TransitionOfferCommit, OfferUnchanged
    <2> QED
      BY <2>1, <2>2, Tables
  <1>3. offer' = [offer EXCEPT ![f] = new]
    BY <1>1 DEF TransitionOfferCommit, IInv, Shape, OfferRow
  <1>4. new \in OfferRow /\ new.negotiation = offer[f].negotiation
    BY <1>1, <1>2 DEF OfferRow
  <1>5. /\ offer' \in [Offers -> OfferRow \cup {None}]
        /\ offer'[f] # None
        /\ offer'[f].negotiation = offer[f].negotiation
        /\ \A g \in Offers \ {f} : offer'[g] = offer[g]
    BY <1>1, <1>3, <1>4, NoneAssumption DEF IInv, Shape
  <1>6. UNCHANGED <<opp, negotiation, deal, closing, commission>> /\ Done(p)
    BY DEF TransitionOfferCommit
  <1>7. Persist
    BY <1>2, <1>5, <1>6 DEF Persist
  <1>8. ReqInv' /\ DOMAIN req' = Procs
    BY <1>6, <1>7, OthersKeep
  <1>9. References'
    BY <1>1, <1>5, <1>6, NoneAssumption DEF IInv, References, Shape
  <1>10. DealMeansWon'
    BY <1>2, <1>5, <1>6 DEF IInv, DealMeansWon, Shape, DealRow
  <1> QED
    BY <1>5, <1>6, <1>7, <1>8, <1>9, <1>10 DEF IInv, Shape, PaidMeansClosed

LEMMA CreateDealKeeps ==
  ASSUME IInv, NEW p \in Procs, CreateDealCommit(p)
  PROVE  IInv' /\ Persist
  <1> DEFINE o == req[p].on
             f == req[p].offer
             new == [offer |-> f, status |-> "OPEN", version |-> 1]
  <1>1. /\ o \in Opps
        /\ req[p].seen.status \in {"QUALIFIED", "NEGOTIATING"}
        /\ AcceptedFor(f, o)
    BY DEF CreateDealCommit, Running, IInv, ReqInv, ReqOK
  <1>2. /\ deal[o] = None
        /\ opp[o].status \in {"QUALIFIED", "NEGOTIATING"}
        /\ SetOpportunity(o, "WON")
        /\ deal' = [deal EXCEPT ![o] = new]
        /\ Done(p)
        /\ UNCHANGED <<negotiation, offer, closing, commission>>
    BY <1>1 DEF CreateDealCommit, OpportunityUnchanged
  <1>3. /\ opp' \in [Opps -> OpportunityRow]
        /\ opp'[o].status = "WON"
        /\ \A q \in Opps \ {o} : opp'[q] = opp[q]
    BY <1>1, <1>2, Tables, MaxVersionAssumption
       DEF SetOpportunity, Room, IInv, Shape, OpportunityRow, Versions
  <1>4. /\ deal' \in [Opps -> DealRow \cup {None}]
        /\ deal'[o] = new
        /\ \A q \in Opps \ {o} : deal'[q] = deal[q]
    <2>1. new \in DealRow
      BY <1>1, Tables, MaxVersionAssumption DEF DealRow, Versions, AcceptedFor
    <2> QED
      BY <1>1, <1>2, <2>1 DEF IInv, Shape
  <1>5. Persist
    BY <1>2, <1>3, <1>4 DEF Persist
  <1>6. ReqInv' /\ DOMAIN req' = Procs
    BY <1>2, <1>5, OthersKeep
  <1>7. DealMeansWon'
    BY <1>1, <1>2, <1>3, <1>4 DEF IInv, DealMeansWon, AcceptedFor
  <1>8. PaidMeansClosed'
    BY <1>2, <1>4 DEF IInv, PaidMeansClosed
  <1> QED
    BY <1>2, <1>3, <1>4, <1>5, <1>6, <1>7, <1>8 DEF IInv, Shape, References

-----------------------------------------------------------------------------
LEMMA CommitKeeps ==
  ASSUME IInv, NEW p \in Procs, CommitStep(p)
  PROVE  IInv' /\ Persist
  <1>1. CASE TransitionOpportunityCommit(p)
    <2>1. /\ req[p].on \in Opps
          /\ req[p].seen.status \in OpportunityStatus
          /\ req[p].to \in OpportunityTransitions[req[p].seen.status]
      BY <1>1 DEF TransitionOpportunityCommit, Running, IInv, ReqInv, ReqOK
    <2>2. opp[req[p].on].status = req[p].seen.status
      BY <1>1 DEF TransitionOpportunityCommit, OpportunityUnchanged
    <2>3. /\ req[p].to \in OpportunityStatus
          /\ opp[req[p].on].status \in {"WON", "ARCHIVED"} => req[p].to \in {"WON", "ARCHIVED"}
      BY <2>1, <2>2, Tables
    <2> QED
      BY <1>1, <2>1, <2>3, SetOpportunityKeeps DEF TransitionOpportunityCommit
  <1>2. CASE UpdateOpportunityCommit(p)
    <2>1. req[p].on \in Opps
      BY <1>2 DEF UpdateOpportunityCommit, Running, IInv, ReqInv, ReqOK
    <2>2. opp[req[p].on].status \in OpportunityStatus
      BY <2>1 DEF IInv, Shape, OpportunityRow
    <2> QED
      BY <1>2, <2>1, <2>2, SetOpportunityKeeps DEF UpdateOpportunityCommit
  <1>3. ASSUME NEW n \in Negotiations, CreateNegotiationCommit(p, n) PROVE IInv' /\ Persist
    BY <1>3, CreateNegotiationKeeps
  <1>4. CASE TransitionNegotiationCommit(p)
    BY <1>4, TransitionNegotiationKeeps
  <1>5. ASSUME NEW f \in Offers, CreateOfferCommit(p, f) PROVE IInv' /\ Persist
    BY <1>5, CreateOfferKeeps
  <1>6. CASE TransitionOfferCommit(p)
    BY <1>6, TransitionOfferKeeps
  <1>7. CASE CreateDealCommit(p)
    BY <1>7, CreateDealKeeps
  <1>8. CASE TransitionDealCommit(p)
    <2>1. /\ req[p].on \in Opps
          /\ req[p].to \in DealStatus
          /\ deal[req[p].on] # None
          /\ deal[req[p].on].status \notin TerminalDeal
      BY <1>8 DEF TransitionDealCommit, DealUnchanged, Running, IInv, ReqInv, ReqOK
    <2> QED
      BY <1>8, <2>1, SetDealKeeps DEF TransitionDealCommit
  <1>9. CASE CloseDealCommit(p)
    <2>1. /\ req[p].on \in Opps
          /\ deal[req[p].on] # None
          /\ deal[req[p].on].status \notin TerminalDeal
      BY <1>9 DEF CloseDealCommit, DealUnchanged, Running, IInv, ReqInv, ReqOK
    <2>2. "CLOSED" \in DealStatus
      BY Tables
    <2> QED
      BY <1>9, <2>1, <2>2, SetDealKeeps DEF CloseDealCommit
  <1>10. ASSUME NEW i \in Items, AddDealItemCommit(p, i) PROVE IInv' /\ Persist
    BY <1>10, OtherRowsKeep DEF AddDealItemCommit, IInv, Shape
  <1>11. CASE EditDealItemSelect(p)
    <2> DEFINE r == [op |-> "editDealItemTx", on |-> req[p].on, deal |-> req[p].deal,
                     amount |-> req[p].amount, seen |-> item]
    <2>1. UNCHANGED rows /\ req' = [req EXCEPT ![p] = r]
      BY <1>11 DEF EditDealItemSelect
    <2>2. ASSUME NEW q \in Procs, req'[q] # None PROVE ReqOK(req[q])'
      <3>1. ReqOK(req'[q])
        BY <2>1, <2>2 DEF IInv, Shape, ReqInv, ReqOK
      <3> QED
        BY <2>1, <3>1 DEF ReqOK, AcceptedFor, IsClosed, rows
    <2> QED
      BY <2>1, <2>2 DEF IInv, Shape, References, ReqInv, DealMeansWon, PaidMeansClosed,
                        Persist, rows
  <1>12. CASE EditDealItemCommit(p)
    BY <1>12, OtherRowsKeep DEF EditDealItemCommit, IInv, Shape
  <1>13. CASE CalculateCommissionCommit(p)
    <2>1. req[p].on \in Opps /\ IsClosed(req[p].on)
      BY <1>13 DEF CalculateCommissionCommit, Running, IInv, ReqInv, ReqOK
    <2>2. /\ DOMAIN commission' = Opps
          /\ \A o \in Opps : commission'[o] # commission[o] => o = req[p].on
      BY <1>13 DEF CalculateCommissionCommit, IInv, Shape
    <2> QED
      BY <1>13, <2>1, <2>2, OtherRowsKeep DEF CalculateCommissionCommit
  <1>14. ASSUME NEW op \in {"approveCommission", "settleCommission"}, NEW to,
                SetCommission(p, op, to)
         PROVE  IInv' /\ Persist
    <2>1. req[p].on \in Opps /\ IsClosed(req[p].on)
      BY <1>14 DEF SetCommission, Running, IInv, ReqInv, ReqOK
    <2>2. /\ DOMAIN commission' = Opps
          /\ \A o \in Opps : commission'[o] # commission[o] => o = req[p].on
      BY <1>14 DEF SetCommission, IInv, Shape
    <2> QED
      BY <1>14, <2>1, <2>2, OtherRowsKeep DEF SetCommission
  <1> QED
    BY <1>1, <1>2, <1>3, <1>4, <1>5, <1>6, <1>7, <1>8, <1>9, <1>10, <1>11, <1>12, <1>13, <1>14
       DEF CommitStep, ApproveCommissionCommit, SettleCommissionCommit

LEMMA StepKeeps ==
  ASSUME IInv, Next
  PROVE  IInv' /\ Persist
  <1>1. ASSUME NEW p \in Procs, ReadStep(p) PROVE IInv' /\ Persist
    <2>1. UNCHANGED rows
      BY <1>1 DEF ReadStep, Start, TransitionOpportunityRead, LostOpportunityRead,
           UpdateOpportunityRead, CreateNegotiationRead, CreateDealRead, TransitionDealRead,
           LostDealRead, CloseDealRead, AddDealItemRead, CalculateCommissionRead,
           ApproveCommissionRead, SettleCommissionRead, TransitionNegotiationRead,
           CreateOfferRead, TransitionOfferRead, EditDealItemRead
    <2> QED
      BY <1>1, <2>1, ReadKeeps DEF Persist, rows
  <1>2. ASSUME NEW p \in Procs, CommitStep(p) PROVE IInv' /\ Persist
    BY <1>2, CommitKeeps
  <1>3. ASSUME NEW p \in Procs, Fail(p) PROVE IInv' /\ Persist
    BY <1>3, OtherRowsKeep DEF Fail, rows, IInv, Shape
  <1>4. ASSUME NEW o \in Opps, AssignOpportunity(o) PROVE IInv' /\ Persist
    <2>1. opp[o].status \in OpportunityStatus
      BY DEF IInv, Shape, OpportunityRow
    <2>2. CASE Procs = {}
      <3>1. /\ opp' \in [Opps -> OpportunityRow]
            /\ \A q \in Opps : opp'[q].status = opp[q].status
        BY <1>4, <2>1, MaxVersionAssumption
           DEF AssignOpportunity, SetOpportunity, Room, IInv, Shape, OpportunityRow, Versions
      <3> QED
        BY <1>4, <2>2, <3>1 DEF AssignOpportunity, IInv, Shape, References, ReqInv,
             DealMeansWon, PaidMeansClosed, Persist
    <2>3. ASSUME NEW p \in Procs PROVE IInv' /\ Persist
      BY <1>4, <2>1, SetOpportunityKeeps DEF AssignOpportunity
    <2> QED
      BY <2>2, <2>3
  <1> QED
    BY <1>1, <1>2, <1>3, <1>4 DEF Next

\* The inductive invariant holds in every reachable state of the model.
THEOREM Invariance == Spec => []IInv
  <1>1. IInv /\ UNCHANGED vars => IInv'
    <2> SUFFICES ASSUME IInv, UNCHANGED vars PROVE IInv'
      OBVIOUS
    <2>1. ReqInv'
      BY DEF vars, IInv, ReqInv, ReqOK, AcceptedFor, IsClosed
    <2> QED
      BY <2>1 DEF vars, IInv, Shape, References, DealMeansWon, PaidMeansClosed
  <1>2. IInv /\ [Next]_vars => IInv'
    BY <1>1, StepKeeps
  <1> QED
    BY Initial, <1>2, PTL DEF Spec

\* createDeal: a deal exists only for an opportunity that was won with it,
\* on an accepted offer of its own, however many requests overlap.
THEOREM DealsAreWon == Spec => []DealMeansWon
  <1>1. IInv => DealMeansWon
    BY DEF IInv
  <1> QED
    BY Invariance, <1>1, PTL

\* closeDeal and calculateCommission: what was closed or earned a commission
\* is a CLOSED deal, and stays one.
THEOREM PaidDealsAreClosed == Spec => []PaidMeansClosed
  <1>1. IInv => PaidMeansClosed
    BY DEF IInv
  <1> QED
    BY Invariance, <1>1, PTL

\* transitionDeal, closeDeal and markLost: none of them moves a terminal
\* deal, although each decides on a deal it read earlier.
THEOREM TerminalDealsRest == Spec => TerminalDealRests
  <1>1. IInv /\ [Next]_vars =>
          [\A o \in Opps :
             deal[o] # None /\ deal[o].status \in TerminalDeal =>
               /\ deal'[o].status = deal[o].status
               /\ deal'[o].version = deal[o].version]_vars
    BY StepKeeps DEF Persist
  <1> QED
    BY Invariance, <1>1, PTL DEF Spec, TerminalDealRests

\* How a step may move the status of an opportunity.
Moves(o) ==
  \/ opp'[o].status = opp[o].status
  \/ opp'[o].status \in OpportunityTransitions[opp[o].status]
  \/ opp'[o].status = "WON" /\ deal[o] = None /\ deal'[o] # None

LEMMA SetOpportunityMoves ==
  ASSUME IInv, NEW q \in Opps, NEW to, SetOpportunity(q, to), NEW o \in Opps
  PROVE  opp'[o].status = IF o = q THEN to ELSE opp[o].status
  BY DEF SetOpportunity, IInv, Shape, OpportunityRow

LEMMA StepMoves ==
  ASSUME IInv, Next, NEW o \in Opps
  PROVE  Moves(o)
  <1>1. ASSUME opp' = opp PROVE Moves(o)
    BY <1>1 DEF Moves
  <1>2. ASSUME NEW p \in Procs, ReadStep(p) PROVE opp' = opp
    BY <1>2 DEF ReadStep, Start, TransitionOpportunityRead, LostOpportunityRead,
         UpdateOpportunityRead, CreateNegotiationRead, CreateDealRead, TransitionDealRead,
         LostDealRead, CloseDealRead, AddDealItemRead, CalculateCommissionRead,
         ApproveCommissionRead, SettleCommissionRead, TransitionNegotiationRead,
         CreateOfferRead, TransitionOfferRead, EditDealItemRead, rows
  <1>3. ASSUME NEW p \in Procs, TransitionOpportunityCommit(p) PROVE Moves(o)
    <2>1. req[p].on \in Opps /\ req[p].to \in OpportunityTransitions[req[p].seen.status]
      BY <1>3 DEF TransitionOpportunityCommit, Running, IInv, ReqInv, ReqOK
    <2>2. opp[req[p].on].status = req[p].seen.status /\ SetOpportunity(req[p].on, req[p].to)
      BY <1>3 DEF TransitionOpportunityCommit, OpportunityUnchanged
    <2> QED
      BY <2>1, <2>2, SetOpportunityMoves DEF Moves
  <1>4. ASSUME NEW p \in Procs, UpdateOpportunityCommit(p) PROVE Moves(o)
    <2>1. req[p].on \in Opps
      BY <1>4 DEF UpdateOpportunityCommit, Running, IInv, ReqInv, ReqOK
    <2>2. SetOpportunity(req[p].on, opp[req[p].on].status)
      BY <1>4 DEF UpdateOpportunityCommit
    <2> QED
      BY <2>1, <2>2, SetOpportunityMoves DEF Moves
  <1>5. ASSUME NEW p \in Procs, NEW n \in Negotiations, CreateNegotiationCommit(p, n)
        PROVE  Moves(o)
    <2>1. CASE req[p].seen.status = "QUALIFIED"
      <3>1. req[p].on \in Opps
        BY <1>5 DEF CreateNegotiationCommit, Running, IInv, ReqInv, ReqOK
      <3>2. SetOpportunity(req[p].on, "NEGOTIATING") /\ opp[req[p].on].status = "QUALIFIED"
        BY <1>5, <2>1 DEF CreateNegotiationCommit, OpportunityUnchanged
      <3>3. "NEGOTIATING" \in OpportunityTransitions["QUALIFIED"]
        BY DEF OpportunityTransitions
      <3> QED
        BY <3>1, <3>2, <3>3, SetOpportunityMoves DEF Moves
    <2>2. CASE req[p].seen.status # "QUALIFIED"
      BY <1>1, <1>5, <2>2 DEF CreateNegotiationCommit
    <2> QED
      BY <2>1, <2>2
  <1>6. ASSUME NEW p \in Procs, CreateDealCommit(p) PROVE Moves(o)
    <2>1. req[p].on \in Opps /\ req[p].offer \in Offers
      BY <1>6 DEF CreateDealCommit, Running, IInv, ReqInv, ReqOK, AcceptedFor
    <2>2. /\ SetOpportunity(req[p].on, "WON")
          /\ deal[req[p].on] = None
          /\ deal'[req[p].on] = [offer |-> req[p].offer, status |-> "OPEN", version |-> 1]
      BY <1>6, <2>1 DEF CreateDealCommit, IInv, Shape
    <2>3. deal'[req[p].on] # None
      BY <2>1, <2>2, Tables, MaxVersionAssumption, NoneAssumption DEF DealRow, Versions
    <2> QED
      BY <2>1, <2>2, <2>3, SetOpportunityMoves DEF Moves
  <1>7. ASSUME NEW p \in Procs, CommitStep(p),
               ~TransitionOpportunityCommit(p), ~UpdateOpportunityCommit(p),
               ~CreateDealCommit(p), \A n \in Negotiations : ~CreateNegotiationCommit(p, n)
        PROVE  opp' = opp
    BY <1>7 DEF CommitStep, TransitionNegotiationCommit, CreateOfferCommit,
         TransitionOfferCommit, TransitionDealCommit, CloseDealCommit, AddDealItemCommit,
         EditDealItemSelect, EditDealItemCommit, CalculateCommissionCommit,
         ApproveCommissionCommit, SettleCommissionCommit, SetCommission, rows
  <1>8. ASSUME NEW q \in Opps, AssignOpportunity(q) PROVE Moves(o)
    BY <1>8, SetOpportunityMoves DEF AssignOpportunity, Moves
  <1>9. ASSUME NEW p \in Procs, Fail(p) PROVE opp' = opp
    BY <1>9 DEF Fail, rows
  <1> QED
    BY <1>1, <1>2, <1>3, <1>4, <1>5, <1>6, <1>7, <1>8, <1>9 DEF Next

\* The opportunity commands: however many of them decided on the same
\* earlier status, the status moves along its lifecycle, or to WON with a
\* deal.
THEOREM LifecycleKept == Spec => OpportunityLifecycle
  <1>1. IInv /\ [Next]_vars => [\A o \in Opps : Moves(o)]_vars
    BY StepMoves
  <1>2. IInv /\ [Next]_vars =>
          [\A o \in Opps :
             \/ opp'[o].status = opp[o].status
             \/ opp'[o].status \in OpportunityTransitions[opp[o].status]
             \/ opp'[o].status = "WON" /\ deal[o] = None /\ deal'[o] # None]_vars
    BY <1>1 DEF Moves
  <1> QED
    BY Invariance, <1>2, PTL DEF Spec, OpportunityLifecycle

-----------------------------------------------------------------------------
(* recalculateDealTotal.  The sum is a recursive function over the subsets *)
(* of the items; an argument by a least counterexample takes the place of  *)
(* an induction.                                                           *)

\* A non-empty set of naturals has a least element.
LEMMA Smallest ==
  ASSUME NEW T, T \subseteq Nat, T # {}
  PROVE  \E n \in T : \A m \in T : n <= m
<1>1. PICK n \in T : \A m \in T : <<m, n>> \notin OpToRel(<, Nat)
  BY NatLessThanWellFounded, WFMin
<1>2. \A m \in T : ~(m < n)
  BY <1>1 DEF OpToRel
<1> QED
  BY <1>2

Pick(s) == CHOOSE x \in s : TRUE

\* What the sum of the amounts of the items of s is, from smaller sums.
Summed(sum, seen, s) ==
  IF s = {} THEN 0 ELSE seen[Pick(s)].amount + sum[s \ {Pick(s)}]

Summable(S, seen) ==
  \E sum \in [SUBSET S -> Nat] : \A s \in SUBSET S : sum[s] = Summed(sum, seen, s)

\* The subsets of a finite set, and a set without one of its elements.
LEMMA Smaller ==
  ASSUME NEW S, IsFiniteSet(S), NEW s \in SUBSET S
  PROVE  /\ Cardinality(s) \in Nat
         /\ Cardinality(s) = 0 <=> s = {}
         /\ s # {} => /\ Pick(s) \in s
                      /\ s \ {Pick(s)} \in SUBSET S
                      /\ Cardinality(s \ {Pick(s)}) = Cardinality(s) - 1
<1>1. IsFiniteSet(s)
  BY FS_Subset
<1>2. Cardinality(s) \in Nat /\ (Cardinality(s) = 0 <=> s = {})
  BY <1>1, FS_CardinalityType, FS_EmptySet
<1>3. s # {} => Pick(s) \in s
  BY DEF Pick
<1>4. s # {} => Cardinality(s \ {Pick(s)}) = Cardinality(s) - 1
  BY <1>1, <1>3, FS_RemoveElement
<1> QED
  BY <1>2, <1>3, <1>4

\* The sums of all subsets exist.
LEMMA SumsExist ==
  ASSUME NEW S, IsFiniteSet(S), NEW seen, \A i \in S : seen[i].amount \in Nat
  PROVE  Summable(S, seen)
<1> DEFINE Upto(n) == \E sum \in [SUBSET S -> Nat] :
             \A s \in SUBSET S : Cardinality(s) <= n => sum[s] = Summed(sum, seen, s)
           Missing == {n \in Nat : ~Upto(n)}
<1>0. \A s \in SUBSET S :
         /\ Cardinality(s) \in Nat
         /\ Cardinality(s) = 0 <=> s = {}
         /\ s # {} => /\ Pick(s) \in s
                      /\ s \ {Pick(s)} \in SUBSET S
                      /\ Cardinality(s \ {Pick(s)}) = Cardinality(s) - 1
  BY Smaller
<1>1. Upto(0)
  <2> DEFINE zero == [s \in SUBSET S |-> 0]
  <2>1. zero \in [SUBSET S -> Nat]
    OBVIOUS
  <2>2. ASSUME NEW s \in SUBSET S, Cardinality(s) <= 0
        PROVE  zero[s] = Summed(zero, seen, s)
    <3>1. Cardinality(s) \in Nat /\ (Cardinality(s) = 0 <=> s = {})
      BY <1>0
    <3>2. s = {}
      BY <2>2, <3>1
    <3> QED
      BY <3>2 DEF Summed
  <2> HIDE DEF zero
  <2> QED
    BY <2>1, <2>2
<1>2. ASSUME NEW n \in Nat, Upto(n)
      PROVE  Upto(n + 1)
  <2>1. PICK sum \in [SUBSET S -> Nat] :
               \A s \in SUBSET S : Cardinality(s) <= n => sum[s] = Summed(sum, seen, s)
    BY <1>2
  <2> DEFINE next == [s \in SUBSET S |->
                        IF Cardinality(s) <= n THEN sum[s]
                        ELSE seen[Pick(s)].amount + sum[s \ {Pick(s)}]]
  <2>2. ASSUME NEW s \in SUBSET S
        PROVE  next[s] \in Nat
    <3>1. CASE Cardinality(s) <= n
      BY <3>1
    <3>2. CASE ~(Cardinality(s) <= n)
      <4>0. Cardinality(s) \in Nat /\ (Cardinality(s) = 0 <=> s = {})
        BY <1>0
      <4>1. s # {}
        BY <3>2, <4>0
      <4>2. Pick(s) \in S /\ s \ {Pick(s)} \in SUBSET S
        BY <4>1, <1>0
      <4>3. seen[Pick(s)].amount \in Nat /\ sum[s \ {Pick(s)}] \in Nat
        BY <4>2
      <4>4. next[s] = seen[Pick(s)].amount + sum[s \ {Pick(s)}]
        BY <3>2
      <4> QED
        BY <4>3, <4>4
    <3> QED
      BY <3>1, <3>2
  <2>3. ASSUME NEW s \in SUBSET S, Cardinality(s) <= n + 1
        PROVE  next[s] = Summed(next, seen, s)
    <3>1. CASE s = {}
      <4>0. Cardinality(s) \in Nat /\ (Cardinality(s) = 0 <=> s = {})
        BY <1>0
      <4>1. Cardinality(s) <= n
        BY <3>1, <4>0
      <4> QED
        BY <2>1, <3>1, <4>1 DEF Summed
    <3>2. CASE s # {}
      <4> DEFINE rest == s \ {Pick(s)}
      <4>1. rest \in SUBSET S /\ Cardinality(rest) = Cardinality(s) - 1
            /\ Cardinality(s) \in Nat
        BY <3>2, <1>0
      <4>2. Cardinality(rest) <= n
        BY <2>3, <4>1
      <4>3. next[rest] = sum[rest]
        BY <4>1, <4>2
      <4>4. next[s] = seen[Pick(s)].amount + sum[rest]
        BY <2>1, <3>2 DEF Summed
      <4> QED
        BY <3>2, <4>3, <4>4 DEF Summed
    <3> QED
      BY <3>1, <3>2
  <2>4. next \in [SUBSET S -> Nat]
    BY <2>2
  <2> HIDE DEF next
  <2> QED
    BY <2>3, <2>4
<1>3. Missing = {}
  <2> SUFFICES ASSUME Missing # {} PROVE FALSE
    OBVIOUS
  <2>1. PICK n \in Missing : \A m \in Missing : n <= m
    BY Smallest
  <2> HIDE DEF Upto
  <2>2. n # 0
    BY <1>1
  <2>3. n - 1 \in Nat /\ Upto(n - 1)
    BY <2>1, <2>2
  <2> QED
    BY <1>2, <2>3
<1>4. Cardinality(S) \in Nat
  BY FS_CardinalityType
<1>5. Upto(Cardinality(S))
  BY <1>3, <1>4
<1>6. \A s \in SUBSET S : Cardinality(s) <= Cardinality(S)
  BY FS_Subset
<1> QED
  BY <1>5, <1>6 DEF Summable

\* recalculateDealTotal of items with natural amounts is a natural number.
LEMMA TotalIsNat ==
  ASSUME IsFiniteSet(Items), NEW o, NEW seen \in [Items -> ItemRow \cup {None}]
  PROVE  Total(o, seen) \in Nat
<1> DEFINE S == {i \in Items : Exists(i, seen) /\ seen[i].deal = o}
           Sums(sum) == sum = [s \in SUBSET S |->
             IF s = {} THEN 0
             ELSE seen[CHOOSE x \in s : TRUE].amount + sum[s \ {CHOOSE x \in s : TRUE}]]
           sums == CHOOSE sum : Sums(sum)
<1>1. \A i \in S : seen[i].amount \in Nat
  BY AmountsAssumption DEF Exists, ItemRow
<1>2. IsFiniteSet(S)
  BY FS_Subset
<1>3. Total(o, seen) = sums[S]
  BY DEF Total, MapThenSumSet, MapThenFoldSet
<1> HIDE DEF S
<1>4. \E sum : Sums(sum)
  <2>0. Summable(S, seen)
    BY <1>1, <1>2, SumsExist
  <2>1. PICK sum \in [SUBSET S -> Nat] :
               \A s \in SUBSET S : sum[s] = Summed(sum, seen, s)
    BY <2>0 DEF Summable
  <2>2. Sums(sum)
    BY <2>1 DEF Summed, Pick
  <2> HIDE DEF Sums
  <2> QED
    BY <2>2
<1>5. Sums(sums)
  <2> HIDE DEF Sums
  <2> QED
    BY <1>4
<1>6. \A s \in SUBSET S : sums[s] = Summed(sums, seen, s)
  <2> HIDE DEF sums
  <2> QED
    BY <1>5 DEF Summed, Pick
<1>0. \A s \in SUBSET S :
         /\ Cardinality(s) \in Nat
         /\ Cardinality(s) = 0 <=> s = {}
         /\ s # {} => /\ Pick(s) \in s
                      /\ s \ {Pick(s)} \in SUBSET S
                      /\ Cardinality(s \ {Pick(s)}) = Cardinality(s) - 1
  BY <1>2, Smaller
<1> HIDE DEF sums
<1> DEFINE Bad == {n \in Nat : \E s \in SUBSET S : Cardinality(s) = n /\ sums[s] \notin Nat}
<1>7. Bad = {}
  <2> SUFFICES ASSUME Bad # {} PROVE FALSE
    OBVIOUS
  <2>1. PICK n \in Bad : \A m \in Bad : n <= m
    BY Smallest
  <2>2. PICK s \in SUBSET S : Cardinality(s) = n /\ sums[s] \notin Nat
    BY <2>1
  <2>3. s # {}
    <3>1. sums[s] = Summed(sums, seen, s)
      BY <1>6
    <3> QED
      BY <2>2, <3>1 DEF Summed
  <2>4. s \ {Pick(s)} \in SUBSET S /\ Cardinality(s \ {Pick(s)}) = n - 1
        /\ Pick(s) \in S /\ n - 1 \in Nat
    BY <1>0, <2>2, <2>3
  <2>5. sums[s \ {Pick(s)}] \in Nat
    BY <2>1, <2>4
  <2>6. sums[s] = seen[Pick(s)].amount + sums[s \ {Pick(s)}]
    BY <1>6, <2>3 DEF Summed
  <2> QED
    BY <1>1, <2>2, <2>4, <2>5, <2>6
<1>8. Cardinality(S) \in Nat
  BY <1>2, FS_CardinalityType
<1> QED
  BY <1>3, <1>7, <1>8

-----------------------------------------------------------------------------
(* The types of all columns and requests.                                  *)

\* Who approves or settles a commission has read it.
Approvals ==
  \A p \in Procs : req[p] # None /\ req[p].op \in {"approveCommission", "settleCommission"} =>
    commission[req[p].on] \in CommissionRow

TypeInv == TypeOK /\ Approvals

\* The fields that the commits of deals, items and commissions look at.
LEMMA RequestFields ==
  ASSUME NEW r \in Request
  PROVE  /\ r.op = "addDealItem" => r.on \in Opps /\ r.amount \in Amounts
         /\ r.op \in {"editDealItem", "editDealItemTx"} =>
              r.on \in Items /\ r.deal \in Opps /\ r.amount \in Amounts \cup {None}
         /\ r.op = "editDealItemTx" => r.seen \in [Items -> ItemRow \cup {None}]
         /\ r.op = "calculateCommission" => r.on \in Opps /\ r.base \in Nat
         /\ r.op = "closeDeal" => r.on \in Opps
         /\ r.op \in {"approveCommission", "settleCommission"} => r.on \in Opps
BY DEF Request

\* A request that starts with fields of their types.
LEMMA StartTypes ==
  ASSUME IInv, TypeInv, NEW p \in Procs, NEW r \in Request, Start(p, r),
         r.op \in {"approveCommission", "settleCommission"} => commission[r.on] \in CommissionRow
  PROVE  TypeInv'
<1>1. UNCHANGED rows /\ req' = [req EXCEPT ![p] = r]
  BY DEF Start
<1>2. TypeOK'
  BY <1>1 DEF TypeInv, TypeOK, rows
<1>3. ASSUME NEW q \in Procs,
             req'[q] # None, req'[q].op \in {"approveCommission", "settleCommission"}
      PROVE  commission'[req'[q].on] \in CommissionRow
  <2>1. commission' = commission /\ req'[q] = IF q = p THEN r ELSE req[q]
    BY <1>1 DEF rows, TypeInv, TypeOK
  <2> QED
    BY <1>3, <2>1 DEF TypeInv, Approvals
<1> QED
  BY <1>2, <1>3 DEF TypeInv, Approvals

\* A request that ends, or none: the columns that Shape does not have.
LEMMA EndTypes ==
  ASSUME IInv', TypeInv, NEW p \in Procs, Done(p) \/ req' = req,
         total' \in [Opps -> Nat],
         item' \in [Items -> ItemRow \cup {None}],
         closing' \subseteq Opps,
         commission' \in [Opps -> CommissionRow \cup {None}],
         \A o \in Opps : commission[o] \in CommissionRow => commission'[o] \in CommissionRow
  PROVE  TypeInv'
<1>1. req' \in [Procs -> Request \cup {None}]
  BY DEF TypeInv, TypeOK, Done
<1>2. TypeOK'
  BY <1>1 DEF TypeOK, IInv, Shape
<1>3. ASSUME NEW q \in Procs,
             req'[q] # None, req'[q].op \in {"approveCommission", "settleCommission"}
      PROVE  commission'[req'[q].on] \in CommissionRow
  <2>1. req'[q] = req[q] /\ req[q] \in Request
    BY <1>3 DEF TypeInv, TypeOK, Done
  <2>2. req[q].on \in Opps /\ commission[req[q].on] \in CommissionRow
    BY <1>3, <2>1, RequestFields DEF TypeInv, Approvals
  <2> QED
    BY <2>1, <2>2
<1> QED
  BY <1>2, <1>3 DEF TypeInv, Approvals

LEMMA ReadTypes ==
  ASSUME IInv, TypeInv, NEW p \in Procs, ReadStep(p)
  PROVE  TypeInv'
<1> USE DEF Request
<1>0. /\ \A o \in Opps : opp[o] \in OpportunityRow
      /\ \A n \in Negotiations : negotiation[n] # None => negotiation[n] \in NegotiationRow
      /\ \A f \in Offers : offer[f] # None => offer[f] \in OfferRow
      /\ \A o \in Opps : deal[o] # None => deal[o] \in DealRow
      /\ \A o \in Opps : total[o] \in Nat
      /\ \A i \in Items : item[i] # None => item[i] \in ItemRow
      /\ \A o \in Opps : commission[o] # None => commission[o] \in CommissionRow
  BY DEF TypeInv, TypeOK
<1>1. ASSUME NEW o \in Opps, NEW to \in OpportunityStatus, TransitionOpportunityRead(p, o, to)
      PROVE  TypeInv'
  BY <1>0, <1>1, StartTypes DEF TransitionOpportunityRead
<1>2. ASSUME NEW o \in Opps, LostOpportunityRead(p, o) PROVE TypeInv'
  BY <1>0, <1>2, StartTypes, Tables DEF LostOpportunityRead
<1>3. ASSUME NEW o \in Opps, UpdateOpportunityRead(p, o) PROVE TypeInv'
  BY <1>0, <1>3, StartTypes DEF UpdateOpportunityRead
<1>4. ASSUME NEW o \in Opps, CreateNegotiationRead(p, o) PROVE TypeInv'
  BY <1>0, <1>4, StartTypes DEF CreateNegotiationRead
<1>5. ASSUME NEW o \in Opps, NEW f \in Offers, CreateDealRead(p, o, f) PROVE TypeInv'
  BY <1>0, <1>5, StartTypes DEF CreateDealRead
<1>6. ASSUME NEW o \in Opps, NEW to \in DealStatus, TransitionDealRead(p, o, to) PROVE TypeInv'
  BY <1>0, <1>6, StartTypes DEF TransitionDealRead
<1>7. ASSUME NEW o \in Opps, LostDealRead(p, o) PROVE TypeInv'
  BY <1>0, <1>7, StartTypes, Tables DEF LostDealRead
<1>8. ASSUME NEW o \in Opps, CloseDealRead(p, o) PROVE TypeInv'
  BY <1>0, <1>8, StartTypes DEF CloseDealRead
<1>9. ASSUME NEW o \in Opps, NEW a \in Amounts, AddDealItemRead(p, o, a) PROVE TypeInv'
  BY <1>9, StartTypes DEF AddDealItemRead
<1>10. ASSUME NEW o \in Opps, CalculateCommissionRead(p, o) PROVE TypeInv'
  BY <1>0, <1>10, StartTypes DEF CalculateCommissionRead
<1>11. ASSUME NEW o \in Opps, ApproveCommissionRead(p, o) PROVE TypeInv'
  BY <1>0, <1>11, StartTypes DEF ApproveCommissionRead
<1>12. ASSUME NEW o \in Opps, SettleCommissionRead(p, o) PROVE TypeInv'
  BY <1>0, <1>12, StartTypes DEF SettleCommissionRead
<1>13. ASSUME NEW n \in Negotiations, NEW to \in NegotiationStatus,
              TransitionNegotiationRead(p, n, to)
       PROVE  TypeInv'
  BY <1>0, <1>13, StartTypes DEF TransitionNegotiationRead
<1>14. ASSUME NEW n \in Negotiations, NEW a \in Amounts, CreateOfferRead(p, n, a)
       PROVE  TypeInv'
  <2>1. PICK v \in {0} \cup {offer[f].version : f \in OffersOf(n)} :
          Start(p, [op |-> "createOffer", on |-> n, amount |-> a, latest |-> v])
    BY <1>14 DEF CreateOfferRead
  <2>2. v \in Nat
    BY <1>0 DEF OffersOf, OfferRow
  <2> QED
    BY <2>1, <2>2, StartTypes
<1>15. ASSUME NEW f \in Offers, NEW to \in OfferStatus, TransitionOfferRead(p, f, to)
       PROVE  TypeInv'
  BY <1>0, <1>15, StartTypes DEF TransitionOfferRead
<1>16. ASSUME NEW i \in Items, NEW a \in Amounts \cup {None}, EditDealItemRead(p, i, a)
       PROVE  TypeInv'
  <2>1. item[i].deal \in Opps
    BY <1>0, <1>16 DEF EditDealItemRead, Exists, ItemRow
  <2> QED
    BY <1>16, <2>1, StartTypes DEF EditDealItemRead
<1> QED
  BY <1>1, <1>2, <1>3, <1>4, <1>5, <1>6, <1>7, <1>8, <1>9, <1>10, <1>11, <1>12, <1>13,
     <1>14, <1>15, <1>16 DEF ReadStep

LEMMA CommitTypes ==
  ASSUME IInv, IInv', TypeInv, NEW p \in Procs, CommitStep(p)
  PROVE  TypeInv'
<1>0. /\ total \in [Opps -> Nat] /\ item \in [Items -> ItemRow \cup {None}]
      /\ closing \subseteq Opps /\ commission \in [Opps -> CommissionRow \cup {None}]
  BY DEF TypeInv, TypeOK
<1>1. ASSUME Done(p), UNCHANGED <<total, item, closing, commission>> PROVE TypeInv'
  BY <1>0, <1>1, EndTypes
<1>2. ASSUME req[p] # None PROVE req[p] \in Request
  BY <1>2 DEF TypeInv, TypeOK
<1>3. CASE CreateDealCommit(p)
  <2>1. /\ req[p].on \in Opps
        /\ offer[req[p].offer].amount \in Nat
    <3>1. req[p].on \in Opps /\ req[p].offer \in Offers /\ offer[req[p].offer] # None
      BY <1>3 DEF CreateDealCommit, Running, IInv, ReqInv, ReqOK, AcceptedFor
    <3>2. offer[req[p].offer] \in OfferRow
      BY <3>1 DEF IInv, Shape
    <3> QED
      BY <3>1, <3>2, AmountsAssumption DEF OfferRow
  <2> QED
    BY <1>0, <1>3, <2>1, EndTypes DEF CreateDealCommit
<1>4. CASE CloseDealCommit(p)
  <2>1. req[p].on \in Opps
    BY <1>4 DEF CloseDealCommit, Running, IInv, ReqInv, ReqOK
  <2> QED
    BY <1>0, <1>4, <2>1, EndTypes DEF CloseDealCommit
<1>5. ASSUME NEW i \in Items, AddDealItemCommit(p, i) PROVE TypeInv'
  <2>1. req[p].on \in Opps /\ req[p].amount \in Amounts
    BY <1>2, <1>5, RequestFields DEF AddDealItemCommit, Running
  <2> DEFINE after == [item EXCEPT ![i] = [deal |-> req[p].on, amount |-> req[p].amount]]
  <2>2. after \in [Items -> ItemRow \cup {None}]
    BY <1>0, <2>1 DEF ItemRow
  <2>3. Total(req[p].on, after) \in Nat
    BY <2>2, ItemsAssumption, TotalIsNat
  <2>4. /\ item' = after /\ total' = [total EXCEPT ![req[p].on] = Total(req[p].on, after)]
        /\ Done(p) /\ UNCHANGED <<closing, commission>>
    BY <1>5 DEF AddDealItemCommit
  <2> HIDE DEF after
  <2>5. total' \in [Opps -> Nat]
    BY <1>0, <2>3, <2>4
  <2> QED
    BY <1>0, <2>2, <2>4, <2>5, EndTypes
<1>6. CASE EditDealItemSelect(p)
  <2> DEFINE tx == [op |-> "editDealItemTx", on |-> req[p].on, deal |-> req[p].deal,
                    amount |-> req[p].amount, seen |-> item]
  <2>1. /\ req[p].on \in Items /\ req[p].deal \in Opps /\ req[p].amount \in Amounts \cup {None}
    BY <1>2, <1>6, RequestFields DEF EditDealItemSelect, Running
  <2>2. tx \in Request
    BY <1>0, <2>1 DEF Request
  <2>3. UNCHANGED rows /\ req' = [req EXCEPT ![p] = tx]
    BY <1>6 DEF EditDealItemSelect
  <2>4. tx.op = "editDealItemTx"
    OBVIOUS
  <2> HIDE DEF tx
  <2>5. TypeOK'
    BY <2>2, <2>3 DEF TypeInv, TypeOK, rows
  <2>6. Approvals'
    BY <2>3, <2>4 DEF TypeInv, TypeOK, Approvals, rows
  <2> QED
    BY <2>5, <2>6 DEF TypeInv
<1>7. CASE EditDealItemCommit(p)
  <2> DEFINE new == [deal |-> req[p].deal, amount |-> req[p].amount]
             after == [req[p].seen EXCEPT ![req[p].on] = new]
  <2>1. /\ req[p].on \in Items /\ req[p].deal \in Opps /\ req[p].amount \in Amounts \cup {None}
        /\ req[p].seen \in [Items -> ItemRow \cup {None}]
    BY <1>2, <1>7, RequestFields DEF EditDealItemCommit, Running
  <2>2. new \in ItemRow
    BY <2>1 DEF ItemRow
  <2>3. item' = [item EXCEPT ![req[p].on] = new]
        /\ total' = [total EXCEPT ![req[p].deal] = Total(req[p].deal, after)]
        /\ Done(p) /\ UNCHANGED <<closing, commission>>
    BY <1>7 DEF EditDealItemCommit
  <2> HIDE DEF new
  <2>4. after \in [Items -> ItemRow \cup {None}]
    BY <2>1, <2>2
  <2>5. Total(req[p].deal, after) \in Nat
    BY <2>4, ItemsAssumption, TotalIsNat
  <2> HIDE DEF after
  <2>6. total' \in [Opps -> Nat] /\ item' \in [Items -> ItemRow \cup {None}]
    BY <1>0, <2>2, <2>3, <2>5
  <2> QED
    BY <1>0, <2>3, <2>6, EndTypes
<1>8. CASE CalculateCommissionCommit(p)
  <2> DEFINE new == [base |-> req[p].base, status |-> "PENDING"]
  <2>1. req[p].on \in Opps /\ req[p].base \in Nat
    BY <1>2, <1>8, RequestFields DEF CalculateCommissionCommit, Running
  <2>2. new \in CommissionRow
    BY <2>1 DEF CommissionRow, CommissionStatus
  <2>3. /\ commission' = [commission EXCEPT ![req[p].on] = new]
        /\ Done(p) /\ UNCHANGED <<total, item, closing>>
    BY <1>8 DEF CalculateCommissionCommit
  <2> HIDE DEF new
  <2>4. /\ commission' \in [Opps -> CommissionRow \cup {None}]
        /\ \A o \in Opps : commission[o] \in CommissionRow => commission'[o] \in CommissionRow
    BY <1>0, <2>2, <2>3
  <2> QED
    BY <1>0, <2>3, <2>4, EndTypes
<1>9. ASSUME NEW op \in {"approveCommission", "settleCommission"},
             NEW to \in CommissionStatus, SetCommission(p, op, to)
      PROVE  TypeInv'
  <2>1. req[p].on \in Opps /\ commission[req[p].on] \in CommissionRow
    BY <1>2, <1>9, RequestFields DEF SetCommission, Running, TypeInv, Approvals
  <2> DEFINE new == [commission[req[p].on] EXCEPT !.status = to]
  <2>2. new \in CommissionRow
    BY <1>9, <2>1 DEF CommissionRow
  <2>3. /\ commission' = [commission EXCEPT ![req[p].on] = new]
        /\ Done(p) /\ UNCHANGED <<total, item, closing>>
    BY <1>9 DEF SetCommission
  <2> HIDE DEF new
  <2>4. /\ commission' \in [Opps -> CommissionRow \cup {None}]
        /\ \A o \in Opps : commission[o] \in CommissionRow => commission'[o] \in CommissionRow
    BY <1>0, <2>2, <2>3
  <2> QED
    BY <1>0, <2>3, <2>4, EndTypes
<1>10. ApproveCommissionCommit(p) \/ SettleCommissionCommit(p) => TypeInv'
  BY <1>9 DEF ApproveCommissionCommit, SettleCommissionCommit, CommissionStatus
<1>11. CASE \/ TransitionOpportunityCommit(p)
            \/ UpdateOpportunityCommit(p)
            \/ \E n \in Negotiations : CreateNegotiationCommit(p, n)
            \/ TransitionNegotiationCommit(p)
            \/ \E f \in Offers : CreateOfferCommit(p, f)
            \/ TransitionOfferCommit(p)
            \/ TransitionDealCommit(p)
  <2>1. Done(p) /\ UNCHANGED <<total, item, closing, commission>>
    BY <1>11 DEF TransitionOpportunityCommit, UpdateOpportunityCommit,
         CreateNegotiationCommit, TransitionNegotiationCommit, CreateOfferCommit,
         TransitionOfferCommit, TransitionDealCommit
  <2> QED
    BY <1>1, <2>1
<1> QED
  BY <1>3, <1>4, <1>5, <1>6, <1>7, <1>8, <1>10, <1>11 DEF CommitStep

LEMMA StepTypes ==
  ASSUME IInv, IInv', TypeInv, Next
  PROVE  TypeInv'
<1>1. ASSUME NEW p \in Procs, Fail(p) PROVE TypeInv'
  BY <1>1, EndTypes DEF Fail, rows, TypeInv, TypeOK
<1>2. ASSUME NEW o \in Opps, AssignOpportunity(o) PROVE TypeInv'
  <2>1. TypeOK'
    BY <1>2 DEF AssignOpportunity, TypeInv, TypeOK, IInv, Shape
  <2>2. Approvals'
    BY <1>2 DEF AssignOpportunity, TypeInv, Approvals
  <2> QED
    BY <2>1, <2>2 DEF TypeInv
<1> QED
  BY <1>1, <1>2, ReadTypes, CommitTypes DEF Next

\* The rows and requests of the sales module keep the types of their columns;
\* a total stays a natural number, from whichever snapshot it is summed.
THEOREM TypesKept == Spec => []TypeOK
<1>1. Init => TypeInv
  BY Initial DEF Init, TypeInv, TypeOK, Approvals, IInv, Shape
<1>2. IInv /\ IInv' /\ TypeInv /\ [Next]_vars => TypeInv'
  <2>1. ASSUME IInv, IInv', TypeInv, UNCHANGED vars PROVE TypeInv'
    BY <2>1 DEF vars, TypeInv, TypeOK, Approvals
  <2> QED
    BY <2>1, StepTypes
<1>3. TypeInv => TypeOK
  BY DEF TypeInv
<1> QED
  BY Invariance, <1>1, <1>2, <1>3, PTL DEF Spec
=============================================================================
