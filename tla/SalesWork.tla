------------------------------ MODULE SalesWork ------------------------------
(***************************************************************************)
(* The everyday rows of the sales module: the stages of a pipeline, the    *)
(* viewings of properties and the activities of an opportunity.  Stages    *)
(* are kept apart by a unique order, viewings by a look for a conflict,    *)
(* activities by a look at their status.                                   *)
(***************************************************************************)
EXTENDS Requests, Sequences

CONSTANTS
  Stages,      \* stages that can be created
  Viewings,    \* viewings that can be created
  Slots        \* property and time of a viewing

ViewingTransitions ==
  [REQUESTED |-> {"CONFIRMED", "CANCELLED"}, CONFIRMED |-> {"COMPLETED", "CANCELLED", "NO_SHOW"},
   COMPLETED |-> {}, CANCELLED |-> {}, NO_SHOW |-> {}]

\* A row of sales_viewings: whether a change of status gave it its time, and how
\* many outcomes it has had.
ViewingRow ==
  [slot : Slots, status : DOMAIN ViewingTransitions, moved : BOOLEAN, outcomes : Nat]

ASSUME SalesWorkAssumption == IsFiniteSet(Stages) /\ None \notin Nat \cup ViewingRow

VARIABLES
  stageOrder,   \* sales_pipeline_stages of one pipeline: sortOrder by stage
  asked,        \* the order that the last reordering asked for
  explicit,     \* some request gave a sortOrder of its own
  viewing,      \* sales_viewings
  crossed,      \* pairs of viewings whose creations overlapped
  salesActivity \* one row of sales_activities

workVars == <<stageOrder, asked, explicit, viewing, crossed, salesActivity>>

SalesWorkInit ==
  /\ stageOrder = [s \in Stages |-> None] /\ asked = <<>> /\ explicit = FALSE
  /\ viewing = [v \in Viewings |-> None] /\ crossed = {}
  /\ salesActivity = [status |-> "OPEN", outcomes |-> 0]

-----------------------------------------------------------------------------
(* Stages.                                                                 *)
StagesThere == {s \in Stages : stageOrder[s] # None}

\* The unique index on the pipeline and the order.
OrderFree(s, order) == \A t \in StagesThere \ {s} : stageOrder[t] # order

\* createStage: the stages are counted before the insert.
CreateStageRead(p) ==
  /\ \E s \in Stages \ StagesThere :
       /\ ~\E q \in Procs : req[q] # None /\ req[q].op = "stage" /\ req[q].stage = s
       /\ Start(p, [op |-> "stage", stage |-> s, count |-> Cardinality(StagesThere)])
  /\ UNCHANGED workVars

\* Mutant: the first stage has the order 0.
DefaultOrderFromZero(count) == count

DefaultOrder(count) == count + 1

\* The order is the caller's, or the next one after those counted; a stage that has
\* it already makes the insert fail.
CreateStageWrite(p) ==
  LET r == req[p]
      Insert(order) == IF OrderFree(r.stage, order)
                       THEN stageOrder' = [stageOrder EXCEPT ![r.stage] = order]
                       ELSE UNCHANGED stageOrder
  IN  /\ Running(p, "stage") /\ Done(p)
      /\ \/ Insert(DefaultOrder(r.count)) /\ UNCHANGED explicit
         \/ \E order \in 1 .. Cardinality(Stages) : Insert(order) /\ explicit' = TRUE
      /\ UNCHANGED <<asked, viewing, crossed, salesActivity>>

\* updateStage with a sortOrder.
UpdateStage ==
  /\ \E s \in StagesThere, order \in 1 .. Cardinality(Stages) :
       OrderFree(s, order) /\ stageOrder' = [stageOrder EXCEPT ![s] = order]
  /\ explicit' = TRUE
  /\ UNCHANGED <<req, asked, viewing, crossed, salesActivity>>

StageLists(S) == {o \in [1 .. Cardinality(S) -> S] : \A i, j \in DOMAIN o : i # j => o[i] # o[j]}

\* reorderStages: the list must name the stages there are.
ReorderRead(p) ==
  /\ StagesThere # {}
  /\ \E o \in StageLists(StagesThere) : Start(p, [op |-> "reorder", order |-> o])
  /\ UNCHANGED workVars

\* Mutant: the second pass numbers the stages from the end.
PlacesReversed(o) == [s \in {o[i] : i \in DOMAIN o} |->
                        Len(o) + 1 - (CHOOSE i \in DOMAIN o : o[i] = s)]

Places(o) == [s \in {o[i] : i \in DOMAIN o} |-> CHOOSE i \in DOMAIN o : o[i] = s]

\* One transaction: negative orders first, so that the stages do not get in each
\* other's way, then their places.  A stage that came meanwhile may still do so.
ReorderWrite(p) ==
  LET places == Places(req[p].order)
  IN  /\ Running(p, "reorder") /\ Done(p)
      /\ \/ /\ \A s \in StagesThere \ DOMAIN places, t \in DOMAIN places : stageOrder[s] # places[t]
            /\ stageOrder' =
                 [s \in Stages |-> IF s \in DOMAIN places THEN places[s] ELSE stageOrder[s]]
            /\ asked' = req[p].order
            /\ explicit' = (explicit /\ StagesThere # DOMAIN places)
         \/ /\ \E s \in StagesThere \ DOMAIN places, t \in DOMAIN places : stageOrder[s] = places[t]
            /\ UNCHANGED <<stageOrder, asked, explicit>>
      /\ UNCHANGED <<viewing, crossed, salesActivity>>

-----------------------------------------------------------------------------
(* Viewings.                                                               *)
Booked(v) == viewing[v] # None /\ viewing[v].status \in {"REQUESTED", "CONFIRMED"}

\* Mutant: a confirmed viewing is not seen as a conflict.
ConflictRequested(slot) ==
  \E v \in Viewings : viewing[v] # None /\ viewing[v].slot = slot /\ viewing[v].status = "REQUESTED"

Conflict(slot) == \E v \in Viewings : Booked(v) /\ viewing[v].slot = slot

\* createViewing looks for a viewing of the property at the time, then inserts.
CreateViewingRead(p) ==
  /\ \E v \in Viewings, slot \in Slots :
       /\ viewing[v] = None /\ ~Conflict(slot)
       /\ ~\E q \in Procs : req[q] # None /\ req[q].op = "viewing" /\ req[q].row = v
       /\ Start(p, [op |-> "viewing", row |-> v, slot |-> slot])
       /\ crossed' = crossed \cup {{v, req[q].row} : q \in {x \in Procs : Running(x, "viewing")}}
  /\ UNCHANGED <<stageOrder, asked, explicit, viewing, salesActivity>>

CreateViewingWrite(p) ==
  /\ Running(p, "viewing") /\ Done(p)
  /\ viewing' = [viewing EXCEPT ![req[p].row] =
       [slot |-> req[p].slot, status |-> "REQUESTED", moved |-> FALSE, outcomes |-> 0]]
  /\ UNCHANGED <<stageOrder, asked, explicit, crossed, salesActivity>>

\* updateViewingStatus: the transition is checked, the new time is only compared
\* with the present.
ViewingStatusRead(p) ==
  /\ \E v \in Viewings :
       /\ viewing[v] # None
       /\ \E to \in ViewingTransitions[viewing[v].status] :
            Start(p, [op |-> "viewing status", of |-> v, from |-> viewing[v].status, to |-> to])
  /\ UNCHANGED workVars

\* Mutant: the update does not repeat the status that was read.
ViewingUnchangedAlways(r) == TRUE

ViewingUnchanged(r) == viewing[r.of].status = r.from

ViewingStatusWrite(p) ==
  LET r == req[p]
  IN  /\ Running(p, "viewing status") /\ Done(p)
      /\ IF ViewingUnchanged(r)
         THEN \E slot \in Slots :
                viewing' = [viewing EXCEPT ![r.of] =
                  [slot |-> slot, status |-> r.to, moved |-> @.moved \/ slot # @.slot,
                   outcomes |-> IF r.to = "CONFIRMED" THEN @.outcomes ELSE @.outcomes + 1]]
         ELSE UNCHANGED viewing
      /\ UNCHANGED <<stageOrder, asked, explicit, crossed, salesActivity>>

-----------------------------------------------------------------------------
(* Activities.                                                             *)

\* Mutant: the status of the activity is not looked at.
ActivityOpenAlways == TRUE

ActivityOpen == salesActivity.status = "OPEN"

\* updateActivityStatus reads the status, then updates whatever it is.  The number
\* of outcomes is bounded for the model checker, above what can happen.
ActivityStatusRead(p) ==
  /\ ActivityOpen
  /\ \E to \in {"COMPLETED", "CANCELLED"} : Start(p, [op |-> "activity status", to |-> to])
  /\ UNCHANGED workVars

ActivityStatusWrite(p) ==
  /\ Running(p, "activity status") /\ Done(p)
  /\ salesActivity.outcomes <= Cardinality(Procs)
  /\ salesActivity' = [status |-> req[p].to, outcomes |-> salesActivity.outcomes + 1]
  /\ UNCHANGED <<stageOrder, asked, explicit, viewing, crossed>>

SalesWorkNext ==
  /\ \/ /\ focus = "sales stages"
        /\ \/ UpdateStage
           \/ \E p \in Procs : CreateStageRead(p) \/ CreateStageWrite(p) \/ ReorderRead(p) \/ ReorderWrite(p)
     \/ /\ focus = "sales viewings"
        /\ \E p \in Procs : \/ CreateViewingRead(p) \/ CreateViewingWrite(p)
                            \/ ViewingStatusRead(p) \/ ViewingStatusWrite(p)
     \/ /\ focus = "sales activities"
        /\ \E p \in Procs : ActivityStatusRead(p) \/ ActivityStatusWrite(p)
  /\ UNCHANGED clock

-----------------------------------------------------------------------------
SalesWorkTypeOK ==
  /\ stageOrder \in [Stages -> {None} \cup 0 .. Cardinality(Stages) + 1]
  /\ viewing \in [Viewings -> {None} \cup ViewingRow]
  /\ salesActivity.status \in {"OPEN", "COMPLETED", "CANCELLED"}

\* As long as no request gives an order of its own, the stages are numbered without
\* gaps (createStage, reorderStages), whatever overlaps.
StagesContiguous ==
  explicit \/ {stageOrder[s] : s \in StagesThere} = 1 .. Cardinality(StagesThere)

\* The stages stand in the order of the last reordering (reorderStages), those that
\* came later after them.
StagesAsAsked ==
  explicit \/ \A i, j \in DOMAIN asked : i < j => stageOrder[asked[i]] < stageOrder[asked[j]]

\* Two booked viewings of one property at one time (createViewing) were created by
\* overlapping requests, or one was given its time with a change of status.
NoDoubleBooking ==
  \A v, w \in Viewings :
    v # w /\ Booked(v) /\ Booked(w) /\ viewing[v].slot = viewing[w].slot
      => {v, w} \in crossed \/ viewing[v].moved \/ viewing[w].moved

\* A viewing has one outcome (updateViewingStatus), an activity at most one for each
\* request that found it open (updateActivityStatus).
OneOutcome ==
  /\ \A v \in Viewings : viewing[v] # None => viewing[v].outcomes <= 1
  /\ salesActivity.outcomes <= Cardinality(Procs)
=============================================================================
