--------------------------- MODULE BusinessProofs ---------------------------
(***************************************************************************)
(* Proofs about the components of the business, as MCBusiness composes     *)
(* them.  The invariant of each component is shown on the steps of the     *)
(* component alone; a behaviour of the composition is about one of them,   *)
(* and the others rest.                                                    *)
(***************************************************************************)
EXTENDS MCBusiness, FiniteSetTheorems, SequenceTheorems, WellFoundedInduction,
        TLAPS

(***************************************************************************)
(* Leads.                                                                  *)
(***************************************************************************)

LeadRequests ==
  [op : {"archive", "unassign"}, at : {"found"}, lead : Leads, arg : {None}]
    \cup [op : {"status", "lifecycle"}, at : {"found", "write"}, lead : Leads, arg : LeadStatuses]
    \cup [op : {"status"}, at : {"write"}, lead : Leads, arg : LeadStatuses, seen : BOOLEAN]
    \cup [op : {"assign"}, at : {"found"}, lead : Leads, arg : Assignees]
    \cup [op : {"merge"}, at : {"write"}, source : Leads, target : Leads]
    \cup [op : {"convert"}, at : {"opportunity", "mark"}, lead : Leads, key : Keys]

\* The leads of a request are there, and a conversion that is to be marked has its
\* opportunity.
KnowsLead(p) ==
  /\ req[p].op = "merge" => lead[req[p].source] # None /\ lead[req[p].target] # None
  /\ req[p].op # "merge" => lead[req[p].lead] # None
  /\ req[p].op = "status" /\ req[p].at = "write" => req[p].seen \in BOOLEAN
  /\ req[p].op = "convert" /\ req[p].at = "mark" => opportunity[req[p].lead] # None

LeadInv ==
  /\ req \in [Procs -> LeadRequests \cup {None}]
  /\ CrmLeadsTypeOK
  /\ \A p \in Procs : req[p] # None => KnowsLead(p)
  /\ OwnerIsAssigned /\ ConvertedHasOpportunity

LEMMA LeadInitial ==
  ASSUME RequestsInit, CrmLeadsInit
  PROVE  LeadInv
<1>1. /\ req = [p \in Procs |-> None] /\ lead = [l \in Leads |-> None] /\ merged = {}
      /\ open = [l \in Leads |-> {}] /\ opportunity = [l \in Leads |-> None]
  BY DEF RequestsInit, CrmLeadsInit
<1> QED
  BY <1>1 DEF LeadInv, CrmLeadsTypeOK, OwnerIsAssigned, ConvertedHasOpportunity

\* A step that writes no lead.
LEMMA LeadQuiet ==
  ASSUME LeadInv, NEW p \in Procs, NEW r \in LeadRequests \cup {None},
         req' = [req EXCEPT ![p] = r], UNCHANGED leadVars, r # None => KnowsLead(p)'
  PROVE  LeadInv'
<1>1. req' \in [Procs -> LeadRequests \cup {None}] /\ \A q \in Procs : q # p => req'[q] = req[q]
  BY DEF LeadInv
<1>2. req'[p] = r
  BY DEF LeadInv
<1>3. \A q \in Procs : q # p /\ req[q] # None => KnowsLead(q)'
  BY <1>1 DEF LeadInv, KnowsLead, leadVars
<1> QED
  BY <1>1, <1>2, <1>3 DEF LeadInv, CrmLeadsTypeOK, OwnerIsAssigned, ConvertedHasOpportunity, leadVars

\* A step that ends at most one request: no lead and no opportunity disappears.
LEMMA LeadWritten ==
  ASSUME LeadInv, UNCHANGED req \/ (\E p \in Procs : Done(p)),
         CrmLeadsTypeOK',
         \A l \in Leads : lead[l] # None => lead'[l] # None,
         \A l \in Leads : opportunity[l] # None => opportunity'[l] # None,
         OwnerIsAssigned', ConvertedHasOpportunity'
  PROVE  LeadInv'
<1>1. req' \in [Procs -> LeadRequests \cup {None}]
      /\ \A q \in Procs : req'[q] # None => req'[q] = req[q]
  BY DEF LeadInv, Done
<1>2. ASSUME NEW q \in Procs, req'[q] # None
      PROVE  KnowsLead(q)'
  <2>1. req'[q] = req[q] /\ req[q] \in LeadRequests /\ KnowsLead(q)
    BY <1>1, <1>2 DEF LeadInv
  <2>2. /\ req[q].op # "merge" => req[q].lead \in Leads
        /\ req[q].op = "merge" => req[q].source \in Leads /\ req[q].target \in Leads
    BY <2>1 DEF LeadRequests
  <2> QED
    BY <2>1, <2>2 DEF KnowsLead
<1> QED
  BY <1>1, <1>2 DEF LeadInv

\* A step of p writes its lead.
LEMMA LeadRowWritten ==
  ASSUME LeadInv, NEW p \in Procs, Done(p), NEW l \in Leads, NEW row \in Lead,
         lead' = [lead EXCEPT ![l] = row], UNCHANGED <<opportunity, merged>>,
         open' \in [Leads -> SUBSET Assignees], \A m \in Leads : m # l => open'[m] = open[m],
         l \notin merged /\ row.owner # None => row.owner \in open'[l],
         row.conversionKey # None => opportunity[l] # None
  PROVE  LeadInv'
<1>1. lead' \in [Leads -> Lead \cup {None}] /\ lead'[l] = row /\ row # None
      /\ \A m \in Leads : m # l => lead'[m] = lead[m]
  BY CrmLeadsAssumption DEF LeadInv, CrmLeadsTypeOK
<1>2. CrmLeadsTypeOK'
  BY <1>1 DEF LeadInv, CrmLeadsTypeOK
<1>3. \A m \in Leads : lead[m] # None => lead'[m] # None
  BY <1>1
<1>4. OwnerIsAssigned'
  BY <1>1 DEF LeadInv, OwnerIsAssigned
<1>5. ConvertedHasOpportunity'
  BY <1>1 DEF LeadInv, ConvertedHasOpportunity
<1>6. \A m \in Leads : opportunity[m] # None => opportunity'[m] # None
  OBVIOUS
<1> QED
  BY <1>2, <1>3, <1>4, <1>5, <1>6, LeadWritten

LEMMA LeadsKeep ==
  ASSUME LeadInv, CrmLeadsNext
  PROVE  LeadInv'
<1>1. CASE \E l \in Leads, s \in AskedStatuses : CreateLead(l, s)
  <2>1. PICK l \in Leads, s \in AskedStatuses : CreateLead(l, s)
    BY <1>1
  <2> DEFINE row == [status |-> s, archived |-> FALSE, owner |-> None, conversionKey |-> None]
  <2>2. row \in Lead /\ row.owner = None /\ row.conversionKey = None
    BY CrmLeadsAssumption DEF Lead
  <2>3. lead' = [lead EXCEPT ![l] = row] /\ lead[l] = None /\ UNCHANGED <<open, opportunity, merged, req>>
    BY <2>1 DEF CreateLead
  <2> HIDE DEF row
  <2>4. lead' \in [Leads -> Lead \cup {None}] /\ lead'[l] = row
        /\ \A m \in Leads : m # l => lead'[m] = lead[m]
    BY <2>2, <2>3 DEF LeadInv, CrmLeadsTypeOK
  <2>5. CrmLeadsTypeOK'
    BY <2>3, <2>4 DEF LeadInv, CrmLeadsTypeOK
  <2>6. OwnerIsAssigned'
    BY <2>2, <2>3, <2>4 DEF LeadInv, OwnerIsAssigned
  <2>7. ConvertedHasOpportunity'
    BY <2>2, <2>3, <2>4 DEF LeadInv, ConvertedHasOpportunity
  <2>8. \A m \in Leads : lead[m] # None => lead'[m] # None
    BY <2>3, <2>4
  <2>9. \A m \in Leads : opportunity[m] # None => opportunity'[m] # None
    BY <2>3
  <2> QED
    BY <2>3, <2>5, <2>6, <2>7, <2>8, <2>9, LeadWritten
<1>2. CASE \E p \in Procs, l \in Leads : LeadIdNext(p, l)
  <2>1. PICK p \in Procs, l \in Leads : LeadIdNext(p, l)
    BY <1>2
  <2>2. ASSUME NEW op \in {"archive", "unassign"}, LeadId(p, op, l, None)
        PROVE  LeadInv'
    <3>1. PICK r : r = [op |-> op, at |-> "found", lead |-> l, arg |-> None]
      OBVIOUS
    <3>2. r \in LeadRequests /\ r.op = op /\ r.at = "found" /\ r.lead = l
      BY <3>1 DEF LeadRequests
    <3>3. req' = [req EXCEPT ![p] = r] /\ UNCHANGED leadVars /\ lead[l] # None
      BY <2>2, <3>1 DEF LeadId, Start, Live
    <3>4. KnowsLead(p)'
      BY <3>2, <3>3 DEF KnowsLead, LeadInv, leadVars
    <3> QED
      BY <3>2, <3>3, <3>4, LeadQuiet
  <2>3. ASSUME NEW s \in AskedStatuses, LeadId(p, "status", l, s)
        PROVE  LeadInv'
    <3>1. PICK r : r = [op |-> "status", at |-> "found", lead |-> l, arg |-> s]
      OBVIOUS
    <3>2. r \in LeadRequests /\ r.op = "status" /\ r.at = "found" /\ r.lead = l
      BY <3>1, CrmLeadsAssumption DEF LeadRequests
    <3>3. req' = [req EXCEPT ![p] = r] /\ UNCHANGED leadVars /\ lead[l] # None
      BY <2>3, <3>1 DEF LeadId, Start, Live
    <3>4. KnowsLead(p)'
      BY <3>2, <3>3 DEF KnowsLead, LeadInv, leadVars
    <3> QED
      BY <3>2, <3>3, <3>4, LeadQuiet
  <2>4. ASSUME NEW a \in Assignees, LeadId(p, "assign", l, a)
        PROVE  LeadInv'
    <3>1. PICK r : r = [op |-> "assign", at |-> "found", lead |-> l, arg |-> a]
      OBVIOUS
    <3>2. r \in LeadRequests /\ r.op = "assign" /\ r.at = "found" /\ r.lead = l
      BY <3>1 DEF LeadRequests
    <3>3. req' = [req EXCEPT ![p] = r] /\ UNCHANGED leadVars /\ lead[l] # None
      BY <2>4, <3>1 DEF LeadId, Start, Live
    <3>4. KnowsLead(p)'
      BY <3>2, <3>3 DEF KnowsLead, LeadInv, leadVars
    <3> QED
      BY <3>2, <3>3, <3>4, LeadQuiet
  <2> QED
    BY <2>1, <2>2, <2>3, <2>4 DEF LeadIdNext
<1>3. ASSUME NEW p \in Procs, NEW l \in Leads, NEW to \in LifecycleTargets \cap AskedStatuses,
             LifecycleStart(p, l, to)
      PROVE  LeadInv'
  <2>1. PICK r : r = [op |-> "lifecycle", at |-> "found", lead |-> l, arg |-> to]
    OBVIOUS
  <2>2. r \in LeadRequests /\ r.op = "lifecycle" /\ r.at = "found" /\ r.lead = l
    BY <2>1, CrmLeadsAssumption DEF LeadRequests
  <2>3. req' = [req EXCEPT ![p] = r] /\ UNCHANGED leadVars /\ lead[l] # None
    BY <1>3, <2>1 DEF LifecycleStart, Start, Live
  <2>4. KnowsLead(p)'
    BY <2>2, <2>3 DEF KnowsLead, LeadInv, leadVars
  <2> QED
    BY <2>2, <2>3, <2>4, LeadQuiet
<1>4. ASSUME NEW p \in Procs, NEW l \in Leads, NEW t \in Leads, MergeRead(p, l, t)
      PROVE  LeadInv'
  <2>1. PICK r : r = [op |-> "merge", at |-> "write", source |-> l, target |-> t]
    OBVIOUS
  <2>2. r \in LeadRequests /\ r.op = "merge" /\ r.source = l /\ r.target = t
    BY <2>1 DEF LeadRequests
  <2>3. req' = [req EXCEPT ![p] = r] /\ UNCHANGED leadVars /\ lead[l] # None /\ lead[t] # None
    BY <1>4, <2>1 DEF MergeRead, Start, Live
  <2>4. KnowsLead(p)'
    BY <2>2, <2>3 DEF KnowsLead, LeadInv, leadVars
  <2> QED
    BY <2>2, <2>3, <2>4, LeadQuiet
<1>5. ASSUME NEW p \in Procs, NEW l \in Leads, NEW k \in Keys, ConvertRead(p, l, k)
      PROVE  LeadInv'
  <2>1. PICK r : r = [op |-> "convert", at |-> "opportunity", lead |-> l, key |-> k]
    OBVIOUS
  <2>2. r \in LeadRequests /\ r.op = "convert" /\ r.at = "opportunity" /\ r.lead = l
    BY <2>1 DEF LeadRequests
  <2>3. req' = [req EXCEPT ![p] = r] /\ UNCHANGED leadVars /\ lead[l] # None
    BY <1>5, <2>1 DEF ConvertRead, Start, Live
  <2>4. KnowsLead(p)'
    BY <2>2, <2>3 DEF KnowsLead, LeadInv, leadVars
  <2> QED
    BY <2>2, <2>3, <2>4, LeadQuiet
<1>6. ASSUME NEW p \in Procs, ArchiveLead(p)
      PROVE  LeadInv'
  <2>1. PICK l : l = req[p].lead
    OBVIOUS
  <2>2. req[p] \in LeadRequests /\ req[p].op = "archive" /\ KnowsLead(p)
    BY <1>6 DEF ArchiveLead, Found, Running, LeadInv
  <2>3. l \in Leads /\ lead[l] \in Lead
    BY <2>1, <2>2 DEF LeadRequests, KnowsLead, LeadInv, CrmLeadsTypeOK
  <2> DEFINE row == [lead[l] EXCEPT !.archived = TRUE, !.status = "ARCHIVED"]
  <2>4. row \in Lead /\ row.owner = lead[l].owner /\ row.conversionKey = lead[l].conversionKey
    BY <2>3 DEF Lead, LeadStatuses
  <2>5. lead' = [lead EXCEPT ![l] = row] /\ UNCHANGED <<open, opportunity, merged>> /\ Done(p)
    BY <1>6, <2>1, <2>3 DEF ArchiveLead, LeadInv, CrmLeadsTypeOK
  <2> HIDE DEF row
  <2>6. lead[l] # None
    BY <2>3, CrmLeadsAssumption
  <2>7. l \notin merged /\ row.owner # None => row.owner \in open'[l]
    BY <2>3, <2>4, <2>5, <2>6 DEF LeadInv, OwnerIsAssigned
  <2>8. row.conversionKey # None => opportunity[l] # None
    BY <2>3, <2>4, <2>6 DEF LeadInv, ConvertedHasOpportunity
  <2>9. open' \in [Leads -> SUBSET Assignees] /\ \A m \in Leads : m # l => open'[m] = open[m]
    BY <2>5 DEF LeadInv, CrmLeadsTypeOK
  <2> QED
    BY <2>3, <2>4, <2>5, <2>7, <2>8, <2>9, LeadRowWritten
<1>7. ASSUME NEW p \in Procs, ChangeStatusRead(p)
      PROVE  LeadInv'
  <2>1. req[p] \in LeadRequests /\ req[p].op = "status" /\ req[p].at = "found" /\ KnowsLead(p)
    BY <1>7 DEF ChangeStatusRead, Found, Running, At, LeadInv
  <2>2. req[p].lead \in Leads /\ req[p].arg \in LeadStatuses /\ lead[req[p].lead] \in Lead
    BY <2>1 DEF LeadRequests, KnowsLead, LeadInv, CrmLeadsTypeOK
  <2>3. PICK r : r = [op |-> "status", at |-> "write", lead |-> req[p].lead,
                      arg |-> req[p].arg, seen |-> lead[req[p].lead].archived]
    OBVIOUS
  <2>4. lead[req[p].lead].archived \in BOOLEAN
    BY <2>2 DEF Lead
  <2>5. r \in LeadRequests /\ r.op = "status" /\ r.at = "write" /\ r.lead = req[p].lead
        /\ r.seen = lead[req[p].lead].archived
    BY <2>2, <2>3, <2>4 DEF LeadRequests
  <2>6. req' = [req EXCEPT ![p] = r] /\ UNCHANGED leadVars
    BY <1>7, <2>3 DEF ChangeStatusRead
  <2>7. KnowsLead(p)'
    BY <2>1, <2>4, <2>5, <2>6 DEF KnowsLead, LeadInv, leadVars
  <2> QED
    BY <2>5, <2>6, <2>7, LeadQuiet
<1>8. ASSUME NEW p \in Procs, ChangeStatusWrite(p)
      PROVE  LeadInv'
  <2>1. PICK l : l = req[p].lead
    OBVIOUS
  <2>2. req[p] \in LeadRequests /\ req[p].op = "status" /\ req[p].at = "write" /\ KnowsLead(p)
    BY <1>8 DEF ChangeStatusWrite, Running, At, LeadInv
  <2>3. l \in Leads /\ lead[l] \in Lead /\ req[p].arg \in LeadStatuses
    BY <2>1, <2>2 DEF LeadRequests, KnowsLead, LeadInv, CrmLeadsTypeOK
  <2>4. PICK b \in BOOLEAN : b = (req[p].seen \/ req[p].arg = "ARCHIVED")
    BY <2>2 DEF KnowsLead
  <2> DEFINE row == [lead[l] EXCEPT !.status = req[p].arg, !.archived = b]
  <2>5. row \in Lead /\ row.owner = lead[l].owner /\ row.conversionKey = lead[l].conversionKey
    BY <2>3 DEF Lead
  <2>6. lead' = [lead EXCEPT ![l] = row] /\ UNCHANGED <<open, opportunity, merged>> /\ Done(p)
    BY <1>8, <2>1, <2>3, <2>4 DEF ChangeStatusWrite, LeadInv, CrmLeadsTypeOK
  <2> HIDE DEF row
  <2>7. lead[l] # None
    BY <2>3, CrmLeadsAssumption
  <2>8. l \notin merged /\ row.owner # None => row.owner \in open'[l]
    BY <2>3, <2>5, <2>6, <2>7 DEF LeadInv, OwnerIsAssigned
  <2>9. row.conversionKey # None => opportunity[l] # None
    BY <2>3, <2>5, <2>7 DEF LeadInv, ConvertedHasOpportunity
  <2>10. open' \in [Leads -> SUBSET Assignees] /\ \A m \in Leads : m # l => open'[m] = open[m]
    BY <2>6 DEF LeadInv, CrmLeadsTypeOK
  <2> QED
    BY <2>3, <2>5, <2>6, <2>8, <2>9, <2>10, LeadRowWritten
<1>9. ASSUME NEW p \in Procs, SetLifecycleRead(p)
      PROVE  LeadInv'
  <2>1. req[p] \in LeadRequests /\ req[p].op = "lifecycle" /\ KnowsLead(p)
    BY <1>9 DEF SetLifecycleRead, Found, Running, LeadInv
  <2>2. PICK r : r = [req[p] EXCEPT !.at = "write"]
    OBVIOUS
  <2>3. r \in LeadRequests /\ r.op = "lifecycle" /\ r.lead = req[p].lead
    BY <2>1, <2>2 DEF LeadRequests
  <2>4. req' = [req EXCEPT ![p] = r] /\ UNCHANGED leadVars
    BY <1>9, <2>2 DEF SetLifecycleRead, Goto
  <2>5. KnowsLead(p)'
    BY <2>1, <2>3, <2>4 DEF KnowsLead, LeadInv, leadVars
  <2> QED
    BY <2>3, <2>4, <2>5, LeadQuiet
<1>10. ASSUME NEW p \in Procs, SetLifecycleWrite(p)
       PROVE  LeadInv'
  <2>1. PICK l : l = req[p].lead
    OBVIOUS
  <2>2. req[p] \in LeadRequests /\ req[p].op = "lifecycle" /\ KnowsLead(p)
    BY <1>10 DEF SetLifecycleWrite, Running, LeadInv
  <2>3. l \in Leads /\ lead[l] \in Lead /\ req[p].arg \in LeadStatuses
    BY <2>1, <2>2 DEF LeadRequests, KnowsLead, LeadInv, CrmLeadsTypeOK
  <2> DEFINE row == [lead[l] EXCEPT !.status = req[p].arg]
  <2>4. row \in Lead /\ row.owner = lead[l].owner /\ row.conversionKey = lead[l].conversionKey
    BY <2>3 DEF Lead
  <2>5. lead' = [lead EXCEPT ![l] = row] /\ UNCHANGED <<open, opportunity, merged>> /\ Done(p)
    BY <1>10, <2>1, <2>3 DEF SetLifecycleWrite, LeadInv, CrmLeadsTypeOK
  <2> HIDE DEF row
  <2>6. lead[l] # None
    BY <2>3, CrmLeadsAssumption
  <2>7. l \notin merged /\ row.owner # None => row.owner \in open'[l]
    BY <2>3, <2>4, <2>5, <2>6 DEF LeadInv, OwnerIsAssigned
  <2>8. row.conversionKey # None => opportunity[l] # None
    BY <2>3, <2>4, <2>6 DEF LeadInv, ConvertedHasOpportunity
  <2>9. open' \in [Leads -> SUBSET Assignees] /\ \A m \in Leads : m # l => open'[m] = open[m]
    BY <2>5 DEF LeadInv, CrmLeadsTypeOK
  <2> QED
    BY <2>3, <2>4, <2>5, <2>7, <2>8, <2>9, LeadRowWritten
<1>11. ASSUME NEW p \in Procs, AssignLead(p) \/ UnassignLead(p)
       PROVE  LeadInv'
  <2>1. PICK l : l = req[p].lead
    OBVIOUS
  <2>2. req[p] \in LeadRequests /\ req[p].op \in {"assign", "unassign"} /\ KnowsLead(p)
    BY <1>11 DEF AssignLead, UnassignLead, Found, Running, LeadInv
  <2>3. l \in Leads /\ lead[l] \in Lead
    BY <2>1, <2>2 DEF LeadRequests, KnowsLead, LeadInv, CrmLeadsTypeOK
  <2>4. PICK owner \in Assignees \cup {None} :
          /\ lead' = [lead EXCEPT ![l].owner = owner]
          /\ open' = [open EXCEPT ![l] = IF owner = None THEN {} ELSE {owner}]
    <3>1. CASE AssignLead(p)
      <4>1. req[p].arg \in Assignees
        BY <2>2, <3>1 DEF LeadRequests, AssignLead, Found, Running
      <4> QED
        BY <2>1, <3>1, <4>1, CrmLeadsAssumption DEF AssignLead
    <3>2. CASE UnassignLead(p)
      BY <2>1, <3>2 DEF UnassignLead, OwnerOfUnassigned
    <3> QED
      BY <1>11, <3>1, <3>2
  <2>5. UNCHANGED <<opportunity, merged>> /\ Done(p)
    BY <1>11 DEF AssignLead, UnassignLead
  <2> DEFINE row == [lead[l] EXCEPT !.owner = owner]
  <2>6. row \in Lead /\ row.owner = owner /\ row.conversionKey = lead[l].conversionKey
    BY <2>3 DEF Lead
  <2>7. lead' = [lead EXCEPT ![l] = row]
    BY <2>3, <2>4 DEF LeadInv, CrmLeadsTypeOK
  <2> HIDE DEF row
  <2>8. open' \in [Leads -> SUBSET Assignees] /\ \A m \in Leads : m # l => open'[m] = open[m]
    BY <2>3, <2>4 DEF LeadInv, CrmLeadsTypeOK
  <2>9. row.owner # None => row.owner \in open'[l]
    BY <2>3, <2>4, <2>6 DEF LeadInv, CrmLeadsTypeOK
  <2>10. row.conversionKey # None => opportunity[l] # None
    BY <2>3, <2>6, CrmLeadsAssumption DEF LeadInv, ConvertedHasOpportunity
  <2> QED
    BY <2>3, <2>5, <2>6, <2>7, <2>8, <2>9, <2>10, LeadRowWritten
<1>12. ASSUME NEW p \in Procs, MergeLeads(p)
       PROVE  LeadInv'
  <2>1. PICK s, t : s = req[p].source /\ t = req[p].target
    OBVIOUS
  <2>2. req[p] \in LeadRequests /\ req[p].op = "merge" /\ KnowsLead(p)
    BY <1>12 DEF MergeLeads, Running, LeadInv
  <2>3. s \in Leads /\ t \in Leads /\ lead[s] \in Lead
    BY <2>1, <2>2 DEF LeadRequests, KnowsLead, LeadInv, CrmLeadsTypeOK
  <2> DEFINE row == [lead[s] EXCEPT !.archived = TRUE, !.status = "ARCHIVED"]
  <2>4. row \in Lead /\ row.owner = lead[s].owner /\ row.conversionKey = lead[s].conversionKey
    BY <2>3 DEF Lead, LeadStatuses
  <2>5. lead' = [lead EXCEPT ![s] = row] /\ open' = [open EXCEPT ![s] = {}, ![t] = @ \cup open[s]]
        /\ merged' = merged \cup {s} /\ UNCHANGED opportunity /\ Done(p)
    BY <1>12, <2>1, <2>3 DEF MergeLeads, MovedAssignments, LeadInv, CrmLeadsTypeOK
  <2> HIDE DEF row
  <2>6. row # None /\ lead[s] # None
    BY <2>3, <2>4, CrmLeadsAssumption
  <2>7. lead' \in [Leads -> Lead \cup {None}] /\ lead'[s] = row
        /\ \A m \in Leads : m # s => lead'[m] = lead[m]
    BY <2>3, <2>4, <2>5 DEF LeadInv, CrmLeadsTypeOK
  <2>8. open' \in [Leads -> SUBSET Assignees] /\ \A m \in Leads : m # s => open[m] \subseteq open'[m]
    BY <2>3, <2>5 DEF LeadInv, CrmLeadsTypeOK
  <2>9. CrmLeadsTypeOK'
    BY <2>3, <2>5, <2>7, <2>8 DEF LeadInv, CrmLeadsTypeOK
  <2>10. OwnerIsAssigned'
    BY <2>5, <2>7, <2>8 DEF LeadInv, OwnerIsAssigned
  <2>11. ConvertedHasOpportunity'
    BY <2>3, <2>4, <2>5, <2>6, <2>7 DEF LeadInv, ConvertedHasOpportunity
  <2>12. \A m \in Leads : lead[m] # None => lead'[m] # None
    BY <2>6, <2>7
  <2>13. \A m \in Leads : opportunity[m] # None => opportunity'[m] # None
    BY <2>5
  <2> QED
    BY <2>5, <2>9, <2>10, <2>11, <2>12, <2>13, LeadWritten
<1>13. ASSUME NEW p \in Procs, CreateFromQualifiedLead(p)
       PROVE  LeadInv'
  <2>1. req[p] \in LeadRequests /\ req[p].op = "convert" /\ req[p].at = "opportunity" /\ KnowsLead(p)
    BY <1>13 DEF CreateFromQualifiedLead, Running, At, LeadInv
  <2>2. req[p].lead \in Leads /\ req[p].key \in Keys /\ lead[req[p].lead] # None
    BY <2>1 DEF LeadRequests, KnowsLead
  <2>3. /\ opportunity' \in [Leads -> Keys \cup {None}] /\ opportunity'[req[p].lead] # None
        /\ \A l \in Leads : opportunity[l] # None => opportunity'[l] # None
    BY <1>13, <2>2, CrmLeadsAssumption
       DEF CreateFromQualifiedLead, ExistingConversion, LeadInv, CrmLeadsTypeOK
  <2>4. PICK r : r = [req[p] EXCEPT !.at = "mark"]
    OBVIOUS
  <2>5. r \in LeadRequests /\ r.op = "convert" /\ r.lead = req[p].lead
    BY <2>1, <2>4 DEF LeadRequests
  <2>6. req' = [req EXCEPT ![p] = r] /\ UNCHANGED <<lead, open, merged>>
    BY <1>13, <2>4 DEF CreateFromQualifiedLead, Goto
  <2>7. req' \in [Procs -> LeadRequests \cup {None}] /\ req'[p] = r
        /\ \A q \in Procs : q # p => req'[q] = req[q]
    BY <2>5, <2>6 DEF LeadInv
  <2>8. KnowsLead(p)'
    BY <2>2, <2>3, <2>5, <2>6, <2>7 DEF KnowsLead
  <2>9. ASSUME NEW q \in Procs, q # p, req[q] # None
        PROVE  KnowsLead(q)'
    <3>1. KnowsLead(q) /\ req[q] \in LeadRequests /\ req'[q] = req[q]
      BY <2>7, <2>9 DEF LeadInv
    <3>2. req[q].op = "convert" => req[q].lead \in Leads
      BY <3>1 DEF LeadRequests
    <3> QED
      BY <2>3, <2>6, <3>1, <3>2 DEF KnowsLead
  <2>10. CrmLeadsTypeOK' /\ OwnerIsAssigned' /\ ConvertedHasOpportunity'
    BY <2>3, <2>6 DEF LeadInv, CrmLeadsTypeOK, OwnerIsAssigned, ConvertedHasOpportunity
  <2> QED
    BY <2>7, <2>8, <2>9, <2>10 DEF LeadInv
<1>14. ASSUME NEW p \in Procs, MarkConverted(p)
       PROVE  LeadInv'
  <2>1. PICK l : l = req[p].lead
    OBVIOUS
  <2>2. req[p] \in LeadRequests /\ req[p].op = "convert" /\ req[p].at = "mark" /\ KnowsLead(p)
    BY <1>14 DEF MarkConverted, Running, At, LeadInv
  <2>3. l \in Leads /\ lead[l] \in Lead /\ req[p].key \in Keys /\ opportunity[l] # None
    BY <2>1, <2>2 DEF LeadRequests, KnowsLead, LeadInv, CrmLeadsTypeOK
  <2>4. UNCHANGED <<open, opportunity, merged>> /\ Done(p)
    BY <1>14 DEF MarkConverted
  <2>5. lead[l] # None
    BY <2>3, CrmLeadsAssumption
  <2>6. PICK key \in Keys \cup {None} : lead' = [lead EXCEPT ![l].conversionKey = key]
    <3>1. lead[l].conversionKey \in Keys \cup {None}
          /\ lead = [lead EXCEPT ![l].conversionKey = lead[l].conversionKey]
      BY <2>3 DEF Lead, LeadInv, CrmLeadsTypeOK
    <3> QED
      BY <1>14, <2>1, <2>3, <3>1 DEF MarkConverted
  <2> DEFINE row == [lead[l] EXCEPT !.conversionKey = key]
  <2>7. row \in Lead /\ row.owner = lead[l].owner
    BY <2>3 DEF Lead
  <2>8. lead' = [lead EXCEPT ![l] = row]
    BY <2>3, <2>6 DEF LeadInv, CrmLeadsTypeOK
  <2> HIDE DEF row
  <2>9. l \notin merged /\ row.owner # None => row.owner \in open'[l]
    BY <2>3, <2>4, <2>5, <2>7 DEF LeadInv, OwnerIsAssigned
  <2>10. open' \in [Leads -> SUBSET Assignees] /\ \A m \in Leads : m # l => open'[m] = open[m]
    BY <2>4 DEF LeadInv, CrmLeadsTypeOK
  <2> QED
    BY <2>3, <2>4, <2>7, <2>8, <2>9, <2>10, LeadRowWritten
<1>15. ASSUME NEW p \in Procs, CrmLeadsAbandon(p)
       PROVE  LeadInv'
  <2>1. req' = [req EXCEPT ![p] = None] /\ UNCHANGED leadVars
    BY <1>15 DEF CrmLeadsAbandon, Done
  <2> QED
    BY <2>1, LeadQuiet
<1> QED
  BY <1>1, <1>2, <1>3, <1>4, <1>5, <1>6, <1>7, <1>8, <1>9, <1>10, <1>11, <1>12, <1>13, <1>14, <1>15
     DEF CrmLeadsNext

-----------------------------------------------------------------------------
(***************************************************************************)
(* The other records of crm: emails, activities and messages.              *)
(***************************************************************************)

PrimaryOps == {"add", "addPrimary", "setPrimary", "delete"}
RecordRequests ==
  [op : PrimaryOps, at : {"write"}, child : Children]
    \cup [op : {"convertInquiry"}, at : {"create"}]
    \cup [op : {"activity"}, at : {"write"}, to : ActivityStatuses, started : BOOLEAN]
    \cup [op : {"message"}, at : {"write"}, to : MessageStatuses, sent : BOOLEAN]
    \cup [op : {"deliver"}, at : {"send"}]
    \cup [op : {"deliver"}, at : {"check", "write"}, to : {"SENT", "QUEUED", "FAILED"}]

\* What was in progress has been started, what was sent is marked so: a request that
\* completes or delivers has read the mark.
KnowsRecord(p) ==
  /\ req[p].op = "activity" /\ req[p].to = "COMPLETED" => req[p].started = TRUE
  /\ req[p].op = "message" /\ req[p].to = "DELIVERED" => req[p].sent = TRUE

AlonePrimary == \A c, d \in Children : child[c] = TRUE /\ child[d] = TRUE => c = d
MarksFollow ==
  /\ activity.status \in {"IN_PROGRESS", "COMPLETED"} => activity.started = TRUE
  /\ activity.status = "COMPLETED" => activity.completed = TRUE
  /\ message.status \in {"SENT", "DELIVERED"} => message.sent = TRUE

RecordInv ==
  /\ req \in [Procs -> RecordRequests \cup {None}]
  /\ child \in [Children -> BOOLEAN \cup {None}]
  /\ activity \in [status : ActivityStatuses, started : BOOLEAN, completed : BOOLEAN]
  /\ message \in [status : MessageStatuses, sent : BOOLEAN]
  /\ \A p \in Procs : req[p] # None => KnowsRecord(p)
  /\ AlonePrimary /\ MarksFollow

LEMMA RecordInitial ==
  ASSUME RequestsInit, CrmRecordsInit
  PROVE  RecordInv
<1>1. /\ req = [p \in Procs |-> None] /\ child = [c \in Children |-> None]
      /\ activity = [status |-> "CREATED", started |-> FALSE, completed |-> FALSE]
      /\ message = [status |-> "QUEUED", sent |-> FALSE]
  BY DEF RequestsInit, CrmRecordsInit
<1>2. AlonePrimary
  BY <1>1, CrmRecordsAssumption DEF AlonePrimary
<1>3. MarksFollow /\ activity \in [status : ActivityStatuses, started : BOOLEAN, completed : BOOLEAN]
      /\ message \in [status : MessageStatuses, sent : BOOLEAN]
  BY <1>1 DEF MarksFollow, ActivityStatuses, MessageStatuses
<1> QED
  BY <1>1, <1>2, <1>3 DEF RecordInv

LEMMA RecordImplies ==
  ASSUME RecordInv
  PROVE  OnePrimary /\ TimestampsFollowStatus
<1> DEFINE P == {c \in Children : child[c] = TRUE}
<1>1. Cardinality(P) <= 1
  <2>1. CASE P = {}
    BY <2>1, FS_EmptySet
  <2>2. CASE P # {}
    <3>1. PICK c \in P : TRUE
      BY <2>2
    <3>2. P = {c}
      BY <3>1 DEF RecordInv, AlonePrimary
    <3> HIDE DEF P
    <3>3. Cardinality(P) = 1
      BY <3>2, FS_Singleton
    <3> QED
      BY <3>3
  <2> QED
    BY <2>1, <2>2
<1>2. TimestampsFollowStatus
  BY DEF RecordInv, MarksFollow, TimestampsFollowStatus
<1> QED
  BY <1>1, <1>2 DEF OnePrimary

\* A request begins, goes on or ends, and the rows keep what the requests know of them.
LEMMA RecordStep ==
  ASSUME RecordInv,
         UNCHANGED req \/ (\E p \in Procs, r \in RecordRequests \cup {None} :
                             /\ req' = [req EXCEPT ![p] = r]
                             /\ r # None => KnowsRecord(p)'),
         child' \in [Children -> BOOLEAN \cup {None}], AlonePrimary',
         activity' \in [status : ActivityStatuses, started : BOOLEAN, completed : BOOLEAN],
         message' \in [status : MessageStatuses, sent : BOOLEAN],
         MarksFollow'
  PROVE  RecordInv'
<1>1. CASE UNCHANGED req
  BY <1>1 DEF RecordInv, KnowsRecord
<1>2. CASE \E p \in Procs, r \in RecordRequests \cup {None} :
             req' = [req EXCEPT ![p] = r] /\ (r # None => KnowsRecord(p)')
  <2>1. PICK p \in Procs, r \in RecordRequests \cup {None} :
          req' = [req EXCEPT ![p] = r] /\ (r # None => KnowsRecord(p)')
    BY <1>2
  <2>2. req' \in [Procs -> RecordRequests \cup {None}] /\ req'[p] = r
        /\ \A q \in Procs : q # p => req'[q] = req[q]
    BY <2>1 DEF RecordInv
  <2>3. \A q \in Procs : q # p /\ req[q] # None => KnowsRecord(q)'
    BY <2>2 DEF RecordInv, KnowsRecord
  <2> QED
    BY <2>1, <2>2, <2>3 DEF RecordInv
<1> QED
  BY <1>1, <1>2

\* A step of the emails alone, and one that ends a request of them.
LEMMA ChildStep ==
  ASSUME RecordInv, UNCHANGED <<activity, message>>,
         UNCHANGED req \/ (\E p \in Procs : Done(p)),
         child' \in [Children -> BOOLEAN \cup {None}], AlonePrimary'
  PROVE  RecordInv'
<1>1. UNCHANGED req \/ (\E p \in Procs, r \in RecordRequests \cup {None} :
                          /\ req' = [req EXCEPT ![p] = r]
                          /\ r # None => KnowsRecord(p)')
  BY DEF Done
<1>2. MarksFollow'
  BY DEF RecordInv, MarksFollow
<1>3. activity' \in [status : ActivityStatuses, started : BOOLEAN, completed : BOOLEAN]
      /\ message' \in [status : MessageStatuses, sent : BOOLEAN]
  BY DEF RecordInv
<1> QED
  BY <1>1, <1>2, <1>3, RecordStep

\* A request goes on and no row changes.
LEMMA RecordQuiet ==
  ASSUME RecordInv, UNCHANGED <<child, activity, message>>, NEW p \in Procs,
         NEW r \in RecordRequests \cup {None}, req' = [req EXCEPT ![p] = r],
         r # None /\ r.op = "activity" /\ r.to = "COMPLETED" => r.started = TRUE,
         r # None /\ r.op = "message" /\ r.to = "DELIVERED" => r.sent = TRUE
  PROVE  RecordInv'
<1>1. r # None => KnowsRecord(p)'
  BY DEF RecordInv, KnowsRecord
<1>2. MarksFollow' /\ AlonePrimary'
  BY DEF RecordInv, MarksFollow, AlonePrimary
<1>3. /\ child' \in [Children -> BOOLEAN \cup {None}]
      /\ activity' \in [status : ActivityStatuses, started : BOOLEAN, completed : BOOLEAN]
      /\ message' \in [status : MessageStatuses, sent : BOOLEAN]
  BY DEF RecordInv
<1> QED
  BY <1>1, <1>2, <1>3, RecordStep

LEMMA ClearedIs ==
  ASSUME RecordInv
  PROVE  Cleared \in [Children -> BOOLEAN \cup {None}] /\ \A c \in Children : Cleared[c] # TRUE
BY CrmRecordsAssumption DEF Cleared

LEMMA RecordsKeep ==
  ASSUME RecordInv, CrmRecordsNext
  PROVE  RecordInv'
<1>1. CASE ArchiveContact
  BY <1>1, ChildStep DEF ArchiveContact, ContactUnchanged, RecordInv, AlonePrimary
<1>2. CASE UpdateInquiry
  BY <1>2, ChildStep DEF UpdateInquiry, InquiryUnchanged, RecordInv, AlonePrimary
<1>3. ASSUME NEW p \in Procs, NEW op \in PrimaryOps, NEW c \in Children, ChildStart(p, op, c)
      PROVE  RecordInv'
  <2>1. PICK r : r = [op |-> op, at |-> "write", child |-> c]
    OBVIOUS
  <2>2. r \in RecordRequests /\ r.op \notin {"activity", "message"}
    BY <2>1 DEF RecordRequests, PrimaryOps
  <2>3. req' = [req EXCEPT ![p] = r] /\ UNCHANGED <<child, activity, message>>
    BY <1>3, <2>1 DEF ChildStart, Start, ContactUnchanged
  <2> QED
    BY <2>2, <2>3, RecordQuiet
<1>4. ASSUME NEW p \in Procs, AddContactEmail(p)
      PROVE  RecordInv'
  <2>1. req[p] \in RecordRequests /\ req[p].op \in {"add", "addPrimary"}
    BY <1>4 DEF AddContactEmail, At, RecordInv
  <2>2. PICK c \in Children : c = req[p].child
    BY <2>1 DEF RecordRequests
  <2>3. UNCHANGED <<activity, message>> /\ Done(p)
    BY <1>4 DEF AddContactEmail, ContactUnchanged
  <2>4. PICK b \in BOOLEAN : b = (req[p].op = "addPrimary")
    OBVIOUS
  <2>5. child' = [(IF b THEN Cleared ELSE child) EXCEPT ![c] = b]
    BY <1>4, <2>2, <2>4 DEF AddContactEmail
  <2>6. child' \in [Children -> BOOLEAN \cup {None}] /\ AlonePrimary'
    BY <2>5, ClearedIs DEF RecordInv, AlonePrimary
  <2> QED
    BY <2>3, <2>6, ChildStep
<1>5. ASSUME NEW p \in Procs, SetContactPrimary(p)
      PROVE  RecordInv'
  <2>1. req[p] \in RecordRequests /\ req[p].op = "setPrimary"
    BY <1>5 DEF SetContactPrimary, At, RecordInv
  <2>2. PICK c \in Children : c = req[p].child
    BY <2>1 DEF RecordRequests
  <2>3. UNCHANGED <<activity, message>> /\ Done(p)
    BY <1>5 DEF SetContactPrimary, ContactUnchanged
  <2>4. child' = [Cleared EXCEPT ![c] = TRUE]
    BY <1>5, <2>2 DEF SetContactPrimary
  <2>5. child' \in [Children -> BOOLEAN \cup {None}] /\ AlonePrimary'
    BY <2>4, ClearedIs DEF RecordInv, AlonePrimary
  <2> QED
    BY <2>3, <2>5, ChildStep
<1>6. ASSUME NEW p \in Procs, DeleteContactChild(p)
      PROVE  RecordInv'
  <2>1. req[p] \in RecordRequests /\ req[p].op = "delete"
    BY <1>6 DEF DeleteContactChild, At, RecordInv
  <2>2. PICK c \in Children : c = req[p].child
    BY <2>1 DEF RecordRequests
  <2>3. UNCHANGED <<activity, message>> /\ Done(p) /\ child' = [child EXCEPT ![c] = None]
    BY <1>6, <2>2 DEF DeleteContactChild, ContactUnchanged
  <2>4. child' \in [Children -> BOOLEAN \cup {None}] /\ AlonePrimary'
    BY <2>3, CrmRecordsAssumption DEF RecordInv, AlonePrimary
  <2> QED
    BY <2>3, <2>4, ChildStep
<1>7. ASSUME NEW p \in Procs, ConvertInquiryRead(p)
      PROVE  RecordInv'
  <2>1. PICK r : r = [op |-> "convertInquiry", at |-> "create"]
    OBVIOUS
  <2>2. r \in RecordRequests /\ r.op = "convertInquiry"
    BY <2>1 DEF RecordRequests
  <2>3. req' = [req EXCEPT ![p] = r] /\ UNCHANGED <<child, activity, message>>
    BY <1>7, <2>1 DEF ConvertInquiryRead, Start, InquiryUnchanged
  <2> QED
    BY <2>2, <2>3, RecordQuiet
<1>8. ASSUME NEW p \in Procs, ConvertInquiryWrite(p)
      PROVE  RecordInv'
  BY <1>8, ChildStep DEF ConvertInquiryWrite, InquiryUnchanged, RecordInv, AlonePrimary
<1>9. ASSUME NEW p \in Procs, NEW s \in ActivityStatuses, TransitionActivityRead(p, s)
      PROVE  RecordInv'
  <2>1. PICK r : r = [op |-> "activity", at |-> "write", to |-> s, started |-> activity.started]
    OBVIOUS
  <2>2. r \in RecordRequests /\ r.op = "activity" /\ r.to = s /\ r.started = activity.started
    BY <2>1 DEF RecordRequests, RecordInv
  <2>3. req' = [req EXCEPT ![p] = r] /\ UNCHANGED <<child, activity, message>>
    BY <1>9, <2>1 DEF TransitionActivityRead, Start, ActivityUnchanged
  <2>4. s = "COMPLETED" => activity.status \in {"IN_PROGRESS", "COMPLETED"}
    BY <1>9 DEF TransitionActivityRead, ActivityAllowed
  <2>5. r.to = "COMPLETED" => r.started = TRUE
    BY <2>2, <2>4 DEF RecordInv, MarksFollow
  <2> QED
    BY <2>2, <2>3, <2>5, RecordQuiet
<1>10. ASSUME NEW p \in Procs, TransitionActivityWrite(p)
       PROVE  RecordInv'
  <2>1. req[p] \in RecordRequests /\ req[p].op = "activity" /\ KnowsRecord(p)
    BY <1>10 DEF TransitionActivityWrite, Running, RecordInv
  <2>2. req[p].to \in ActivityStatuses /\ req[p].started \in BOOLEAN
    BY <2>1 DEF RecordRequests, PrimaryOps
  <2>3. PICK started \in BOOLEAN : started = StartedAt(p)
    <3>1. CASE StartedAt(p)
      BY <2>2, <3>1 DEF StartedAt
    <3>2. CASE ~StartedAt(p)
      BY <2>2, <3>2 DEF StartedAt
    <3> QED
      BY <3>1, <3>2
  <2>4. PICK completed \in BOOLEAN : completed = (req[p].to = "COMPLETED")
    OBVIOUS
  <2>5. activity' = [status |-> req[p].to, started |-> started, completed |-> completed]
    BY <1>10, <2>3, <2>4 DEF TransitionActivityWrite
  <2>6. UNCHANGED <<child, message>> /\ Done(p)
    BY <1>10 DEF TransitionActivityWrite, ActivityUnchanged
  <2>7. activity' \in [status : ActivityStatuses, started : BOOLEAN, completed : BOOLEAN]
        /\ activity'.status = req[p].to /\ activity'.started = started
        /\ activity'.completed = completed
    BY <2>2, <2>5
  <2>8. req[p].to \in {"IN_PROGRESS", "COMPLETED"} => started = TRUE
    BY <2>1, <2>3 DEF StartedAt, KnowsRecord
  <2>9. MarksFollow'
    BY <2>4, <2>6, <2>7, <2>8 DEF MarksFollow, RecordInv
  <2>10. AlonePrimary' /\ child' \in [Children -> BOOLEAN \cup {None}]
         /\ message' \in [status : MessageStatuses, sent : BOOLEAN]
    BY <2>6 DEF RecordInv, AlonePrimary
  <2>11. UNCHANGED req \/ (\E q \in Procs, r \in RecordRequests \cup {None} :
                             req' = [req EXCEPT ![q] = r] /\ (r # None => KnowsRecord(q)'))
    BY <2>6 DEF Done
  <2> QED
    BY <2>7, <2>9, <2>10, <2>11, RecordStep
<1>11. ASSUME NEW p \in Procs, NEW s \in MessageStatuses, TransitionMessageRead(p, s)
       PROVE  RecordInv'
  <2>1. PICK r : r = [op |-> "message", at |-> "write", to |-> s, sent |-> message.sent]
    OBVIOUS
  <2>2. r \in RecordRequests /\ r.op = "message" /\ r.to = s /\ r.sent = message.sent
    BY <2>1 DEF RecordRequests, RecordInv
  <2>3. req' = [req EXCEPT ![p] = r] /\ UNCHANGED <<child, activity, message>>
    BY <1>11, <2>1 DEF TransitionMessageRead, Start, MessageUnchanged
  <2>4. s = "DELIVERED" => message.status \in {"SENT", "DELIVERED"}
    BY <1>11 DEF TransitionMessageRead, MessageAllowed
  <2>5. r.to = "DELIVERED" => r.sent = TRUE
    BY <2>2, <2>4 DEF RecordInv, MarksFollow
  <2> QED
    BY <2>2, <2>3, <2>5, RecordQuiet
<1>12. ASSUME NEW p \in Procs, TransitionMessageWrite(p) \/ DeliverWrite(p)
       PROVE  RecordInv'
  <2>1. req[p] \in RecordRequests /\ KnowsRecord(p)
        /\ (req[p].op = "message" \/ (req[p].op = "deliver" /\ req[p].at = "write"))
    BY <1>12 DEF TransitionMessageWrite, DeliverWrite, Running, At, RecordInv
  <2>2. /\ req[p].to \in MessageStatuses
        /\ req[p].op = "message" => req[p].sent \in BOOLEAN
        /\ req[p].op = "deliver" => req[p].to # "DELIVERED"
    BY <2>1 DEF RecordRequests, PrimaryOps, MessageStatuses
  <2>3. message.sent \in BOOLEAN
    BY DEF RecordInv
  <2>4. PICK sent \in BOOLEAN :
          /\ message' = [status |-> req[p].to, sent |-> sent]
          /\ req[p].to \in {"SENT", "DELIVERED"} => sent = TRUE
    <3>1. CASE TransitionMessageWrite(p)
      <4>1. req[p].op = "message"
        BY <3>1 DEF TransitionMessageWrite, Running
      <4>2. SentAt(p) \in BOOLEAN
        BY <2>2, <4>1 DEF SentAt
      <4>3. req[p].to \in {"SENT", "DELIVERED"} => SentAt(p) = TRUE
        BY <2>1, <4>1, <4>2 DEF SentAt, KnowsRecord
      <4> QED
        BY <3>1, <4>2, <4>3 DEF TransitionMessageWrite
    <3>2. CASE DeliverWrite(p)
      <4>1. req[p].op = "deliver"
        BY <3>2 DEF DeliverWrite, Running
      <4>2. PICK sent \in BOOLEAN : sent = (message.sent \/ req[p].to = "SENT")
        BY <2>3
      <4>3. req[p].to \in {"SENT", "DELIVERED"} => sent = TRUE
        BY <2>2, <4>1, <4>2
      <4> QED
        BY <3>2, <4>2, <4>3 DEF DeliverWrite
    <3> QED
      BY <1>12, <3>1, <3>2
  <2>5. UNCHANGED <<child, activity>> /\ Done(p)
    BY <1>12 DEF TransitionMessageWrite, DeliverWrite, MessageUnchanged
  <2>6. message' \in [status : MessageStatuses, sent : BOOLEAN]
        /\ message'.status = req[p].to /\ message'.sent = sent
    BY <2>2, <2>4
  <2>7. MarksFollow'
    BY <2>4, <2>5, <2>6 DEF MarksFollow, RecordInv
  <2>8. AlonePrimary' /\ child' \in [Children -> BOOLEAN \cup {None}]
        /\ activity' \in [status : ActivityStatuses, started : BOOLEAN, completed : BOOLEAN]
    BY <2>5 DEF RecordInv, AlonePrimary
  <2>9. UNCHANGED req \/ (\E q \in Procs, r \in RecordRequests \cup {None} :
                            req' = [req EXCEPT ![q] = r] /\ (r # None => KnowsRecord(q)'))
    BY <2>5 DEF Done
  <2> QED
    BY <2>6, <2>7, <2>8, <2>9, RecordStep
<1>13. ASSUME NEW p \in Procs, DeliverRead(p)
       PROVE  RecordInv'
  <2>1. PICK r : r = [op |-> "deliver", at |-> "send"]
    OBVIOUS
  <2>2. r \in RecordRequests /\ r.op = "deliver"
    BY <2>1 DEF RecordRequests
  <2>3. req' = [req EXCEPT ![p] = r] /\ UNCHANGED <<child, activity, message>>
    BY <1>13, <2>1 DEF DeliverRead, Start, MessageUnchanged
  <2> QED
    BY <2>2, <2>3, RecordQuiet
<1>14. ASSUME NEW p \in Procs, ProviderSend(p)
       PROVE  RecordInv'
  <2>1. PICK to \in {"SENT", "QUEUED", "FAILED"} :
          req' = [req EXCEPT ![p] = [op |-> "deliver", at |-> "check", to |-> to]]
    BY <1>14 DEF ProviderSend
  <2>2. PICK r : r = [op |-> "deliver", at |-> "check", to |-> to]
    OBVIOUS
  <2>3. r \in RecordRequests /\ r.op = "deliver"
    BY <2>2 DEF RecordRequests
  <2>4. req' = [req EXCEPT ![p] = r] /\ UNCHANGED <<child, activity, message>>
    BY <1>14, <2>1, <2>2 DEF ProviderSend, MessageUnchanged
  <2> QED
    BY <2>3, <2>4, RecordQuiet
<1>15. ASSUME NEW p \in Procs, DeliverCheck(p)
       PROVE  RecordInv'
  <2>1. req[p] \in RecordRequests /\ req[p].op = "deliver" /\ req[p].at = "check"
    BY <1>15 DEF DeliverCheck, Running, At, RecordInv
  <2>2. UNCHANGED <<child, activity, message>>
    BY <1>15 DEF DeliverCheck, MessageUnchanged
  <2>3. PICK r \in {[req[p] EXCEPT !.at = "write"], [req[p] EXCEPT !.to = "FAILED"], None} :
          req' = [req EXCEPT ![p] = r]
    BY <1>15 DEF DeliverCheck, Goto, Done
  <2>4. r \in RecordRequests \cup {None} /\ (r # None => r.op = "deliver")
    BY <2>1, <2>3 DEF RecordRequests
  <2> QED
    BY <2>2, <2>3, <2>4, RecordQuiet
<1>16. ASSUME NEW p \in Procs, CrmRecordsAbandon(p)
       PROVE  RecordInv'
  <2>1. req' = [req EXCEPT ![p] = None] /\ UNCHANGED <<child, activity, message>>
    BY <1>16 DEF CrmRecordsAbandon, Done, recordVars
  <2> QED
    BY <2>1, RecordQuiet
<1> QED
  BY <1>1, <1>2, <1>3, <1>4, <1>5, <1>6, <1>7, <1>8, <1>9, <1>10, <1>11, <1>12, <1>13, <1>14,
     <1>15, <1>16 DEF CrmRecordsNext, PrimaryOps

-----------------------------------------------------------------------------
(***************************************************************************)
(* Agents: the capacity.                                                   *)
(***************************************************************************)

AgentRequests ==
  [op : {"updateAgent"}, at : {"write"}, status : {"ACTIVE", "INACTIVE"}, capacity : Capacities]
    \cup [op : {"assign", "unassign"}, at : {"capacity", "write"}, property : Properties,
          status : {"ACTIVE", "INACTIVE", "SUSPENDED", "ARCHIVED"}, max : Capacities]

\* The requests that have compared the capacity and will use it.
Takes(r) == r # None /\ r.op = "assign" /\ r.at = "write"
Takers == {p \in Procs : Takes(req[p])}

\* What is assigned and what will be are within the capacity, but for the requests that
\* compared it before the last of them.
WorkBounded ==
  assigned # {} \/ Takers # {} =>
    Cardinality(assigned) + Cardinality(Takers) + OtherWork <= most + Cardinality(Procs) - 1

KnowsMost(p) ==
  /\ agent \in Profile
  /\ req[p].op # "updateAgent" => req[p].max <= most

CapacityInv ==
  /\ req \in [Procs -> AgentRequests \cup {None}]
  /\ agent \in Profile \cup {None} /\ most \in Nat /\ IsFiniteSet(assigned)
  /\ agent \in Profile => agent.capacity <= most
  /\ \A p \in Procs : req[p] # None => KnowsMost(p)
  /\ WorkBounded

LEMMA TakersFinite ==
  /\ IsFiniteSet(Takers) /\ Cardinality(Takers) \in Nat /\ Cardinality(Procs) \in Nat
  /\ Cardinality(Takers) <= Cardinality(Procs)
<1>1. Takers \subseteq Procs
  BY DEF Takers
<1> QED
  BY <1>1, ProcsAssumption, FS_Subset, FS_CardinalityType

LEMMA CapacityInitial ==
  ASSUME RequestsInit, AgentManagementInit
  PROVE  CapacityInv
<1>1. req = [p \in Procs |-> None] /\ agent = None /\ assigned = {} /\ most = 0
  BY DEF RequestsInit, AgentManagementInit
<1>2. Takers = {}
  BY <1>1 DEF Takers, Takes
<1>3. IsFiniteSet(assigned)
  BY <1>1, FS_EmptySet
<1>4. agent \notin Profile
  BY <1>1, AgentManagementAssumption
<1> QED
  BY <1>1, <1>2, <1>3, <1>4 DEF CapacityInv, WorkBounded

LEMMA CapacityImplies ==
  ASSUME CapacityInv
  PROVE  CapacityOverrunBounded
<1>1. Cardinality(assigned) \in Nat
  BY FS_CardinalityType DEF CapacityInv
<1> QED
  BY <1>1, TakersFinite, AgentManagementAssumption
     DEF CapacityInv, WorkBounded, CapacityOverrunBounded

\* A step after which no more is assigned and about to be than before.
LEMMA CapacityStep ==
  ASSUME CapacityInv,
         UNCHANGED req \/ (\E p \in Procs, r \in AgentRequests \cup {None} :
                             /\ req' = [req EXCEPT ![p] = r] /\ ~Takes(r)
                             /\ r # None /\ r.op # "updateAgent" => r.max <= most
                             /\ r # None => agent \in Profile),
         agent' \in Profile \cup {None}, agent \in Profile => agent' \in Profile,
         agent' \in Profile => agent'.capacity <= most',
         most' \in Nat, most <= most', assigned' \subseteq assigned
  PROVE  CapacityInv'
<1>1. /\ req' \in [Procs -> AgentRequests \cup {None}]
      /\ \A q \in Procs : req'[q] # None => KnowsMost(q)'
      /\ Takers' \subseteq Takers
  <2>1. CASE UNCHANGED req
    <3>1. ASSUME NEW q \in Procs, req'[q] # None
          PROVE  KnowsMost(q)'
      <4>1. KnowsMost(q) /\ req[q] \in AgentRequests
        BY <2>1, <3>1 DEF CapacityInv
      <4>2. req[q].op # "updateAgent" => req[q].max \in Nat
        BY <4>1, AgentManagementAssumption DEF AgentRequests
      <4> QED
        BY <2>1, <4>1, <4>2 DEF KnowsMost, CapacityInv
    <3> QED
      BY <2>1, <3>1 DEF CapacityInv, Takers
  <2>2. CASE ~UNCHANGED req
    <3>1. PICK p \in Procs, r \in AgentRequests \cup {None} :
            /\ req' = [req EXCEPT ![p] = r] /\ ~Takes(r)
            /\ r # None /\ r.op # "updateAgent" => r.max <= most
            /\ r # None => agent \in Profile
      BY <2>2
    <3>2. req' \in [Procs -> AgentRequests \cup {None}] /\ req'[p] = r
          /\ \A q \in Procs : q # p => req'[q] = req[q]
      BY <3>1 DEF CapacityInv
    <3>3. ASSUME NEW q \in Procs, req'[q] # None
          PROVE  KnowsMost(q)'
      <4>1. req'[q] \in AgentRequests
        BY <3>2, <3>3
      <4>2. req'[q].op # "updateAgent" => req'[q].max \in Nat
        BY <4>1, AgentManagementAssumption DEF AgentRequests
      <4>3. agent \in Profile /\ (req'[q].op # "updateAgent" => req'[q].max <= most)
        BY <3>1, <3>2, <3>3 DEF CapacityInv, KnowsMost
      <4> QED
        BY <4>2, <4>3 DEF KnowsMost, CapacityInv
    <3>4. Takers' \subseteq Takers
      BY <3>1, <3>2 DEF Takers
    <3> QED
      BY <3>2, <3>3, <3>4
  <2> QED
    BY <2>1, <2>2
<1>2. IsFiniteSet(assigned') /\ Cardinality(assigned') <= Cardinality(assigned)
      /\ Cardinality(assigned) \in Nat /\ Cardinality(assigned') \in Nat
  BY FS_Subset, FS_CardinalityType DEF CapacityInv
<1>3. Cardinality(Takers') <= Cardinality(Takers) /\ Cardinality(Takers') \in Nat
  BY <1>1, TakersFinite, FS_Subset, FS_CardinalityType
<1>4. WorkBounded'
  BY <1>1, <1>2, <1>3, TakersFinite, AgentManagementAssumption DEF CapacityInv, WorkBounded
<1> QED
  BY <1>1, <1>2, <1>4 DEF CapacityInv

WorkNext == AssignmentNext \/ \E p \in Procs : AgentAbandon(p)

LEMMA CapacityKeeps ==
  ASSUME CapacityInv, WorkNext
  PROVE  CapacityInv'
<1> USE AgentManagementAssumption
<1>1. ASSUME NEW c \in Capacities, CreateAgent(c)
      PROVE  CapacityInv'
  <2>1. agent' \in Profile /\ agent'.capacity = c
    BY <1>1 DEF CreateAgent, Profile
  <2>2. most' = (IF c > most THEN c ELSE most) /\ UNCHANGED <<req, assigned>>
    BY <1>1 DEF CreateAgent
  <2>3. most' \in Nat /\ most <= most' /\ c <= most'
    <3>1. c \in Nat /\ most \in Nat
      BY DEF CapacityInv
    <3> QED
      BY <2>2, <3>1
  <2> QED
    BY <2>1, <2>2, <2>3, CapacityStep
<1>2. CASE ArchiveAgent
  <2>1. agent \in Profile /\ UNCHANGED <<req, assigned, most>>
    BY <1>2 DEF ArchiveAgent, RequireAgent, CapacityInv
  <2>2. agent' \in Profile /\ agent'.capacity = agent.capacity
    BY <1>2, <2>1 DEF ArchiveAgent, Profile
  <2>3. most \in Nat /\ most <= most /\ agent.capacity <= most
    BY <2>1 DEF CapacityInv
  <2> QED
    BY <2>1, <2>2, <2>3, CapacityStep
<1>3. ASSUME NEW p \in Procs, NEW s \in {"ACTIVE", "INACTIVE"}, NEW c \in Capacities,
             UpdateAgentRead(p, s, c)
      PROVE  CapacityInv'
  <2>1. PICK r : r = [op |-> "updateAgent", at |-> "write", status |-> s, capacity |-> c]
    OBVIOUS
  <2>2. r \in AgentRequests /\ r.op = "updateAgent" /\ ~Takes(r)
    BY <2>1 DEF AgentRequests, Takes
  <2>3. req' = [req EXCEPT ![p] = r] /\ UNCHANGED <<agent, most, assigned>> /\ agent \in Profile
    BY <1>3, <2>1 DEF UpdateAgentRead, Start, agentVars, RequireAgent, CapacityInv
  <2>4. most \in Nat /\ most <= most /\ agent.capacity <= most
    BY <2>3 DEF CapacityInv
  <2> QED
    BY <2>2, <2>3, <2>4, CapacityStep
<1>4. ASSUME NEW p \in Procs, NEW op \in {"assign", "unassign"}, NEW a \in Properties,
             AgentRead(p, op, a)
      PROVE  CapacityInv'
  <2>1. PICK r : r = [op |-> op, at |-> "capacity", property |-> a, status |-> agent.status,
                      max |-> agent.capacity]
    OBVIOUS
  <2>2. req' = [req EXCEPT ![p] = r] /\ UNCHANGED <<agent, most, assigned>> /\ agent \in Profile
    BY <1>4, <2>1 DEF AgentRead, Start, agentVars, RequireAgent, CapacityInv
  <2>3. r \in AgentRequests /\ r.max = agent.capacity /\ ~Takes(r)
    BY <2>1, <2>2 DEF AgentRequests, Takes, Profile
  <2>4. most \in Nat /\ most <= most /\ agent.capacity <= most
    BY <2>2 DEF CapacityInv
  <2> QED
    BY <2>2, <2>3, <2>4, CapacityStep
<1>5. ASSUME NEW p \in Procs, UpdateAgent(p)
      PROVE  CapacityInv'
  <2>1. req[p] \in AgentRequests /\ req[p].op = "updateAgent" /\ agent \in Profile
    BY <1>5 DEF UpdateAgent, Running, CapacityInv, KnowsMost
  <2>2. req[p].capacity \in Capacities /\ req[p].status \in {"ACTIVE", "INACTIVE"}
    BY <2>1 DEF AgentRequests
  <2>3. agent' \in Profile /\ agent'.capacity = req[p].capacity
    BY <1>5, <2>1, <2>2 DEF UpdateAgent, Profile
  <2>4. most' = (IF req[p].capacity > most THEN req[p].capacity ELSE most)
        /\ assigned' = assigned /\ req' = [req EXCEPT ![p] = None]
    BY <1>5 DEF UpdateAgent, Done
  <2>5. most' \in Nat /\ most <= most' /\ req[p].capacity <= most'
    <3>1. PICK c : c = req[p].capacity
      OBVIOUS
    <3>2. c \in Nat /\ most \in Nat /\ most' = IF c > most THEN c ELSE most
      BY <2>2, <2>4, <3>1 DEF CapacityInv
    <3>3. most' \in Nat /\ most <= most' /\ c <= most'
      BY <3>2
    <3> QED
      BY <3>1, <3>3
  <2>6. ~Takes(None)
    BY DEF Takes
  <2> QED
    BY <2>1, <2>3, <2>4, <2>5, <2>6, CapacityStep
<1>6. ASSUME NEW p \in Procs, EnsureAssignable(p)
      PROVE  CapacityInv'
  <2>1. req[p] \in AgentRequests /\ req[p].op = "assign" /\ req[p].at = "capacity" /\ KnowsMost(p)
        /\ req[p] # None
    BY <1>6 DEF EnsureAssignable, Running, At, CapacityInv
  <2>2. UNCHANGED <<agent, most, assigned>> /\ most \in Nat /\ most <= most
        /\ (agent \in Profile => agent.capacity <= most)
    BY <1>6 DEF EnsureAssignable, agentVars, CapacityInv
  <2>3. CASE Done(p)
    <3>1. req' = [req EXCEPT ![p] = None] /\ ~Takes(None)
      BY <2>3 DEF Done, Takes
    <3>2. agent' \in Profile \cup {None}
      BY <2>2 DEF CapacityInv
    <3> QED
      BY <2>2, <3>1, <3>2, CapacityStep
  <2>4. CASE Remaining(p) /\ Goto(p, "write")
    <3>1. PICK r : r = [req[p] EXCEPT !.at = "write"]
      OBVIOUS
    <3>2. r \in AgentRequests /\ r.max = req[p].max /\ r.op = "assign" /\ r.at = "write"
          /\ req[p].max \in Nat
      BY <2>1, <3>1 DEF AgentRequests
    <3>3. req' = [req EXCEPT ![p] = r]
      BY <2>4, <3>1 DEF Goto
    <3>4. req' \in [Procs -> AgentRequests \cup {None}] /\ req'[p] = r
          /\ \A q \in Procs : q # p => req'[q] = req[q]
      BY <3>2, <3>3 DEF CapacityInv
    <3>5. \A q \in Procs : req'[q] # None => KnowsMost(q)'
      BY <2>1, <2>2, <3>2, <3>4 DEF CapacityInv, KnowsMost
    <3>6. Cardinality(assigned) + OtherWork < most /\ Cardinality(assigned) \in Nat
      <4>1. Cardinality(assigned) \in Nat
        BY FS_CardinalityType DEF CapacityInv
      <4>2. req[p].max > Cardinality(assigned) + OtherWork
        BY <2>4 DEF Remaining
      <4>3. req[p].max <= most
        BY <2>1 DEF KnowsMost
      <4> QED
        BY <2>2, <3>2, <4>1, <4>2, <4>3
    <3>7. Cardinality(Takers') <= Cardinality(Procs) /\ Cardinality(Takers') \in Nat
          /\ Cardinality(Procs) \in Nat
      <4>1. Takers' \subseteq Procs
        BY DEF Takers
      <4> QED
        BY <4>1, ProcsAssumption, FS_Subset, FS_CardinalityType
    <3>8. WorkBounded'
      BY <2>2, <3>6, <3>7 DEF WorkBounded
    <3> QED
      BY <2>2, <3>4, <3>5, <3>8 DEF CapacityInv
  <2> QED
    BY <1>6, <2>3, <2>4 DEF EnsureAssignable
<1>7. ASSUME NEW p \in Procs, Assign(p)
      PROVE  CapacityInv'
  <2>1. UNCHANGED <<agent, most>> /\ req' = [req EXCEPT ![p] = None] /\ Takes(req[p])
        /\ assigned' = assigned \cup {req[p].property}
    BY <1>7 DEF Assign, Done, Running, At, Takes
  <2>2. req' \in [Procs -> AgentRequests \cup {None}]
        /\ \A q \in Procs : req'[q] # None => req'[q] = req[q] /\ req[q] # None
    BY <2>1 DEF CapacityInv
  <2>3. \A q \in Procs : req'[q] # None => KnowsMost(q)'
    BY <2>1, <2>2 DEF CapacityInv, KnowsMost
  <2>4. p \in Takers /\ Takers' = Takers \ {p}
    BY <2>1 DEF Takers, Takes, CapacityInv
  <2>5. Cardinality(Takers') = Cardinality(Takers) - 1 /\ Cardinality(Takers) \in Nat
    BY <2>4, TakersFinite, FS_RemoveElement, FS_CardinalityType
  <2>6. IsFiniteSet(assigned') /\ Cardinality(assigned') <= Cardinality(assigned) + 1
        /\ Cardinality(assigned) \in Nat /\ Cardinality(assigned') \in Nat
    <3>1. IsFiniteSet(assigned)
      BY DEF CapacityInv
    <3>2. IsFiniteSet(assigned') /\ Cardinality(assigned) \in Nat
          /\ (Cardinality(assigned') = Cardinality(assigned)
                \/ Cardinality(assigned') = Cardinality(assigned) + 1)
      BY <2>1, <3>1, FS_AddElement, FS_CardinalityType
    <3> QED
      BY <3>2
  <2>7. WorkBounded'
    BY <2>1, <2>4, <2>5, <2>6, TakersFinite DEF CapacityInv, WorkBounded
  <2> QED
    BY <2>1, <2>2, <2>3, <2>6, <2>7 DEF CapacityInv
<1>8. ASSUME NEW p \in Procs, Unassign(p) \/ AgentAbandon(p)
      PROVE  CapacityInv'
  <2>1. req' = [req EXCEPT ![p] = None] /\ ~Takes(None) /\ UNCHANGED <<agent, most>>
        /\ assigned' \subseteq assigned
    BY <1>8 DEF Unassign, AgentAbandon, Done, Takes, agentVars
  <2>2. most' \in Nat /\ most <= most' /\ (agent' \in Profile => agent'.capacity <= most')
        /\ agent' \in Profile \cup {None}
    BY <2>1 DEF CapacityInv
  <2> QED
    BY <2>1, <2>2, CapacityStep
<1> QED
  BY <1>1, <1>2, <1>3, <1>4, <1>5, <1>6, <1>7, <1>8 DEF WorkNext, AssignmentNext

LEMMA CapacityStutters ==
  ASSUME CapacityInv, UNCHANGED <<req, agent, assigned, most>>
  PROVE  CapacityInv'
BY DEF CapacityInv, KnowsMost, WorkBounded, Takers

(***************************************************************************)
(* Agents: the specializations and the availability.                       *)
(***************************************************************************)

SpecializationInv ==
  link \in [Specializations -> BOOLEAN \cup {None}] /\ OnePrimarySpecialization

LEMMA SpecializationInitial ==
  ASSUME AgentManagementInit
  PROVE  SpecializationInv
BY AgentManagementAssumption
   DEF AgentManagementInit, SpecializationInv, OnePrimarySpecialization

LEMMA SpecializationKeeps ==
  ASSUME SpecializationInv, SpecializationNext
  PROVE  SpecializationInv'
<1>1. PICK s \in Specializations : RemoveSpecialization(s) \/ \E b \in BOOLEAN : AddSpecialization(s, b)
  BY DEF SpecializationNext
<1>2. CASE RemoveSpecialization(s)
  BY <1>2, AgentManagementAssumption
     DEF RemoveSpecialization, SpecializationInv, OnePrimarySpecialization
<1>3. ASSUME NEW b \in BOOLEAN, AddSpecialization(s, b)
      PROVE  SpecializationInv'
  <2>1. NoLongerPrimary \in [Specializations -> BOOLEAN \cup {None}]
        /\ \A t \in Specializations : NoLongerPrimary[t] # TRUE
    BY AgentManagementAssumption DEF NoLongerPrimary
  <2>2. link' = [(IF b THEN NoLongerPrimary ELSE link) EXCEPT ![s] = b]
    BY <1>3 DEF AddSpecialization
  <2> QED
    BY <2>1, <2>2 DEF SpecializationInv, OnePrimarySpecialization
<1> QED
  BY <1>1, <1>2, <1>3

\* The save that has replaced the row and holds its lock.
HasReplaced(r) == r # None /\ r.at # "row"
KnowsSave(p) ==
  HasReplaced(req[p]) =>
    /\ availability.row = req[p].input
    /\ req[p].at = "exceptions" => availability.schedule = req[p].input

SaveInv ==
  /\ req \in [Procs -> SaveRequest \cup {None}]
  /\ availability \in [row : Saves \cup {None}, schedule : Saves \cup {None},
                       exceptions : Saves \cup {None}]
  /\ \A p \in Procs : KnowsSave(p)
  /\ \A p, q \in Procs : HasReplaced(req[p]) /\ HasReplaced(req[q]) => p = q
  /\ (\A p \in Procs : ~HasReplaced(req[p])) =>
       availability.row = availability.schedule /\ availability.row = availability.exceptions

LEMMA SaveInitial ==
  ASSUME RequestsInit, AgentManagementInit
  PROVE  SaveInv
<1>1. req = [p \in Procs |-> None]
      /\ availability = [row |-> None, schedule |-> None, exceptions |-> None]
  BY DEF RequestsInit, AgentManagementInit
<1> QED
  BY <1>1 DEF SaveInv, KnowsSave, HasReplaced

LEMMA SaveImplies ==
  ASSUME SaveInv
  PROVE  AvailabilityOfOneSave
<1> SUFFICES ASSUME \A p \in Procs : Running(p, "save") => req[p].at = "row"
             PROVE  availability.row = availability.schedule
                    /\ availability.row = availability.exceptions
  BY DEF AvailabilityOfOneSave
<1>1. ASSUME NEW p \in Procs
      PROVE  ~HasReplaced(req[p])
  <2>1. req[p] # None => req[p].op = "save"
    BY DEF SaveInv, SaveRequest
  <2> QED
    BY <2>1 DEF HasReplaced, Running
<1> QED
  BY <1>1 DEF SaveInv

LEMMA SaveKeeps ==
  ASSUME SaveInv, AvailabilityNext
  PROVE  SaveInv'
<1>1. PICK p \in Procs :
        \/ \E x \in Saves : SaveRead(p, x)
        \/ SaveRow(p) \/ SaveSchedule(p) \/ SaveExceptions(p) \/ SaveRefused(p)
  BY DEF AvailabilityNext
<1>2. ASSUME NEW x \in Saves, SaveRead(p, x)
      PROVE  SaveInv'
  <2>1. PICK found \in BOOLEAN : found = (availability.row # None)
    OBVIOUS
  <2>2. PICK r : r = [op |-> "save", at |-> "row", input |-> x, found |-> found]
    OBVIOUS
  <2>3. r \in SaveRequest /\ ~HasReplaced(r)
    BY <2>2 DEF SaveRequest, HasReplaced
  <2>4. req' = [req EXCEPT ![p] = r] /\ UNCHANGED availability /\ req[p] = None
    BY <1>2, <2>1, <2>2 DEF SaveRead, Start
  <2>5. req' \in [Procs -> SaveRequest \cup {None}] /\ req'[p] = r
        /\ \A q \in Procs : q # p => req'[q] = req[q]
    BY <2>3, <2>4 DEF SaveInv
  <2>6. ~HasReplaced(req[p])
    BY <2>4 DEF HasReplaced
  <2>7. \A q \in Procs : KnowsSave(q)'
    BY <2>3, <2>4, <2>5 DEF SaveInv, KnowsSave
  <2> QED
    BY <2>3, <2>4, <2>5, <2>6, <2>7 DEF SaveInv
<1>3. CASE SaveRow(p)
  <2>1. req[p] \in SaveRequest /\ req[p] # None /\ req[p].at = "row"
    BY <1>3 DEF SaveRow, Running, At, SaveInv
  <2>2. PICK r : r = [req[p] EXCEPT !.at = "schedule"]
    OBVIOUS
  <2>3. r \in SaveRequest /\ r.at = "schedule" /\ r.input = req[p].input /\ r.input \in Saves
    BY <2>1, <2>2 DEF SaveRequest
  <2>4. req' = [req EXCEPT ![p] = r] /\ availability' = [availability EXCEPT !.row = r.input]
    BY <1>3, <2>2, <2>3 DEF SaveRow, Goto
  <2>5. req' \in [Procs -> SaveRequest \cup {None}] /\ req'[p] = r
        /\ \A q \in Procs : q # p => req'[q] = req[q]
    BY <2>3, <2>4 DEF SaveInv
  <2>6. \A q \in Procs \ {p} : ~HasReplaced(req[q])
    <3>1. ASSUME NEW q \in Procs \ {p}, HasReplaced(req[q])
          PROVE  FALSE
      <4>1. req[q].op = "save" /\ req[q] # None /\ req[q].at # "row"
        BY <3>1 DEF HasReplaced, SaveInv, SaveRequest
      <4> QED
        BY <1>3, <4>1 DEF SaveRow, RowLocked, Running
    <3> QED
      BY <3>1
  <2>7. availability' \in [row : Saves \cup {None}, schedule : Saves \cup {None},
                           exceptions : Saves \cup {None}]
        /\ availability'.row = r.input
    BY <2>3, <2>4 DEF SaveInv
  <2>8. HasReplaced(req'[p]) \/ r = None
    BY <2>3, <2>5 DEF HasReplaced
  <2>9. \A q \in Procs : KnowsSave(q)'
    BY <2>3, <2>5, <2>6, <2>7 DEF KnowsSave, HasReplaced
  <2>10. r # None
    BY <2>1, <2>2, <2>3, AgentManagementAssumption
  <2> QED
    BY <2>5, <2>6, <2>7, <2>8, <2>9, <2>10 DEF SaveInv
<1>4. CASE SaveSchedule(p)
  <2>1. req[p] \in SaveRequest /\ req[p].at = "schedule" /\ HasReplaced(req[p])
    BY <1>4 DEF SaveSchedule, Running, At, SaveInv, HasReplaced
  <2>2. PICK r : r = [req[p] EXCEPT !.at = "exceptions"]
    OBVIOUS
  <2>3. r \in SaveRequest /\ r.at = "exceptions" /\ r.input = req[p].input /\ r.input \in Saves
    BY <2>1, <2>2 DEF SaveRequest
  <2>4. req' = [req EXCEPT ![p] = r] /\ availability' = [availability EXCEPT !.schedule = r.input]
    BY <1>4, <2>2, <2>3 DEF SaveSchedule, Goto
  <2>5. req' \in [Procs -> SaveRequest \cup {None}] /\ req'[p] = r
        /\ \A q \in Procs : q # p => req'[q] = req[q]
    BY <2>3, <2>4 DEF SaveInv
  <2>6. \A q \in Procs \ {p} : ~HasReplaced(req[q])
    BY <2>1 DEF SaveInv
  <2>7. availability' \in [row : Saves \cup {None}, schedule : Saves \cup {None},
                           exceptions : Saves \cup {None}]
        /\ availability'.row = availability.row /\ availability'.schedule = r.input
    BY <2>3, <2>4 DEF SaveInv
  <2>8. availability.row = r.input
    BY <2>1, <2>3 DEF SaveInv, KnowsSave
  <2>9. \A q \in Procs : KnowsSave(q)'
    BY <2>3, <2>5, <2>6, <2>7, <2>8 DEF KnowsSave
  <2>10. r # None
    BY <2>3, AgentManagementAssumption
  <2>11. HasReplaced(req'[p])
    BY <2>3, <2>5, <2>10 DEF HasReplaced
  <2> QED
    BY <2>5, <2>6, <2>7, <2>9, <2>11 DEF SaveInv
<1>5. CASE SaveExceptions(p)
  <2>1. req[p] \in SaveRequest /\ req[p].at = "exceptions" /\ HasReplaced(req[p])
    BY <1>5 DEF SaveExceptions, Running, At, SaveInv, HasReplaced
  <2>2. req[p].input \in Saves
    BY <2>1 DEF SaveRequest
  <2>3. req' = [req EXCEPT ![p] = None]
        /\ availability' = [availability EXCEPT !.exceptions = req[p].input]
    BY <1>5 DEF SaveExceptions, Done
  <2>4. req' \in [Procs -> SaveRequest \cup {None}] /\ req'[p] = None
        /\ \A q \in Procs : q # p => req'[q] = req[q]
    BY <2>3 DEF SaveInv
  <2>5. \A q \in Procs \ {p} : ~HasReplaced(req[q])
    BY <2>1 DEF SaveInv
  <2>6. \A q \in Procs : ~HasReplaced(req'[q])
    BY <2>4, <2>5 DEF HasReplaced
  <2>7. availability' \in [row : Saves \cup {None}, schedule : Saves \cup {None},
                           exceptions : Saves \cup {None}]
        /\ availability'.row = availability.row /\ availability'.schedule = availability.schedule
        /\ availability'.exceptions = req[p].input
    BY <2>2, <2>3 DEF SaveInv
  <2>8. availability.row = req[p].input /\ availability.schedule = req[p].input
    BY <2>1 DEF SaveInv, KnowsSave
  <2> QED
    BY <2>4, <2>6, <2>7, <2>8 DEF SaveInv, KnowsSave
<1>6. CASE SaveRefused(p)
  <2>1. req' = [req EXCEPT ![p] = None] /\ UNCHANGED availability /\ ~HasReplaced(req[p])
    BY <1>6 DEF SaveRefused, Done, At, HasReplaced
  <2>2. req' \in [Procs -> SaveRequest \cup {None}] /\ req'[p] = None
        /\ \A q \in Procs : q # p => req'[q] = req[q]
    BY <2>1 DEF SaveInv
  <2>3. \A q \in Procs : HasReplaced(req'[q]) <=> HasReplaced(req[q])
    BY <2>1, <2>2 DEF HasReplaced
  <2>4. \A q \in Procs : KnowsSave(q)'
    BY <2>1, <2>2, <2>3 DEF SaveInv, KnowsSave
  <2> QED
    BY <2>1, <2>2, <2>3, <2>4 DEF SaveInv
<1> QED
  BY <1>1, <1>2, <1>3, <1>4, <1>5, <1>6

LEMMA SaveStutters ==
  ASSUME SaveInv, UNCHANGED <<req, availability>>
  PROVE  SaveInv'
BY DEF SaveInv, KnowsSave, HasReplaced

\* The parts of an agent each have a focus of their own.
LEMMA AgentSteps ==
  ASSUME AgentManagementNext
  PROVE  /\ focus = "agent assignment" => WorkNext
         /\ focus # "agent assignment" => UNCHANGED <<agent, assigned, most>>
         /\ focus = "agent specialization" => SpecializationNext
         /\ focus # "agent specialization" => UNCHANGED link
         /\ focus = "agent availability" => AvailabilityNext
         /\ focus # "agent availability" => UNCHANGED availability
<1>1. WorkNext => UNCHANGED <<link, availability>>
  BY DEF WorkNext, AssignmentNext, AgentAbandon, CreateAgent, ArchiveAgent, UpdateAgentRead,
     AgentRead, UpdateAgent, EnsureAssignable, Assign, Unassign, agentVars
<1>2. SpecializationNext => UNCHANGED <<agent, assigned, most, availability>>
  BY DEF SpecializationNext, AddSpecialization, RemoveSpecialization, LinkUnchanged
<1>3. AvailabilityNext => UNCHANGED <<agent, assigned, most, link>>
  BY DEF AvailabilityNext, SaveRead, SaveRow, SaveSchedule, SaveExceptions, SaveRefused,
     AvailabilityUnchanged
<1>4. TargetNext => UNCHANGED <<agent, assigned, most, link, availability>>
  BY DEF TargetNext, CloseTarget, UpdateTargetRead, UpdateTarget, TargetUnchanged
<1>5. \/ focus = "agent assignment" /\ WorkNext
      \/ focus = "agent specialization" /\ SpecializationNext
      \/ focus = "agent availability" /\ AvailabilityNext
      \/ focus = "agent target" /\ TargetNext
  BY DEF AgentManagementNext, WorkNext
<1> QED
  BY <1>1, <1>2, <1>3, <1>4, <1>5

-----------------------------------------------------------------------------
(***************************************************************************)
(* Sales: the stages of a pipeline.                                        *)
(***************************************************************************)

\* A list that names each of its stages once.
IsStageList(o, k) == o \in [1..k -> Stages] /\ \A i, j \in 1..k : i # j => o[i] # o[j]

\* A list is of stages that are there; a stage about to be created is not there, is not
\* created by another request and was not counted.
KnowsStages(p) ==
  /\ Running(p, "stage") =>
       /\ req[p].stage \in Stages /\ stageOrder[req[p].stage] = None
       /\ req[p].count \in Nat /\ req[p].count <= Cardinality(StagesThere)
       /\ \A q \in Procs : q # p /\ Running(q, "stage") => req[q].stage # req[p].stage
  /\ Running(p, "reorder") =>
       \E k \in Nat : IsStageList(req[p].order, k)
                      /\ \A i \in 1..k : req[p].order[i] \in StagesThere

StagesInv ==
  /\ req = [p \in Procs |-> req[p]]
  /\ stageOrder \in [Stages -> Nat \cup {None}] /\ explicit \in BOOLEAN
  /\ \A p \in Procs : KnowsStages(p)
  /\ \A i \in DOMAIN asked : asked[i] \in StagesThere
  /\ StagesContiguous /\ StagesAsAsked

LEMMA ThereFinite ==
  IsFiniteSet(StagesThere) /\ Cardinality(StagesThere) \in Nat /\ StagesThere \subseteq Stages
<1>1. StagesThere \subseteq Stages
  BY DEF StagesThere
<1> QED
  BY <1>1, SalesWorkAssumption, FS_Subset, FS_CardinalityType

LEMMA StagesInitial ==
  ASSUME RequestsInit, SalesWorkInit
  PROVE  StagesInv
<1>1. req = [p \in Procs |-> None] /\ stageOrder = [s \in Stages |-> None] /\ asked = <<>>
      /\ explicit = FALSE
  BY DEF RequestsInit, SalesWorkInit
<1>2. StagesThere = {} /\ {stageOrder[s] : s \in StagesThere} = {}
  BY <1>1 DEF StagesThere
<1>3. Cardinality(StagesThere) = 0 /\ 1..0 = {}
  BY <1>2, FS_EmptySet
<1>4. DOMAIN asked = {}
  BY <1>1
<1>5. \A p \in Procs : KnowsStages(p)
  BY <1>1 DEF KnowsStages, Running
<1> QED
  BY <1>1, <1>2, <1>3, <1>4, <1>5 DEF StagesInv, StagesContiguous, StagesAsAsked

\* What Places makes of a list.
LEMMA PlacesOfList ==
  ASSUME NEW o, NEW k \in Nat, IsStageList(o, k)
  PROVE  /\ DOMAIN Places(o) = {o[i] : i \in 1..k} /\ DOMAIN Places(o) \subseteq Stages
         /\ \A i \in 1..k : Places(o)[o[i]] = i
         /\ \A s \in DOMAIN Places(o) : Places(o)[s] \in 1..k
         /\ IsFiniteSet(DOMAIN Places(o)) /\ Cardinality(DOMAIN Places(o)) = k
<1> DEFINE D == {o[i] : i \in 1..k}
<1>1. DOMAIN o = 1..k /\ DOMAIN Places(o) = D
  BY DEF IsStageList, Places
<1>2. ASSUME NEW i \in 1..k
      PROVE  Places(o)[o[i]] = i
  <2>1. o[i] \in {o[j] : j \in DOMAIN o}
    BY <1>1
  <2>2. Places(o)[o[i]] = CHOOSE j \in DOMAIN o : o[j] = o[i]
    BY <2>1 DEF Places
  <2>3. \A j \in DOMAIN o : o[j] = o[i] => j = i
    BY <1>1 DEF IsStageList
  <2> QED
    BY <1>1, <2>2, <2>3
<1>3. o \in Bijection(1..k, D)
  BY <1>1 DEF IsStageList, Bijection, Injection, Surjection, IsInjective
<1>4. IsFiniteSet(1..k) /\ Cardinality(1..k) = k
  BY FS_Interval
<1>5. IsFiniteSet(D) /\ Cardinality(D) = k
  BY <1>3, <1>4, FS_Bijection DEF ExistsBijection
<1> QED
  BY <1>1, <1>2, <1>5 DEF IsStageList

\* If the orders are those from 1 to n and the stages outside D have none of the first k,
\* where D has k stages, those outside have the rest.
LEMMA OrdersOutside ==
  ASSUME NEW D \in SUBSET StagesThere, NEW k \in Nat, Cardinality(D) = k,
         {stageOrder[s] : s \in StagesThere} = 1..Cardinality(StagesThere),
         \A s \in StagesThere \ D : stageOrder[s] \notin 1..k
  PROVE  k <= Cardinality(StagesThere)
         /\ {stageOrder[s] : s \in StagesThere \ D} = (k + 1)..Cardinality(StagesThere)
<1> DEFINE n == Cardinality(StagesThere)
           image == {stageOrder[s] : s \in D}
<1>1. n \in Nat /\ IsFiniteSet(D) /\ k <= n
  BY ThereFinite, FS_Subset
<1>2. [s \in D |-> stageOrder[s]] \in Surjection(D, image)
  BY DEF Surjection
<1>3. IsFiniteSet(image) /\ Cardinality(image) <= k
  BY <1>1, <1>2, FS_Surjection
<1>4. 1..k \subseteq image
  <2>1. ASSUME NEW x \in 1..k
        PROVE  x \in image
    <3>1. x \in {stageOrder[s] : s \in StagesThere}
      BY <1>1
    <3> QED
      BY <3>1
  <2> QED
    BY <2>1
<1>5. Cardinality(1..k) = k /\ Cardinality(image) \in Nat
  BY <1>3, FS_Interval, FS_CardinalityType
<1>6. Cardinality(1..k) <= Cardinality(image)
      /\ (Cardinality(image) = Cardinality(1..k) => image = 1..k)
  BY <1>3, <1>4, FS_Subset
<1>7. image = 1..k
  BY <1>3, <1>5, <1>6
<1>8. ASSUME NEW x \in (k + 1)..n
      PROVE  x \in {stageOrder[s] : s \in StagesThere \ D}
  <2>1. x \in {stageOrder[s] : s \in StagesThere}
    BY <1>1
  <2>2. PICK s \in StagesThere : stageOrder[s] = x
    BY <2>1
  <2>3. x \notin image
    BY <1>7
  <2> QED
    BY <2>2, <2>3
<1>9. ASSUME NEW s \in StagesThere \ D
      PROVE  stageOrder[s] \in (k + 1)..n
  <2>1. stageOrder[s] \in 1..n /\ stageOrder[s] \notin 1..k
    OBVIOUS
  <2> QED
    BY <1>1, <2>1
<1> QED
  BY <1>1, <1>8, <1>9

\* What the requests know stays true when the stages of those that end are created.
LEMMA KnowledgeKept ==
  ASSUME StagesInv, req' = [p \in Procs |-> req'[p]],
         \A p \in Procs : req'[p] = req[p] \/ req'[p] = None,
         StagesThere \subseteq StagesThere',
         \A s \in StagesThere' \ StagesThere :
           \E p \in Procs : Running(p, "stage") /\ s = req[p].stage /\ req'[p] = None,
         stageOrder' \in [Stages -> Nat \cup {None}]
  PROVE  \A p \in Procs : KnowsStages(p)'
<1>1. IsFiniteSet(StagesThere')
  BY SalesWorkAssumption, FS_Subset DEF StagesThere
<1>2. Cardinality(StagesThere) <= Cardinality(StagesThere') /\ Cardinality(StagesThere) \in Nat
      /\ Cardinality(StagesThere') \in Nat
  BY <1>1, ThereFinite, FS_Subset, FS_CardinalityType
<1>3. ASSUME NEW p \in Procs, req'[p] # None
      PROVE  KnowsStages(p)'
  <2>1. req'[p] = req[p] /\ KnowsStages(p)
    BY <1>3 DEF StagesInv
  <2>2. ASSUME Running(p, "stage")
        PROVE  /\ req[p].stage \in Stages /\ stageOrder'[req[p].stage] = None
               /\ req[p].count \in Nat /\ req[p].count <= Cardinality(StagesThere')
               /\ \A q \in Procs : q # p /\ Running(q, "stage")' => req'[q].stage # req'[p].stage
    <3>1. /\ req[p].stage \in Stages /\ stageOrder[req[p].stage] = None
          /\ req[p].count \in Nat /\ req[p].count <= Cardinality(StagesThere)
          /\ \A q \in Procs : q # p /\ Running(q, "stage") => req[q].stage # req[p].stage
      BY <2>1, <2>2 DEF KnowsStages
    <3>2. req[p].stage \notin StagesThere
      BY <3>1 DEF StagesThere
    <3>3. req[p].stage \notin StagesThere'
      BY <1>3, <2>1, <3>1, <3>2
    <3>4. stageOrder'[req[p].stage] = None
      BY <3>1, <3>3 DEF StagesThere
    <3>5. \A q \in Procs : Running(q, "stage")' => Running(q, "stage") /\ req'[q] = req[q]
      BY DEF Running
    <3> QED
      BY <1>2, <2>1, <3>1, <3>4, <3>5
  <2>3. ASSUME Running(p, "reorder")
        PROVE  \E k \in Nat : IsStageList(req[p].order, k)
                              /\ \A i \in 1..k : req[p].order[i] \in StagesThere'
    BY <2>1, <2>3 DEF KnowsStages
  <2> QED
    BY <2>1, <2>2, <2>3 DEF KnowsStages, Running, IsStageList
<1> QED
  BY <1>3 DEF KnowsStages, Running

LEMMA CreateReadKeeps ==
  ASSUME StagesInv, NEW p \in Procs, CreateStageRead(p)
  PROVE  StagesInv'
<1>1. PICK s \in Stages \ StagesThere :
        /\ ~\E q \in Procs : req[q] # None /\ req[q].op = "stage" /\ req[q].stage = s
        /\ Start(p, [op |-> "stage", stage |-> s, count |-> Cardinality(StagesThere)])
  BY DEF CreateStageRead
<1>2. PICK r : r = [op |-> "stage", stage |-> s, count |-> Cardinality(StagesThere)]
  OBVIOUS
<1>3. r.op = "stage" /\ r.stage = s /\ r.count = Cardinality(StagesThere)
  BY <1>2
<1>4. req' = [req EXCEPT ![p] = r] /\ UNCHANGED workVars
  BY <1>1, <1>2 DEF Start, CreateStageRead
<1>5. req' = [q \in Procs |-> req'[q]] /\ req'[p] = r
      /\ \A q \in Procs : q # p => req'[q] = req[q]
  BY <1>4 DEF StagesInv
<1>6. UNCHANGED <<stageOrder, asked, explicit, StagesThere>>
  BY <1>4 DEF workVars, StagesThere
<1>7. stageOrder[s] = None
  BY DEF StagesThere
<1>8. \A q \in Procs : q # p /\ Running(q, "stage")' => req'[q].stage # s
  BY <1>1, <1>5 DEF Running
<1>9. KnowsStages(p)'
  BY <1>3, <1>5, <1>6, <1>7, <1>8, ThereFinite DEF KnowsStages, Running
<1>10. ASSUME NEW q \in Procs, q # p
       PROVE  KnowsStages(q)'
  <2>1. KnowsStages(q) /\ req'[q] = req[q]
    BY <1>5, <1>10 DEF StagesInv
  <2>2. Running(q, "stage") => req[q].stage # s
    BY <1>1 DEF Running
  <2>3. ASSUME Running(q, "stage")
        PROVE  \A t \in Procs : t # q /\ Running(t, "stage")' => req'[t].stage # req'[q].stage
    BY <1>3, <1>5, <2>1, <2>2, <2>3 DEF KnowsStages, Running
  <2>4. Running(q, "stage")' <=> Running(q, "stage")
    BY <2>1 DEF Running
  <2>5. Running(q, "reorder")' <=> Running(q, "reorder")
    BY <2>1 DEF Running
  <2> QED
    BY <1>6, <2>1, <2>3, <2>4, <2>5 DEF KnowsStages, IsStageList
<1> QED
  BY <1>5, <1>6, <1>9, <1>10 DEF StagesInv, StagesContiguous, StagesAsAsked

LEMMA ReorderReadKeeps ==
  ASSUME StagesInv, NEW p \in Procs, ReorderRead(p)
  PROVE  StagesInv'
<1>1. PICK o \in StageLists(StagesThere) : Start(p, [op |-> "reorder", order |-> o])
  BY DEF ReorderRead
<1>2. PICK r : r = [op |-> "reorder", order |-> o]
  OBVIOUS
<1>3. r.op = "reorder" /\ r.order = o
  BY <1>2
<1>4. req' = [req EXCEPT ![p] = r] /\ UNCHANGED workVars
  BY <1>1, <1>2 DEF Start, ReorderRead
<1>5. req' = [q \in Procs |-> req'[q]] /\ req'[p] = r
      /\ \A q \in Procs : q # p => req'[q] = req[q]
  BY <1>4 DEF StagesInv
<1>6. UNCHANGED <<stageOrder, asked, explicit, StagesThere>>
  BY <1>4 DEF workVars, StagesThere
<1>7. PICK k \in Nat : k = Cardinality(StagesThere)
  BY ThereFinite
<1>8. IsStageList(o, k) /\ \A i \in 1..k : o[i] \in StagesThere
  BY <1>7, ThereFinite DEF StageLists, IsStageList
<1>9. KnowsStages(p)'
  BY <1>3, <1>5, <1>6, <1>8 DEF KnowsStages, Running, IsStageList
<1>10. ASSUME NEW q \in Procs, q # p
       PROVE  KnowsStages(q)'
  <2>1. KnowsStages(q) /\ req'[q] = req[q]
    BY <1>5, <1>10 DEF StagesInv
  <2>2. \A t \in Procs : Running(t, "stage")' => Running(t, "stage") /\ req'[t] = req[t]
    BY <1>3, <1>5 DEF Running
  <2>3. Running(q, "reorder")' <=> Running(q, "reorder")
    BY <2>1 DEF Running
  <2> QED
    BY <1>6, <2>1, <2>2, <2>3 DEF KnowsStages, IsStageList
<1> QED
  BY <1>5, <1>6, <1>9, <1>10 DEF StagesInv, StagesContiguous, StagesAsAsked

LEMMA UpdateStageKeeps ==
  ASSUME StagesInv, UpdateStage
  PROVE  StagesInv'
<1>1. PICK s \in StagesThere, place \in 1..Cardinality(Stages) :
        stageOrder' = [stageOrder EXCEPT ![s] = place]
  BY DEF UpdateStage
<1>2. place \in Nat /\ place # None /\ s \in Stages
  BY SalesWorkAssumption, ThereFinite, FS_CardinalityType
<1>3. stageOrder' \in [Stages -> Nat \cup {None}] /\ StagesThere' = StagesThere
  BY <1>1, <1>2 DEF StagesInv, StagesThere
<1>4. UNCHANGED <<req, asked>> /\ explicit' = TRUE
  BY DEF UpdateStage
<1>5. \A p \in Procs : KnowsStages(p)'
  BY <1>3, <1>4, KnowledgeKept DEF StagesInv
<1> QED
  BY <1>3, <1>4, <1>5 DEF StagesInv, StagesContiguous, StagesAsAsked

LEMMA CreateWriteKeeps ==
  ASSUME StagesInv, NEW p \in Procs, CreateStageWrite(p)
  PROVE  StagesInv'
<1>1. Running(p, "stage") /\ req' = [req EXCEPT ![p] = None] /\ asked' = asked
  BY DEF CreateStageWrite, Done
<1>2. PICK s, c : s = req[p].stage /\ c = req[p].count
  OBVIOUS
<1>3. /\ s \in Stages /\ stageOrder[s] = None /\ c \in Nat /\ c <= Cardinality(StagesThere)
      /\ s \notin StagesThere
  BY <1>1, <1>2 DEF StagesInv, KnowsStages, StagesThere
<1>4. req' = [q \in Procs |-> req'[q]] /\ (\A q \in Procs : req'[q] = req[q] \/ req'[q] = None)
      /\ req'[p] = None
  BY <1>1 DEF StagesInv
<1>5. ASSUME UNCHANGED stageOrder, explicit' \in {explicit, TRUE}
      PROVE  StagesInv'
  <2>1. StagesThere' = StagesThere
    BY <1>5 DEF StagesThere
  <2>2. \A q \in Procs : KnowsStages(q)'
    BY <1>4, <1>5, <2>1, KnowledgeKept DEF StagesInv
  <2> QED
    BY <1>1, <1>4, <1>5, <2>1, <2>2 DEF StagesInv, StagesContiguous, StagesAsAsked
<1>6. ASSUME NEW place \in Nat, OrderFree(s, place),
             stageOrder' = [stageOrder EXCEPT ![s] = place],
             explicit' = TRUE \/ (explicit' = explicit /\ place = c + 1)
      PROVE  StagesInv'
  <2>1. place # None
    BY SalesWorkAssumption
  <2>2. stageOrder' \in [Stages -> Nat \cup {None}] /\ stageOrder'[s] = place
        /\ \A t \in Stages \ {s} : stageOrder'[t] = stageOrder[t]
    BY <1>3, <1>6 DEF StagesInv
  <2>3. StagesThere' = StagesThere \cup {s}
    BY <1>3, <2>1, <2>2 DEF StagesThere
  <2>4. \A q \in Procs : KnowsStages(q)'
    BY <1>1, <1>2, <1>4, <2>2, <2>3, KnowledgeKept
  <2>5. \A i \in DOMAIN asked : asked[i] \in StagesThere /\ stageOrder'[asked[i]] = stageOrder[asked[i]]
    BY <1>3, <2>2, ThereFinite DEF StagesInv
  <2>6. StagesAsAsked'
    BY <1>1, <1>6, <2>5 DEF StagesInv, StagesAsAsked
  <2>7. ASSUME ~explicit'
        PROVE  {stageOrder'[t] : t \in StagesThere'} = 1..Cardinality(StagesThere')
    <3>1. PICK n \in Nat : n = Cardinality(StagesThere)
      BY ThereFinite
    <3>2. {stageOrder[t] : t \in StagesThere} = 1..n /\ place = c + 1
      BY <1>6, <2>7, <3>1 DEF StagesInv, StagesContiguous
    <3>3. \A t \in StagesThere : stageOrder[t] # place
      BY <1>3, <1>6 DEF OrderFree
    <3>4. place \notin 1..n
      BY <3>2, <3>3
    <3>5. place = n + 1
      BY <1>3, <3>1, <3>2, <3>4
    <3>6. Cardinality(StagesThere') = n + 1
      BY <1>3, <2>3, <3>1, ThereFinite, FS_AddElement
    <3>7. {stageOrder'[t] : t \in StagesThere'} = {stageOrder[t] : t \in StagesThere} \cup {place}
      <4>1. \A t \in StagesThere : stageOrder'[t] = stageOrder[t]
        BY <1>3, <2>2, ThereFinite
      <4> QED
        BY <2>2, <2>3, <4>1
    <3>8. 1..(n + 1) = (1..n) \cup {n + 1}
      OBVIOUS
    <3> QED
      BY <3>2, <3>5, <3>6, <3>7, <3>8
  <2>8. \A i \in DOMAIN asked : asked[i] \in StagesThere'
    BY <2>3, <2>5
  <2>9. explicit' \in BOOLEAN
    BY <1>6 DEF StagesInv
  <2> QED
    BY <1>1, <1>4, <2>2, <2>4, <2>6, <2>7, <2>8, <2>9 DEF StagesInv, StagesContiguous
<1>7. \/ /\ OrderFree(s, c + 1) /\ stageOrder' = [stageOrder EXCEPT ![s] = c + 1]
         /\ UNCHANGED explicit
      \/ \E place \in 1..Cardinality(Stages) :
           /\ OrderFree(s, place) /\ stageOrder' = [stageOrder EXCEPT ![s] = place]
           /\ explicit' = TRUE
      \/ UNCHANGED stageOrder /\ explicit' \in {explicit, TRUE}
  BY <1>2 DEF CreateStageWrite, DefaultOrder
<1>8. c + 1 \in Nat /\ 1..Cardinality(Stages) \subseteq Nat
  BY <1>3, SalesWorkAssumption, FS_CardinalityType
<1>9. CASE OrderFree(s, c + 1) /\ stageOrder' = [stageOrder EXCEPT ![s] = c + 1]
           /\ UNCHANGED explicit
  BY <1>6, <1>8, <1>9
<1>10. ASSUME NEW place \in 1..Cardinality(Stages), OrderFree(s, place),
              stageOrder' = [stageOrder EXCEPT ![s] = place], explicit' = TRUE
       PROVE  StagesInv'
  <2>1. place \in Nat
    BY <1>8
  <2>2. explicit' = TRUE \/ (explicit' = explicit /\ place = c + 1)
    BY <1>10
  <2>3. OrderFree(s, place) /\ stageOrder' = [stageOrder EXCEPT ![s] = place]
    BY <1>10
  <2> QED
    BY <1>6, <2>1, <2>2, <2>3
<1> QED
  BY <1>5, <1>7, <1>9, <1>10

LEMMA ReorderWriteKeeps ==
  ASSUME StagesInv, NEW p \in Procs, ReorderWrite(p)
  PROVE  StagesInv'
<1>1. PICK o : o = req[p].order
  OBVIOUS
<1>2. Running(p, "reorder") /\ req' = [req EXCEPT ![p] = None]
  BY DEF ReorderWrite, Done
<1>3. PICK k \in Nat : IsStageList(o, k) /\ \A i \in 1..k : o[i] \in StagesThere
  BY <1>1, <1>2 DEF StagesInv, KnowsStages
<1>4. PICK places : places = Places(o)
  OBVIOUS
<1>5. PICK D : D = DOMAIN places
  OBVIOUS
<1>6. /\ D = {o[i] : i \in 1..k} /\ IsFiniteSet(D) /\ Cardinality(D) = k
      /\ \A i \in 1..k : places[o[i]] = i
      /\ \A s \in D : places[s] \in 1..k
  BY <1>3, <1>4, <1>5, PlacesOfList
<1>7. D \subseteq StagesThere
  BY <1>3, <1>6
<1>8. req' = [q \in Procs |-> req'[q]] /\ \A q \in Procs : req'[q] = req[q] \/ req'[q] = None
  BY <1>2 DEF StagesInv
<1>9. CASE UNCHANGED <<stageOrder, asked, explicit>>
  <2>1. StagesThere' = StagesThere
    BY <1>9 DEF StagesThere
  <2>2. \A q \in Procs : KnowsStages(q)'
    BY <1>8, <1>9, <2>1, KnowledgeKept DEF StagesInv
  <2> QED
    BY <1>8, <1>9, <2>1, <2>2 DEF StagesInv, StagesContiguous, StagesAsAsked
<1>10. CASE /\ \A s \in StagesThere \ D, t \in D : stageOrder[s] # places[t]
            /\ stageOrder' = [s \in Stages |-> IF s \in D THEN places[s] ELSE stageOrder[s]]
            /\ asked' = o /\ explicit' = (explicit /\ StagesThere # D)
  <2>1. stageOrder' \in [Stages -> Nat \cup {None}]
    BY <1>6, <1>10 DEF StagesInv
  <2>2. \A s \in D : stageOrder'[s] = places[s] /\ stageOrder'[s] # None
    BY <1>6, <1>7, <1>10, ThereFinite, SalesWorkAssumption
  <2>3. \A s \in Stages \ D : stageOrder'[s] = stageOrder[s]
    BY <1>10
  <2>4. StagesThere' = StagesThere
    BY <1>7, <2>2, <2>3, ThereFinite DEF StagesThere
  <2>5. \A q \in Procs : KnowsStages(q)'
    BY <1>8, <2>1, <2>4, KnowledgeKept
  <2>6. DOMAIN o = 1..k
    BY <1>3 DEF IsStageList
  <2>7. StagesAsAsked'
    <3>1. \A i \in 1..k : stageOrder'[o[i]] = i
      BY <1>6, <2>2
    <3> QED
      BY <1>10, <2>6, <3>1 DEF StagesAsAsked
  <2>8. explicit' \in BOOLEAN
    BY <1>10
  <2>9. {stageOrder'[s] : s \in D} = 1..k
    <3>1. \A s \in D : stageOrder'[s] \in 1..k
      BY <1>6, <2>2
    <3>2. \A i \in 1..k : o[i] \in D /\ stageOrder'[o[i]] = i
      BY <1>6, <2>2
    <3> QED
      BY <3>1, <3>2
  <2>10. ASSUME ~explicit'
         PROVE  {stageOrder'[s] : s \in StagesThere} = 1..Cardinality(StagesThere)
    <3>1. CASE StagesThere = D
      BY <1>6, <2>9, <3>1
    <3>2. CASE StagesThere # D
      <4>1. {stageOrder[s] : s \in StagesThere} = 1..Cardinality(StagesThere)
        BY <1>10, <2>10, <3>2 DEF StagesInv, StagesContiguous
      <4>2. ASSUME NEW s \in StagesThere \ D
            PROVE  stageOrder[s] \notin 1..k
        <5>1. ASSUME stageOrder[s] \in 1..k
              PROVE  FALSE
          <6>1. o[stageOrder[s]] \in D /\ places[o[stageOrder[s]]] = stageOrder[s]
            BY <1>6, <5>1
          <6> QED
            BY <1>10, <6>1
        <5> QED
          BY <5>1
      <4>3. PICK n \in Nat : n = Cardinality(StagesThere)
        BY ThereFinite
      <4>4. k <= n /\ {stageOrder[s] : s \in StagesThere \ D} = (k + 1)..n
        BY <1>6, <1>7, <4>1, <4>2, <4>3, OrdersOutside
      <4>5. \A s \in StagesThere \ D : stageOrder'[s] = stageOrder[s]
        BY <2>3, ThereFinite
      <4>6. {stageOrder'[s] : s \in StagesThere \ D} = {stageOrder[s] : s \in StagesThere \ D}
        BY <4>5
      <4>7. {stageOrder'[s] : s \in StagesThere}
              = {stageOrder'[s] : s \in D} \cup {stageOrder'[s] : s \in StagesThere \ D}
        BY <1>7
      <4>8. 1..n = (1..k) \cup ((k + 1)..n)
        BY <4>4
      <4> QED
        BY <2>9, <4>3, <4>4, <4>6, <4>7, <4>8
    <3> QED
      BY <3>1, <3>2
  <2> QED
    BY <1>3, <1>8, <1>10, <2>1, <2>4, <2>5, <2>6, <2>7, <2>8, <2>10
       DEF StagesInv, StagesContiguous
<1> QED
  BY <1>1, <1>4, <1>5, <1>9, <1>10 DEF ReorderWrite

StagesNext ==
  \/ UpdateStage
  \/ \E p \in Procs : CreateStageRead(p) \/ CreateStageWrite(p) \/ ReorderRead(p) \/ ReorderWrite(p)

LEMMA StagesKeep ==
  ASSUME StagesInv, StagesNext
  PROVE  StagesInv'
BY UpdateStageKeeps, CreateReadKeeps, CreateWriteKeeps, ReorderReadKeeps, ReorderWriteKeeps
   DEF StagesNext

LEMMA StagesRest ==
  ASSUME StagesContiguous /\ StagesAsAsked, UNCHANGED <<stageOrder, asked, explicit>>
  PROVE  (StagesContiguous /\ StagesAsAsked)'
<1>1. StagesThere' = StagesThere
  BY DEF StagesThere
<1> QED
  BY <1>1 DEF StagesContiguous, StagesAsAsked

LEMMA StagesStutter ==
  ASSUME StagesInv, UNCHANGED <<req, stageOrder, asked, explicit>>
  PROVE  StagesInv'
<1>1. StagesThere' = StagesThere
  BY DEF StagesThere
<1>2. \A p \in Procs : KnowsStages(p)'
  BY <1>1, KnowledgeKept DEF StagesInv
<1> QED
  BY <1>1, <1>2 DEF StagesInv, StagesContiguous, StagesAsAsked

(***************************************************************************)
(* Sales: the viewings.                                                    *)
(***************************************************************************)

BookedStatuses == {"REQUESTED", "CONFIRMED"}
LaterStatuses == {"CONFIRMED", "COMPLETED", "CANCELLED", "NO_SHOW"}

\* The viewings that a request is about to create.
KnowsViewing(p) ==
  /\ Running(p, "viewing") =>
       /\ req[p].row \in Viewings /\ req[p].slot \in Slots
       /\ \A q \in Procs : q # p /\ Running(q, "viewing") => {req[p].row, req[q].row} \in crossed
       /\ \A w \in Viewings :
            w # req[p].row /\ Booked(w) /\ viewing[w].slot = req[p].slot
              => {req[p].row, w} \in crossed \/ viewing[w].moved
  /\ Running(p, "viewing status") =>
       /\ req[p].of \in Viewings /\ viewing[req[p].of] \in ViewingRow
       /\ req[p].from \in BookedStatuses /\ req[p].to \in LaterStatuses

ViewingsInv ==
  /\ req = [p \in Procs |-> req[p]]
  /\ viewing \in [Viewings -> ViewingRow \cup {None}]
  /\ \A p \in Procs : KnowsViewing(p)
  /\ \A v \in Viewings : viewing[v] \in ViewingRow =>
       viewing[v].outcomes <= 1 /\ (viewing[v].status \in BookedStatuses => viewing[v].outcomes = 0)
  /\ NoDoubleBooking

LEMMA TransitionsLeadOn ==
  /\ DOMAIN ViewingTransitions = {"REQUESTED", "CONFIRMED", "COMPLETED", "CANCELLED", "NO_SHOW"}
  /\ \A s \in DOMAIN ViewingTransitions : \A t \in ViewingTransitions[s] :
       s \in BookedStatuses /\ t \in LaterStatuses
<1>1. DOMAIN ViewingTransitions = {"REQUESTED", "CONFIRMED", "COMPLETED", "CANCELLED", "NO_SHOW"}
  BY DEF ViewingTransitions
<1>2. ViewingTransitions["REQUESTED"] = {"CONFIRMED", "CANCELLED"}
      /\ ViewingTransitions["CONFIRMED"] = {"COMPLETED", "CANCELLED", "NO_SHOW"}
      /\ ViewingTransitions["COMPLETED"] = {} /\ ViewingTransitions["CANCELLED"] = {}
      /\ ViewingTransitions["NO_SHOW"] = {}
  BY DEF ViewingTransitions
<1> QED
  BY <1>1, <1>2 DEF BookedStatuses, LaterStatuses

LEMMA ViewingsInitial ==
  ASSUME RequestsInit, SalesWorkInit
  PROVE  ViewingsInv
<1>1. req = [p \in Procs |-> None] /\ viewing = [v \in Viewings |-> None]
  BY DEF RequestsInit, SalesWorkInit
<1>2. \A p \in Procs : KnowsViewing(p)
  BY <1>1 DEF KnowsViewing, Running
<1>3. \A v \in Viewings : ~Booked(v)
  BY <1>1 DEF Booked
<1>4. \A v \in Viewings : viewing[v] \in ViewingRow =>
       viewing[v].outcomes <= 1 /\ (viewing[v].status \in BookedStatuses => viewing[v].outcomes = 0)
  BY <1>1, SalesWorkAssumption
<1> QED
  BY <1>1, <1>2, <1>3, <1>4 DEF ViewingsInv, NoDoubleBooking

\* What a request knows stays true when another steps.
LEMMA ViewingKnowledge ==
  ASSUME NEW q \in Procs, KnowsViewing(q), req'[q] = req[q], crossed \subseteq crossed',
         \A v \in Viewings : viewing[v] \in ViewingRow => viewing'[v] \in ViewingRow,
         Running(q, "viewing") => \A t \in Procs :
           t # q /\ Running(t, "viewing")'
             => (Running(t, "viewing") /\ req'[t] = req[t]) \/ {req[q].row, req'[t].row} \in crossed',
         Running(q, "viewing") => \A w \in Viewings :
           w # req[q].row /\ Booked(w)' /\ viewing'[w].slot = req[q].slot
             => \/ Booked(w) /\ viewing[w].slot = req[q].slot
                   /\ (viewing[w].moved => viewing'[w].moved)
                \/ {req[q].row, w} \in crossed' \/ viewing'[w].moved
  PROVE  KnowsViewing(q)'
<1>1. (Running(q, "viewing")' <=> Running(q, "viewing"))
      /\ (Running(q, "viewing status")' <=> Running(q, "viewing status"))
  BY DEF Running
<1>2. ASSUME Running(q, "viewing"), NEW t \in Procs, t # q, Running(t, "viewing")'
      PROVE  {req'[q].row, req'[t].row} \in crossed'
  <2>1. CASE Running(t, "viewing") /\ req'[t] = req[t]
    <3>1. {req[q].row, req[t].row} \in crossed
      BY <1>2, <2>1 DEF KnowsViewing
    <3>2. {req[q].row, req[t].row} \in crossed'
      BY <3>1
    <3> QED
      BY <2>1, <3>2
  <2>2. CASE {req[q].row, req'[t].row} \in crossed'
    BY <2>2
  <2> QED
    BY <1>2, <2>1, <2>2
<1>3. ASSUME Running(q, "viewing"), NEW w \in Viewings, w # req'[q].row, Booked(w)',
             viewing'[w].slot = req'[q].slot
      PROVE  {req'[q].row, w} \in crossed' \/ viewing'[w].moved
  <2>1. CASE Booked(w) /\ viewing[w].slot = req[q].slot /\ (viewing[w].moved => viewing'[w].moved)
    <3>1. {req[q].row, w} \in crossed \/ viewing[w].moved
      BY <1>3, <2>1 DEF KnowsViewing
    <3> QED
      BY <2>1, <3>1
  <2>2. CASE {req[q].row, w} \in crossed' \/ viewing'[w].moved
    BY <2>2
  <2> QED
    BY <1>3, <2>1, <2>2
<1>4. Running(q, "viewing") => req'[q].row \in Viewings /\ req'[q].slot \in Slots
  BY DEF KnowsViewing
<1>5. ASSUME Running(q, "viewing status")
      PROVE  /\ req'[q].of \in Viewings /\ viewing'[req'[q].of] \in ViewingRow
             /\ req'[q].from \in BookedStatuses /\ req'[q].to \in LaterStatuses
  BY <1>5 DEF KnowsViewing
<1> QED
  BY <1>1, <1>2, <1>3, <1>4, <1>5 DEF KnowsViewing

LEMMA CreateViewingReadKeeps ==
  ASSUME ViewingsInv, NEW p \in Procs, CreateViewingRead(p)
  PROVE  ViewingsInv'
<1>1. PICK v \in Viewings, slot \in Slots :
        /\ ~Conflict(slot) /\ Start(p, [op |-> "viewing", row |-> v, slot |-> slot])
        /\ crossed' = crossed \cup {{v, req[q].row} : q \in {x \in Procs : Running(x, "viewing")}}
  BY DEF CreateViewingRead
<1>2. PICK r : r = [op |-> "viewing", row |-> v, slot |-> slot]
  OBVIOUS
<1>3. r.op = "viewing" /\ r.row = v /\ r.slot = slot
  BY <1>2
<1>4. req' = [req EXCEPT ![p] = r] /\ viewing' = viewing
  BY <1>1, <1>2 DEF Start, CreateViewingRead
<1>5. req' = [q \in Procs |-> req'[q]] /\ req'[p] = r
      /\ \A q \in Procs : q # p => req'[q] = req[q]
  BY <1>4 DEF ViewingsInv
<1>6. \A q \in Procs : Running(q, "viewing") => {v, req[q].row} \in crossed'
  BY <1>1
<1>7. crossed \subseteq crossed'
  BY <1>1
<1>8. \A w \in Viewings : (Booked(w)' <=> Booked(w)) /\ (Booked(w) => viewing[w].slot # slot)
  BY <1>1, <1>4 DEF Conflict, Booked
<1>9. KnowsViewing(p)'
  BY <1>3, <1>4, <1>5, <1>6, <1>8 DEF KnowsViewing, Running
<1>10. ASSUME NEW q \in Procs, q # p
       PROVE  KnowsViewing(q)'
  <2>1. KnowsViewing(q) /\ req'[q] = req[q]
    BY <1>5, <1>10 DEF ViewingsInv
  <2>2. ASSUME Running(q, "viewing"), NEW t \in Procs, t # q, Running(t, "viewing")'
        PROVE  (Running(t, "viewing") /\ req'[t] = req[t])
               \/ {req[q].row, req'[t].row} \in crossed'
    <3>1. CASE t = p
      <4>1. {v, req[q].row} \in crossed' /\ req'[t].row = v
        BY <1>3, <1>5, <1>6, <2>2, <3>1
      <4>2. {v, req[q].row} = {req[q].row, v}
        OBVIOUS
      <4> QED
        BY <4>1, <4>2
    <3>2. CASE t # p
      BY <1>5, <2>2, <3>2 DEF Running
    <3> QED
      BY <3>1, <3>2
  <2>3. \A w \in Viewings : Booked(w)' => Booked(w) /\ viewing'[w] = viewing[w]
    BY <1>4, <1>8
  <2> QED
    BY <1>4, <1>7, <2>1, <2>2, <2>3, ViewingKnowledge
<1>11. NoDoubleBooking'
  BY <1>4, <1>7, <1>8 DEF ViewingsInv, NoDoubleBooking
<1> QED
  BY <1>4, <1>5, <1>9, <1>10, <1>11 DEF ViewingsInv

LEMMA CreateViewingWriteKeeps ==
  ASSUME ViewingsInv, NEW p \in Procs, CreateViewingWrite(p)
  PROVE  ViewingsInv'
<1>1. PICK v, slot : v = req[p].row /\ slot = req[p].slot
  OBVIOUS
<1>2. PICK row : row = [slot |-> slot, status |-> "REQUESTED", moved |-> FALSE, outcomes |-> 0]
  OBVIOUS
<1>3. /\ Running(p, "viewing") /\ req' = [req EXCEPT ![p] = None] /\ crossed' = crossed
      /\ viewing' = [viewing EXCEPT ![v] = row]
  BY <1>1, <1>2 DEF CreateViewingWrite, Done
<1>4. v \in Viewings /\ slot \in Slots
      /\ (\A q \in Procs : q # p /\ Running(q, "viewing") => {v, req[q].row} \in crossed)
      /\ (\A w \in Viewings : w # v /\ Booked(w) /\ viewing[w].slot = slot
            => {v, w} \in crossed \/ viewing[w].moved)
  BY <1>1, <1>3 DEF ViewingsInv, KnowsViewing
<1>5. row \in ViewingRow /\ row.slot = slot /\ row.outcomes = 0
  BY <1>2, <1>4, TransitionsLeadOn DEF ViewingRow
<1>6. viewing' \in [Viewings -> ViewingRow \cup {None}] /\ viewing'[v] = row
      /\ \A w \in Viewings : w # v => viewing'[w] = viewing[w]
  BY <1>3, <1>4, <1>5 DEF ViewingsInv
<1>7. req' = [q \in Procs |-> req'[q]] /\ req'[p] = None
      /\ \A q \in Procs : q # p => req'[q] = req[q]
  BY <1>3 DEF ViewingsInv
<1>8. \A w \in Viewings : w # v => (Booked(w)' <=> Booked(w)) /\ viewing'[w] = viewing[w]
  BY <1>6 DEF Booked
<1>9. ASSUME NEW q \in Procs, req'[q] # None
      PROVE  KnowsViewing(q)'
  <2>1. q # p /\ req'[q] = req[q] /\ KnowsViewing(q)
    BY <1>7, <1>9 DEF ViewingsInv
  <2>2. \A t \in Procs : Running(t, "viewing")' => Running(t, "viewing") /\ req'[t] = req[t]
    BY <1>7 DEF Running
  <2>3. ASSUME Running(q, "viewing")
        PROVE  {req[q].row, v} \in crossed
    <3>1. {v, req[q].row} \in crossed
      BY <1>4, <2>1, <2>3
    <3>2. {v, req[q].row} = {req[q].row, v}
      OBVIOUS
    <3> QED
      BY <3>1, <3>2
  <2>4. \A w \in Viewings : viewing[w] \in ViewingRow => viewing'[w] \in ViewingRow
    BY <1>5, <1>6
  <2>5. \A w \in Viewings : w = v \/ (Booked(w)' => Booked(w) /\ viewing'[w] = viewing[w])
    BY <1>8
  <2> QED
    BY <1>3, <2>1, <2>2, <2>3, <2>4, <2>5, ViewingKnowledge
<1>10. \A q \in Procs : KnowsViewing(q)'
  BY <1>9 DEF KnowsViewing, Running
<1>11. NoDoubleBooking'
  <2>1. ASSUME NEW x \in Viewings, NEW w \in Viewings, x # w, Booked(x)', Booked(w)',
               viewing'[x].slot = viewing'[w].slot
        PROVE  {x, w} \in crossed \/ viewing'[x].moved \/ viewing'[w].moved
    <3>1. CASE x # v /\ w # v
      BY <1>8, <2>1, <3>1 DEF ViewingsInv, NoDoubleBooking
    <3>2. CASE x = v
      BY <1>4, <1>5, <1>6, <1>8, <2>1, <3>2
    <3>3. CASE w = v
      <4>1. {v, x} \in crossed \/ viewing'[x].moved
        BY <1>4, <1>5, <1>6, <1>8, <2>1, <3>3
      <4>2. {v, x} = {x, w}
        BY <3>3
      <4> QED
        BY <4>1, <4>2
    <3> QED
      BY <3>1, <3>2, <3>3
  <2> QED
    BY <1>3, <2>1 DEF NoDoubleBooking
<1>12. \A w \in Viewings : viewing'[w] \in ViewingRow => viewing'[w].outcomes <= 1
         /\ (viewing'[w].status \in BookedStatuses => viewing'[w].outcomes = 0)
  BY <1>5, <1>6 DEF ViewingsInv
<1> QED
  BY <1>6, <1>7, <1>10, <1>11, <1>12 DEF ViewingsInv

LEMMA ViewingReadKeeps ==
  ASSUME ViewingsInv, NEW p \in Procs, ViewingStatusRead(p)
  PROVE  ViewingsInv'
<1>1. PICK v \in Viewings : viewing[v] # None /\ \E to \in ViewingTransitions[viewing[v].status] :
        Start(p, [op |-> "viewing status", of |-> v, from |-> viewing[v].status, to |-> to])
  BY DEF ViewingStatusRead
<1>2. PICK to \in ViewingTransitions[viewing[v].status] :
        Start(p, [op |-> "viewing status", of |-> v, from |-> viewing[v].status, to |-> to])
  BY <1>1
<1>3. PICK r : r = [op |-> "viewing status", of |-> v, from |-> viewing[v].status, to |-> to]
  OBVIOUS
<1>4. r.op = "viewing status" /\ r.of = v /\ r.from = viewing[v].status /\ r.to = to
  BY <1>3
<1>5. viewing[v] \in ViewingRow /\ viewing[v].status \in DOMAIN ViewingTransitions
  BY <1>1 DEF ViewingsInv, ViewingRow
<1>6. r.from \in BookedStatuses /\ r.to \in LaterStatuses
  BY <1>2, <1>4, <1>5, TransitionsLeadOn
<1>7. req' = [req EXCEPT ![p] = r] /\ UNCHANGED <<viewing, crossed>>
  BY <1>2, <1>3 DEF Start, ViewingStatusRead, workVars
<1>8. req' = [q \in Procs |-> req'[q]] /\ req'[p] = r
      /\ \A q \in Procs : q # p => req'[q] = req[q]
  BY <1>7 DEF ViewingsInv
<1>9. KnowsViewing(p)'
  BY <1>4, <1>5, <1>6, <1>7, <1>8 DEF KnowsViewing, Running
<1>10. ASSUME NEW q \in Procs, q # p
       PROVE  KnowsViewing(q)'
  <2>1. KnowsViewing(q) /\ req'[q] = req[q]
    BY <1>8, <1>10 DEF ViewingsInv
  <2>2. \A t \in Procs : Running(t, "viewing")' => Running(t, "viewing") /\ req'[t] = req[t]
    BY <1>4, <1>8 DEF Running
  <2>3. \A w \in Viewings : Booked(w)' => Booked(w) /\ viewing'[w] = viewing[w]
    BY <1>7 DEF Booked
  <2> QED
    BY <1>7, <2>1, <2>2, <2>3, ViewingKnowledge
<1> QED
  BY <1>7, <1>8, <1>9, <1>10 DEF ViewingsInv, NoDoubleBooking, Booked

LEMMA ViewingWriteKeeps ==
  ASSUME ViewingsInv, NEW p \in Procs, ViewingStatusWrite(p)
  PROVE  ViewingsInv'
<1>1. PICK v, to : v = req[p].of /\ to = req[p].to
  OBVIOUS
<1>2. Running(p, "viewing status") /\ req' = [req EXCEPT ![p] = None] /\ crossed' = crossed
  BY DEF ViewingStatusWrite, Done
<1>3. v \in Viewings /\ viewing[v] \in ViewingRow /\ req[p].from \in BookedStatuses
      /\ to \in LaterStatuses
  BY <1>1, <1>2 DEF ViewingsInv, KnowsViewing
<1>4. req' = [q \in Procs |-> req'[q]] /\ req'[p] = None
      /\ \A q \in Procs : q # p => req'[q] = req[q]
  BY <1>2 DEF ViewingsInv
<1>5. \A t \in Procs : Running(t, "viewing")' => Running(t, "viewing") /\ req'[t] = req[t]
  BY <1>4 DEF Running
<1>6. CASE UNCHANGED viewing
  <2>1. ASSUME NEW q \in Procs, req'[q] # None
        PROVE  KnowsViewing(q)'
    <3>1. req'[q] = req[q] /\ KnowsViewing(q)
      BY <1>4, <2>1 DEF ViewingsInv
    <3>2. \A w \in Viewings : Booked(w)' => Booked(w) /\ viewing'[w] = viewing[w]
      BY <1>6 DEF Booked
    <3> QED
      BY <1>2, <1>5, <1>6, <3>1, <3>2, ViewingKnowledge
  <2>2. \A q \in Procs : KnowsViewing(q)'
    BY <2>1 DEF KnowsViewing, Running
  <2> QED
    BY <1>2, <1>4, <1>6, <2>2 DEF ViewingsInv, NoDoubleBooking, Booked
<1>7. ASSUME viewing[v].status \in BookedStatuses, NEW slot \in Slots,
             viewing' = [viewing EXCEPT ![v] =
               [slot |-> slot, status |-> to, moved |-> @.moved \/ slot # @.slot,
                outcomes |-> IF to = "CONFIRMED" THEN @.outcomes ELSE @.outcomes + 1]]
      PROVE  ViewingsInv'
  <2>1. PICK old : old = viewing[v]
    OBVIOUS
  <2>2. old \in ViewingRow /\ old.outcomes = 0 /\ old.moved \in BOOLEAN /\ old.slot \in Slots
    <3>1. old \in ViewingRow
      BY <1>3, <2>1
    <3>2. old.outcomes = 0
      BY <1>3, <1>7, <2>1 DEF ViewingsInv
    <3> QED
      BY <3>1, <3>2 DEF ViewingRow
  <2>3. PICK b \in BOOLEAN : b = (old.moved \/ slot # old.slot)
    BY <2>2
  <2>4. PICK row : row = [slot |-> slot, status |-> to, moved |-> b,
                          outcomes |-> IF to = "CONFIRMED" THEN old.outcomes ELSE old.outcomes + 1]
    OBVIOUS
  <2>5. viewing' = [viewing EXCEPT ![v] = row]
    BY <1>7, <2>1, <2>3, <2>4
  <2>6. /\ row \in ViewingRow /\ row.slot = slot /\ row.status = to
        /\ (row.moved <=> old.moved \/ slot # old.slot)
        /\ row.outcomes = IF to = "CONFIRMED" THEN 0 ELSE 1
    <3>1. PICK n \in Nat : n = (IF to = "CONFIRMED" THEN 0 ELSE 1)
      OBVIOUS
    <3>2. row = [slot |-> slot, status |-> to, moved |-> b, outcomes |-> n]
      BY <2>2, <2>4, <3>1
    <3>3. to \in DOMAIN ViewingTransitions
      BY <1>3, TransitionsLeadOn DEF LaterStatuses
    <3> QED
      BY <2>3, <3>1, <3>2, <3>3, <1>7 DEF ViewingRow
  <2>7. viewing' \in [Viewings -> ViewingRow \cup {None}] /\ viewing'[v] = row
        /\ \A w \in Viewings : w # v => viewing'[w] = viewing[w]
    BY <1>3, <2>5, <2>6 DEF ViewingsInv
  <2>8. \A w \in Viewings : w # v => (Booked(w)' <=> Booked(w)) /\ viewing'[w] = viewing[w]
    BY <2>7 DEF Booked
  <2>9. row.outcomes <= 1 /\ (row.status \in BookedStatuses => row.outcomes = 0)
    BY <1>3, <2>6 DEF BookedStatuses, LaterStatuses
  <2>10. \A w \in Viewings : viewing'[w] \in ViewingRow => viewing'[w].outcomes <= 1
           /\ (viewing'[w].status \in BookedStatuses => viewing'[w].outcomes = 0)
    BY <2>7, <2>9 DEF ViewingsInv
  <2>11. Booked(v) /\ viewing[v] = old
    BY <1>3, <1>7, <2>1, SalesWorkAssumption DEF Booked, BookedStatuses
  \* Where it stands in the way of another, it did so before or was given its time.
  <2>12. ~row.moved => row.slot = old.slot /\ ~old.moved
    BY <2>6
  <2>13. ASSUME NEW q \in Procs, req'[q] # None
         PROVE  KnowsViewing(q)'
    <3>1. req'[q] = req[q] /\ KnowsViewing(q)
      BY <1>4, <2>13 DEF ViewingsInv
    <3>2. \A w \in Viewings : viewing[w] \in ViewingRow => viewing'[w] \in ViewingRow
      BY <2>6, <2>7
    <3>3. ASSUME NEW w \in Viewings, Booked(w)'
          PROVE  \/ Booked(w) /\ viewing'[w].slot = viewing[w].slot
                    /\ (viewing[w].moved => viewing'[w].moved)
                 \/ viewing'[w].moved
      BY <2>7, <2>8, <2>11, <2>12, <3>3
    <3> QED
      BY <1>2, <1>5, <3>1, <3>2, <3>3, ViewingKnowledge
  <2>14. \A q \in Procs : KnowsViewing(q)'
    BY <2>13 DEF KnowsViewing, Running
  <2>15. ASSUME NEW x \in Viewings, NEW w \in Viewings, x # w, Booked(x)', Booked(w)',
                viewing'[x].slot = viewing'[w].slot
         PROVE  {x, w} \in crossed \/ viewing'[x].moved \/ viewing'[w].moved
    <3>1. Booked(x) /\ Booked(w)
      BY <2>8, <2>11, <2>15
    <3>2. ASSUME ~viewing'[x].moved, ~viewing'[w].moved
          PROVE  {x, w} \in crossed
      <4>1. viewing[x].slot = viewing'[x].slot /\ ~viewing[x].moved
        BY <2>7, <2>11, <2>12, <3>2
      <4>2. viewing[w].slot = viewing'[w].slot /\ ~viewing[w].moved
        BY <2>7, <2>11, <2>12, <3>2
      <4> QED
        BY <2>15, <3>1, <4>1, <4>2 DEF ViewingsInv, NoDoubleBooking
    <3> QED
      BY <3>2
  <2>16. NoDoubleBooking'
    BY <1>2, <2>15 DEF NoDoubleBooking
  <2> QED
    BY <1>4, <2>7, <2>10, <2>14, <2>16 DEF ViewingsInv
<1>8. CASE viewing[v].status = req[p].from
  <2>1. PICK slot \in Slots :
          viewing' = [viewing EXCEPT ![v] =
            [slot |-> slot, status |-> to, moved |-> @.moved \/ slot # @.slot,
             outcomes |-> IF to = "CONFIRMED" THEN @.outcomes ELSE @.outcomes + 1]]
    BY <1>1, <1>8 DEF ViewingStatusWrite, ViewingUnchanged
  <2> QED
    BY <1>3, <1>7, <1>8, <2>1
<1>9. CASE viewing[v].status # req[p].from
  BY <1>1, <1>6, <1>9 DEF ViewingStatusWrite, ViewingUnchanged
<1> QED
  BY <1>8, <1>9

ViewingsNext ==
  \E p \in Procs : \/ CreateViewingRead(p) \/ CreateViewingWrite(p)
                   \/ ViewingStatusRead(p) \/ ViewingStatusWrite(p)

LEMMA ViewingsKeep ==
  ASSUME ViewingsInv, ViewingsNext
  PROVE  ViewingsInv'
BY CreateViewingReadKeeps, CreateViewingWriteKeeps, ViewingReadKeeps, ViewingWriteKeeps
   DEF ViewingsNext

LEMMA ViewingsStutter ==
  ASSUME ViewingsInv, UNCHANGED <<req, viewing, crossed>>
  PROVE  ViewingsInv'
<1>1. \A w \in Viewings : Booked(w)' <=> Booked(w)
  BY DEF Booked
<1>2. ASSUME NEW q \in Procs
      PROVE  KnowsViewing(q)'
  <2>1. KnowsViewing(q) /\ \A t \in Procs : Running(t, "viewing")' => Running(t, "viewing")
    BY DEF ViewingsInv, Running
  <2> QED
    BY <1>1, <2>1, ViewingKnowledge
<1> QED
  BY <1>1, <1>2 DEF ViewingsInv, NoDoubleBooking

(***************************************************************************)
(* Sales: the activities.                                                  *)
(***************************************************************************)

\* The requests that found the activity open.
FoundOpen == {p \in Procs : Running(p, "activity status")}

\* An outcome was left by one of them; an open activity has none.
ActivityInv ==
  /\ req = [p \in Procs |-> req[p]] /\ salesActivity.outcomes \in Nat
  /\ salesActivity.outcomes + Cardinality(FoundOpen) <= Cardinality(Procs)
  /\ salesActivity.status = "OPEN" => salesActivity.outcomes = 0
  /\ \A p \in FoundOpen : req[p].to # "OPEN"

LEMMA FoundOpenFinite ==
  /\ IsFiniteSet(FoundOpen) /\ Cardinality(FoundOpen) \in Nat /\ Cardinality(Procs) \in Nat
  /\ Cardinality(FoundOpen) <= Cardinality(Procs)
<1>1. FoundOpen \subseteq Procs
  BY DEF FoundOpen
<1> QED
  BY <1>1, ProcsAssumption, FS_Subset, FS_CardinalityType

LEMMA ActivityInitial ==
  ASSUME RequestsInit, SalesWorkInit
  PROVE  ActivityInv
<1>1. req = [p \in Procs |-> None] /\ salesActivity = [status |-> "OPEN", outcomes |-> 0]
  BY DEF RequestsInit, SalesWorkInit
<1> QED
  <2>1. FoundOpen = {}
    BY <1>1 DEF FoundOpen, Running
  <2> QED
    BY <1>1, <2>1, FoundOpenFinite, FS_EmptySet DEF ActivityInv

ActivitiesNext == \E p \in Procs : ActivityStatusRead(p) \/ ActivityStatusWrite(p)

LEMMA ActivityKeeps ==
  ASSUME ActivityInv, ActivitiesNext
  PROVE  ActivityInv'
<1>1. ASSUME NEW p \in Procs, ActivityStatusRead(p)
      PROVE  ActivityInv'
  <2>1. PICK to \in {"COMPLETED", "CANCELLED"} :
          Start(p, [op |-> "activity status", to |-> to])
    BY <1>1 DEF ActivityStatusRead
  <2>2. UNCHANGED salesActivity /\ salesActivity.status = "OPEN"
    BY <1>1 DEF ActivityStatusRead, ActivityOpen, workVars
  <2>3. FoundOpen' \subseteq Procs
    BY DEF FoundOpen
  <2>4. Cardinality(FoundOpen') <= Cardinality(Procs) /\ Cardinality(FoundOpen') \in Nat
        /\ Cardinality(Procs) \in Nat
    BY <2>3, ProcsAssumption, FS_Subset, FS_CardinalityType
  <2>5. req' = [q \in Procs |-> req'[q]]
    BY <2>1 DEF ActivityInv, Start
  <2>6. \A q \in FoundOpen' : req'[q].to # "OPEN"
    BY <2>1 DEF ActivityInv, FoundOpen, Running, Start
  <2> QED
    BY <2>2, <2>4, <2>5, <2>6 DEF ActivityInv
<1>2. ASSUME NEW p \in Procs, ActivityStatusWrite(p)
      PROVE  ActivityInv'
  <2>1. /\ Running(p, "activity status") /\ req' = [req EXCEPT ![p] = None]
        /\ salesActivity' = [status |-> req[p].to, outcomes |-> salesActivity.outcomes + 1]
    BY <1>2 DEF ActivityStatusWrite, Done
  <2>2. req' = [q \in Procs |-> req'[q]] /\ FoundOpen' = FoundOpen \ {p} /\ p \in FoundOpen
    BY <2>1 DEF ActivityInv, FoundOpen, Running
  <2>3. Cardinality(FoundOpen') = Cardinality(FoundOpen) - 1
    BY <2>2, FoundOpenFinite, FS_RemoveElement
  <2>4. salesActivity'.outcomes = salesActivity.outcomes + 1 /\ salesActivity'.status = req[p].to
    BY <2>1
  <2>5. req[p].to # "OPEN" /\ \A q \in FoundOpen' : req'[q].to # "OPEN"
    BY <2>1, <2>2 DEF ActivityInv, FoundOpen
  <2> QED
    BY <2>2, <2>3, <2>4, <2>5, FoundOpenFinite DEF ActivityInv
<1> QED
  BY <1>1, <1>2 DEF ActivitiesNext

LEMMA ActivityStutters ==
  ASSUME ActivityInv, UNCHANGED <<req, salesActivity>>
  PROVE  ActivityInv'
<1>1. FoundOpen' = FoundOpen
  BY DEF FoundOpen, Running
<1> QED
  BY <1>1 DEF ActivityInv

LEMMA ActivityImplies ==
  ASSUME ActivityInv
  PROVE  salesActivity.outcomes <= Cardinality(Procs)
<1>1. salesActivity.outcomes \in Nat
      /\ salesActivity.outcomes + Cardinality(FoundOpen) <= Cardinality(Procs)
  BY DEF ActivityInv
<1> QED
  BY <1>1, FoundOpenFinite

\* Stages, viewings and activities each have a focus of their own.
LEMMA SalesSteps ==
  ASSUME SalesWorkNext
  PROVE  /\ focus = "sales stages" => StagesNext
         /\ focus # "sales stages" => UNCHANGED <<stageOrder, asked, explicit>>
         /\ focus = "sales viewings" => ViewingsNext
         /\ focus # "sales viewings" => UNCHANGED <<viewing, crossed>>
         /\ focus = "sales activities" => ActivitiesNext
         /\ focus # "sales activities" => UNCHANGED salesActivity
<1>1. StagesNext => UNCHANGED <<viewing, crossed, salesActivity>>
  BY DEF StagesNext, UpdateStage, CreateStageRead, CreateStageWrite, ReorderRead, ReorderWrite, workVars
<1>2. ViewingsNext => UNCHANGED <<stageOrder, asked, explicit, salesActivity>>
  BY DEF ViewingsNext, CreateViewingRead, CreateViewingWrite, ViewingStatusRead, ViewingStatusWrite,
     workVars
<1>3. ActivitiesNext => UNCHANGED <<stageOrder, asked, explicit, viewing, crossed>>
  BY DEF ActivitiesNext, ActivityStatusRead, ActivityStatusWrite, workVars
<1>4. \/ focus = "sales stages" /\ StagesNext
      \/ focus = "sales viewings" /\ ViewingsNext
      \/ focus = "sales activities" /\ ActivitiesNext
  BY DEF SalesWorkNext, StagesNext, ViewingsNext, ActivitiesNext
<1> QED
  BY <1>1, <1>2, <1>3, <1>4

-----------------------------------------------------------------------------
(***************************************************************************)
(* Listings.                                                               *)
(***************************************************************************)

ListingOps == {"transitionListing", "updateListing", "expireDue"}
PropertyOps == {"updateProperty", "verifyProperty", "publishProperty"}

\* What Request makes.
ListingRequests ==
  [op : ListingOps \cup PropertyOps \cup {"assign", "unassign", "reassign"},
   at : {"service", "read", "write", None} \cup Agents,
   to : ListingTargets \cup PropertyTargets \cup Agents \cup {None, "EXPIRED"},
   fresh : BOOLEAN, pfresh : BOOLEAN]

\* The status that a request is about to write follows the one of the row, as long as
\* the version that it holds is the row's.
KnowsListing(p) ==
  LET r == req[p]
  IN  /\ r.op \in ListingOps => listing # None
      /\ r.op = "transitionListing" /\ r.at = "write" /\ r.fresh =>
           <<listing.status, r.to>> \in ListingTransitions
      /\ r.op = "updateProperty" /\ r.at = "write" /\ r.pfresh =>
           /\ r.to = "ACTIVE" => property.status = "ACTIVE"
           /\ property.status = r.to \/ <<property.status, r.to>> \in PropertyTransitions

ListingsInv ==
  /\ req \in [Procs -> ListingRequests \cup {None}]
  /\ listing \in ListingRow \cup {None}
  /\ property \in [status : PropertyStatuses, verified : BOOLEAN, deleted : BOOLEAN]
  /\ \A p \in Procs : req[p] # None => KnowsListing(p)
  /\ SoldTogether

LEMMA ListingsInitial ==
  ASSUME RequestsInit, ListingsInit
  PROVE  ListingsInv
BY ListingsAssumption DEF RequestsInit, ListingsInit, CreateProperty, ListingsInv, SoldTogether,
   PropertyStatuses

\* A step of one request that writes to neither row.
LEMMA ListingQuiet ==
  ASSUME ListingsInv, NEW p \in Procs, NEW r \in ListingRequests \cup {None},
         req' = [req EXCEPT ![p] = r], UNCHANGED <<listing, property>>,
         r # None => KnowsListing(p)'
  PROVE  ListingsInv'
<1>1. req' \in [Procs -> ListingRequests \cup {None}]
  BY DEF ListingsInv
<1>2. ASSUME NEW q \in Procs, req'[q] # None
      PROVE  KnowsListing(q)'
  <2>1. CASE q = p
    BY <1>2, <2>1 DEF ListingsInv
  <2>2. CASE q # p
    <3>1. req'[q] = req[q] /\ KnowsListing(q)
      BY <1>2, <2>2 DEF ListingsInv
    <3> QED
      BY <3>1 DEF KnowsListing
  <2> QED
    BY <2>1, <2>2
<1>3. SoldTogether'
  BY DEF ListingsInv, SoldTogether
<1> QED
  BY <1>1, <1>2, <1>3 DEF ListingsInv

\* A write, which makes the versions that other requests hold stale.
LEMMA ListingWritten ==
  ASSUME ListingsInv, NEW p \in Procs, NEW isListing \in BOOLEAN, NEW isProperty \in BOOLEAN,
         Written(p, isListing, isProperty),
         listing' \in ListingRow \cup {None}, listing # None => listing' # None,
         property' \in [status : PropertyStatuses, verified : BOOLEAN, deleted : BOOLEAN],
         ~isListing => listing' = listing, ~isProperty => property' = property,
         SoldTogether'
  PROVE  ListingsInv'
<1>1. ASSUME NEW q \in Procs, q # p, req[q] # None
      PROVE  /\ req'[q] \in ListingRequests /\ req'[q].op = req[q].op /\ req'[q].at = req[q].at
             /\ req'[q].to = req[q].to
             /\ req'[q].fresh = TRUE => req[q].fresh = TRUE /\ ~isListing
             /\ req'[q].pfresh = TRUE => req[q].pfresh = TRUE /\ ~isProperty
  <2>1. req[q] \in ListingRequests
    BY <1>1 DEF ListingsInv
  <2>2. PICK f \in BOOLEAN, g \in BOOLEAN :
          f = (req[q].fresh /\ ~isListing) /\ g = (req[q].pfresh /\ ~isProperty)
    OBVIOUS
  <2>3. req'[q] = [req[q] EXCEPT !.fresh = f, !.pfresh = g]
    BY <1>1, <2>2 DEF Written
  <2> QED
    BY <2>1, <2>2, <2>3 DEF ListingRequests
<1>2. req'[p] = None /\ \A q \in Procs : req[q] = None => req'[q] = None
  BY DEF Written
<1>3. req' \in [Procs -> ListingRequests \cup {None}]
  <2>1. \A q \in Procs : req'[q] \in ListingRequests \cup {None}
    BY <1>1, <1>2
  <2>2. req' = [q \in Procs |-> req'[q]]
    BY DEF Written
  <2> QED
    BY <2>1, <2>2
<1>4. ASSUME NEW q \in Procs, req'[q] # None
      PROVE  KnowsListing(q)'
  <2>1. q # p /\ req[q] # None /\ req[q] \in ListingRequests /\ KnowsListing(q)
    BY <1>2, <1>4 DEF ListingsInv
  <2>2. req'[q].fresh \in BOOLEAN /\ req'[q].pfresh \in BOOLEAN
    BY <1>1, <2>1 DEF ListingRequests
  <2>3. (req'[q].fresh => req[q].fresh /\ listing' = listing)
        /\ (req'[q].pfresh => req[q].pfresh /\ property' = property)
    BY <1>1, <2>1, <2>2
  <2> QED
    BY <1>1, <2>1, <2>3 DEF KnowsListing
<1> QED
  BY <1>3, <1>4 DEF ListingsInv

\* A write to the listing alone keeps the property's status.
LEMMA ListingsKeeps ==
  ASSUME ListingsInv, ListingsNext
  PROVE  /\ ListingsInv'
         /\ listing # None /\ listing'.status # listing.status
              => <<listing.status, listing'.status>> \in ListingTransitions
         /\ property.status # "ACTIVE" /\ property'.status = "ACTIVE" => property.verified
<1> DEFINE Moves == listing # None /\ listing'.status # listing.status
                      => <<listing.status, listing'.status>> \in ListingTransitions
           Activates == property.status # "ACTIVE" /\ property'.status = "ACTIVE" => property.verified
           PropertyRow == [status : PropertyStatuses, verified : BOOLEAN, deleted : BOOLEAN]
<1>0. /\ property \in PropertyRow /\ listing \in ListingRow \cup {None} /\ SoldTogether
      /\ \A p \in Procs : req[p] \in ListingRequests \cup {None} /\ (req[p] # None => KnowsListing(p))
  BY DEF ListingsInv
<1>1. ASSUME NEW b \in BOOLEAN, NEW e \in ExpiryDates, CreateListing(b, e)
      PROVE  ListingsInv' /\ Moves /\ Activates
  <2>1. listing' \in ListingRow /\ listing'.status = "DRAFT" /\ UNCHANGED <<req, property>> /\ listing = None
    BY <1>1 DEF CreateListing, ListingRow, ListingStatuses
  <2>2. \A p \in Procs : req[p] # None => KnowsListing(p)'
    <3> SUFFICES ASSUME NEW p \in Procs, req[p] # None PROVE KnowsListing(p)'
      OBVIOUS
    <3>1. KnowsListing(p) /\ req[p].op \notin ListingOps
      BY <1>0, <2>1 DEF KnowsListing
    <3> QED
      BY <2>1, <3>1 DEF KnowsListing, ListingOps
  <2>3. SoldTogether'
    BY <2>1 DEF SoldTogether
  <2> QED
    BY <2>1, <2>2, <2>3 DEF ListingsInv
<1>2. ASSUME UNCHANGED <<req, property, listing>>
      PROVE  ListingsInv' /\ Moves /\ Activates
  <2>1. \A p \in Procs : KnowsListing(p) => KnowsListing(p)'
    BY <1>2 DEF KnowsListing
  <2> QED
    BY <1>0, <1>2, <2>1 DEF ListingsInv, SoldTogether
<1>3. ASSUME NEW p \in Procs, NEW r \in ListingRequests \cup {None}, req' = [req EXCEPT ![p] = r],
             UNCHANGED <<listing, property>>, r # None => KnowsListing(p)'
      PROVE  ListingsInv' /\ Moves /\ Activates
  BY <1>3, ListingQuiet
<1>4. ASSUME NEW p \in Procs, NEW op \in PropertyOps, NEW to \in PropertyTargets \cup {None},
             PropertyRequest(p, op, to)
      PROVE  ListingsInv' /\ Moves /\ Activates
  <2>1. PICK r : r = Request(op, "service", to)
    OBVIOUS
  <2>2. r \in ListingRequests /\ r.op \in PropertyOps /\ r.at = "service"
    BY <2>1 DEF Request, ListingRequests, PropertyOps
  <2>3. req' = [req EXCEPT ![p] = r] /\ UNCHANGED <<listing, property>>
    BY <1>4, <2>1 DEF PropertyRequest, Start, PropertyUnchanged
  <2>4. req'[p] = r
    BY <1>0, <2>3 DEF ListingsInv
  <2>5. KnowsListing(p)'
    BY <2>2, <2>4 DEF KnowsListing, PropertyOps, ListingOps
  <2> QED
    BY <1>3, <2>2, <2>3, <2>5
<1>5. ASSUME NEW p \in Procs, UpdatePropertyCheck(p)
      PROVE  ListingsInv' /\ Moves /\ Activates
  <2>1. req[p] \in ListingRequests /\ req[p].op = "updateProperty"
    BY <1>0, <1>5 DEF UpdatePropertyCheck, Running
  <2> DEFINE r == [req[p] EXCEPT !.at = "write"]
  <2>2. req' = [req EXCEPT ![p] = r] /\ UNCHANGED <<listing, property>>
    BY <1>5 DEF UpdatePropertyCheck, Goto, PropertyUnchanged
  <2>3. r \in ListingRequests /\ r.op = "updateProperty" /\ r.at = "write" /\ r.to = req[p].to
    BY <2>1 DEF ListingRequests
  <2> HIDE DEF r
  <2>4. req'[p] = r
    BY <2>2 DEF ListingsInv
  <2>5. KnowsListing(p)'
    BY <1>5, <2>2, <2>3, <2>4 DEF KnowsListing, ListingOps, UpdatePropertyCheck
  <2> QED
    BY <1>3, <2>2, <2>3, <2>5
<1>6. ASSUME NEW p \in Procs, NEW s \in PropertyStatuses, NEW v \in BOOLEAN, NEW d \in BOOLEAN,
             property' = [status |-> s, verified |-> v, deleted |-> d],
             UNCHANGED listing, Written(p, FALSE, TRUE),
             property.status = "SOLD" => s = "SOLD",
             s = "ACTIVE" => property.status = "ACTIVE" \/ property.verified
      PROVE  ListingsInv' /\ Moves /\ Activates
  <2>1. SoldTogether'
    BY <1>0, <1>6 DEF SoldTogether
  <2>2. ListingsInv'
    BY <1>0, <1>6, <2>1, ListingWritten
  <2> QED
    BY <1>6, <2>2
<1>7. ASSUME NEW p \in Procs, UpdatePropertyWrite(p)
      PROVE  ListingsInv' /\ Moves /\ Activates
  <2>1. req[p] \in ListingRequests /\ req[p].op = "updateProperty" /\ req[p].at = "write" /\ req[p].pfresh
        /\ KnowsListing(p)
    BY <1>0, <1>7 DEF UpdatePropertyWrite, Running, At, SameVersion
  <2>2. PICK s : s = req[p].to
    OBVIOUS
  <2>3. /\ s = "ACTIVE" => property.status = "ACTIVE"
        /\ property.status = s \/ <<property.status, s>> \in PropertyTransitions
    BY <2>1, <2>2 DEF KnowsListing
  <2>4. s \in PropertyStatuses /\ (property.status = "SOLD" => s = "SOLD")
    BY <1>0, <2>3 DEF PropertyTransitions, PropertyStatuses
  <2>5. property' = [status |-> s, verified |-> property.verified, deleted |-> property.deleted]
    BY <1>0, <1>7, <2>2 DEF UpdatePropertyWrite
  <2> QED
    BY <1>0, <1>6, <1>7, <2>3, <2>4, <2>5 DEF UpdatePropertyWrite, PropertyUnchanged
<1>8. ASSUME NEW p \in Procs, VerifyProperty(p) \/ PublishProperty(p)
      PROVE  ListingsInv' /\ Moves /\ Activates
  <2>1. PICK s \in PropertyStatuses, v \in BOOLEAN :
          /\ property' = [status |-> s, verified |-> v, deleted |-> property.deleted]
          /\ s = "ACTIVE" => property.verified
    BY <1>0, <1>8 DEF VerifyProperty, PublishProperty, Verified, PropertyStatuses
  <2>2. property.status = "IN_REVIEW" /\ UNCHANGED listing /\ Written(p, FALSE, TRUE)
    BY <1>8 DEF VerifyProperty, PublishProperty, PropertyUnchanged
  <2> QED
    BY <1>0, <1>6, <2>1, <2>2
<1>9. ASSUME NEW p \in Procs, DeleteProperty(p) \/ RestoreProperty(p)
      PROVE  ListingsInv' /\ Moves /\ Activates
  <2>1. PICK d \in BOOLEAN :
          property' = [status |-> property.status, verified |-> property.verified, deleted |-> d]
    BY <1>0, <1>9 DEF DeleteProperty, RestoreProperty
  <2>2. UNCHANGED listing /\ Written(p, FALSE, TRUE)
    BY <1>9 DEF DeleteProperty, RestoreProperty, PropertyUnchanged
  <2> QED
    BY <1>0, <1>6, <2>1, <2>2
<1>10. ASSUME NEW p \in Procs, NEW op \in {"transitionListing", "updateListing"},
              NEW to \in ListingTargets \cup {None}, ListingRequest(p, op, to)
       PROVE  ListingsInv' /\ Moves /\ Activates
  <2>1. PICK r : r = Request(op, "read", to)
    OBVIOUS
  <2>2. r \in ListingRequests /\ r.op \in ListingOps /\ r.at = "read"
    BY <2>1 DEF Request, ListingRequests, ListingOps
  <2>3. req' = [req EXCEPT ![p] = r] /\ UNCHANGED <<listing, property>> /\ listing # None
    BY <1>10, <2>1 DEF ListingRequest, Start, listingVars
  <2>4. req'[p] = r
    BY <2>3 DEF ListingsInv
  <2>5. KnowsListing(p)'
    BY <2>2, <2>3, <2>4 DEF KnowsListing, ListingOps
  <2> QED
    BY <1>3, <2>2, <2>3, <2>5
<1>11. ASSUME NEW p \in Procs, UpdateListing(p)
       PROVE  ListingsInv' /\ Moves /\ Activates
  <2>1. listing # None /\ listing \in ListingRow
    BY <1>0, <1>11 DEF UpdateListing, Running, KnowsListing, ListingOps
  <2>2. listing' \in ListingRow /\ listing'.status = listing.status
    BY <1>11, <2>1 DEF UpdateListing, ListingRow
  <2>3. UNCHANGED property /\ Written(p, TRUE, FALSE)
    BY <1>11 DEF UpdateListing
  <2>4. SoldTogether'
    BY <1>0, <2>1, <2>2, <2>3 DEF SoldTogether
  <2>5. listing' # None
    BY <2>2, ListingsAssumption
  <2>6. ListingsInv'
    BY <1>0, <2>2, <2>3, <2>4, <2>5, ListingWritten
  <2> QED
    BY <2>2, <2>3, <2>6
<1>12. ASSUME NEW p \in Procs, TransitionRead(p)
       PROVE  ListingsInv' /\ Moves /\ Activates
  <2>1. req[p] \in ListingRequests /\ req[p].op = "transitionListing" /\ KnowsListing(p)
    BY <1>0, <1>12 DEF TransitionRead, Running
  <2>2. PICK f \in BOOLEAN : f <=> req[p].to \in {"SOLD", "RENTED"}
    <3>1. CASE req[p].to \in {"SOLD", "RENTED"}
      <4>1. TRUE \in BOOLEAN /\ (TRUE <=> req[p].to \in {"SOLD", "RENTED"})
        BY <3>1
      <4> QED
        BY <4>1, Zenon
    <3>2. CASE req[p].to \notin {"SOLD", "RENTED"}
      <4>1. FALSE \in BOOLEAN /\ (FALSE <=> req[p].to \in {"SOLD", "RENTED"})
        BY <3>2
      <4> QED
        BY <4>1, Zenon
    <3> QED
      BY <3>1, <3>2
  <2> DEFINE r == [req[p] EXCEPT !.at = "write", !.pfresh = f]
  <2>3. req' = [req EXCEPT ![p] = r] /\ UNCHANGED <<listing, property>>
        /\ <<listing.status, req[p].to>> \in ListingTransitions
    BY <1>12, <2>2 DEF TransitionRead, listingVars, ListingsInv
  <2>4. r \in ListingRequests /\ r.op = "transitionListing" /\ r.at = "write" /\ r.to = req[p].to
    BY <2>1 DEF ListingRequests
  <2> HIDE DEF r
  <2>5. req'[p] = r /\ listing # None
    BY <2>1, <2>3 DEF ListingsInv, KnowsListing, ListingOps
  <2>6. KnowsListing(p)'
    BY <2>3, <2>4, <2>5 DEF KnowsListing
  <2> QED
    BY <1>3, <2>3, <2>4, <2>6
<1>13. ASSUME NEW p \in Procs, TransitionWrite(p)
       PROVE  ListingsInv' /\ Moves /\ Activates
  <2>1. req[p] \in ListingRequests /\ req[p].op = "transitionListing" /\ req[p].at = "write"
        /\ req[p].fresh /\ KnowsListing(p)
    BY <1>0, <1>13 DEF TransitionWrite, Running, At, SameListingVersion
  <2>2. PICK s : s = req[p].to
    OBVIOUS
  <2>3. listing # None /\ listing \in ListingRow /\ <<listing.status, s>> \in ListingTransitions
    BY <1>0, <2>1, <2>2 DEF KnowsListing, ListingOps
  <2>4. s \in ListingStatuses
    BY <2>3 DEF ListingTransitions, ListingStatuses
  <2>5. listing' = [listing EXCEPT !.status = s]
    BY <1>13, <2>2 DEF TransitionWrite
  <2>6. listing' \in ListingRow /\ listing'.status = s
    BY <2>3, <2>4, <2>5 DEF ListingRow
  <2>7. listing' # None
    BY <2>6, ListingsAssumption
  <2>8. CASE s \in {"SOLD", "RENTED"}
    <3>1. property' = [property EXCEPT !.status = s] /\ Written(p, TRUE, TRUE)
      BY <1>13, <2>2, <2>8 DEF TransitionWrite, SoldProperty
    <3>2. property' \in PropertyRow /\ property'.status = s
      BY <1>0, <2>8, <3>1 DEF PropertyStatuses
    <3>3. SoldTogether'
      BY <2>6, <3>2 DEF SoldTogether
    <3>4. ListingsInv'
      BY <2>6, <2>7, <3>1, <3>2, <3>3, ListingWritten
    <3> QED
      BY <2>3, <2>6, <2>8, <3>2, <3>4
  <2>9. CASE s \notin {"SOLD", "RENTED"}
    <3>1. property' = property /\ Written(p, TRUE, FALSE)
      BY <1>13, <2>2, <2>9 DEF TransitionWrite
    <3>2. SoldTogether'
      BY <2>6, <2>9 DEF SoldTogether
    <3>3. ListingsInv'
      BY <1>0, <2>6, <2>7, <3>1, <3>2, ListingWritten
    <3> QED
      BY <2>3, <2>6, <3>1, <3>3
  <2> QED
    BY <2>8, <2>9
<1>14. ASSUME NEW p \in Procs, ExpireDueRead(p)
       PROVE  ListingsInv' /\ Moves /\ Activates
  <2>1. PICK r : r = Request("expireDue", "write", "EXPIRED")
    OBVIOUS
  <2>2. r \in ListingRequests /\ r.op = "expireDue"
    BY <2>1 DEF Request, ListingRequests, ListingOps
  <2>3. req' = [req EXCEPT ![p] = r] /\ UNCHANGED <<listing, property>> /\ listing # None
    BY <1>14, <2>1 DEF ExpireDueRead, Start, listingVars
  <2>4. req'[p] = r
    BY <2>3 DEF ListingsInv
  <2>5. KnowsListing(p)'
    BY <2>2, <2>3, <2>4 DEF KnowsListing, ListingOps
  <2> QED
    BY <1>3, <2>2, <2>3, <2>5
<1>15. ASSUME NEW p \in Procs, ExpireDueWrite(p)
       PROVE  ListingsInv' /\ Moves /\ Activates
  <2>1. listing # None /\ listing \in ListingRow /\ listing.status = "PUBLISHED"
    BY <1>0, <1>15 DEF ExpireDueWrite, Expirable, Running, KnowsListing, ListingOps
  <2>2. listing' \in ListingRow /\ listing'.status = "EXPIRED"
    BY <1>15, <2>1 DEF ExpireDueWrite, ListingRow, ListingStatuses
  <2>3. UNCHANGED property /\ Written(p, TRUE, FALSE)
    BY <1>15 DEF ExpireDueWrite
  <2>4. SoldTogether'
    BY <2>2 DEF SoldTogether
  <2>5. listing' # None
    BY <2>2, ListingsAssumption
  <2>6. ListingsInv'
    BY <1>0, <2>2, <2>3, <2>4, <2>5, ListingWritten
  <2> QED
    BY <2>1, <2>2, <2>3, <2>6 DEF ListingTransitions
<1>16. ASSUME NEW p \in Procs, NEW op \in {"assign", "unassign", "reassign"}, NEW a \in Agents,
              NEW from \in Agents \cup {None}, AdapterRead(p, op, a, from)
       PROVE  ListingsInv' /\ Moves /\ Activates
  <2>1. PICK r : r = Request(op, from, a)
    OBVIOUS
  <2>2. r \in ListingRequests /\ r.op \notin ListingOps /\ r.op # "updateProperty"
    BY <2>1 DEF Request, ListingRequests, ListingOps
  <2>3. req' = [req EXCEPT ![p] = r] /\ UNCHANGED <<listing, property>>
    BY <1>16, <2>1 DEF AdapterRead, Start, AgentsUnchanged
  <2>4. req'[p] = r
    BY <2>3 DEF ListingsInv
  <2>5. KnowsListing(p)'
    BY <2>2, <2>4 DEF KnowsListing, ListingOps
  <2> QED
    BY <1>3, <2>2, <2>3, <2>5
<1>17. ASSUME NEW p \in Procs, \/ AdapterAssign(p) \/ AdapterUnassign(p) \/ AdapterReassign(p)
                               \/ ListingsAbandon(p)
       PROVE  ListingsInv' /\ Moves /\ Activates
  <2>1. req' = [req EXCEPT ![p] = None] /\ UNCHANGED <<listing, property>>
    BY <1>17 DEF AdapterAssign, AdapterUnassign, AdapterReassign, ListingsAbandon, Done,
       AgentsUnchanged, listingVars
  <2> QED
    BY <1>3, <2>1
<1>18. ASSUME \/ \E a \in Agents, primary \in BOOLEAN :
                   AssignAgent(a, primary) \/ \E b \in Agents : ChangeAgent(a, b, primary)
              \/ Tick /\ UNCHANGED listingVars
       PROVE  ListingsInv' /\ Moves /\ Activates
  <2>1. UNCHANGED <<req, property, listing>>
    BY <1>18 DEF AssignAgent, ChangeAgent, AgentsUnchanged, Tick, listingVars
  <2> QED
    BY <1>2, <2>1
<1> HIDE DEF Moves, Activates
<1>19. ListingsInv' /\ Moves /\ Activates
  BY <1>1, <1>4, <1>5, <1>7, <1>8, <1>9, <1>10, <1>11, <1>12, <1>13, <1>14, <1>15, <1>16, <1>17, <1>18
     DEF ListingsNext, PropertyOps
<1> QED
  BY <1>19 DEF Moves, Activates

-----------------------------------------------------------------------------
(***************************************************************************)
(* The rows that a patch is merged into.                                   *)
(***************************************************************************)

UpsertRequests ==
  [op : {"upsert"}, at : {"read", "write"}, patch : Patches, row : DetailRows, found : BOOLEAN]

\* What an upsert of extras is about to write was validated as a whole; without a row
\* it merges the patch into an empty one.
KnowsRow(p) ==
  req[p].at = "write" =>
    /\ detail.kind \in WholeKinds => Valid(detail.kind, Merged(req[p].patch, req[p].row))
    /\ req[p].found = FALSE => req[p].row = Empty

RowInv ==
  /\ req \in [Procs -> UpsertRequests \cup {None}]
  /\ detail \in [kind : WholeKinds \cup PatchedKinds, row : DetailRows \cup {None}]
  /\ \A p \in Procs : req[p] # None => KnowsRow(p)
  /\ ExtrasStayValid

LEMMA RowInitial ==
  ASSUME RequestsInit, PropertyDetailsInit, focus = "property row"
  PROVE  RowInv
BY DEF RequestsInit, PropertyDetailsInit, RowInv, ExtrasStayValid

LEMMA MergedIsRow ==
  ASSUME NEW patch \in Patches, NEW row \in DetailRows
  PROVE  Merged(patch, row) \in DetailRows
<1>1. \A f \in DOMAIN patch : patch[f] \in Values
  BY DEF Patches
<1>2. row.x \in Values /\ row.y \in Values
  BY DEF DetailRows
<1>3. DEFINE v(f) == IF f \in DOMAIN patch THEN patch[f] ELSE row[f]
<1>4. v("x") \in Values /\ v("y") \in Values
  BY <1>1, <1>2
<1>5. Merged(patch, row) = [f \in {"x", "y"} |-> v(f)]
  BY DEF Merged
<1> HIDE DEF v
<1>6. [f \in {"x", "y"} |-> v(f)] = [x |-> v("x"), y |-> v("y")]
  OBVIOUS
<1> QED
  BY <1>4, <1>5, <1>6 DEF DetailRows

LEMMA EmptyIsRow == Empty \in DetailRows
BY DEF Empty, DetailRows, Values

\* A step that leaves the row as it is.
LEMMA RowQuiet ==
  ASSUME RowInv, NEW p \in Procs, NEW r \in UpsertRequests \cup {None},
         req' = [req EXCEPT ![p] = r], UNCHANGED detail, r # None => KnowsRow(p)'
  PROVE  RowInv'
<1>1. req' \in [Procs -> UpsertRequests \cup {None}]
  BY DEF RowInv
<1>2. ASSUME NEW q \in Procs, req'[q] # None
      PROVE  KnowsRow(q)'
  <2>1. CASE q = p
    BY <1>2, <2>1 DEF RowInv
  <2>2. CASE q # p
    <3>1. req'[q] = req[q] /\ KnowsRow(q)
      BY <1>2, <2>2 DEF RowInv
    <3> QED
      BY <3>1 DEF KnowsRow
  <2> QED
    BY <2>1, <2>2
<1>3. ExtrasStayValid'
  BY DEF RowInv, ExtrasStayValid
<1> QED
  BY <1>1, <1>2, <1>3 DEF RowInv

\* A step that ends a request and writes a valid row.
LEMMA RowWritten ==
  ASSUME RowInv, NEW row \in DetailRows \cup {None}, detail' = [detail EXCEPT !.row = row],
         detail.kind \in WholeKinds /\ row # None => Valid(detail.kind, row),
         \/ UNCHANGED req
         \/ \E p \in Procs : Done(p)
  PROVE  RowInv'
<1>1. detail' \in [kind : WholeKinds \cup PatchedKinds, row : DetailRows \cup {None}]
      /\ detail'.kind = detail.kind /\ detail'.row = row
  BY DEF RowInv
<1>2. req' \in [Procs -> UpsertRequests \cup {None}]
      /\ \A q \in Procs : req'[q] # None => req'[q] = req[q]
  BY DEF RowInv, Done
<1>3. \A q \in Procs : req'[q] # None => KnowsRow(q)'
  BY <1>1, <1>2 DEF RowInv, KnowsRow
<1>4. ExtrasStayValid'
  BY <1>1 DEF ExtrasStayValid
<1> QED
  BY <1>1, <1>2, <1>3, <1>4 DEF RowInv

LEMMA UpsertKeeps ==
  ASSUME RowInv, NEW p \in Procs, NEW kind, NEW row \in DetailRows, detail.kind = kind,
         Running(p, "upsert"), At(p, "write"), Done(p),
         detail.row \in DetailRows /\ kind \in WholeKinds => row = Merged(req[p].patch, req[p].row),
         detail' = CASE req[p].found /\ detail.row # None -> [detail EXCEPT !.row = row]
                     [] ~req[p].found /\ detail.row = None ->
                          [detail EXCEPT !.row = Merged(req[p].patch, Empty)]
                     [] OTHER -> detail
  PROVE  RowInv'
<1>1. req[p] \in UpsertRequests /\ req[p].at = "write" /\ KnowsRow(p)
      /\ detail.row \in DetailRows \cup {None}
  BY DEF RowInv, At
<1>2. CASE req[p].found /\ detail.row # None
  <2>1. detail' = [detail EXCEPT !.row = row]
    BY <1>2
  <2>2. kind \in WholeKinds => Valid(kind, row)
    BY <1>1, <1>2 DEF KnowsRow
  <2> QED
    BY <2>1, <2>2, RowWritten
<1>3. CASE ~req[p].found /\ detail.row = None
  <2>1. detail' = [detail EXCEPT !.row = Merged(req[p].patch, Empty)]
    BY <1>3
  <2>2. req[p].found = FALSE /\ req[p].patch \in Patches
    BY <1>1, <1>3 DEF UpsertRequests
  <2>3. kind \in WholeKinds => Valid(kind, Merged(req[p].patch, Empty))
    BY <1>1, <2>2 DEF KnowsRow
  <2>4. Merged(req[p].patch, Empty) \in DetailRows
    BY <2>2, EmptyIsRow, MergedIsRow
  <2> QED
    BY <2>1, <2>3, <2>4, RowWritten
<1>4. CASE ~(req[p].found /\ detail.row # None) /\ ~(~req[p].found /\ detail.row = None)
  <2>1. UNCHANGED detail
    BY <1>4
  <2> QED
    BY <2>1, RowQuiet DEF Done
<1> QED
  BY <1>2, <1>3, <1>4

LEMMA RowKeeps ==
  ASSUME RowInv, DetailNext
  PROVE  RowInv'
<1>0. /\ detail \in [kind : WholeKinds \cup PatchedKinds, row : DetailRows \cup {None}]
      /\ \A p \in Procs : req[p] \in UpsertRequests \cup {None} /\ (req[p] # None => KnowsRow(p))
  BY DEF RowInv
<1>1. ASSUME NEW p \in Procs, NEW patch \in Patches,
             ExtrasRequest(p, patch) \/ DetailsRequest(p, patch)
      PROVE  RowInv'
  <2>1. PICK r : r = [op |-> "upsert", at |-> "read", patch |-> patch, row |-> Empty, found |-> FALSE]
    OBVIOUS
  <2>2. r \in UpsertRequests /\ r.at = "read"
    BY <2>1, EmptyIsRow DEF UpsertRequests
  <2>3. req' = [req EXCEPT ![p] = r] /\ UNCHANGED detail
    BY <1>1, <2>1 DEF ExtrasRequest, DetailsRequest, Start
  <2>4. req'[p] = r
    BY <2>3 DEF RowInv
  <2>5. KnowsRow(p)'
    BY <2>2, <2>4 DEF KnowsRow
  <2> QED
    BY <2>2, <2>3, <2>5, RowQuiet
<1>2. ASSUME NEW p \in Procs, PatchRead(p)
      PROVE  RowInv'
  <2>1. PICK row : row = IF detail.row = None THEN Empty ELSE detail.row
    OBVIOUS
  <2>2. PICK f \in BOOLEAN : f <=> detail.row # None
    <3>1. CASE detail.row # None
      <4>1. TRUE \in BOOLEAN /\ (TRUE <=> detail.row # None)
        BY <3>1
      <4> QED
        BY <4>1, Zenon
    <3>2. CASE detail.row = None
      <4>1. FALSE \in BOOLEAN /\ (FALSE <=> detail.row # None)
        BY <3>2
      <4> QED
        BY <4>1, Zenon
    <3> QED
      BY <3>1, <3>2
  <2>3. row \in DetailRows /\ (f = FALSE => row = Empty) /\ req[p] \in UpsertRequests
    BY <1>0, <1>2, <2>1, <2>2, EmptyIsRow DEF PatchRead, At
  <2>4. CASE Valid(detail.kind, Merged(req[p].patch, row))
    <3> DEFINE r == [req[p] EXCEPT !.at = "write", !.row = row, !.found = f]
    <3>1. req' = [req EXCEPT ![p] = r] /\ UNCHANGED detail
      BY <1>2, <2>1, <2>2, <2>4 DEF PatchRead, RowInv
    <3>2. r \in UpsertRequests /\ r.at = "write" /\ r.patch = req[p].patch /\ r.row = row /\ r.found = f
      BY <2>3 DEF UpsertRequests
    <3> HIDE DEF r
    <3>3. req'[p] = r
      BY <3>1 DEF RowInv
    <3>4. KnowsRow(p)'
      BY <2>3, <2>4, <3>1, <3>2, <3>3 DEF KnowsRow
    <3> QED
      BY <3>1, <3>2, <3>4, RowQuiet
  <2>5. CASE ~Valid(detail.kind, Merged(req[p].patch, row))
    <3>1. req' = [req EXCEPT ![p] = None] /\ UNCHANGED detail
      BY <1>2, <2>1, <2>5 DEF PatchRead, Done
    <3> QED
      BY <3>1, RowQuiet
  <2> QED
    BY <2>4, <2>5
<1>3. ASSUME NEW p \in Procs, NEW kind \in WholeKinds, Upsert(p, kind, WholeRow)
      PROVE  RowInv'
  <2>1. PICK row : row = Merged(req[p].patch, req[p].row)
    OBVIOUS
  <2>2. req[p] \in UpsertRequests
    BY <1>0, <1>3 DEF Upsert, At
  <2>3. row \in DetailRows
    BY <2>1, <2>2, MergedIsRow DEF UpsertRequests
  <2>4. /\ detail.kind = kind /\ Running(p, "upsert") /\ At(p, "write") /\ Done(p)
        /\ detail' = CASE req[p].found /\ detail.row # None -> [detail EXCEPT !.row = row]
                       [] ~req[p].found /\ detail.row = None ->
                            [detail EXCEPT !.row = Merged(req[p].patch, Empty)]
                       [] OTHER -> detail
    BY <1>3, <2>1 DEF Upsert, WholeRow
  <2> QED
    BY <2>1, <2>3, <2>4, UpsertKeeps
<1>4. ASSUME NEW p \in Procs, NEW kind \in PatchedKinds, Upsert(p, kind, PatchedRow)
      PROVE  RowInv'
  <2>1. req[p] \in UpsertRequests /\ kind \notin WholeKinds
    BY <1>0, <1>4 DEF Upsert, At, WholeKinds, PatchedKinds
  <2>2. PICK row \in DetailRows : detail.row # None => row = Merged(req[p].patch, detail.row)
    <3>1. CASE detail.row = None
      BY <3>1, EmptyIsRow
    <3>2. CASE detail.row # None
      <4>1. detail.row \in DetailRows /\ req[p].patch \in Patches
        BY <1>0, <2>1, <3>2 DEF UpsertRequests
      <4> QED
        BY <4>1, MergedIsRow
    <3> QED
      BY <3>1, <3>2
  <2>3. /\ detail.kind = kind /\ Running(p, "upsert") /\ At(p, "write") /\ Done(p)
        /\ detail' = CASE req[p].found /\ detail.row # None -> [detail EXCEPT !.row = row]
                       [] ~req[p].found /\ detail.row = None ->
                            [detail EXCEPT !.row = Merged(req[p].patch, Empty)]
                       [] OTHER -> detail
    BY <1>4, <2>2 DEF Upsert, PatchedRow
  <2> QED
    BY <2>1, <2>2, <2>3, UpsertKeeps
<1>5. ASSUME DeleteCertificate
      PROVE  RowInv'
  <2>1. detail' = [detail EXCEPT !.row = None] /\ UNCHANGED req
    BY <1>5 DEF DeleteCertificate
  <2> QED
    BY <2>1, RowWritten
<1> QED
  BY <1>1, <1>2, <1>3, <1>4, <1>5 DEF DetailNext, UpsertUtilities, UpsertLegal, UpdateCertificate,
     UpsertSpecifications, UpdateCoordinates, UpdateRegions, UpdateBuilding, WholeKinds, PatchedKinds

-----------------------------------------------------------------------------
(***************************************************************************)
(* Media and their cover.                                                  *)
(***************************************************************************)

MediaRequests ==
  [op : {"media"}, at : {"lock", "locked", "write"}, m : Items,
   row : [type : Types \cup {None}, cover : BOOLEAN, deleted : BOOLEAN],
   isNew : BOOLEAN, cleared : SUBSET Items]

\* Who writes without the lock makes no cover; who has the lock will clear every other
\* cover there is.
KnowsMedia(p) ==
  LET r == req[p]
  IN  /\ r.isNew = FALSE => media[r.m] # None
      /\ r.isNew = TRUE => r.row.type \in Types
      /\ \A m \in r.cleared : media[m] # None
      /\ r.at = "write" => r.row.cover = FALSE
      /\ r.at = "locked" => Covers \subseteq r.cleared \cup {r.m}

Locked(p) == req[p] # None /\ req[p].at = "locked"

MediaInv ==
  /\ req \in [Procs -> MediaRequests \cup {None}]
  /\ media \in [Items -> MediaRow \cup {None}]
  /\ \A p \in Procs : req[p] # None => KnowsMedia(p)
  /\ \A p, q \in Procs : Locked(p) /\ Locked(q) => p = q
  /\ OneCover

LEMMA MediaInitial ==
  ASSUME RequestsInit, PropertyDetailsInit
  PROVE  MediaInv
BY DEF RequestsInit, PropertyDetailsInit, MediaInv, OneCover, Covers, MediaLive, Locked

\* A step that leaves the rows as they are.
LEMMA MediaQuiet ==
  ASSUME MediaInv, NEW p \in Procs, NEW r \in MediaRequests \cup {None},
         req' = [req EXCEPT ![p] = r], UNCHANGED media, r # None => KnowsMedia(p)',
         r # None /\ r.at = "locked" => \A q \in Procs : Locked(q) => q = p
  PROVE  MediaInv'
<1>1. req' \in [Procs -> MediaRequests \cup {None}]
      /\ req'[p] = r /\ \A q \in Procs \ {p} : req'[q] = req[q]
  BY DEF MediaInv
<1>2. ASSUME NEW q \in Procs, req'[q] # None
      PROVE  KnowsMedia(q)'
  <2>1. CASE q = p
    BY <1>1, <1>2, <2>1
  <2>2. CASE q # p
    <3>1. req'[q] = req[q] /\ KnowsMedia(q)
      BY <1>1, <1>2, <2>2 DEF MediaInv
    <3> QED
      BY <3>1 DEF KnowsMedia, Covers, MediaLive
  <2> QED
    BY <2>1, <2>2
<1>3. OneCover'
  BY DEF MediaInv, OneCover, Covers, MediaLive
<1>4. ASSUME NEW q1 \in Procs, NEW q2 \in Procs, Locked(q1)', Locked(q2)'
      PROVE  q1 = q2
  <2>1. \A q \in Procs \ {p} : Locked(q)' => Locked(q)
    BY <1>1 DEF Locked
  <2>2. Locked(p)' => \A q \in Procs : Locked(q) => q = p
    BY <1>1 DEF Locked
  <2> QED
    BY <1>4, <2>1, <2>2 DEF MediaInv
<1> QED
  BY <1>1, <1>2, <1>3, <1>4 DEF MediaInv

\* A step that ends a request or none and writes rows: a row stays a row, no cover is
\* added but by who has the lock.
LEMMA MediaWritten ==
  ASSUME MediaInv, UNCHANGED req \/ (\E p \in Procs : Done(p)),
         media' \in [Items -> MediaRow \cup {None}],
         \A m \in Items : media[m] # None => media'[m] # None,
         \/ Covers' \subseteq Covers
         \/ OneCover' /\ \A q \in Procs : ~Locked(q)'
  PROVE  MediaInv'
<1>1. req' \in [Procs -> MediaRequests \cup {None}]
      /\ \A q \in Procs : req'[q] # None => req'[q] = req[q]
  BY DEF MediaInv, Done
<1>2. ASSUME NEW q \in Procs, req'[q] # None
      PROVE  KnowsMedia(q)'
  <2>1. req'[q] = req[q] /\ req[q] \in MediaRequests /\ KnowsMedia(q)
    BY <1>1, <1>2 DEF MediaInv
  <2>2. req[q].at = "locked" => Locked(q)'
    BY <1>2, <2>1 DEF Locked
  <2>3. req[q].m \in Items /\ req[q].cleared \subseteq Items
    BY <2>1 DEF MediaRequests
  <2>4. req[q].at = "locked" => Covers' \subseteq req[q].cleared \cup {req[q].m}
    BY <2>1, <2>2 DEF KnowsMedia
  <2> QED
    BY <2>1, <2>3, <2>4 DEF KnowsMedia
<1>3. OneCover'
  BY DEF MediaInv, OneCover
<1>4. \A p, q \in Procs : Locked(p)' /\ Locked(q)' => p = q
  BY <1>1 DEF MediaInv, Locked
<1> QED
  BY <1>1, <1>2, <1>3, <1>4 DEF MediaInv

LEMMA MediaKeeps ==
  ASSUME MediaInv, MediaNext
  PROVE  MediaInv'
<1>0. /\ media \in [Items -> MediaRow \cup {None}]
      /\ \A p \in Procs : req[p] \in MediaRequests \cup {None} /\ (req[p] # None => KnowsMedia(p))
  BY DEF MediaInv
\* A request begins.
<1>1. ASSUME NEW p \in Procs, NEW m \in Items, NEW at \in {"lock", "write"},
             NEW row \in [type : Types \cup {None}, cover : BOOLEAN, deleted : BOOLEAN],
             MediaRequest(p, m, row, at), UNCHANGED media,
             media[m] = None => row.type \in Types, at = "write" => row.cover = FALSE
      PROVE  MediaInv'
  <2>1. PICK b \in BOOLEAN : b <=> media[m] = None
    <3>1. CASE media[m] = None
      <4>1. TRUE \in BOOLEAN /\ (TRUE <=> media[m] = None)
        BY <3>1
      <4> QED
        BY <4>1, Zenon
    <3>2. CASE media[m] # None
      <4>1. FALSE \in BOOLEAN /\ (FALSE <=> media[m] = None)
        BY <3>2
      <4> QED
        BY <4>1, Zenon
    <3> QED
      BY <3>1, <3>2
  <2>2. PICK r : r = [op |-> "media", at |-> at, m |-> m, row |-> row, isNew |-> b, cleared |-> {}]
    OBVIOUS
  <2>3. r \in MediaRequests /\ r.at = at /\ r.m = m /\ r.row = row /\ r.isNew = b /\ r.cleared = {}
    BY <2>2 DEF MediaRequests
  <2>4. req' = [req EXCEPT ![p] = r]
    BY <1>1, <2>1, <2>2 DEF MediaRequest, Start
  <2>5. req'[p] = r
    BY <2>4 DEF MediaInv
  <2>6. KnowsMedia(p)'
    BY <1>1, <2>1, <2>3, <2>5 DEF KnowsMedia
  <2>7. r.at # "locked"
    BY <2>3
  <2> QED
    BY <1>1, <2>3, <2>4, <2>6, <2>7, MediaQuiet
<1>2. ASSUME NEW p \in Procs, NEW m \in Items, NEW type \in Types, NEW cover \in BOOLEAN,
             AddMedia(p, m, type, cover)
      PROVE  MediaInv'
  <2>1. PICK row : row = [type |-> type, cover |-> cover, deleted |-> FALSE]
    OBVIOUS
  <2>2. row \in [type : Types \cup {None}, cover : BOOLEAN, deleted : BOOLEAN]
        /\ row.type \in Types /\ row.cover = cover
    BY <2>1
  <2>3. CASE cover
    <3>1. MediaRequest(p, m, row, "lock") /\ UNCHANGED media
      BY <1>2, <2>1, <2>3 DEF AddMedia
    <3> QED
      BY <1>1, <2>2, <3>1
  <2>4. CASE ~cover
    <3>1. MediaRequest(p, m, row, "write") /\ UNCHANGED media
      BY <1>2, <2>1, <2>4 DEF AddMedia
    <3> QED
      BY <1>1, <2>2, <2>4, <3>1
  <2> QED
    BY <2>3, <2>4
<1>3. ASSUME NEW p \in Procs, NEW m \in Items, NEW type \in Types \cup {None},
             NEW cover \in {None, TRUE, FALSE}, UpdateMediaRead(p, m, type, cover)
      PROVE  MediaInv'
  <2>1. media[m] # None /\ media[m] \in MediaRow
    BY <1>0, <1>3 DEF UpdateMediaRead, MediaLive
  <2>2. PICK row : row = [type |-> IF type = None THEN media[m].type ELSE type,
                          cover |-> IF cover = None THEN media[m].cover ELSE cover, deleted |-> FALSE]
    OBVIOUS
  <2>3. media[m].type \in Types /\ media[m].cover \in BOOLEAN
    BY <2>1 DEF MediaRow
  <2>4. (IF cover = None THEN media[m].cover ELSE cover) \in BOOLEAN
    BY <2>3
  <2>5. row \in [type : Types \cup {None}, cover : BOOLEAN, deleted : BOOLEAN]
    BY <2>2, <2>3, <2>4
  <2>6. CASE row.cover = TRUE
    <3>1. MediaRequest(p, m, row, "lock") /\ UNCHANGED media
      BY <1>3, <2>2, <2>6 DEF UpdateMediaRead
    <3> QED
      BY <1>1, <2>1, <2>5, <3>1
  <2>7. CASE row.cover = FALSE
    <3>1. MediaRequest(p, m, row, "write") /\ UNCHANGED media
      BY <1>3, <2>2, <2>7 DEF UpdateMediaRead
    <3> QED
      BY <1>1, <2>1, <2>5, <2>7, <3>1
  <2> QED
    BY <2>5, <2>6, <2>7
<1>4. ASSUME NEW p \in Procs, NEW m \in Items, SetCoverRead(p, m)
      PROVE  MediaInv'
  <2>1. PICK row : row = [type |-> None, cover |-> TRUE, deleted |-> FALSE]
    OBVIOUS
  <2>2. row \in [type : Types \cup {None}, cover : BOOLEAN, deleted : BOOLEAN]
    BY <2>1
  <2>3. MediaRequest(p, m, row, "lock") /\ UNCHANGED media /\ media[m] # None
    BY <1>4, <2>1 DEF SetCoverRead, MediaLive
  <2> QED
    BY <1>1, <2>2, <2>3
<1>5. ASSUME NEW p \in Procs, ClearCovers(p)
      PROVE  MediaInv'
  <2>1. req[p] \in MediaRequests /\ KnowsMedia(p)
    BY <1>0, <1>5 DEF ClearCovers, Running
  <2>2. PICK cs : cs = Covers \ {req[p].m}
    OBVIOUS
  <2>3. cs \subseteq Items /\ \A m \in cs : media[m] # None
    BY <2>2 DEF Covers, MediaLive
  <2> DEFINE r == [req[p] EXCEPT !.at = "locked", !.cleared = cs]
  <2>4. req' = [req EXCEPT ![p] = r] /\ UNCHANGED media
    BY <1>5, <2>2 DEF ClearCovers, MediaInv
  <2>5. r \in MediaRequests /\ r.at = "locked" /\ r.cleared = cs /\ r.m = req[p].m
        /\ r.isNew = req[p].isNew /\ r.row = req[p].row
    BY <2>1, <2>3 DEF MediaRequests
  <2> HIDE DEF r
  <2>6. req'[p] = r
    BY <2>4 DEF MediaInv
  <2>7. Covers' = Covers
    BY <2>4 DEF Covers, MediaLive
  <2>8. KnowsMedia(p)'
    BY <2>1, <2>2, <2>3, <2>4, <2>5, <2>6, <2>7 DEF KnowsMedia
  <2>9. \A q \in Procs : Locked(q) => q = p
    BY <1>0, <1>5 DEF ClearCovers, LockFree, Locked, Running, MediaRequests
  <2> QED
    BY <2>4, <2>5, <2>8, <2>9, MediaQuiet
<1>6. ASSUME NEW p \in Procs, WriteMedia(p)
      PROVE  MediaInv'
  <2>1. req[p] \in MediaRequests /\ KnowsMedia(p) /\ req[p].at \in {"locked", "write"} /\ Done(p)
    BY <1>0, <1>6 DEF WriteMedia, Running
  <2>2. PICK m0 : m0 = req[p].m
    OBVIOUS
  <2>3. PICK written : written = IF req[p].isNew THEN req[p].row
               ELSE [media[m0] EXCEPT !.cover = req[p].row.cover,
                                      !.type = IF req[p].row.type = None THEN @ ELSE req[p].row.type]
    OBVIOUS
  <2>4. m0 \in Items /\ req[p].isNew \in BOOLEAN /\ req[p].row.cover \in BOOLEAN
        /\ req[p].row \in [type : Types \cup {None}, cover : BOOLEAN, deleted : BOOLEAN]
        /\ req[p].cleared \subseteq Items
    BY <2>1, <2>2 DEF MediaRequests
  <2>5. written \in MediaRow /\ written.cover = req[p].row.cover
    <3>1. CASE req[p].isNew = TRUE
      BY <2>1, <2>3, <2>4, <3>1 DEF KnowsMedia, MediaRow
    <3>2. CASE req[p].isNew = FALSE
      <4>1. media[m0] \in MediaRow
        BY <1>0, <2>1, <2>2, <2>4, <3>2 DEF KnowsMedia
      <4>2. PICK t \in Types : t = IF req[p].row.type = None THEN media[m0].type ELSE req[p].row.type
        BY <2>4, <4>1 DEF MediaRow
      <4>3. written = [media[m0] EXCEPT !.cover = req[p].row.cover, !.type = t]
        BY <2>3, <3>2, <4>1, <4>2 DEF MediaRow
      <4> QED
        BY <2>4, <4>1, <4>2, <4>3 DEF MediaRow
    <3> QED
      BY <2>4, <3>1, <3>2
  <2>6. media' = [m \in Items |->
                    IF m = m0 THEN written
                    ELSE IF m \in req[p].cleared THEN [media[m] EXCEPT !.cover = FALSE] ELSE media[m]]
    BY <1>6, <2>2, <2>3 DEF WriteMedia
  <2>7. \A m \in req[p].cleared : /\ [media[m] EXCEPT !.cover = FALSE] \in MediaRow
                                  /\ [media[m] EXCEPT !.cover = FALSE].cover = FALSE
    BY <1>0, <2>1, <2>4 DEF KnowsMedia, MediaRow
  <2>8. media' \in [Items -> MediaRow \cup {None}]
    BY <1>0, <2>5, <2>6, <2>7
  <2>9. \A m \in Items : media[m] # None => media'[m] # None
    BY <2>5, <2>6, <2>7, PropertyDetailsAssumption
  <2>10. \A m \in Covers' \ {m0} : m \in Covers /\ m \notin req[p].cleared
    BY <2>6, <2>7 DEF Covers, MediaLive
  <2>11. CASE req[p].at = "write"
    <3>1. m0 \notin Covers'
      BY <2>1, <2>4, <2>5, <2>6, <2>11 DEF KnowsMedia, Covers
    <3>2. Covers' \subseteq Covers
      BY <2>10, <3>1
    <3> QED
      BY <2>1, <2>8, <2>9, <3>2, MediaWritten
  <2>12. CASE req[p].at = "locked"
    <3>1. Covers' \subseteq {m0}
      BY <2>1, <2>2, <2>10, <2>12 DEF KnowsMedia
    <3>2. OneCover'
      BY <3>1 DEF OneCover
    <3>3. Locked(p) /\ req'[p] = None /\ \A q \in Procs \ {p} : req'[q] = req[q]
      BY <1>6, <2>1, <2>12 DEF Locked, Done, WriteMedia, Running, MediaInv
    <3>4. \A q \in Procs : ~Locked(q)'
      BY <3>3 DEF MediaInv, Locked
    <3> QED
      BY <2>1, <2>8, <2>9, <3>2, <3>4, MediaWritten
  <2> QED
    BY <2>1, <2>11, <2>12
<1>7. ASSUME NEW p \in Procs, NEW m \in Items, DeleteMedia(p, m)
      PROVE  MediaInv'
  <2>1. media[m] \in MediaRow
    BY <1>0, <1>7 DEF DeleteMedia, MediaLive
  <2>2. media' = [media EXCEPT ![m] = [media[m] EXCEPT !.deleted = TRUE, !.cover = FALSE]]
        /\ UNCHANGED req
    BY <1>0, <1>7 DEF DeleteMedia
  <2>3. [media[m] EXCEPT !.deleted = TRUE, !.cover = FALSE] \in MediaRow
        /\ [media[m] EXCEPT !.deleted = TRUE, !.cover = FALSE].deleted = TRUE
    BY <2>1 DEF MediaRow
  <2>4. media' \in [Items -> MediaRow \cup {None}]
        /\ \A n \in Items : media[n] # None => media'[n] # None
    BY <1>0, <2>2, <2>3, PropertyDetailsAssumption
  <2>5. Covers' \subseteq Covers
    BY <1>0, <2>2, <2>3 DEF Covers, MediaLive
  <2> QED
    BY <2>2, <2>4, <2>5, MediaWritten
<1> QED
  BY <1>2, <1>3, <1>4, <1>5, <1>6, <1>7 DEF MediaNext

-----------------------------------------------------------------------------
(***************************************************************************)
(* The order of media and of rooms.                                        *)
(***************************************************************************)

Count == Cardinality(Items)

\* A reorder has updated an item and holds its row.
HasUpdated(p, i) == req[p] # None /\ req[p].asked[i] < req[p].next

\* An item stands where the one reorder that has updated it wants it, or, when there is
\* none, where the last committed one put it.
OrderInv ==
  /\ req \in [Procs -> Reorders \cup {None}]
  /\ order \in [row : [Items -> Nat], committed : [Items -> Nat]]
  /\ \A p, q \in Procs, i \in Items : HasUpdated(p, i) /\ HasUpdated(q, i) => p = q
  /\ \A p \in Procs, i \in Items : HasUpdated(p, i) => order.row[i] = req[p].asked[i]
  /\ \A i \in Items : (\A p \in Procs : ~HasUpdated(p, i)) => order.row[i] = order.committed[i]

LEMMA OrderInitial ==
  ASSUME RequestsInit, PropertyDetailsInit
  PROVE  OrderInv
BY DEF RequestsInit, PropertyDetailsInit, OrderInv, HasUpdated

LEMMA CountIsNat == Count \in Nat
BY PropertyDetailsAssumption, FS_CardinalityType DEF Count

LEMMA OrderTypes ==
  ASSUME NEW f \in Orders
  PROVE  f \in [Items -> 0..(Count - 1)] /\ \A i, j \in Items : f[i] = f[j] => i = j
BY DEF Orders, Count

\* An order has an item in every place.
LEMMA EveryPlace ==
  ASSUME NEW f \in Orders, NEW k \in 0..(Count - 1)
  PROVE  \E i \in Items : f[i] = k
<1> SUFFICES ASSUME \A i \in Items : f[i] # k
             PROVE  FALSE
  OBVIOUS
<1> DEFINE T == (0..(Count - 1)) \ {k}
<1>1. f \in [Items -> T]
  BY OrderTypes
<1>2. Count \in Nat /\ 0 \in Int /\ Count - 1 \in Int /\ Count > 0
  BY CountIsNat
<1>3. IsFiniteSet(0..(Count - 1)) /\ Cardinality(0..(Count - 1)) = Count
  BY <1>2, FS_Interval
<1>4. IsFiniteSet(T) /\ Cardinality(T) = Count - 1
  BY <1>3, FS_RemoveElement
<1>5. IsFiniteSet(Items) /\ Cardinality(T) < Cardinality(Items)
  BY <1>2, <1>4, PropertyDetailsAssumption DEF Count
<1> HIDE DEF T
<1>6. \E i, j \in Items : i # j /\ f[i] = f[j]
  BY <1>1, <1>4, <1>5, FS_PigeonHole
<1> QED
  BY <1>6, OrderTypes

LEMMA OrderAsked ==
  ASSUME OrderInv
  PROVE  OrderIsAsked
<1> SUFFICES ASSUME \A p \in Procs : ~Running(p, "reorder")
             PROVE  order.row = order.committed
  BY DEF OrderIsAsked
<1>1. \A p \in Procs : req[p] = None
  BY DEF OrderInv, Reorders, Count, Running
<1>2. \A i \in Items : order.row[i] = order.committed[i]
  BY <1>1 DEF OrderInv, HasUpdated
<1> QED
  BY <1>2 DEF OrderInv

LEMMA OrderKeeps ==
  ASSUME OrderInv, OrderNext
  PROVE  OrderInv'
<1>0. /\ order \in [row : [Items -> Nat], committed : [Items -> Nat]]
      /\ \A p \in Procs : req[p] \in Reorders \cup {None}
      /\ Count \in Nat
  BY CountIsNat DEF OrderInv
<1>1. ASSUME NEW p \in Procs, NEW f \in Orders, ReorderRequest(p, f)
      PROVE  OrderInv'
  <2>1. PICK r : r = [op |-> "reorder", asked |-> f, next |-> 0]
    OBVIOUS
  <2>2. r \in Reorders /\ r.asked = f /\ r.next = 0
    BY <1>0, <2>1 DEF Reorders, Count
  <2>3. req[p] = None /\ req' = [req EXCEPT ![p] = r] /\ UNCHANGED order
    BY <1>1, <2>1 DEF ReorderRequest, Start
  <2>4. req'[p] = r /\ \A q \in Procs \ {p} : req'[q] = req[q]
    BY <2>3 DEF OrderInv
  <2>5. req' \in [Procs -> Reorders \cup {None}]
    BY <2>2, <2>3 DEF OrderInv
  <2>6. \A i \in Items : ~(f[i] < 0)
    BY <1>0, OrderTypes
  <2>7. \A q \in Procs, i \in Items : HasUpdated(q, i)' <=> HasUpdated(q, i)
    BY <2>2, <2>3, <2>4, <2>6 DEF HasUpdated
  <2>8. \A q \in Procs, i \in Items : HasUpdated(q, i) => req'[q].asked[i] = req[q].asked[i]
    BY <2>3, <2>4 DEF HasUpdated
  <2> QED
    BY <2>3, <2>5, <2>7, <2>8 DEF OrderInv
<1>2. ASSUME NEW p \in Procs, UpdateOrder(p)
      PROVE  OrderInv'
  <2>1. req[p] \in Reorders /\ req[p] # None /\ req[p].next < Count
    BY <1>0, <1>2 DEF UpdateOrder, Running, Count
  <2>2. req[p].asked \in Orders /\ req[p].next \in 0..(Count - 1)
    BY <1>0, <2>1 DEF Reorders, Count
  <2>3. PICK k \in Nat : k = req[p].next
    BY <1>0, <2>2
  <2>4. PICK f \in Orders : f = req[p].asked
    BY <2>2
  <2>5. \E i \in Items : f[i] = k
    BY <2>2, <2>3, EveryPlace
  <2>6. PICK n \in Items : n = NextItem(p) /\ f[n] = k
    BY <2>3, <2>4, <2>5 DEF NextItem
  <2> DEFINE r == [req[p] EXCEPT !.next = k + 1]
  <2>7. req' = [req EXCEPT ![p] = r]
    BY <1>2, <2>3 DEF UpdateOrder, OrderInv
  <2>8. r \in Reorders /\ r.asked = f /\ r.next = k + 1
    BY <1>0, <2>1, <2>2, <2>3, <2>4 DEF Reorders, Count
  <2> HIDE DEF r
  <2>9. r # None
    BY <2>8, ReordersAssumption
  <2>10. req' \in [Procs -> Reorders \cup {None}]
         /\ req'[p] = r /\ \A q \in Procs \ {p} : req'[q] = req[q]
    BY <2>7, <2>8 DEF OrderInv
  <2>11. order' = [order EXCEPT !.row = [order.row EXCEPT ![n] = k]]
    BY <1>0, <1>2, <2>3, <2>6 DEF UpdateOrder
  <2>12. order' \in [row : [Items -> Nat], committed : [Items -> Nat]]
         /\ order'.committed = order.committed /\ order'.row[n] = k
         /\ \A i \in Items \ {n} : order'.row[i] = order.row[i]
    BY <1>0, <2>11
  <2>13. f \in [Items -> 0..(Count - 1)] /\ \A i, j \in Items : f[i] = f[j] => i = j
    BY OrderTypes
  <2>14. \A i \in Items : HasUpdated(p, i)' <=> HasUpdated(p, i) \/ i = n
    <3>1. \A i \in Items : f[i] \in Nat
      BY <1>0, <2>13
    <3>2. \A i \in Items : f[i] < k + 1 <=> f[i] < k \/ i = n
      BY <2>6, <2>13, <3>1
    <3> QED
      BY <2>1, <2>3, <2>4, <2>8, <2>9, <2>10, <3>2 DEF HasUpdated
  <2>15. \A q \in Procs \ {p}, i \in Items : HasUpdated(q, i)' <=> HasUpdated(q, i)
    BY <2>10 DEF HasUpdated
  <2>16. \A q \in Procs \ {p} : ~HasUpdated(q, n)
    <3> SUFFICES ASSUME NEW q \in Procs \ {p}, req[q] # None
                 PROVE  ~(req[q].asked[n] < req[q].next)
      BY DEF HasUpdated
    <3>1. req[q] \in Reorders /\ Running(q, "reorder")
      BY <1>0 DEF Running, Reorders, Count
    <3>2. req[q].asked[n] >= req[q].next
      BY <1>2, <2>6, <3>1 DEF UpdateOrder, OrderRowFree
    <3>3. req[q].asked \in Orders /\ req[q].next \in Nat
      BY <1>0, <3>1 DEF Reorders, Count
    <3>4. req[q].asked[n] \in Nat
      BY <1>0, <3>3, OrderTypes
    <3> QED
      BY <3>2, <3>3, <3>4
  <2>17. \A q1, q2 \in Procs, i \in Items : HasUpdated(q1, i)' /\ HasUpdated(q2, i)' => q1 = q2
    BY <2>14, <2>15, <2>16 DEF OrderInv
  <2>18. \A q \in Procs, i \in Items : HasUpdated(q, i)' => order'.row[i] = req'[q].asked[i]
    BY <2>4, <2>6, <2>8, <2>10, <2>12, <2>14, <2>15, <2>16 DEF OrderInv
  <2>19. \A i \in Items : (\A q \in Procs : ~HasUpdated(q, i)') => order'.row[i] = order'.committed[i]
    BY <2>12, <2>14, <2>15 DEF OrderInv
  <2> QED
    BY <2>10, <2>12, <2>17, <2>18, <2>19 DEF OrderInv
<1>3. ASSUME NEW p \in Procs, CommitOrder(p)
      PROVE  OrderInv'
  <2>1. req[p] \in Reorders /\ req[p] # None /\ req[p].next = Count
    BY <1>0, <1>3 DEF CommitOrder, Running, Count
  <2>2. PICK f \in Orders : f = req[p].asked
    BY <2>1 DEF Reorders, Count
  <2>3. f \in [Items -> 0..(Count - 1)]
    BY OrderTypes
  <2>4. \A i \in Items : f[i] \in Nat /\ f[i] < Count
    BY <1>0, <2>3
  <2>5. f \in [Items -> Nat]
    BY <2>3, <2>4
  <2>6. \A i \in Items : HasUpdated(p, i)
    BY <2>1, <2>2, <2>4 DEF HasUpdated
  <2>7. order' = [order EXCEPT !.committed = f] /\ req' = [req EXCEPT ![p] = None]
    BY <1>3, <2>2 DEF CommitOrder, Done
  <2>8. order' \in [row : [Items -> Nat], committed : [Items -> Nat]]
        /\ order'.committed = f /\ order'.row = order.row
    BY <1>0, <2>5, <2>7
  <2>9. req' \in [Procs -> Reorders \cup {None}]
        /\ req'[p] = None /\ \A q \in Procs \ {p} : req'[q] = req[q]
    BY <2>7 DEF OrderInv
  <2>10. \A q \in Procs, i \in Items : ~HasUpdated(q, i)'
    <3>1. \A q \in Procs \ {p}, i \in Items : ~HasUpdated(q, i)
      BY <2>6 DEF OrderInv
    <3> QED
      BY <2>9, <3>1 DEF HasUpdated
  <2>11. \A i \in Items : order'.row[i] = order'.committed[i]
    BY <2>2, <2>6, <2>8 DEF OrderInv
  <2> QED
    BY <2>8, <2>9, <2>10, <2>11 DEF OrderInv
<1>4. ASSUME NEW p \in Procs, AbortOrder(p)
      PROVE  OrderInv'
  <2>1. req[p] \in Reorders /\ req[p] # None
    BY <1>0, <1>4 DEF AbortOrder, Running
  <2> DEFINE back == [i \in Items |-> IF req[p].asked[i] < req[p].next
                                      THEN order.committed[i] ELSE order.row[i]]
  <2>2. order' = [order EXCEPT !.row = back] /\ req' = [req EXCEPT ![p] = None]
    BY <1>4 DEF AbortOrder, Done
  <2>3. back \in [Items -> Nat]
        /\ \A i \in Items : /\ HasUpdated(p, i) => back[i] = order.committed[i]
                            /\ ~HasUpdated(p, i) => back[i] = order.row[i]
    BY <1>0, <2>1 DEF HasUpdated
  <2> HIDE DEF back
  <2>4. order' \in [row : [Items -> Nat], committed : [Items -> Nat]]
        /\ order'.committed = order.committed /\ order'.row = back
    BY <1>0, <2>2, <2>3
  <2>5. req' \in [Procs -> Reorders \cup {None}]
        /\ req'[p] = None /\ \A q \in Procs \ {p} : req'[q] = req[q]
    BY <2>2 DEF OrderInv
  <2>6. \A q \in Procs, i \in Items : HasUpdated(q, i)' => q # p /\ HasUpdated(q, i) /\ ~HasUpdated(p, i)
    BY <2>5 DEF HasUpdated, OrderInv
  <2>7. \A q \in Procs, i \in Items : q # p /\ HasUpdated(q, i) => HasUpdated(q, i)'
    BY <2>5 DEF HasUpdated
  <2>8. \A q1, q2 \in Procs, i \in Items : HasUpdated(q1, i)' /\ HasUpdated(q2, i)' => q1 = q2
    BY <2>6 DEF OrderInv
  <2>9. \A q \in Procs, i \in Items : HasUpdated(q, i)' => order'.row[i] = req'[q].asked[i]
    BY <2>3, <2>4, <2>5, <2>6 DEF OrderInv
  <2>10. \A i \in Items : (\A q \in Procs : ~HasUpdated(q, i)') => order'.row[i] = order'.committed[i]
    BY <2>3, <2>4, <2>7 DEF OrderInv
  <2> QED
    BY <2>4, <2>5, <2>8, <2>9, <2>10 DEF OrderInv
<1> QED
  BY <1>1, <1>2, <1>3, <1>4 DEF OrderNext

(***************************************************************************)
(* A document and its versions.                                            *)
(***************************************************************************)

DocumentRequests ==
  [op : {"createVersion"}, version : Nat] \cup [op : {"updateDocument"}, status : DocumentStatuses]

\* The next number that an upload has read is at most one beyond the last version.
DocumentInv ==
  /\ req \in [Procs -> DocumentRequests \cup {None}]
  /\ document \in [status : DocumentStatuses, currentVersion : Nat, versions : Seq(Nat)]
  /\ document.currentVersion >= 1
  /\ \A p \in Procs : Running(p, "createVersion") =>
       req[p].version \in 1..(document.currentVersion + 1)
  /\ VersionsContiguous

LEMMA DocumentInitial ==
  ASSUME RequestsInit, PropertyDetailsInit
  PROVE  DocumentInv
<1>1. document = [status |-> "ACTIVE", currentVersion |-> 1, versions |-> <<1>>]
      /\ req = [p \in Procs |-> None]
  BY DEF RequestsInit, PropertyDetailsInit
<1> QED
  BY <1>1 DEF DocumentInv, Running, VersionsContiguous, DocumentStatuses

\* A step that leaves the versions as they are.
LEMMA DocumentQuiet ==
  ASSUME DocumentInv, NEW p \in Procs, NEW r \in DocumentRequests \cup {None},
         UNCHANGED req \/ req' = [req EXCEPT ![p] = r],
         r # None /\ r.op = "createVersion" => r.version \in 1..(document.currentVersion + 1),
         NEW s \in DocumentStatuses, document' = [document EXCEPT !.status = s]
  PROVE  DocumentInv'
<1>1. document' \in [status : DocumentStatuses, currentVersion : Nat, versions : Seq(Nat)]
      /\ document'.currentVersion = document.currentVersion /\ document'.versions = document.versions
  BY DEF DocumentInv
<1>2. req' \in [Procs -> DocumentRequests \cup {None}]
  BY DEF DocumentInv
<1>3. VersionsContiguous'
  BY <1>1 DEF DocumentInv, VersionsContiguous
<1>4. \A q \in Procs : Running(q, "createVersion")' =>
        req'[q].version \in 1..(document.currentVersion + 1)
  BY DEF DocumentInv, Running
<1> QED
  BY <1>1, <1>2, <1>3, <1>4 DEF DocumentInv

LEMMA DocumentKeeps ==
  ASSUME DocumentInv, DocumentNext
  PROVE  DocumentInv'
<1>0. /\ document \in [status : DocumentStatuses, currentVersion : Nat, versions : Seq(Nat)]
      /\ document.currentVersion >= 1
      /\ document = [document EXCEPT !.status = document.status]
      /\ \A p \in Procs : req[p] \in DocumentRequests \cup {None}
  BY DEF DocumentInv
<1>1. ASSUME NEW p \in Procs, CreateVersionRead(p)
      PROVE  DocumentInv'
  <2>1. PICK v \in Nat : v = document.currentVersion + 1
    BY <1>0
  <2>2. PICK r : r = [op |-> "createVersion", version |-> v]
    OBVIOUS
  <2>3. r \in DocumentRequests /\ r.version \in 1..(document.currentVersion + 1)
    BY <1>0, <2>1, <2>2 DEF DocumentRequests
  <2>4. req' = [req EXCEPT ![p] = r] /\ UNCHANGED document
    BY <1>1, <2>1, <2>2 DEF CreateVersionRead, Start, DocumentUnchanged
  <2> QED
    BY <1>0, <2>3, <2>4, DocumentQuiet
<1>2. ASSUME NEW p \in Procs, CreateVersionWrite(p)
      PROVE  DocumentInv'
  <2>1. PICK v \in Nat : v = req[p].version /\ v \in 1..(document.currentVersion + 1)
    BY <1>0, <1>2 DEF CreateVersionWrite, DocumentInv
  <2>2. req' = [req EXCEPT ![p] = None]
    BY <1>2 DEF CreateVersionWrite, Done
  <2>3. CASE ~VersionFree(v)
    <3>1. UNCHANGED document
      BY <1>2, <2>1, <2>3 DEF CreateVersionWrite
    <3> QED
      BY <1>0, <2>2, <3>1, DocumentQuiet
  <2>4. CASE VersionFree(v)
    <3>1. document' = [document EXCEPT !.versions = Append(document.versions, v), !.currentVersion = v]
      BY <1>2, <2>1, <2>4 DEF CreateVersionWrite
    <3>2. Len(document.versions) = document.currentVersion
          /\ \A i \in 1..document.currentVersion : document.versions[i] = i
      BY <1>0 DEF DocumentInv, VersionsContiguous
    <3>3. v = document.currentVersion + 1
      <4>1. v \notin 1..document.currentVersion
        BY <1>0, <2>4, <3>2 DEF VersionFree
      <4> QED
        BY <1>0, <2>1, <4>1
    <3>4. /\ Append(document.versions, v) \in Seq(Nat)
          /\ Len(Append(document.versions, v)) = v
          /\ \A i \in 1..v : Append(document.versions, v)[i] = i
      BY <1>0, <3>2, <3>3
    <3>5. document' \in [status : DocumentStatuses, currentVersion : Nat, versions : Seq(Nat)]
          /\ document'.currentVersion = v /\ document'.versions = Append(document.versions, v)
      BY <1>0, <3>1, <3>4
    <3>6. VersionsContiguous'
      BY <3>4, <3>5 DEF VersionsContiguous
    <3>7. \A q \in Procs : Running(q, "createVersion")' =>
            req'[q].version \in 1..(document'.currentVersion + 1)
      <4>1. \A q \in Procs : Running(q, "createVersion")' => Running(q, "createVersion") /\ req'[q] = req[q]
        BY <2>2 DEF DocumentInv, Running
      <4> QED
        BY <1>0, <3>3, <3>5, <4>1 DEF DocumentInv
    <3>8. req' \in [Procs -> DocumentRequests \cup {None}]
      BY <2>2 DEF DocumentInv
    <3>9. document'.currentVersion >= 1
      BY <1>0, <3>3, <3>5
    <3> QED
      BY <3>5, <3>6, <3>7, <3>8, <3>9 DEF DocumentInv
  <2> QED
    BY <2>3, <2>4
<1>3. ASSUME NEW p \in Procs, NEW s \in DocumentStatuses, UpdateDocumentRead(p, s)
      PROVE  DocumentInv'
  <2>1. PICK r : r = [op |-> "updateDocument", status |-> s]
    OBVIOUS
  <2>2. r \in DocumentRequests /\ r.op # "createVersion"
    BY <2>1 DEF DocumentRequests
  <2>3. req' = [req EXCEPT ![p] = r] /\ UNCHANGED document
    BY <1>3, <2>1 DEF UpdateDocumentRead, Start, DocumentUnchanged
  <2> QED
    BY <1>0, <2>2, <2>3, DocumentQuiet
<1>4. ASSUME NEW p \in Procs, UpdateDocumentWrite(p)
      PROVE  DocumentInv'
  <2>1. PICK s \in DocumentStatuses : s = req[p].status
    BY <1>0, <1>4 DEF UpdateDocumentWrite, Running, DocumentRequests
  <2>2. req' = [req EXCEPT ![p] = None] /\ document' = [document EXCEPT !.status = s]
    BY <1>4, <2>1 DEF UpdateDocumentWrite, Done
  <2> QED
    BY <2>2, DocumentQuiet
<1>5. ASSUME DeleteDocument
      PROVE  DocumentInv'
  <2>1. "DELETED" \in DocumentStatuses /\ document' = [document EXCEPT !.status = "DELETED"]
        /\ UNCHANGED req
    BY <1>5 DEF DeleteDocument, DocumentStatuses
  <2>2. document' \in [status : DocumentStatuses, currentVersion : Nat, versions : Seq(Nat)]
        /\ document'.currentVersion = document.currentVersion /\ document'.versions = document.versions
    BY <1>0, <2>1
  <2> QED
    BY <2>1, <2>2 DEF DocumentInv, Running, VersionsContiguous
<1> QED
  BY <1>1, <1>2, <1>3, <1>4, <1>5 DEF DocumentNext

-----------------------------------------------------------------------------
(***************************************************************************)
(* Master data.                                                            *)
(***************************************************************************)

MasterRequests ==
  [op : {"create row", "move", "attach"}, row : MasterRows, parents : SUBSET MasterRows]
    \cup [op : {"edit", "remove"}, row : MasterRows]
    \cup [op : {"copy"}, row : MasterRows, source : MasterRows, parents : SUBSET MasterRows,
          facilities : SUBSET MasterRows]

\* What a request that was accepted may do.
WellFormed(r) ==
  /\ r.op \in {"create row", "move", "copy"} => \A m \in r.parents : MayRefer(r.row, m)
  /\ r.op = "attach" => r.parents \subseteq Facilities
  /\ r.op = "copy" => r.facilities \subseteq Facilities
  /\ r.op = "remove" => LevelOf[r.row] # "property"
  /\ r.op \in {"edit", "move", "remove"} => master[r.row] # None

\* A row that is removed, or about to be.
Doomed(m) == master[m].deleted \/ \E q \in Procs : m \in Removes(req[q])

Excused(n, m) == LevelOf[m] = "type" \/ <<n, m>> \in met

\* A copy inherits the excuses of its source.
CopyExcused(r, m) ==
  r.op = "copy" /\ (<<r.source, m>> \in met \/ (m \in r.parents /\ r.source \in revived))

LinksTo(r, m) ==
  \/ r.op \in {"create row", "move", "attach", "copy"} /\ m \in r.parents
  \/ r.op = "copy" /\ m \in r.facilities

KnowsMaster(p) ==
  /\ WellFormed(req[p])
  /\ \A m \in MasterRows : LinksTo(req[p], m) /\ Doomed(m) =>
       Excused(req[p].row, m) \/ CopyExcused(req[p], m)

ParentsKept ==
  \A n \in MasterRows : LiveRow(n) /\ n \notin revived =>
    \A m \in master[n].parents : Doomed(m) => Excused(n, m)

FacilitiesKept == \A a \in attached : Doomed(a[2]) => a \in met

MasterInv ==
  /\ req \in [Procs -> MasterRequests \cup {None}]
  /\ master \in [MasterRows -> StoredRows \cup {None}]
  /\ attached \subseteq MasterRows \X (Facilities \cap MasterRows)
  /\ \A n \in MasterRows : master[n] # None =>
       \A m \in master[n].parents : m \in MasterRows /\ MayRefer(n, m)
  /\ \A p \in Procs : req[p] # None => KnowsMaster(p)
  /\ ParentsKept /\ FacilitiesKept

LEMMA MasterRowIs ==
  ASSUME NEW ps
  PROVE  /\ MasterRow(ps).parents = ps /\ MasterRow(ps).deleted = FALSE
         /\ ps \subseteq MasterRows => MasterRow(ps) \in StoredRows
<1>1. MasterRow(ps).parents = ps /\ MasterRow(ps).deleted = FALSE
  BY DEF MasterRow
<1>2. MasterRows \subseteq UNION {RowsOf[f] : f \in DOMAIN RowsOf}
  BY DEF MasterRows
<1>3. ps \subseteq MasterRows => ps \in SUBSET UNION {RowsOf[f] : f \in DOMAIN RowsOf}
  BY <1>2
<1>4. ps \in SUBSET UNION {RowsOf[f] : f \in DOMAIN RowsOf} => MasterRow(ps) \in StoredRows
  BY DEF MasterRow, StoredRows
<1> QED
  BY <1>1, <1>3, <1>4

LEMMA MasterInitial ==
  ASSUME RequestsInit, MasterDataInit
  PROVE  MasterInv
<1>1. \A p \in Procs : req[p] = None
  BY DEF RequestsInit
<1>2. \A p \in Procs : Removes(req[p]) = {}
  BY <1>1 DEF Removes
<1>3. \A n \in MasterRows : focus \in DOMAIN RowsOf /\ n \in RowsOf[focus]
  BY DEF MasterRows
<1>4. \A n \in MasterRows : LiveRow(n) \/ master[n] # None =>
        n \in DOMAIN FirstRows /\ master[n] = MasterRow(FirstRows[n])
  BY DEF MasterDataInit, LiveRow
<1>5. ASSUME NEW n \in MasterRows, n \in DOMAIN FirstRows
      PROVE  /\ master[n] = MasterRow(FirstRows[n])
             /\ \A m \in FirstRows[n] : m \in MasterRows /\ m \in DOMAIN FirstRows /\ MayRefer(n, m)
  BY <1>3, <1>5, MasterDataAssumption DEF MasterDataInit, MasterRows
<1>6. ASSUME NEW n \in MasterRows, n \in DOMAIN FirstRows
      PROVE  master[n] \in StoredRows /\ master[n].parents = FirstRows[n] /\ master[n].deleted = FALSE
  <2>1. PICK ps : ps = FirstRows[n]
    OBVIOUS
  <2>2. master[n] = MasterRow(ps) /\ ps \subseteq MasterRows
    BY <1>5, <1>6, <2>1
  <2> QED
    BY <2>1, <2>2, MasterRowIs
<1>7. \A n \in MasterRows : n \in DOMAIN FirstRows => master[n].deleted = FALSE
  BY <1>6
<1>8. master \in [MasterRows -> StoredRows \cup {None}]
  BY <1>6 DEF MasterDataInit
<1>9. ParentsKept
  BY <1>2, <1>4, <1>5, <1>6, <1>7 DEF ParentsKept, Doomed
<1>10. attached = {} /\ req \in [Procs -> MasterRequests \cup {None}]
  BY DEF MasterDataInit, RequestsInit
<1> QED
  BY <1>1, <1>4, <1>5, <1>6, <1>8, <1>9, <1>10 DEF MasterInv, FacilitiesKept

LEMMA MasterImplies ==
  ASSUME MasterInv
  PROVE  NoOrphans /\ AttachedIsKept
BY DEF MasterInv, NoOrphans, AttachedIsKept, ParentsKept, FacilitiesKept, Doomed, Excused

\* What a request links to is neither a property nor anything but a row.
LEMMA LinkKinds ==
  ASSUME MasterInv, NEW r \in MasterRequests, WellFormed(r), NEW m, LinksTo(r, m)
  PROVE  /\ m \in MasterRows /\ LevelOf[m] # "property" /\ r.row \in MasterRows
         /\ r # None => <<r.row, m>> \in Links(r)
<1>1. LevelOf[m] # "property"
  <2>1. m \in Facilities \/ MayRefer(r.row, m)
    BY DEF LinksTo, WellFormed
  <2> QED
    BY <2>1, MasterDataAssumption DEF MayRefer, Location, ParentLevel
<1>2. m \in MasterRows /\ r.row \in MasterRows
  BY DEF MasterRequests, LinksTo
<1>3. CASE r.op = "copy"
  <2>1. m \in r.parents \cup r.facilities
    BY <1>3 DEF LinksTo
  <2> QED
    BY <1>1, <1>2, <1>3, <2>1 DEF Links
<1>4. CASE r.op # "copy"
  <2>1. r.op \in {"create row", "move", "attach"} /\ m \in r.parents
    BY <1>4 DEF LinksTo
  <2> QED
    BY <1>1, <1>2, <2>1 DEF Links
<1> QED
  BY <1>3, <1>4

\* A request begins: what it links to is not removed, or excused, and nothing that is not
\* excused refers to what it will remove.
LEMMA MasterBegins ==
  ASSUME MasterInv, UNCHANGED <<focus, master, attached, revived>>,
         NEW p \in Procs, NEW r \in MasterRequests, BeginMaster(p, r), WellFormed(r),
         \A m \in MasterRows : LinksTo(r, m) /\ master[m].deleted =>
           Excused(r.row, m) \/ CopyExcused(r, m),
         \A m \in MasterRows : r.op = "copy" /\ LinksTo(r, m) /\ Doomed(m) =>
           Excused(r.row, m) \/ CopyExcused(r, m),
         r.op = "remove" => LevelOf[r.row] = "type" \/ ~InUse(r.row),
         \A n \in MasterRows : LiveRow(n) /\ r.op = "remove" /\ LevelOf[r.row] # "type" =>
           r.row \notin master[n].parents,
         \A a \in attached : r.op = "remove" => r.row # a[2]
  PROVE  MasterInv'
<1>1. req[p] = None /\ req' = [req EXCEPT ![p] = r] /\ MasterRows' = MasterRows
  BY DEF BeginMaster, Start, MasterRows
<1>2. req'[p] = r /\ \A q \in Procs \ {p} : req'[q] = req[q]
  BY <1>1 DEF MasterInv
<1>3. met \subseteq met'
  BY DEF BeginMaster
<1>4. req' \in [Procs -> MasterRequests \cup {None}]
  BY <1>1 DEF MasterInv
<1>5. MasterRequests' = MasterRequests
  BY <1>1 DEF MasterRequests
<1>6. Removes(req[p]) = {}
  BY <1>1 DEF Removes
<1>7. \A m : Doomed(m)' <=> Doomed(m) \/ m \in Removes(r)
  BY <1>2, <1>6 DEF Doomed
<1>8. \A m \in Removes(r) : r.op = "remove" /\ m = r.row
  BY DEF Removes
\* Who runs already and will link to what this request will remove.
<1>9. ASSUME NEW q \in Procs, q # p, req[q] # None
      PROVE  KnowsMaster(q)'
  <2>1. req'[q] = req[q] /\ req[q] \in MasterRequests /\ KnowsMaster(q) /\ WellFormed(req[q])
    BY <1>2, <1>9 DEF MasterInv, KnowsMaster
  <2>2. WellFormed(req[q])'
    BY <2>1 DEF WellFormed
  <2>3. ASSUME NEW m \in MasterRows, LinksTo(req[q], m), Doomed(m)'
        PROVE  (Excused(req[q].row, m) \/ CopyExcused(req[q], m))'
    <3>1. CASE Doomed(m)
      <4>1. Excused(req[q].row, m) \/ CopyExcused(req[q], m)
        BY <2>1, <2>3, <3>1 DEF KnowsMaster
      <4> QED
        BY <1>3, <2>1, <4>1 DEF Excused, CopyExcused
    <3>2. CASE m \in Removes(r)
      <4>1. <<req[q].row, m>> \in Links(req[q])
        BY <1>9, <2>1, <2>3, LinkKinds
      <4>2. <<req[q].row, m>> \in met'
        <5>1. <<req[q].row, m>> \in UNION {Links(req[x]) : x \in Procs}
          BY <4>1
        <5>2. <<req[q].row, m>>[2] \in Removes(r)
          BY <3>2
        <5> QED
          BY <5>1, <5>2 DEF BeginMaster
      <4> QED
        BY <2>1, <4>2 DEF Excused
    <3> QED
      BY <1>7, <2>3, <3>1, <3>2
  <2> QED
    BY <1>1, <2>1, <2>2, <2>3 DEF KnowsMaster, LinksTo
\* What this request will link to and another will remove.
<1>10. ASSUME r # None
       PROVE  KnowsMaster(p)'
  <2>1. WellFormed(req[p])'
    BY <1>2 DEF WellFormed
  <2>2. ASSUME NEW m \in MasterRows, LinksTo(r, m), Doomed(m)'
        PROVE  Excused(r.row, m)' \/ CopyExcused(r, m)'
    <3>1. m \notin Removes(r)
      BY <1>8, <2>2 DEF LinksTo
    <3>2. CASE master[m].deleted
      <4>1. Excused(r.row, m) \/ CopyExcused(r, m)
        BY <2>2, <3>2
      <4> QED
        BY <1>3, <4>1 DEF Excused, CopyExcused
    <3>3. CASE \E q \in Procs : m \in Removes(req[q])
      <4>1. <<r.row, m>> \in Links(r)
        BY <1>10, <2>2, LinkKinds
      <4>2. <<r.row, m>> \in met'
        <5>1. \E q \in Procs : <<r.row, m>>[2] \in Removes(req[q])
          BY <3>3
        <5> QED
          BY <4>1, <5>1 DEF BeginMaster
      <4> QED
        BY <4>2 DEF Excused
    <3> QED
      BY <1>7, <2>2, <3>1, <3>2, <3>3 DEF Doomed
  <2> QED
    BY <1>1, <1>2, <2>1, <2>2 DEF KnowsMaster, LinksTo, Excused, CopyExcused
<1>11. ParentsKept'
  <2> SUFFICES ASSUME NEW n \in MasterRows, LiveRow(n), n \notin revived,
                      NEW m \in master[n].parents, Doomed(m)'
               PROVE  Excused(n, m)'
    BY <1>1 DEF ParentsKept, LiveRow
  <2>1. CASE Doomed(m)
    <3>1. Excused(n, m)
      BY <2>1 DEF MasterInv, ParentsKept
    <3> QED
      BY <1>3, <3>1 DEF Excused
  <2>2. CASE m \in Removes(r)
    <3>1. LevelOf[m] = "type"
      BY <1>8, <2>2
    <3> QED
      BY <3>1 DEF Excused
  <2> QED
    BY <1>7, <2>1, <2>2
<1>12. FacilitiesKept'
  <2> SUFFICES ASSUME NEW a \in attached, Doomed(a[2])'
               PROVE  a \in met'
    BY DEF FacilitiesKept
  <2>1. a[2] \notin Removes(r)
    BY <1>8
  <2> QED
    BY <1>3, <1>7, <2>1 DEF MasterInv, FacilitiesKept
<1>13. \A q \in Procs : req'[q] # None => KnowsMaster(q)'
  BY <1>2, <1>9, <1>10
<1>14. /\ master' \in [MasterRows' -> StoredRows \cup {None}]
       /\ attached' \subseteq MasterRows' \X (Facilities \cap MasterRows')
       /\ \A n \in MasterRows' : master'[n] # None =>
            \A m \in master'[n].parents : m \in MasterRows' /\ MayRefer(n, m)
  BY <1>1 DEF MasterInv
<1> QED
  BY <1>4, <1>5, <1>11, <1>12, <1>13, <1>14 DEF MasterInv

\* A request ends, or a step is taken without one: nothing else is doomed but a
\* property, nothing that is noted is forgotten.
LEMMA MasterEnds ==
  ASSUME MasterInv, UNCHANGED focus, UNCHANGED req \/ (\E p \in Procs : Done(p)),
         met \subseteq met', revived \subseteq revived',
         master' \in [MasterRows -> StoredRows \cup {None}],
         attached' \subseteq MasterRows \X (Facilities \cap MasterRows),
         \A n \in MasterRows : master[n] # None => master'[n] # None,
         \A n \in MasterRows : master'[n] # None =>
           \A m \in master'[n].parents : m \in MasterRows /\ MayRefer(n, m),
         \A m \in MasterRows : LevelOf[m] # "property" /\ Doomed(m)' => Doomed(m),
         ParentsKept', FacilitiesKept'
  PROVE  MasterInv'
<1>1. MasterRows' = MasterRows /\ MasterRequests' = MasterRequests
  BY DEF MasterRows, MasterRequests
<1>2. req' \in [Procs -> MasterRequests \cup {None}]
      /\ \A q \in Procs : req'[q] # None => req'[q] = req[q]
  BY DEF MasterInv, Done
<1>3. ASSUME NEW q \in Procs, req'[q] # None
      PROVE  KnowsMaster(q)'
  <2>1. req'[q] = req[q] /\ req[q] \in MasterRequests /\ KnowsMaster(q) /\ WellFormed(req[q])
    BY <1>2, <1>3 DEF MasterInv, KnowsMaster
  <2>2. req[q].row \in MasterRows
    BY <2>1 DEF MasterRequests
  <2>3. WellFormed(req[q])'
    BY <2>1, <2>2 DEF WellFormed
  <2>4. ASSUME NEW m \in MasterRows, LinksTo(req[q], m), Doomed(m)'
        PROVE  (Excused(req[q].row, m) \/ CopyExcused(req[q], m))'
    <3>1. LevelOf[m] # "property"
      BY <2>1, <2>4, LinkKinds
    <3>2. Excused(req[q].row, m) \/ CopyExcused(req[q], m)
      BY <2>1, <2>4, <3>1 DEF KnowsMaster
    <3> QED
      BY <2>1, <3>2 DEF Excused, CopyExcused
  <2> QED
    BY <1>1, <2>1, <2>3, <2>4 DEF KnowsMaster, LinksTo
<1> QED
  BY <1>1, <1>2, <1>3 DEF MasterInv


LEMMA LocationKinds ==
  /\ \A n \in MasterRows : LevelOf[n] \in MasterLevels
  /\ \A n : Location(n) <=> LevelOf[n] \in {"country", "province", "city", "district", "subdistrict"}
  /\ \A n : LevelOf[n] \in {"province", "city", "district", "subdistrict"} =>
       ParentLevel[LevelOf[n]] \in {"country", "province", "city", "district"}
<1>1. \A n \in MasterRows : LevelOf[n] \in MasterLevels
  BY MasterDataAssumption DEF MasterRows
<1>2. DOMAIN ParentLevel = {"province", "city", "district", "subdistrict"}
  BY DEF ParentLevel
<1>3. \A l \in {"province", "city", "district", "subdistrict"} :
        ParentLevel[l] \in {"country", "province", "city", "district"}
  BY DEF ParentLevel
<1> QED
  BY <1>1, <1>2, <1>3 DEF Location

\* The parents that a request accepts are live, and of the kinds that may be parents.
LEMMA AcceptedAre ==
  ASSUME NEW n \in MasterRows, NEW parents, AcceptedParents(n, parents)
  PROVE  \A m \in parents : LiveRow(m) /\ MayRefer(n, m)
<1>1. CASE LevelOf[n] \in {"type", "facility"}
  BY <1>1 DEF AcceptedParents, TypeParents, FacilityParents
<1>2. CASE LevelOf[n] = "category"
  BY <1>2 DEF AcceptedParents, CategoryParents, ActiveRow, MayRefer
<1>3. CASE LevelOf[n] = "subcategory"
  BY <1>3 DEF AcceptedParents, SubcategoryParents, ActiveRow, MayRefer
<1>4. CASE LevelOf[n] = "property"
  BY <1>4 DEF AcceptedParents, PropertyRefs, ActiveRow, MayRefer
<1>5. CASE LevelOf[n] \notin {"type", "facility", "category", "subcategory", "property"}
  <2>1. Location(n) /\ LocationParents(n, parents)
    BY <1>5, LocationKinds DEF AcceptedParents, MasterLevels, ParentLevel
  <2>2. CASE LevelOf[n] = "country"
    BY <2>1, <2>2 DEF LocationParents
  <2>3. CASE LevelOf[n] # "country"
    <3>1. \A m \in parents : LiveRow(m) /\ LevelOf[m] = ParentLevel[LevelOf[n]]
      BY <2>1, <2>3 DEF LocationParents
    <3>2. ParentLevel[LevelOf[n]] \in {"country", "province", "city", "district"}
      BY <2>1, <2>3, LocationKinds
    <3>3. \A m \in parents : Location(m)
      BY <3>1, <3>2, LocationKinds
    <3> QED
      BY <2>1, <3>1, <3>3 DEF MayRefer
  <2> QED
    BY <2>2, <2>3
<1> QED
  BY <1>1, <1>2, <1>3, <1>4, <1>5

\* The fields of the requests.
LEMMA MasterFields ==
  ASSUME NEW r \in MasterRequests
  PROVE  /\ r.row \in MasterRows
         /\ r.op \in {"create row", "move", "attach", "copy"} => r.parents \subseteq MasterRows
         /\ r.op = "copy" => r.source \in MasterRows /\ r.facilities \subseteq MasterRows
BY DEF MasterRequests

\* A request to link rows that are live.
LEMMA LinkBegins ==
  ASSUME MasterInv, UNCHANGED <<focus, master, attached, revived>>,
         NEW p \in Procs, NEW op \in {"create row", "move", "attach"}, NEW n \in MasterRows,
         NEW parents \in SUBSET MasterRows,
         BeginMaster(p, [op |-> op, row |-> n, parents |-> parents]),
         \A m \in parents : LiveRow(m),
         op # "attach" => \A m \in parents : MayRefer(n, m),
         op = "attach" => parents \subseteq Facilities,
         op = "move" => master[n] # None
  PROVE  MasterInv'
<1>1. PICK r : r = [op |-> op, row |-> n, parents |-> parents]
  OBVIOUS
<1>2. r \in MasterRequests /\ r.op = op /\ r.row = n /\ r.parents = parents
  BY <1>1 DEF MasterRequests
<1>3. BeginMaster(p, r)
  BY <1>1
<1>4. WellFormed(r)
  BY <1>2 DEF WellFormed
<1>5. \A m \in MasterRows : LinksTo(r, m) => ~master[m].deleted
  BY <1>2 DEF LinksTo, LiveRow
<1>6. r.op # "remove" /\ r.op # "copy"
  BY <1>2
<1> QED
  BY <1>2, <1>3, <1>4, <1>5, <1>6, MasterBegins

\* What is dooomed after the end of a request was before.
LEMMA DoomedBefore ==
  ASSUME MasterInv, UNCHANGED req \/ (\E p \in Procs : Done(p)), NEW m,
         master'[m].deleted => Doomed(m)
  PROVE  Doomed(m)' => Doomed(m)
<1>1. \A q \in Procs : Removes(req'[q]) \subseteq Removes(req[q])
  BY DEF MasterInv, Done, Removes
<1> QED
  BY <1>1 DEF Doomed

\* A row is written, by a request or not, with its parents and whether it is removed.
LEMMA MasterWrites ==
  ASSUME MasterInv, UNCHANGED <<focus, attached>>, UNCHANGED req \/ (\E p \in Procs : Done(p)),
         met \subseteq met', revived \subseteq revived',
         NEW n \in MasterRows, NEW row \in StoredRows, master' = [master EXCEPT ![n] = row],
         \A m \in row.parents : m \in MasterRows /\ MayRefer(n, m),
         LevelOf[n] # "property" /\ row.deleted => Doomed(n),
         ~row.deleted /\ n \notin revived' =>
           \A m \in row.parents : Doomed(m) => Excused(n, m)'
  PROVE  MasterInv'
<1>1. row # None /\ MasterRows' = MasterRows
  BY MasterDataAssumption DEF MasterRows
<1>2. master'[n] = row /\ \A m \in MasterRows \ {n} : master'[m] = master[m]
  BY DEF MasterInv
<1>3. master' \in [MasterRows -> StoredRows \cup {None}]
  BY DEF MasterInv
<1>4. ASSUME NEW m \in MasterRows, LevelOf[m] # "property"
      PROVE  Doomed(m)' => Doomed(m)
  <2>1. master'[m].deleted => Doomed(m)
    BY <1>2, <1>4 DEF Doomed
  <2> QED
    BY <2>1, DoomedBefore
<1>5. \A k \in MasterRows : master'[k] # None =>
        \A m \in master'[k].parents : m \in MasterRows /\ MayRefer(k, m)
  BY <1>2 DEF MasterInv
<1>6. \A k, m \in MasterRows : MayRefer(k, m) => LevelOf[m] # "property"
  BY LocationKinds DEF MayRefer
<1>7. ParentsKept'
  <2> SUFFICES ASSUME NEW k \in MasterRows, LiveRow(k)', k \notin revived',
                      NEW m \in master'[k].parents, Doomed(m)'
               PROVE  Excused(k, m)'
    BY <1>1 DEF ParentsKept
  <2>1. m \in MasterRows /\ LevelOf[m] # "property"
    BY <1>5, <1>6 DEF LiveRow
  <2>2. Doomed(m)
    BY <1>4, <2>1
  <2>3. CASE k = n
    BY <1>2, <2>2, <2>3 DEF LiveRow
  <2>4. CASE k # n
    <3>1. LiveRow(k) /\ k \notin revived /\ m \in master[k].parents
      BY <1>2, <2>4 DEF LiveRow
    <3>2. Excused(k, m)
      BY <2>2, <3>1 DEF MasterInv, ParentsKept
    <3> QED
      BY <3>2 DEF Excused
  <2> QED
    BY <2>3, <2>4
<1>8. FacilitiesKept'
  <2> SUFFICES ASSUME NEW a \in attached, Doomed(a[2])'
               PROVE  a \in met'
    BY DEF FacilitiesKept
  <2>1. a[2] \in MasterRows /\ LevelOf[a[2]] # "property"
    BY MasterDataAssumption DEF MasterInv
  <2>2. Doomed(a[2])
    BY <1>4, <2>1
  <2> QED
    BY <2>2 DEF MasterInv, FacilitiesKept
<1>9. attached' \subseteq MasterRows \X (Facilities \cap MasterRows)
      /\ \A k \in MasterRows : master[k] # None => master'[k] # None
  BY <1>1, <1>2 DEF MasterInv
<1> QED
  BY <1>3, <1>4, <1>5, <1>7, <1>8, <1>9, MasterEnds

LEMMA MasterKeeps ==
  ASSUME MasterInv, MasterDataNext, UNCHANGED focus
  PROVE  MasterInv'
<1>0. /\ master \in [MasterRows -> StoredRows \cup {None}]
      /\ \A p \in Procs : req[p] # None => req[p] \in MasterRequests /\ KnowsMaster(p) /\ WellFormed(req[p])
      /\ \A n \in MasterRows : master[n] # None =>
           /\ master[n].parents \in SUBSET MasterRows /\ master[n].deleted \in BOOLEAN
           /\ master[n].isActive \in BOOLEAN
           /\ \A m \in master[n].parents : MayRefer(n, m)
  BY DEF MasterInv, KnowsMaster, StoredRows
<1>1. ASSUME NEW p \in Procs, CreateRowRead(p)
      PROVE  MasterInv'
  <2>1. PICK n \in MasterRows, parents \in SUBSET MasterRows :
          /\ AcceptedParents(n, parents)
          /\ BeginMaster(p, [op |-> "create row", row |-> n, parents |-> parents])
    BY <1>1 DEF CreateRowRead
  <2>2. UNCHANGED <<focus, master, attached, revived>>
    BY <1>1 DEF CreateRowRead
  <2>3. \A m \in parents : LiveRow(m) /\ MayRefer(n, m)
    BY <2>1, AcceptedAre
  <2> QED
    BY <2>1, <2>2, <2>3, LinkBegins
<1>2. ASSUME NEW p \in Procs, CreateRowWrite(p)
      PROVE  MasterInv'
  <2>1. req[p] \in MasterRequests /\ KnowsMaster(p) /\ WellFormed(req[p]) /\ req[p].op = "create row"
    BY <1>0, <1>2 DEF CreateRowWrite, Running
  <2>2. PICK n \in MasterRows, ps \in SUBSET MasterRows : n = req[p].row /\ ps = req[p].parents
    BY <2>1, MasterFields
  <2>3. PICK row : row = MasterRow(ps)
    OBVIOUS
  <2>4. row \in StoredRows /\ row.parents = ps /\ row.deleted = FALSE
    BY <2>3, MasterRowIs
  <2>5. master' = [master EXCEPT ![n] = row] /\ Done(p) /\ UNCHANGED <<focus, attached, met, revived>>
    BY <1>2, <2>2, <2>3 DEF CreateRowWrite
  <2>6. \A m \in ps : m \in MasterRows /\ MayRefer(n, m)
    BY <2>1, <2>2 DEF WellFormed
  <2>7. \A m \in ps : Doomed(m) => Excused(n, m)'
    <3>1. \A m \in ps : LinksTo(req[p], m)
      BY <2>1, <2>2 DEF LinksTo
    <3>2. \A m \in ps : ~CopyExcused(req[p], m)
      BY <2>1 DEF CopyExcused
    <3>3. \A m \in ps : Doomed(m) => Excused(n, m)
      BY <2>1, <2>2, <2>6, <3>1, <3>2 DEF KnowsMaster
    <3> QED
      BY <2>5, <3>3 DEF Excused
  <2>8. UNCHANGED <<focus, attached>> /\ met \subseteq met' /\ revived \subseteq revived'
    BY <2>5
  <2> QED
    BY <2>4, <2>5, <2>6, <2>7, <2>8, MasterWrites
<1>3. ASSUME NEW p \in Procs, UpdateRowRead(p)
      PROVE  MasterInv'
  <2>1. PICK n \in MasterRows : master[n] # None /\ Start(p, [op |-> "edit", row |-> n])
    BY <1>3 DEF UpdateRowRead, TypeFound, CategoryFound, SubcategoryFound, FacilityFound,
       LocationFound, LiveRow
  <2>2. PICK r : r = [op |-> "edit", row |-> n]
    OBVIOUS
  <2>3. r \in MasterRequests /\ r.op = "edit" /\ r.row = n
    BY <2>2 DEF MasterRequests
  <2>4. WellFormed(r)
    BY <2>1, <2>3 DEF WellFormed
  <2>5. Links(r) = {} /\ Removes(r) = {}
    BY <2>3 DEF Links, Removes
  <2>6. req[p] = None /\ req' = [req EXCEPT ![p] = r] /\ UNCHANGED <<focus, master, attached, met, revived>>
    BY <1>3, <2>1, <2>2 DEF UpdateRowRead, Start, masterVars
  <2>7. BeginMaster(p, r)
    BY <2>5, <2>6 DEF BeginMaster, Start
  <2>8. \A m : ~LinksTo(r, m)
    BY <2>3 DEF LinksTo
  <2> QED
    BY <2>3, <2>4, <2>6, <2>7, <2>8, MasterBegins
<1>4. ASSUME NEW p \in Procs, UpdateRowWrite(p)
      PROVE  MasterInv'
  <2>1. req[p] \in MasterRequests /\ WellFormed(req[p]) /\ req[p].op = "edit"
    BY <1>0, <1>4 DEF UpdateRowWrite, Running
  <2>2. PICK n \in MasterRows : n = req[p].row /\ master[n] # None
    BY <2>1, MasterFields DEF WellFormed
  <2>3. PICK b \in BOOLEAN : master' = [master EXCEPT ![n].isActive = b]
    BY <1>4, <2>2 DEF UpdateRowWrite
  <2>4. PICK row : row = [master[n] EXCEPT !.isActive = b]
    OBVIOUS
  <2>5. master' = [master EXCEPT ![n] = row] /\ Done(p) /\ UNCHANGED <<focus, attached, met, revived>>
    BY <1>0, <1>4, <2>3, <2>4 DEF UpdateRowWrite
  <2>6. master[n] \in StoredRows
    BY <1>0, <2>2
  <2>7. row \in StoredRows /\ row.parents = master[n].parents /\ row.deleted = master[n].deleted
    BY <2>4, <2>6 DEF StoredRows
  <2>8. row.deleted => Doomed(n)
    BY <2>7 DEF Doomed
  <2>9. \A m \in row.parents : m \in MasterRows /\ MayRefer(n, m)
    BY <1>0, <2>2, <2>7
  <2>10. ~row.deleted /\ n \notin revived' => \A m \in row.parents : Doomed(m) => Excused(n, m)'
    BY <2>2, <2>5, <2>7 DEF MasterInv, ParentsKept, LiveRow, Excused
  <2>11. UNCHANGED <<focus, attached>> /\ met \subseteq met' /\ revived \subseteq revived'
    BY <2>5
  <2> QED
    BY <2>5, <2>7, <2>8, <2>9, <2>10, <2>11, MasterWrites
<1>5. ASSUME NEW p \in Procs, MoveRead(p)
      PROVE  MasterInv'
  <2>1. PICK n \in MasterRows, m \in MasterRows :
          /\ Location(n) /\ master[n] # None /\ LevelOf[n] # "country" /\ LocationParents(n, {m})
          /\ BeginMaster(p, [op |-> "move", row |-> n, parents |-> {m}])
    BY <1>5 DEF MoveRead
  <2>2. UNCHANGED <<focus, master, attached, revived>>
    BY <1>5 DEF MoveRead
  <2>3. AcceptedParents(n, {m})
    <3>1. LevelOf[n] \in {"country", "province", "city", "district", "subdistrict"}
      BY <2>1, LocationKinds
    <3> QED
      BY <2>1, <3>1 DEF AcceptedParents
  <2>4. LiveRow(m) /\ MayRefer(n, m)
    BY <2>3, AcceptedAre
  <2>5. {m} \in SUBSET MasterRows /\ \A k \in {m} : LiveRow(k) /\ MayRefer(n, k)
    BY <2>4
  <2> QED
    BY <2>1, <2>2, <2>5, LinkBegins
<1>6. ASSUME NEW p \in Procs, MoveWrite(p)
      PROVE  MasterInv'
  <2>1. req[p] \in MasterRequests /\ KnowsMaster(p) /\ WellFormed(req[p]) /\ req[p].op = "move"
    BY <1>0, <1>6 DEF MoveWrite, Running
  <2>2. PICK n \in MasterRows, ps \in SUBSET MasterRows :
          n = req[p].row /\ ps = req[p].parents /\ master[n] # None
    BY <2>1, MasterFields DEF WellFormed
  <2>3. PICK row : row = [master[n] EXCEPT !.parents = ps]
    OBVIOUS
  <2>4. master' = [master EXCEPT ![n] = row] /\ Done(p) /\ UNCHANGED <<focus, attached, met, revived>>
    BY <1>0, <1>6, <2>2, <2>3 DEF MoveWrite
  <2>5. master[n] \in StoredRows /\ ps \in SUBSET UNION {RowsOf[f] : f \in DOMAIN RowsOf}
    BY <1>0, <2>2 DEF MasterRows
  <2>6. row \in StoredRows /\ row.parents = ps /\ row.deleted = master[n].deleted
    BY <2>3, <2>5 DEF StoredRows
  <2>7. row.deleted => Doomed(n)
    BY <2>6 DEF Doomed
  <2>8. \A m \in ps : m \in MasterRows /\ MayRefer(n, m)
    BY <2>1, <2>2 DEF WellFormed
  <2>9. \A m \in ps : Doomed(m) => Excused(n, m)'
    <3>1. \A m \in ps : LinksTo(req[p], m)
      BY <2>1, <2>2 DEF LinksTo
    <3>2. \A m \in ps : ~CopyExcused(req[p], m)
      BY <2>1 DEF CopyExcused
    <3>3. \A m \in ps : Doomed(m) => Excused(n, m)
      BY <2>1, <2>2, <2>8, <3>1, <3>2 DEF KnowsMaster
    <3> QED
      BY <2>4, <3>3 DEF Excused
  <2>10. UNCHANGED <<focus, attached>> /\ met \subseteq met' /\ revived \subseteq revived'
    BY <2>4
  <2> QED
    BY <2>4, <2>6, <2>7, <2>8, <2>9, <2>10, MasterWrites
<1>7. ASSUME NEW p \in Procs, RemoveRead(p)
      PROVE  MasterInv'
  <2>1. PICK n \in MasterRows : /\ LevelOf[n] # "property" /\ LiveRow(n) /\ ~InUse(n)
                                /\ BeginMaster(p, [op |-> "remove", row |-> n])
    BY <1>7 DEF RemoveRead
  <2>2. UNCHANGED <<focus, master, attached, revived>>
    BY <1>7 DEF RemoveRead
  <2>3. PICK r : r = [op |-> "remove", row |-> n]
    OBVIOUS
  <2>4. r \in MasterRequests /\ r.op = "remove" /\ r.row = n /\ BeginMaster(p, r)
    BY <2>1, <2>3 DEF MasterRequests
  <2>5. WellFormed(r)
    BY <2>1, <2>4 DEF WellFormed, LiveRow
  <2>6. \A m : ~LinksTo(r, m)
    BY <2>4 DEF LinksTo
  <2>7. LevelOf[n] # "type" => \A k \in MasterRows : LiveRow(k) => n \notin master[k].parents
    <3> SUFFICES ASSUME LevelOf[n] # "type", NEW k \in MasterRows, LiveRow(k), n \in master[k].parents
                 PROVE  FALSE
      OBVIOUS
    <3>1. MayRefer(k, n)
      BY <1>0 DEF LiveRow
    <3>2. LevelOf[n] \in {"category", "subcategory"} \/ (Location(k) /\ Location(n))
      BY <3>1 DEF MayRefer
    <3>3. CASE LevelOf[n] \in {"category", "subcategory"}
      <4>1. ~Location(n)
        BY <3>3, LocationKinds
      <4>2. ~(\E m \in MasterRows : LiveRow(m) /\ n \in master[m].parents)
        <5>1. CASE LevelOf[n] = "category"
          BY <2>1, <4>1, <5>1 DEF InUse, CategoryInUse
        <5>2. CASE LevelOf[n] = "subcategory"
          BY <2>1, <4>1, <5>2 DEF InUse, SubcategoryInUse
        <5> QED
          BY <3>3, <5>1, <5>2
      <4> QED
        BY <4>2
    <3>4. CASE Location(k) /\ Location(n)
      <4>1. LevelOf[n] \notin {"category", "subcategory", "facility"}
        BY <3>4, LocationKinds
      <4>2. ~LocationInUse(n)
        BY <2>1, <3>4, <4>1 DEF InUse
      <4> QED
        BY <3>4, <4>2 DEF LocationInUse
    <3> QED
      BY <3>2, <3>3, <3>4
  <2>8. \A a \in attached : n # a[2]
    <3> SUFFICES ASSUME NEW a \in attached, n = a[2]
                 PROVE  FALSE
      OBVIOUS
    <3>1. LevelOf[n] = "facility"
      BY MasterDataAssumption DEF MasterInv
    <3>2. ~Location(n)
      BY <3>1, LocationKinds
    <3>3. ~FacilityInUse(n)
      BY <2>1, <3>1, <3>2 DEF InUse
    <3> QED
      BY <3>3 DEF FacilityInUse
  <2> QED
    BY <2>1, <2>2, <2>4, <2>5, <2>6, <2>7, <2>8, MasterBegins
<1>8. ASSUME NEW p \in Procs, RemoveWrite(p)
      PROVE  MasterInv'
  <2>1. req[p] \in MasterRequests /\ WellFormed(req[p]) /\ req[p].op = "remove" /\ req[p] # None
    BY <1>0, <1>8 DEF RemoveWrite, Running
  <2>2. PICK n \in MasterRows : n = req[p].row /\ master[n] # None
    BY <2>1, MasterFields DEF WellFormed
  <2>3. PICK row : row = [master[n] EXCEPT !.deleted = TRUE, !.isActive = FALSE]
    OBVIOUS
  <2>4. master' = [master EXCEPT ![n] = row] /\ Done(p) /\ UNCHANGED <<focus, attached, met, revived>>
    BY <1>0, <1>8, <2>2, <2>3 DEF RemoveWrite
  <2>5. master[n] \in StoredRows
    BY <1>0, <2>2
  <2>6. row \in StoredRows /\ row.parents = master[n].parents /\ row.deleted = TRUE
    BY <2>3, <2>5 DEF StoredRows
  <2>7. Doomed(n)
    BY <2>1, <2>2 DEF Doomed, Removes
  <2>8. \A m \in row.parents : m \in MasterRows /\ MayRefer(n, m)
    BY <1>0, <2>2, <2>6
  <2>9. UNCHANGED <<focus, attached>> /\ met \subseteq met' /\ revived \subseteq revived'
    BY <2>4
  <2> QED
    BY <2>4, <2>6, <2>7, <2>8, <2>9, MasterWrites
<1>9. ASSUME NEW n \in MasterRows, DeleteMasterProperty(n)
      PROVE  MasterInv'
  <2>1. PICK row : row = [master[n] EXCEPT !.deleted = TRUE]
    OBVIOUS
  <2>2. master[n] \in StoredRows /\ master[n] # None /\ LevelOf[n] = "property"
    BY <1>0, <1>9 DEF DeleteMasterProperty, LiveRow
  <2>3. row \in StoredRows /\ row.parents = master[n].parents /\ row.deleted = TRUE
    BY <2>1, <2>2 DEF StoredRows
  <2>4. master' = [master EXCEPT ![n] = row] /\ UNCHANGED <<req, focus, attached, met, revived>>
    BY <1>0, <1>9, <2>1 DEF DeleteMasterProperty
  <2>5. \A m \in row.parents : m \in MasterRows /\ MayRefer(n, m)
    BY <1>0, <2>2, <2>3
  <2>6. UNCHANGED <<focus, attached>> /\ UNCHANGED req /\ met \subseteq met' /\ revived \subseteq revived'
    BY <2>4
  <2> QED
    BY <2>2, <2>3, <2>4, <2>5, <2>6, MasterWrites
<1>10. ASSUME NEW n \in MasterRows, RestoreMasterProperty(n)
       PROVE  MasterInv'
  <2>1. PICK row : row = [master[n] EXCEPT !.deleted = FALSE]
    OBVIOUS
  <2>2. master[n] \in StoredRows /\ master[n] # None
    BY <1>0, <1>10 DEF RestoreMasterProperty
  <2>3. row \in StoredRows /\ row.parents = master[n].parents /\ row.deleted = FALSE
    BY <2>1, <2>2 DEF StoredRows
  <2>4. master' = [master EXCEPT ![n] = row] /\ UNCHANGED <<req, focus, attached>>
    BY <1>0, <1>10, <2>1 DEF RestoreMasterProperty
  <2>5. \A m \in row.parents : m \in MasterRows /\ MayRefer(n, m)
    BY <1>0, <2>2, <2>3
  <2>6. met \subseteq met' /\ revived \subseteq revived'
    BY <1>10 DEF RestoreMasterProperty
  <2>7. ASSUME n \notin revived', NEW m \in row.parents, Doomed(m)
        PROVE  Excused(n, m)'
    <3>1. \A k \in master[n].parents : LiveRow(k)
      BY <1>10, <2>7 DEF RestoreMasterProperty
    <3>2. ~master[m].deleted
      BY <2>3, <2>7, <3>1 DEF LiveRow
    <3>3. PICK q \in Procs : m \in Removes(req[q])
      BY <2>7, <3>2 DEF Doomed
    <3>4. m \in master[n].parents \cap UNION {Removes(req[x]) : x \in Procs}
      BY <2>3, <2>7, <3>3
    <3>5. <<n, m>> \in met'
      BY <1>10, <3>4 DEF RestoreMasterProperty
    <3> QED
      BY <3>5 DEF Excused
  <2>8. UNCHANGED <<focus, attached>> /\ UNCHANGED req
    BY <2>4
  <2> QED
    BY <2>3, <2>4, <2>5, <2>6, <2>7, <2>8, MasterWrites
<1>11. ASSUME NEW p \in Procs, DuplicateRead(p)
       PROVE  MasterInv'
  <2>1. PICK source \in MasterRows, n \in MasterRows :
          /\ LevelOf[source] = "property" /\ LiveRow(source) /\ LevelOf[n] = "property"
          /\ BeginMaster(p, [op |-> "copy", row |-> n, source |-> source,
                             parents |-> master[source].parents,
                             facilities |-> {a[2] : a \in {b \in attached : b[1] = source}}])
    BY <1>11 DEF DuplicateRead
  <2>2. UNCHANGED <<focus, master, attached, revived>>
    BY <1>11 DEF DuplicateRead
  <2>3. PICK ps : ps = master[source].parents
    OBVIOUS
  <2>4. PICK fs : fs = {a[2] : a \in {b \in attached : b[1] = source}}
    OBVIOUS
  <2>5. PICK r : r = [op |-> "copy", row |-> n, source |-> source, parents |-> ps, facilities |-> fs]
    OBVIOUS
  <2>6. ps \in SUBSET MasterRows /\ \A m \in ps : MayRefer(source, m)
    BY <1>0, <2>1, <2>3 DEF LiveRow
  <2>7. \A f \in fs : f \in Facilities /\ f \in MasterRows /\ <<source, f>> \in attached
    <3> SUFFICES ASSUME NEW f \in fs
                 PROVE  f \in Facilities /\ f \in MasterRows /\ <<source, f>> \in attached
      OBVIOUS
    <3>1. PICK a \in attached : a[1] = source /\ a[2] = f
      BY <2>4
    <3>2. a \in MasterRows \X (Facilities \cap MasterRows)
      BY DEF MasterInv
    <3>3. a = <<source, f>> /\ f \in Facilities \cap MasterRows
      BY <3>1, <3>2
    <3> QED
      BY <3>3
  <2>8. r \in MasterRequests
    <3>1. fs \in SUBSET MasterRows
      BY <2>7
    <3> QED
      BY <2>5, <2>6, <3>1 DEF MasterRequests
  <2>9. r.op = "copy" /\ r.row = n /\ r.source = source /\ r.parents = ps /\ r.facilities = fs
    BY <2>5
  <2>10. BeginMaster(p, r)
    BY <2>1, <2>3, <2>4, <2>5
  <2>11. WellFormed(r)
    <3>1. ~Location(source) /\ ~Location(n)
      BY <2>1, LocationKinds
    <3>2. \A m \in ps : MayRefer(n, m)
      BY <2>6, <3>1 DEF MayRefer
    <3> QED
      BY <2>7, <2>9, <3>2 DEF WellFormed
  <2>12. ASSUME NEW m \in MasterRows, LinksTo(r, m), Doomed(m)
         PROVE  Excused(n, m) \/ CopyExcused(r, m)
    <3>1. CASE m \in fs
      <4>1. <<source, m>> \in attached /\ <<source, m>>[2] = m
        BY <2>7, <3>1
      <4>2. <<source, m>> \in met
        BY <2>12, <4>1 DEF MasterInv, FacilitiesKept
      <4> QED
        BY <2>9, <4>2 DEF CopyExcused
    <3>2. CASE m \in ps
      <4>1. source \in revived \/ Excused(source, m)
        BY <2>1, <2>3, <2>12, <3>2 DEF MasterInv, ParentsKept
      <4> QED
        BY <2>9, <3>2, <4>1 DEF CopyExcused, Excused
    <3> QED
      BY <2>9, <2>12, <3>1, <3>2 DEF LinksTo
  <2>13. \A m \in MasterRows : master[m].deleted => Doomed(m)
    BY DEF Doomed
  <2>14. r.op # "remove"
    BY <2>9
  <2> QED
    BY <2>2, <2>8, <2>9, <2>10, <2>11, <2>12, <2>13, <2>14, MasterBegins
<1>12. ASSUME NEW p \in Procs, DuplicateWrite(p)
       PROVE  MasterInv'
  <2>1. req[p] \in MasterRequests /\ KnowsMaster(p) /\ WellFormed(req[p]) /\ req[p].op = "copy"
    BY <1>0, <1>12 DEF DuplicateWrite, Running
  <2>2. PICK r \in MasterRequests : r = req[p]
    BY <2>1
  <2>3. /\ r.op = "copy" /\ r.row \in MasterRows /\ r.source \in MasterRows
        /\ r.parents \subseteq MasterRows /\ r.facilities \subseteq MasterRows
        /\ \A m \in r.parents : MayRefer(r.row, m)
        /\ r.facilities \subseteq Facilities
    BY <2>1, <2>2, MasterFields DEF WellFormed
  <2>4. /\ Done(p) /\ master' = [master EXCEPT ![r.row] = MasterRow(r.parents)]
        /\ attached' = attached \cup {<<r.row, f>> : f \in r.facilities}
        /\ revived' = IF r.source \in revived THEN revived \cup {r.row} ELSE revived
        /\ met' = met \cup {<<r.row, l[2]>> : l \in {k \in met : k[1] = r.source}}
    BY <1>12, <2>2 DEF DuplicateWrite
  <2>5. PICK row : row = MasterRow(r.parents)
    OBVIOUS
  <2>6. row \in StoredRows /\ row.parents = r.parents /\ row.deleted = FALSE /\ row # None
    BY <2>3, <2>5, MasterRowIs, MasterDataAssumption
  <2>7. master' = [master EXCEPT ![r.row] = row]
    BY <2>4, <2>5
  <2>8. master'[r.row] = row /\ \A m \in MasterRows \ {r.row} : master'[m] = master[m]
    BY <2>3, <2>7 DEF MasterInv
  <2>9. met \subseteq met' /\ revived \subseteq revived' /\ MasterRows' = MasterRows
    BY <2>4 DEF MasterRows
  <2>10. ASSUME NEW m, <<r.source, m>> \in met
         PROVE  <<r.row, m>> \in met'
    <3>1. PICK l \in met : l = <<r.source, m>>
      BY <2>10
    <3>2. l[1] = r.source /\ l[2] = m
      BY <3>1
    <3> QED
      BY <2>4, <3>2
  <2>11. \A m \in MasterRows : Doomed(m)' => Doomed(m)
    <3> SUFFICES ASSUME NEW m \in MasterRows
                 PROVE  Doomed(m)' => Doomed(m)
      OBVIOUS
    <3>1. master'[m].deleted => Doomed(m)
      BY <2>6, <2>8 DEF Doomed
    <3> QED
      BY <2>4, <3>1, DoomedBefore
  <2>12. ASSUME NEW m \in MasterRows, LinksTo(r, m), Doomed(m)
         PROVE  Excused(r.row, m)' \/ (m \in r.parents /\ r.row \in revived')
    <3>1. Excused(r.row, m) \/ CopyExcused(r, m)
      BY <2>1, <2>2, <2>12 DEF KnowsMaster
    <3>2. CASE Excused(r.row, m)
      BY <2>9, <3>2 DEF Excused
    <3>3. CASE <<r.source, m>> \in met
      BY <2>10, <3>3 DEF Excused
    <3>4. CASE m \in r.parents /\ r.source \in revived
      BY <2>4, <3>4
    <3> QED
      BY <3>1, <3>2, <3>3, <3>4 DEF CopyExcused
  <2>13. ParentsKept'
    <3> SUFFICES ASSUME NEW k \in MasterRows, LiveRow(k)', k \notin revived',
                        NEW m \in master'[k].parents, Doomed(m)'
                 PROVE  Excused(k, m)'
      BY <2>9 DEF ParentsKept
    <3>1. CASE k = r.row
      <4>1. m \in r.parents /\ LinksTo(r, m)
        BY <2>3, <2>6, <2>8, <3>1 DEF LinksTo
      <4> QED
        BY <2>3, <2>11, <2>12, <3>1, <4>1
    <3>2. CASE k # r.row
      <4>1. LiveRow(k) /\ k \notin revived /\ m \in master[k].parents
        BY <2>8, <2>9, <3>2 DEF LiveRow
      <4>2. m \in MasterRows
        BY <1>0, <4>1 DEF LiveRow
      <4>3. Excused(k, m)
        BY <2>11, <4>1, <4>2 DEF MasterInv, ParentsKept
      <4> QED
        BY <2>9, <4>3 DEF Excused
    <3> QED
      BY <3>1, <3>2
  <2>14. FacilitiesKept'
    <3> SUFFICES ASSUME NEW a \in attached', Doomed(a[2])'
                 PROVE  a \in met'
      BY DEF FacilitiesKept
    <3>1. CASE a \in attached
      <4>1. a[2] \in MasterRows
        BY <3>1 DEF MasterInv
      <4> QED
        BY <2>9, <2>11, <3>1, <4>1 DEF MasterInv, FacilitiesKept
    <3>2. CASE a \notin attached
      <4>1. PICK f \in r.facilities : a = <<r.row, f>>
        BY <2>4, <3>2
      <4>2. a[2] = f /\ f \in MasterRows /\ LevelOf[f] = "facility" /\ LinksTo(r, f)
        BY <2>3, <4>1, MasterDataAssumption DEF LinksTo
      <4>3. f \notin r.parents
        BY <2>3, <4>2, LocationKinds DEF MayRefer
      <4>4. Excused(r.row, f)'
        BY <2>11, <2>12, <4>2, <4>3
      <4> QED
        BY <4>1, <4>2, <4>4 DEF Excused
    <3> QED
      BY <3>1, <3>2
  <2>15. master' \in [MasterRows -> StoredRows \cup {None}]
    BY <2>6, <2>7 DEF MasterInv
  <2>16. attached' \subseteq MasterRows \X (Facilities \cap MasterRows)
    BY <2>3, <2>4 DEF MasterInv
  <2>17. \A k \in MasterRows : master[k] # None => master'[k] # None
    BY <2>6, <2>8
  <2>18. \A k \in MasterRows : master'[k] # None =>
           \A m \in master'[k].parents : m \in MasterRows /\ MayRefer(k, m)
    BY <2>3, <2>6, <2>8 DEF MasterInv
  <2>19. \A m \in MasterRows : LevelOf[m] # "property" /\ Doomed(m)' => Doomed(m)
    BY <2>11
  <2> QED
    BY <2>4, <2>9, <2>13, <2>14, <2>15, <2>16, <2>17, <2>18, <2>19, MasterEnds
<1>13. ASSUME NEW p \in Procs, AttachRead(p)
       PROVE  MasterInv'
  <2>1. PICK n \in MasterRows, f \in MasterRows \cap Facilities :
          LiveRow(f) /\ BeginMaster(p, [op |-> "attach", row |-> n, parents |-> {f}])
    BY <1>13 DEF AttachRead, ActiveRow
  <2>2. UNCHANGED <<focus, master, attached, revived>>
    BY <1>13 DEF AttachRead
  <2>3. {f} \in SUBSET MasterRows /\ {f} \subseteq Facilities /\ \A m \in {f} : LiveRow(m)
    BY <2>1
  <2> QED
    BY <2>1, <2>2, <2>3, LinkBegins
<1>14. ASSUME NEW p \in Procs, AttachWrite(p)
       PROVE  MasterInv'
  <2>1. req[p] \in MasterRequests /\ KnowsMaster(p) /\ WellFormed(req[p]) /\ req[p].op = "attach"
    BY <1>0, <1>14 DEF AttachWrite, Running
  <2>2. PICK n \in MasterRows, fs \in SUBSET MasterRows : n = req[p].row /\ fs = req[p].parents
    BY <2>1, MasterFields
  <2>3. fs \subseteq Facilities
    BY <2>1, <2>2 DEF WellFormed
  <2>4. Done(p) /\ attached' = attached \cup {<<n, f>> : f \in fs} /\ UNCHANGED <<focus, master, met, revived>>
    BY <1>14, <2>2 DEF AttachWrite
  <2>5. \A m : Doomed(m)' => Doomed(m)
    <3> SUFFICES ASSUME NEW m
                 PROVE  Doomed(m)' => Doomed(m)
      OBVIOUS
    <3>1. master'[m].deleted => Doomed(m)
      BY <2>4 DEF Doomed
    <3> QED
      BY <2>4, <3>1, DoomedBefore
  <2>6. \A f \in fs : Doomed(f) => <<n, f>> \in met
    <3> SUFFICES ASSUME NEW f \in fs, Doomed(f)
                 PROVE  <<n, f>> \in met
      OBVIOUS
    <3>1. LinksTo(req[p], f) /\ ~CopyExcused(req[p], f) /\ LevelOf[f] = "facility"
      BY <2>1, <2>2, <2>3, MasterDataAssumption DEF LinksTo, CopyExcused
    <3>2. Excused(n, f)
      BY <2>1, <2>2, <3>1 DEF KnowsMaster
    <3> QED
      BY <3>1, <3>2 DEF Excused
  <2>7. FacilitiesKept'
    <3> SUFFICES ASSUME NEW a \in attached', Doomed(a[2])
                 PROVE  a \in met
      BY <2>4, <2>5 DEF FacilitiesKept
    <3>1. CASE a \in attached
      BY <3>1 DEF MasterInv, FacilitiesKept
    <3>2. CASE a \notin attached
      <4>1. PICK f \in fs : a = <<n, f>>
        BY <2>4, <3>2
      <4>2. a[2] = f
        BY <4>1
      <4> QED
        BY <2>6, <4>1, <4>2
    <3> QED
      BY <3>1, <3>2
  <2>8. ParentsKept' /\ MasterRows' = MasterRows
    <3>1. MasterRows' = MasterRows
      BY <2>4 DEF MasterRows
    <3> QED
      BY <2>4, <2>5, <3>1 DEF MasterInv, ParentsKept, LiveRow, Excused
  <2>9. attached' \subseteq MasterRows \X (Facilities \cap MasterRows)
    BY <2>3, <2>4 DEF MasterInv
  <2>10. /\ met \subseteq met' /\ revived \subseteq revived'
         /\ master' \in [MasterRows -> StoredRows \cup {None}]
         /\ \A k \in MasterRows : master[k] # None => master'[k] # None
         /\ \A k \in MasterRows : master'[k] # None =>
              \A m \in master'[k].parents : m \in MasterRows /\ MayRefer(k, m)
         /\ \A m \in MasterRows : LevelOf[m] # "property" /\ Doomed(m)' => Doomed(m)
    BY <2>4, <2>5 DEF MasterInv
  <2> QED
    BY <2>4, <2>7, <2>8, <2>9, <2>10, MasterEnds
<1>15. ASSUME Detach
       PROVE  MasterInv'
  <2>1. attached' \subseteq attached /\ UNCHANGED <<req, focus, master, met, revived>>
    BY <1>15 DEF Detach
  <2>2. \A m : Doomed(m)' <=> Doomed(m)
    BY <2>1 DEF Doomed
  <2>3. FacilitiesKept'
    BY <2>1, <2>2 DEF MasterInv, FacilitiesKept
  <2>4. ParentsKept'
    <3>1. MasterRows' = MasterRows
      BY <2>1 DEF MasterRows
    <3> QED
      BY <2>1, <2>2, <3>1 DEF MasterInv, ParentsKept, LiveRow, Excused
  <2>5. /\ met \subseteq met' /\ revived \subseteq revived' /\ UNCHANGED req
        /\ attached' \subseteq MasterRows \X (Facilities \cap MasterRows)
        /\ master' \in [MasterRows -> StoredRows \cup {None}]
        /\ \A k \in MasterRows : master[k] # None => master'[k] # None
        /\ \A k \in MasterRows : master'[k] # None =>
             \A m \in master'[k].parents : m \in MasterRows /\ MayRefer(k, m)
        /\ \A m \in MasterRows : LevelOf[m] # "property" /\ Doomed(m)' => Doomed(m)
    BY <2>1, <2>2 DEF MasterInv
  <2> QED
    BY <2>3, <2>4, <2>5, MasterEnds
<1> QED
  BY <1>1, <1>2, <1>3, <1>4, <1>5, <1>6, <1>7, <1>8, <1>9, <1>10, <1>11, <1>12, <1>13, <1>14,
     <1>15 DEF MasterDataNext

LEMMA MasterStutters ==
  ASSUME MasterInv, UNCHANGED <<req, focus, master, attached, met, revived>>
  PROVE  MasterInv'
<1>1. /\ req' = req /\ master' = master /\ attached' = attached /\ met' = met /\ revived' = revived
      /\ MasterRows' = MasterRows
  BY DEF MasterRows
<1>2. \A m : Doomed(m)' <=> Doomed(m)
  BY <1>1 DEF Doomed, Removes
<1>3. ASSUME NEW p \in Procs, req[p] # None
      PROVE  KnowsMaster(p)'
  <2>1. KnowsMaster(p)
    BY <1>3 DEF MasterInv
  <2>2. WellFormed(req[p])'
    BY <1>1, <2>1 DEF KnowsMaster, WellFormed
  <2>3. ASSUME NEW m \in MasterRows, LinksTo(req[p], m), Doomed(m)
        PROVE  (Excused(req[p].row, m) \/ CopyExcused(req[p], m))'
    BY <1>1, <2>1, <2>3 DEF KnowsMaster, Excused, CopyExcused
  <2> QED
    BY <1>1, <1>2, <2>2, <2>3 DEF KnowsMaster, LinksTo
<1>4. ParentsKept' /\ FacilitiesKept'
  BY <1>1, <1>2 DEF MasterInv, ParentsKept, FacilitiesKept, LiveRow, Excused
<1>5. MasterRequests' = MasterRequests
  BY <1>1 DEF MasterRequests
<1> QED
  BY <1>1, <1>3, <1>4, <1>5 DEF MasterInv, MayRefer

-----------------------------------------------------------------------------
(***************************************************************************)
(* Recommendations.                                                        *)
(***************************************************************************)

GenerateRequest ==
  [op : {"generate"}, at : {"rank", "save"}, version : 1..MaxPreferenceVersion, criteria : Nat,
   now : 0..MaxClock]

\* What was computed from the version that the preference has now, was computed from its criteria.
ComputedFrom(r) ==
  /\ r.version <= preference.version
  /\ r.version = preference.version =>
       r.criteria = preference.criteria /\ preference.status = "ACTIVE"

KnowsPreference(p) ==
  /\ req[p] # None => preference # None /\ req[p].criteria \in Nat
  /\ Running(p, "generate") => req[p] \in GenerateRequest /\ ComputedFrom(req[p])

IsRecommendation(r) ==
  /\ r.version \in 1..MaxPreferenceVersion /\ r.generatedAt \in 0..MaxClock
  /\ r.id \in Nat /\ r.id <= Cardinality(recommendation)

PreferenceInv ==
  /\ req = [p \in Procs |-> req[p]]
  /\ clock \in 0..MaxClock
  /\ preference \in PreferenceRow \cup {None}
  /\ IsFiniteSet(recommendation)
  /\ recommendation # {} => preference # None
  /\ \A r \in recommendation : IsRecommendation(r) /\ ComputedFrom(r)
  /\ \A p \in Procs : KnowsPreference(p)

LEMMA PreferenceInitial ==
  ASSUME RequestsInit, PropertyMatchingInit
  PROVE  PreferenceInv
BY MaxClockAssumption, FS_EmptySet
   DEF RequestsInit, PropertyMatchingInit, PreferenceInv, KnowsPreference, Running

LEMMA LeastOf ==
  ASSUME NEW T, T \subseteq Nat, T # {}
  PROVE  \E n \in T : \A m \in T : n <= m
<1>1. PICK n \in T : \A m \in T : <<m, n>> \notin OpToRel(<, Nat)
  BY NatLessThanWellFounded, WFMin
<1>2. \A m \in T : ~(m < n)
  BY <1>1 DEF OpToRel
<1> QED
  BY <1>2

\* Of the naturals up to a bound in a set one is the greatest.
LEMMA GreatestOf ==
  ASSUME NEW T, NEW b \in Nat, T \subseteq 0..b, T # {}
  PROVE  \E n \in T : \A m \in T : m <= n
<1> DEFINE U == {b - n : n \in T}
<1>0. \A n \in T : n \in Nat /\ b - n \in Nat
  OBVIOUS
<1>1. U \subseteq Nat /\ U # {}
  BY <1>0
<1>2. PICK u \in U : \A m \in U : u <= m
  BY <1>1, LeastOf
<1>3. PICK n \in T : u = b - n
  BY <1>2
<1>4. ASSUME NEW m \in T
      PROVE  m <= n
  <2>1. b - m \in U /\ b - n <= b - m
    BY <1>2, <1>3
  <2> QED
    BY <2>1
<1> QED
  BY <1>4

\* There is a latest recommendation as soon as there is one.
LEMMA LatestThere ==
  ASSUME PreferenceInv, recommendation # {}
  PROVE  Latest \in recommendation
<1> DEFINE times == {r.generatedAt : r \in recommendation}
<1>1. times \subseteq 0..MaxClock /\ times # {}
  BY DEF PreferenceInv, IsRecommendation
<1>2. PICK t \in times : \A u \in times : u <= t
  BY <1>1, MaxClockAssumption, GreatestOf
<1> DEFINE last == {r \in recommendation : r.generatedAt = t}
           ids == {r.id : r \in last}
           n == Cardinality(recommendation)
<1>3. n \in Nat
  BY FS_CardinalityType DEF PreferenceInv
<1>4. ids \subseteq 0..n /\ ids # {}
  BY <1>2, <1>3 DEF PreferenceInv, IsRecommendation
<1>5. PICK i \in ids : \A j \in ids : j <= i
  BY <1>3, <1>4, GreatestOf
<1>6. PICK r \in last : r.id = i
  BY <1>5
<1>7. ASSUME NEW s \in recommendation
      PROVE  r.generatedAt > s.generatedAt \/ (r.generatedAt = s.generatedAt /\ r.id >= s.id)
  <2>1. s.generatedAt <= t /\ s.generatedAt \in 0..MaxClock /\ t \in 0..MaxClock
    BY <1>1, <1>2
  <2>2. CASE s.generatedAt = t
    <3>1. s.id \in ids /\ s.id <= i
      BY <1>5, <2>2
    <3>2. s.id \in Nat /\ i \in Nat
      BY <1>4, <3>1
    <3> QED
      BY <1>6, <2>2, <3>1, <3>2
  <2>3. CASE s.generatedAt # t
    BY <1>6, <2>1, <2>3, MaxClockAssumption
  <2> QED
    BY <2>2, <2>3
<1> QED
  BY <1>6, <1>7 DEF Latest

LEMMA CurrentIfNotStale ==
  ASSUME PreferenceInv
  PROVE  NotStaleIsCurrent
BY LatestThere DEF PreferenceInv, ComputedFrom, NotStaleIsCurrent, Stale

\* A step that leaves the preference and changes p's request.
LEMMA PreferenceKept ==
  ASSUME PreferenceInv, NEW p \in Procs, req' = [req EXCEPT ![p] = req'[p]],
         UNCHANGED <<preference, recommendation, clock>>, KnowsPreference(p)'
  PROVE  PreferenceInv'
<1>1. ASSUME NEW q \in Procs, q # p
      PROVE  KnowsPreference(q)'
  <2>1. KnowsPreference(q) /\ req'[q] = req[q]
    BY <1>1 DEF PreferenceInv
  <2> QED
    BY <2>1 DEF KnowsPreference, ComputedFrom, Running
<1>2. req' = [q \in Procs |-> req'[q]]
  BY DEF PreferenceInv
<1>3. \A r \in recommendation : (IsRecommendation(r) /\ ComputedFrom(r))'
  BY DEF PreferenceInv, IsRecommendation, ComputedFrom
<1> QED
  BY <1>1, <1>2, <1>3 DEF PreferenceInv

LEMMA PreferenceReadKeeps ==
  ASSUME PreferenceInv, NEW p \in Procs, NEW op, op # "generate", PreferenceRead(p, op)
  PROVE  PreferenceInv'
<1>1. PICK r : r = [op |-> op, version |-> preference.version, criteria |-> preference.criteria]
  OBVIOUS
<1>2. r.op = op /\ r.criteria = preference.criteria
  BY <1>1
<1>3. req' = [req EXCEPT ![p] = r] /\ UNCHANGED <<preference, recommendation, rule, clock>>
      /\ preference # None
  BY <1>1 DEF PreferenceRead, Start, matchingVars
<1>4. req'[p] = r /\ req' = [req EXCEPT ![p] = req'[p]]
  BY <1>3 DEF PreferenceInv
<1>5. preference.criteria \in Nat
  BY <1>3 DEF PreferenceInv, PreferenceRow
<1>6. KnowsPreference(p)'
  BY <1>2, <1>3, <1>4, <1>5 DEF KnowsPreference, Running
<1> QED
  BY <1>3, <1>4, <1>6, PreferenceKept

LEMMA GenerateReadKeeps ==
  ASSUME PreferenceInv, NEW p \in Procs, GenerateRead(p)
  PROVE  PreferenceInv'
<1>1. PICK r : r = [op |-> "generate", at |-> "rank", version |-> preference.version,
                    criteria |-> preference.criteria, now |-> 0]
  OBVIOUS
<1>2. req' = [req EXCEPT ![p] = r] /\ UNCHANGED <<preference, recommendation, rule, clock>>
      /\ preference # None /\ preference.status = "ACTIVE"
  BY <1>1 DEF GenerateRead, Start, matchingVars
<1>3. preference \in PreferenceRow
  BY <1>2 DEF PreferenceInv
<1>4. r \in GenerateRequest /\ r.version = preference.version /\ r.criteria = preference.criteria
  BY <1>1, <1>3, MaxClockAssumption DEF GenerateRequest, PreferenceRow
<1>5. req'[p] = r /\ req' = [req EXCEPT ![p] = req'[p]]
  BY <1>2 DEF PreferenceInv
<1>6. preference.version \in 1..MaxPreferenceVersion /\ preference.criteria \in Nat
  BY <1>3 DEF PreferenceRow
<1>7. ComputedFrom(r)' /\ r.criteria \in Nat
  BY <1>2, <1>4, <1>6, PropertyMatchingAssumption DEF ComputedFrom
<1>8. KnowsPreference(p)'
  BY <1>2, <1>4, <1>5, <1>7 DEF KnowsPreference, Running, ComputedFrom
<1> QED
  BY <1>2, <1>5, <1>8, PreferenceKept

LEMMA GenerateNowKeeps ==
  ASSUME PreferenceInv, NEW p \in Procs, GenerateNow(p)
  PROVE  PreferenceInv'
<1>1. req[p] # None /\ req[p].op = "generate" /\ UNCHANGED <<preference, recommendation, rule, clock>>
      /\ req' = [req EXCEPT ![p].at = "save", ![p].now = clock]
  BY DEF GenerateNow, Running, matchingVars
<1>2. req[p] \in GenerateRequest /\ ComputedFrom(req[p]) /\ preference # None
  BY <1>1 DEF PreferenceInv, KnowsPreference, Running
<1>3. req'[p] = [req[p] EXCEPT !.at = "save", !.now = clock] /\ req' = [req EXCEPT ![p] = req'[p]]
  BY <1>1 DEF PreferenceInv
<1>4. req'[p] \in GenerateRequest /\ req'[p].version = req[p].version
      /\ req'[p].criteria = req[p].criteria
  BY <1>2, <1>3 DEF GenerateRequest, PreferenceInv
<1>5. KnowsPreference(p)'
  BY <1>1, <1>2, <1>4 DEF KnowsPreference, ComputedFrom, GenerateRequest
<1> QED
  BY <1>1, <1>3, <1>5, PreferenceKept

LEMMA EndKeepsPreference ==
  ASSUME PreferenceInv, NEW p \in Procs, Done(p), UNCHANGED <<preference, recommendation, clock>>
  PROVE  PreferenceInv'
<1>1. req'[p] = None /\ req' = [req EXCEPT ![p] = req'[p]]
  BY DEF Done, PreferenceInv
<1>2. KnowsPreference(p)'
  BY <1>1 DEF KnowsPreference, Running
<1> QED
  BY <1>1, <1>2, PreferenceKept

\* Every write takes a new version, so that what was computed before is stale.
LEMMA PreferenceWriteKeeps ==
  ASSUME PreferenceInv, NEW p \in Procs, NEW op, NEW status, NEW next \in {"ACTIVE", "ARCHIVED"},
         NEW criteria \in Nat, PreferenceWrite(p, op, status, next, criteria)
  PROVE  PreferenceInv'
<1>1. Running(p, op) /\ Done(p) /\ UNCHANGED <<clock, recommendation, rule>>
      /\ preference.version < MaxPreferenceVersion /\ preference \in PreferenceRow
  BY DEF PreferenceWrite, PreferenceInv, KnowsPreference, Running
<1>2. CASE preference' = preference
  BY <1>1, <1>2, EndKeepsPreference
<1>3. CASE preference' = [version |-> preference.version + 1, status |-> next, criteria |-> criteria]
  <2>1. preference.version \in 1..MaxPreferenceVersion /\ MaxPreferenceVersion \in Nat
    BY <1>1, PropertyMatchingAssumption DEF PreferenceRow
  <2>2. preference.version \in Nat /\ preference'.version = preference.version + 1
        /\ preference.version + 1 \in 1..MaxPreferenceVersion
    BY <1>1, <1>3, <2>1
  <2>3. preference' \in PreferenceRow /\ preference' # None
    BY <1>3, <2>2, PropertyMatchingAssumption DEF PreferenceRow
  <2>4. ASSUME NEW r, r.version \in 1..MaxPreferenceVersion, ComputedFrom(r)
        PROVE  ComputedFrom(r)'
    <3>1. r.version \in Nat /\ r.version <= preference.version
      BY <2>1, <2>4 DEF ComputedFrom
    <3> QED
      BY <2>2, <3>1 DEF ComputedFrom
  <2>5. req'[p] = None /\ req' = [q \in Procs |-> req'[q]] /\ \A q \in Procs : q # p => req'[q] = req[q]
    BY <1>1 DEF Done, PreferenceInv
  <2>6. ASSUME NEW q \in Procs
        PROVE  KnowsPreference(q)'
    <3>1. CASE q = p
      BY <2>5, <3>1 DEF KnowsPreference, Running
    <3>2. CASE q # p
      <4>1. KnowsPreference(q) /\ req'[q] = req[q]
        BY <2>5, <3>2 DEF PreferenceInv
      <4>2. Running(q, "generate") => req[q].version \in 1..MaxPreferenceVersion
        BY <4>1 DEF KnowsPreference, GenerateRequest
      <4>3. Running(q, "generate") => ComputedFrom(req[q])'
        BY <2>4, <2>5, <3>2, <4>1, <4>2 DEF KnowsPreference, ComputedFrom
      <4> QED
        BY <2>3, <4>1, <4>3 DEF KnowsPreference, Running, ComputedFrom
    <3> QED
      BY <3>1, <3>2
  <2>7. ASSUME NEW r \in recommendation
        PROVE  (IsRecommendation(r) /\ ComputedFrom(r))'
    <3>1. IsRecommendation(r) /\ ComputedFrom(r)
      BY DEF PreferenceInv
    <3>2. ComputedFrom(r)'
      BY <2>4, <3>1 DEF IsRecommendation
    <3> QED
      BY <1>1, <3>1, <3>2 DEF IsRecommendation
  <2> QED
    BY <1>1, <2>3, <2>5, <2>6, <2>7 DEF PreferenceInv
<1> QED
  BY <1>2, <1>3 DEF PreferenceWrite, NextVersion

LEMMA SaveKeepsRecommendations ==
  ASSUME PreferenceInv, NEW p \in Procs, SaveRecommendation(p)
  PROVE  PreferenceInv'
<1> DEFINE n == Cardinality(recommendation)
<1>1. req[p] # None /\ req[p].op = "generate" /\ Done(p) /\ UNCHANGED <<preference, rule, clock>>
  BY DEF SaveRecommendation, Running
<1>2. PICK new : new = [id |-> n + 1, version |-> req[p].version, generatedAt |-> req[p].now,
                        criteria |-> req[p].criteria]
  OBVIOUS
<1>3. recommendation' = recommendation \cup {new}
  BY <1>2 DEF SaveRecommendation, SavedVersion
<1>4. req[p] \in GenerateRequest /\ ComputedFrom(req[p]) /\ preference # None
  BY <1>1 DEF PreferenceInv, KnowsPreference, Running
<1>5. n \in Nat /\ IsFiniteSet(recommendation)
  BY FS_CardinalityType DEF PreferenceInv
<1>6. ASSUME NEW r \in recommendation
      PROVE  r.id \in Nat /\ r.id <= n /\ r # new
  <2>1. r.id \in Nat /\ r.id <= n
    BY DEF PreferenceInv, IsRecommendation
  <2> QED
    BY <1>2, <1>5, <2>1
<1>7. new \notin recommendation
  BY <1>6
<1>8. IsFiniteSet(recommendation') /\ Cardinality(recommendation') = n + 1
  BY <1>3, <1>5, <1>7, FS_AddElement
<1>9. IsRecommendation(new)' /\ ComputedFrom(new)'
  BY <1>1, <1>2, <1>4, <1>5, <1>8 DEF IsRecommendation, ComputedFrom, GenerateRequest
<1>10. ASSUME NEW r \in recommendation
       PROVE  (IsRecommendation(r) /\ ComputedFrom(r))'
  <2>1. IsRecommendation(r) /\ ComputedFrom(r)
    BY DEF PreferenceInv
  <2> QED
    BY <1>1, <1>5, <1>6, <1>8, <2>1 DEF IsRecommendation, ComputedFrom
<1>11. req'[p] = None /\ req' = [q \in Procs |-> req'[q]] /\ \A q \in Procs : q # p => req'[q] = req[q]
  BY <1>1 DEF Done, PreferenceInv
<1>12. ASSUME NEW q \in Procs
       PROVE  KnowsPreference(q)'
  <2>1. KnowsPreference(q)
    BY DEF PreferenceInv
  <2> QED
    BY <1>1, <1>11, <2>1 DEF KnowsPreference, Running, ComputedFrom
<1> QED
  BY <1>1, <1>3, <1>4, <1>8, <1>9, <1>10, <1>11, <1>12 DEF PreferenceInv

LEMMA CreatePreferenceKeeps ==
  ASSUME PreferenceInv, CreatePreference
  PROVE  PreferenceInv'
<1>1. preference = None /\ UNCHANGED <<req, clock, recommendation, rule>>
      /\ preference' = [version |-> 1, status |-> "ACTIVE", criteria |-> 1]
  BY DEF CreatePreference
<1>2. preference' \in PreferenceRow
  BY <1>1, PropertyMatchingAssumption DEF PreferenceRow
<1>3. recommendation = {} /\ \A p \in Procs : req[p] = None
  BY <1>1 DEF PreferenceInv, KnowsPreference
<1> QED
  BY <1>1, <1>2, <1>3 DEF PreferenceInv, KnowsPreference, Running

LEMMA PreferenceKeeps ==
  ASSUME PreferenceInv, PreferenceNext
  PROVE  PreferenceInv'
<1>1. CASE CreatePreference
  BY <1>1, CreatePreferenceKeeps
<1>2. CASE Tick /\ UNCHANGED matchingVars
  <2>1. UNCHANGED <<req, preference, recommendation>> /\ clock' \in 0..MaxClock
    BY <1>2, MaxClockAssumption DEF Tick, matchingVars, PreferenceInv
  <2> QED
    BY <2>1 DEF PreferenceInv, KnowsPreference, Running, ComputedFrom, IsRecommendation
<1>3. ASSUME NEW p \in Procs,
             \/ \E op \in {"updatePreference", "archivePreference", "restorePreference"} :
                  PreferenceRead(p, op)
             \/ UpdatePreference(p) \/ ArchivePreference(p)
             \/ (Running(p, "restorePreference") /\ RestorePreference(p))
             \/ GenerateRead(p) \/ GenerateNow(p) \/ SaveRecommendation(p) \/ MatchingAbandon(p)
      PROVE  PreferenceInv'
  <2>1. ASSUME NEW op \in {"updatePreference", "archivePreference", "restorePreference"},
               PreferenceRead(p, op)
        PROVE  PreferenceInv'
    BY <2>1, PreferenceReadKeeps
  <2>2. ASSUME req[p] # None
        PROVE  preference.criteria \in Nat /\ preference.criteria + 1 \in Nat /\ req[p].criteria \in Nat
    BY <2>2 DEF PreferenceInv, KnowsPreference, PreferenceRow
  <2>3. CASE UpdatePreference(p)
    <3>1. PreferenceWrite(p, "updatePreference", "ACTIVE", "ACTIVE", preference.criteria + 1)
      BY <2>3 DEF UpdatePreference
    <3>2. preference.criteria + 1 \in Nat
      BY <2>2, <3>1 DEF PreferenceWrite, Running
    <3> QED
      BY <3>1, <3>2, PreferenceWriteKeeps
  <2>4. CASE ArchivePreference(p)
    <3>1. PreferenceWrite(p, "archivePreference", "ACTIVE", "ARCHIVED", preference.criteria)
      BY <2>4 DEF ArchivePreference
    <3>2. preference.criteria \in Nat
      BY <2>2, <3>1 DEF PreferenceWrite, Running
    <3> QED
      BY <3>1, <3>2, PreferenceWriteKeeps
  <2>5. CASE Running(p, "restorePreference") /\ RestorePreference(p)
    <3>1. PICK c \in {req[p].criteria, preference.criteria + 1} :
            PreferenceWrite(p, "restorePreference", "ARCHIVED", "ACTIVE", c)
      BY <2>5 DEF RestorePreference
    <3>2. c \in Nat
      BY <2>2, <2>5 DEF Running
    <3> QED
      BY <3>1, <3>2, PreferenceWriteKeeps
  <2>6. CASE MatchingAbandon(p)
    BY <2>6, EndKeepsPreference DEF MatchingAbandon, matchingVars
  <2> QED
    BY <1>3, <2>1, <2>3, <2>4, <2>5, <2>6, GenerateReadKeeps, GenerateNowKeeps,
       SaveKeepsRecommendations
<1> QED
  BY <1>1, <1>2, <1>3 DEF PreferenceNext

-----------------------------------------------------------------------------
(***************************************************************************)
(* Rules of the matching.                                                  *)
(***************************************************************************)

RuleRow == [name : RuleNames, version : Nat, isActive : BOOLEAN]

RuleInv ==
  /\ req = [p \in Procs |-> req[p]]
  /\ rule \subseteq RuleRow /\ OneActiveRule
  /\ \A p \in Procs : Running(p, "updateRule") => req[p].rule \in RuleRow

LEMMA RuleInitial ==
  ASSUME RequestsInit, PropertyMatchingInit
  PROVE  RuleInv
BY DEF RequestsInit, PropertyMatchingInit, RuleInv, OneActiveRule, Running

LEMMA DeactivatedRows ==
  ASSUME rule \subseteq RuleRow
  PROVE  \A r \in Deactivated : r \in RuleRow /\ ~r.isActive
BY DEF Deactivated, RuleRow

LEMMA InsertRuleKeeps ==
  ASSUME rule \subseteq RuleRow, OneActiveRule, NEW name \in RuleNames, NEW version \in Nat,
         NEW activate \in BOOLEAN, InsertRule(name, version, activate)
  PROVE  rule' \subseteq RuleRow /\ OneActiveRule'
<1>1. PICK new : new = [name |-> name, version |-> version, isActive |-> activate]
  OBVIOUS
<1>2. rule' = (IF activate THEN Deactivated ELSE rule) \cup {new}
  BY <1>1 DEF InsertRule
<1>3. new \in RuleRow /\ new.isActive = activate
  BY <1>1 DEF RuleRow
<1>4. CASE activate
  BY <1>2, <1>3, <1>4, DeactivatedRows DEF OneActiveRule
<1>5. CASE ~activate
  BY <1>2, <1>3, <1>5 DEF OneActiveRule
<1> QED
  BY <1>4, <1>5

LEMMA RuleKeeps ==
  ASSUME RuleInv, RuleNext
  PROVE  RuleInv'
<1>1. ASSUME NEW n \in RuleNames, NEW b \in BOOLEAN, CreateRule(n, b)
      PROVE  RuleInv'
  <2>1. rule' \subseteq RuleRow /\ OneActiveRule'
    BY <1>1, InsertRuleKeeps DEF CreateRule, RuleInv
  <2> QED
    BY <1>1, <2>1 DEF RuleInv, CreateRule, Running
<1>2. ASSUME NEW p \in Procs, NEW op, NEW r \in rule, RuleRead(p, op, r)
      PROVE  RuleInv'
  <2>1. PICK run : run = [op |-> op, rule |-> r]
    OBVIOUS
  <2>2. run.rule = r /\ req' = [req EXCEPT ![p] = run] /\ UNCHANGED rule
    BY <1>2, <2>1 DEF RuleRead, Start, matchingVars
  <2>3. req' = [q \in Procs |-> req'[q]] /\ req'[p] = run /\ \A q \in Procs : q # p => req'[q] = req[q]
    BY <2>2 DEF RuleInv
  <2> QED
    BY <2>2, <2>3 DEF RuleInv, OneActiveRule, Running
<1>3. ASSUME NEW p \in Procs, Done(p), rule' \subseteq RuleRow, OneActiveRule'
      PROVE  RuleInv'
  <2>1. req' = [q \in Procs |-> req'[q]] /\ req'[p] = None /\ \A q \in Procs : q # p => req'[q] = req[q]
    BY <1>3 DEF RuleInv, Done
  <2> QED
    BY <1>3, <2>1 DEF RuleInv, Running
<1>4. ASSUME NEW p \in Procs, UpdateRule(p)
      PROVE  RuleInv'
  <2>1. req[p].rule \in RuleRow /\ Done(p)
        /\ InsertRule(req[p].rule.name, req[p].rule.version + 1, req[p].rule.isActive)
    BY <1>4 DEF UpdateRule, RuleInv
  <2>2. req[p].rule.name \in RuleNames /\ req[p].rule.version + 1 \in Nat
        /\ req[p].rule.isActive \in BOOLEAN
    BY <2>1 DEF RuleRow
  <2>3. rule' \subseteq RuleRow /\ OneActiveRule'
    BY <2>1, <2>2, InsertRuleKeeps DEF RuleInv
  <2> QED
    BY <1>3, <2>1, <2>3
<1>5. ASSUME NEW p \in Procs, ActivateRule(p)
      PROVE  RuleInv'
  <2> DEFINE chosen(r) == r.name = req[p].rule.name /\ r.version = req[p].rule.version
  <2>1. Done(p) /\ rule' = {[r EXCEPT !.isActive = @ \/ chosen(r)] : r \in Deactivated}
    BY <1>5 DEF ActivateRule
  <2>2. ASSUME NEW r \in Deactivated
        PROVE  LET s == [r EXCEPT !.isActive = @ \/ chosen(r)]
               IN  /\ s \in RuleRow /\ s.name = r.name /\ s.version = r.version
                   /\ s.isActive => chosen(r)
    <3>1. r \in RuleRow /\ ~r.isActive
      BY DeactivatedRows DEF RuleInv
    <3>2. PICK b \in BOOLEAN : b = (r.isActive \/ chosen(r))
      OBVIOUS
    <3>3. [r EXCEPT !.isActive = @ \/ chosen(r)] = [r EXCEPT !.isActive = b]
      BY <3>2
    <3>4. b => chosen(r)
      BY <3>1, <3>2
    <3> HIDE DEF chosen
    <3> QED
      BY <3>1, <3>3, <3>4 DEF RuleRow
  <2>3. rule' \subseteq RuleRow
    BY <2>1, <2>2
  <2>4. \A s \in rule' : s.isActive => s.name = req[p].rule.name /\ s.version = req[p].rule.version
    BY <2>1, <2>2
  <2>5. OneActiveRule'
    BY <2>3, <2>4 DEF OneActiveRule, RuleRow
  <2> QED
    BY <1>3, <2>1, <2>3, <2>5
<1>6. ASSUME NEW p \in Procs, MatchingAbandon(p)
      PROVE  RuleInv'
  BY <1>3, <1>6 DEF MatchingAbandon, matchingVars, RuleInv, OneActiveRule
<1> QED
  BY <1>1, <1>2, <1>4, <1>5, <1>6 DEF RuleNext

-----------------------------------------------------------------------------
(***************************************************************************)
(* Recommendations: what the query selects and what the engine accepts.    *)
(***************************************************************************)

EngineInv ==
  /\ engine = [preference |-> engine.preference, rule |-> engine.rule, listings |-> engine.listings,
               todo |-> engine.todo, results |-> engine.results, sorted |-> engine.sorted]
  /\ engine.preference \in Preferences
  /\ engine.listings \in [ListingIds -> Candidates]

LEMMA EngineInitial ==
  ASSUME MatchingEngineInit
  PROVE  EngineInv
<1> DEFINE of(S) == IF focus = "matching engine" THEN S ELSE {CHOOSE x \in S : TRUE}
<1>1. PICK pref \in of(Preferences), ru \in of(Rules), rows \in [ListingIds -> of(Candidates)] :
        engine = [preference |-> pref, rule |-> ru, listings |-> rows,
                  todo |-> ListCandidates(pref, rows), results |-> <<>>, sorted |-> FALSE]
  BY DEF MatchingEngineInit
<1>2. (CHOOSE x \in Preferences : TRUE) \in Preferences /\ (CHOOSE x \in Candidates : TRUE) \in Candidates
  BY MatchingEngineAssumption
<1>3. of(Preferences) \subseteq Preferences /\ of(Candidates) \subseteq Candidates
  BY <1>2
<1> HIDE DEF of
<1>4. pref \in Preferences /\ rows \in [ListingIds -> Candidates]
  BY <1>3
<1> QED
  BY <1>1, <1>4 DEF EngineInv

\* Where a level is asked for, the first of them is reached.
LEMMA LevelReached ==
  ASSUME NEW want, NEW have, NEW i \in DOMAIN Levels, want.levels[i] # None
  PROVE  Hierarchy(want, have).requested > 0
<1> DEFINE requested == {j \in DOMAIN Levels : want.levels[j] # None}
           reached == {j \in requested : \A l \in requested : l < j => have.levels[l] = want.levels[l]}
<1>1. DOMAIN Levels = 1 .. 5
  BY DEF Levels
<1>2. requested \subseteq Nat /\ requested # {}
  BY <1>1
<1>3. PICK j \in requested : \A l \in requested : j <= l
  BY <1>2, LeastOf
<1>4. \A l \in requested : ~(l < j)
  BY <1>2, <1>3
<1>5. j \in reached
  BY <1>3, <1>4
<1>6. IsFiniteSet(reached)
  <2>0. IsFiniteSet(DOMAIN Levels)
    <3>1. 1 \in Int /\ 5 \in Int
      OBVIOUS
    <3>2. IsFiniteSet(1 .. 5)
      BY <3>1, FS_Interval, Zenon
    <3> QED
      BY <1>1, <3>2, Zenon
  <2>1. reached \subseteq DOMAIN Levels
    OBVIOUS
  <2> QED
    BY <2>0, <2>1, FS_Subset
<1>7. Cardinality(reached) \in Nat /\ Cardinality(reached) # 0
  BY <1>5, <1>6, FS_CardinalityType, FS_EmptySet
<1>8. Hierarchy(want, have).requested = Cardinality(reached)
  BY DEF Hierarchy
<1> QED
  BY <1>7, <1>8

\* Where all levels agree that are asked for, each does.
LEMMA LevelsAgree ==
  ASSUME NEW want, NEW have, Hierarchy(want, have).matched = Hierarchy(want, have).requested,
         NEW i \in DOMAIN Levels, want.levels[i] # None
  PROVE  have.levels[i] = want.levels[i]
<1> DEFINE requested == {j \in DOMAIN Levels : want.levels[j] # None}
           agree == {j \in requested : \A l \in requested : l <= j => have.levels[l] = want.levels[l]}
           reached == {j \in requested : \A l \in requested : l < j => have.levels[l] = want.levels[l]}
<1>1. DOMAIN Levels = 1 .. 5
  BY DEF Levels
<1>2. IsFiniteSet(reached) /\ agree \subseteq reached
  <2>0. IsFiniteSet(DOMAIN Levels)
    <3>1. 1 \in Int /\ 5 \in Int
      OBVIOUS
    <3>2. IsFiniteSet(1 .. 5)
      BY <3>1, FS_Interval, Zenon
    <3> QED
      BY <1>1, <3>2, Zenon
  <2>1. reached \subseteq DOMAIN Levels
    OBVIOUS
  <2>2. IsFiniteSet(reached)
    BY <2>0, <2>1, FS_Subset
  <2>3. ASSUME NEW j \in agree
        PROVE  j \in reached
    <3>1. \A l \in requested : l < j => l <= j
      BY <1>1
    <3> QED
      BY <3>1
  <2> QED
    BY <2>2, <2>3
<1>3. Cardinality(agree) = Cardinality(reached)
  BY DEF Hierarchy
<1>4. agree = reached
  BY <1>2, <1>3, FS_Subset
<1> DEFINE off == {j \in requested : have.levels[j] # want.levels[j]}
<1>5. off = {}
  <2> SUFFICES ASSUME off # {}
               PROVE  FALSE
    OBVIOUS
  <2>1. off \subseteq Nat
    BY <1>1
  <2>2. PICK j \in off : \A l \in off : j <= l
    BY <2>1, LeastOf
  <2>3. \A l \in requested : l < j => have.levels[l] = want.levels[l]
    BY <1>1, <2>2
  <2>4. j \in reached
    BY <2>2, <2>3
  <2>5. j <= j
    BY <2>1
  <2> QED
    BY <1>4, <2>2, <2>4, <2>5
<1> QED
  BY <1>5

\* A budget that fits is one that the condition on the price lets through, but for the
\* cent under the lowest price.
LEMMA BudgetLetsThrough ==
  ASSUME NEW want, NEW price, want # None, want.tolerance \in Nat,
         want.min \in Nat \cup {None}, want.max \in Nat \cup {None},
         price # None => price.min \in Nat \cup {None} /\ price.max \in Nat \cup {None},
         BudgetFit(want, price), ~PriceFilter(want, price)
  PROVE  /\ want.min # None /\ price.max # None
         /\ price.max * 100 < want.min * (100 - want.tolerance)
         /\ (price.max + 1) * 100 > want.min * (100 - want.tolerance)
<1>1. /\ price # None /\ price.money = want.money /\ Low(price) # None
      /\ want.max # None => Low(price) <= (want.max * (100 + want.tolerance)) \div 100
      /\ want.min # None => High(price) >= (want.min * (100 - want.tolerance)) \div 100
  BY DEF BudgetFit
<1>2. ~(want.max # None /\ price.min # None => price.min * 100 <= want.max * (100 + want.tolerance))
      \/ ~(want.min # None /\ price.max # None => price.max * 100 >= want.min * (100 - want.tolerance))
  BY <1>1 DEF PriceFilter
<1>3. ASSUME want.max # None, price.min # None
      PROVE  price.min * 100 <= want.max * (100 + want.tolerance)
  <2>1. price.min \in Nat /\ want.max \in Nat /\ Low(price) = price.min
    BY <1>1, <1>3 DEF Low
  <2>2. PICK x \in Nat : x = want.max * (100 + want.tolerance)
    BY <2>1
  <2>3. price.min <= x \div 100
    BY <1>1, <1>3, <2>1, <2>2
  <2>4. (x \div 100) * 100 <= x /\ x \div 100 \in Nat
    BY <2>2
  <2> QED
    BY <2>1, <2>2, <2>3, <2>4
<1>4. want.min # None /\ price.max # None /\ ~(price.max * 100 >= want.min * (100 - want.tolerance))
  BY <1>2, <1>3
<1>5. price.max \in Nat /\ want.min \in Nat /\ High(price) = price.max
  BY <1>1, <1>4 DEF High
<1>6. PICK x \in Int : x = want.min * (100 - want.tolerance)
  BY <1>5
<1>7. price.max >= x \div 100 /\ price.max * 100 < x
  BY <1>1, <1>4, <1>5, <1>6
<1>8. x < (x \div 100 + 1) * 100 /\ x \div 100 \in Int
  BY <1>6
<1> QED
  BY <1>4, <1>5, <1>6, <1>7, <1>8

LEMMA EngineImplies ==
  ASSUME EngineInv
  PROVE  QueryMissesNoMatch
<1> SUFFICES ASSUME NEW l \in ListingIds, Row(l).visible,
                    EvaluateHardCriteria(engine.preference, Row(l), Hard), ~Selected(engine.preference, Row(l))
             PROVE  /\ "budget" \in engine.preference.hard /\ engine.preference.budget.min # None
                    /\ Row(l).price.max # None
                    /\ Row(l).price.max * 100
                         < engine.preference.budget.min * (100 - engine.preference.budget.tolerance)
                    /\ (Row(l).price.max + 1) * 100
                         > engine.preference.budget.min * (100 - engine.preference.budget.tolerance)
  BY DEF QueryMissesNoMatch
<1>1. PICK pref \in Preferences, row \in Candidates : pref = engine.preference /\ row = Row(l)
  BY DEF EngineInv, Row
<1>2. pref.hard \subseteq Hard
  BY <1>1 DEF Hard
<1>3. /\ "transactionType" \in pref.hard => row.transactionType \in pref.transactionTypes
      /\ "propertyType" \in pref.hard => row.propertyType \in pref.propertyTypes
      /\ "propertyCategory" \in pref.hard => row.propertyCategory \in pref.propertyCategories
      /\ "location" \in pref.hard => LocationHardMatch(pref.location, row)
      /\ "budget" \in pref.hard => BudgetFit(pref.budget, row.price)
  BY <1>1, <1>2 DEF EvaluateHardCriteria
<1>4. ASSUME "location" \in pref.hard, pref.location # None, NEW i \in DOMAIN Levels,
             pref.location.levels[i] # None
      PROVE  row.levels[i] = pref.location.levels[i]
  <2>1. LET h == Hierarchy(pref.location, row) IN h.requested > 0 => h.matched = h.requested
    BY <1>3, <1>4 DEF LocationHardMatch
  <2>2. Hierarchy(pref.location, row).requested > 0
    BY <1>4, LevelReached
  <2> QED
    BY <1>4, <2>1, <2>2, LevelsAgree
<1>5. "budget" \in pref.hard /\ pref.budget # None /\ ~PriceFilter(pref.budget, row.price)
  BY <1>1, <1>3, <1>4 DEF Selected
<1>6. /\ pref.budget.tolerance \in Nat
      /\ pref.budget.min \in Nat \cup {None} /\ pref.budget.max \in Nat \cup {None}
      /\ row.price # None => row.price.min \in Nat \cup {None} /\ row.price.max \in Nat \cup {None}
  BY <1>5, MatchingEngineAssumption
<1> QED
  BY <1>1, <1>3, <1>5, <1>6, BudgetLetsThrough

LEMMA EngineKeeps ==
  ASSUME EngineInv, MatchingEngineNext
  PROVE  EngineInv'
<1>1. CASE EvaluateOne
  BY <1>1 DEF EngineInv, EvaluateOne
<1>2. CASE SortResults
  BY <1>2 DEF EngineInv, SortResults
<1> QED
  BY <1>1, <1>2 DEF MatchingEngineNext

-----------------------------------------------------------------------------
(***************************************************************************)
(* Content: an article, its revisions and its former slugs.                *)
(***************************************************************************)

\* A request about to write works on an article that exists; a revision about to be
\* stored is the article of the version that was read.
KnowsArticle(p) ==
  /\ req[p] # None => article # None
  /\ Running(p, "updateArticle") => req[p] \in UpdateRequest
  /\ Running(p, "transitionArticle") => req[p].status \in {"PUBLISHED", "DRAFT", "ARCHIVED"}
  /\ Running(p, "revise") =>
       /\ req[p].version \in ArticleVersions /\ req[p].version <= article.version
       /\ req[p].body = texts[req[p].version] /\ req[p].body \in RevisionRow

ArticleRows ==
  /\ req = [p \in Procs |-> req[p]]
  /\ article \in ArticleRow \cup {None}
  /\ revision \in [ArticleVersions -> RevisionRow \cup {None}]
  /\ texts = [v \in ArticleVersions |-> texts[v]]
  /\ redirect \in [Slugs -> Slugs \cup {None}]
  /\ former \subseteq Slugs /\ overlapped \in BOOLEAN
  /\ RevisionOfItsVersion
  /\ \A v \in ArticleVersions : revision[v] # None => article # None /\ v <= article.version
  /\ article # None => texts[article.version] = Body(article)
  /\ \A p \in Procs : KnowsArticle(p)

\* Where updates do not overlap, the one under way knows the slug of before, until it
\* has written the article and is about to write the redirect that is missing.
FormerInv ==
  overlapped = FALSE =>
    /\ \A p, q \in Updating : p = q
    /\ \A p \in Updating :
         /\ req[p].before \in Slugs
         /\ IF req[p].at = "redirect" THEN req[p].slug \in Slugs \ {req[p].before}
                                      ELSE req[p].before = article.slug
    /\ \A s \in former :
         \/ redirect[s] \in Slugs \ {s}
         \/ \E p \in Updating : req[p].at = "redirect" /\ req[p].before = s

ArticleInv == ArticleRows /\ FormerInv

LEMMA ArticleInitial ==
  ASSUME RequestsInit, ContentInit
  PROVE  ArticleInv
<1>1. /\ req = [p \in Procs |-> None] /\ article = None /\ former = {} /\ overlapped = FALSE
      /\ revision = [v \in ArticleVersions |-> None] /\ texts = [v \in ArticleVersions |-> None]
      /\ redirect = [s \in Slugs |-> None]
  BY DEF RequestsInit, ContentInit
<1>2. Updating = {} /\ \A p \in Procs : KnowsArticle(p)
  BY <1>1 DEF Updating, KnowsArticle, Running
<1> QED
  BY <1>1, <1>2 DEF ArticleInv, ArticleRows, FormerInv, RevisionOfItsVersion

LEMMA ArticleImplies ==
  ASSUME ArticleInv
  PROVE  RevisionOfItsVersion /\ FormerSlugRedirected
BY DEF ArticleInv, ArticleRows, FormerInv, FormerSlugRedirected

\* What a write of the article does to its versions.
LEMMA WrittenVersion ==
  ASSUME ArticleRows, NEW row \in ArticleRow, row.version = article.version, ArticleWritten(row)
  PROVE  /\ article' \in ArticleRow /\ article' # None /\ Body(article') \in RevisionRow
         /\ article.version \in Nat /\ article'.version = article.version + 1
         /\ article'.version \in ArticleVersions
         /\ article'.slug = row.slug
         /\ texts' = [v \in ArticleVersions |-> texts'[v]]
         /\ texts'[article'.version] = Body(article')
         /\ \A v \in ArticleVersions : v <= article.version => texts'[v] = texts[v]
<1>1. row.version \in 1..MaxArticleVersion /\ MaxArticleVersion \in Nat /\ row.version < MaxArticleVersion
  BY ContentAssumption DEF ArticleRow, ArticleVersions, ArticleWritten
<1>2. article' = [row EXCEPT !.version = row.version + 1]
      /\ texts' = [texts EXCEPT ![row.version + 1] = Body(article')]
  BY DEF ArticleWritten
<1>3. row.version \in Nat /\ row.version + 1 \in ArticleVersions
  BY <1>1 DEF ArticleVersions
<1>4. article' \in ArticleRow /\ article'.version = row.version + 1 /\ article'.slug = row.slug
  BY <1>2, <1>3 DEF ArticleRow
<1>5. article' # None /\ Body(article') \in RevisionRow
  BY <1>4, ContentAssumption DEF ArticleRow, RevisionRow, Body
<1>6. texts' = [v \in ArticleVersions |-> texts'[v]] /\ texts'[row.version + 1] = Body(article')
  BY <1>2, <1>3 DEF ArticleRows
<1>7. ASSUME NEW v \in ArticleVersions, v <= row.version
      PROVE  texts'[v] = texts[v]
  <2>1. v # row.version + 1
    BY <1>3, <1>7 DEF ArticleVersions
  <2> QED
    BY <1>2, <2>1 DEF ArticleRows
<1> QED
  BY <1>3, <1>4, <1>5, <1>6, <1>7

\* A write of the article: its requests end or go on to the redirect.
LEMMA WriteKeepsRows ==
  ASSUME ArticleRows, NEW row \in ArticleRow, row.version = article.version, article # None,
         ArticleWritten(row),
         \/ revision' = revision
         \/ revision' = [revision EXCEPT ![article'.version] = Body(article')],
         req' = [p \in Procs |-> req'[p]],
         \A p \in Procs : \/ req'[p] = req[p] \/ req'[p] = None
                          \/ (Running(p, "updateArticle") /\ req'[p] = [req[p] EXCEPT !.at = "redirect"]),
         redirect' = redirect, former' \subseteq Slugs, overlapped' = overlapped
  PROVE  ArticleRows'
<1>1. /\ article' \in ArticleRow /\ article' # None /\ Body(article') \in RevisionRow
      /\ article.version \in Nat /\ article'.version = article.version + 1
      /\ article'.version \in ArticleVersions
      /\ texts' = [v \in ArticleVersions |-> texts'[v]]
      /\ texts'[article'.version] = Body(article')
      /\ \A v \in ArticleVersions : v <= article.version => texts'[v] = texts[v]
  BY WrittenVersion
<1>2. \A v \in ArticleVersions : v \in Nat
  BY DEF ArticleVersions
<1>3. ASSUME NEW v \in ArticleVersions
      PROVE  /\ revision'[v] \in RevisionRow \cup {None}
             /\ revision'[v] # None => v <= article'.version /\ revision'[v] = texts'[v]
  <2>1. CASE revision'[v] = revision[v]
    <3>1. revision[v] \in RevisionRow \cup {None}
      BY DEF ArticleRows
    <3>2. ASSUME revision[v] # None
          PROVE  v <= article.version /\ revision[v] = texts[v]
      BY <3>2 DEF ArticleRows, RevisionOfItsVersion
    <3>3. v \in Nat /\ (v <= article.version => v <= article'.version)
      BY <1>1, <1>2
    <3> QED
      BY <1>1, <2>1, <3>1, <3>2, <3>3
  <2>2. CASE v = article'.version /\ revision' = [revision EXCEPT ![article'.version] = Body(article')]
    <3>1. revision'[v] = Body(article')
      BY <2>2 DEF ArticleRows
    <3>2. v <= article'.version
      BY <1>2, <2>2
    <3> QED
      BY <1>1, <2>2, <3>1, <3>2
  <2> QED
    BY <2>1, <2>2 DEF ArticleRows
<1>4. revision' \in [ArticleVersions -> RevisionRow \cup {None}]
  BY <1>3 DEF ArticleRows
<1>5. ASSUME NEW p \in Procs
      PROVE  KnowsArticle(p)'
  <2>1. KnowsArticle(p)
    BY DEF ArticleRows
  <2>2. CASE req'[p] = None
    BY <1>1, <2>2 DEF KnowsArticle, Running
  <2>3. CASE req'[p] = req[p]
    <3>1. ASSUME Running(p, "revise")
          PROVE  /\ req[p].version \in ArticleVersions /\ req[p].version <= article'.version
                 /\ req[p].body = texts'[req[p].version] /\ req[p].body \in RevisionRow
      <4>1. /\ req[p].version \in ArticleVersions /\ req[p].version <= article.version
            /\ req[p].body = texts[req[p].version] /\ req[p].body \in RevisionRow
        BY <2>1, <3>1 DEF KnowsArticle
      <4>2. req[p].version \in Nat
        BY <1>2, <4>1
      <4> QED
        BY <1>1, <4>1, <4>2
    <3> QED
      BY <1>1, <2>1, <2>3, <3>1 DEF KnowsArticle, Running
  <2>4. CASE Running(p, "updateArticle") /\ req'[p] = [req[p] EXCEPT !.at = "redirect"]
    <3>1. req[p] \in UpdateRequest
      BY <2>1, <2>4 DEF KnowsArticle
    <3>2. req'[p] \in UpdateRequest
      BY <2>4, <3>1 DEF UpdateRequest
    <3>3. req'[p].op = "updateArticle"
      BY <3>2 DEF UpdateRequest
    <3> QED
      BY <1>1, <3>2, <3>3 DEF KnowsArticle, Running
  <2> QED
    BY <2>2, <2>3, <2>4
<1> QED
  BY <1>1, <1>3, <1>4, <1>5 DEF ArticleRows, RevisionOfItsVersion

\* A step of p that leaves the article and its versions.
LEMMA RequestKeepsRows ==
  ASSUME ArticleRows, NEW p \in Procs, req' = [req EXCEPT ![p] = req'[p]],
         UNCHANGED <<article, revision, texts, former>>,
         redirect' \in [Slugs -> Slugs \cup {None}], overlapped' \in BOOLEAN, KnowsArticle(p)'
  PROVE  ArticleRows'
<1>1. ASSUME NEW q \in Procs, q # p
      PROVE  KnowsArticle(q)'
  <2>1. KnowsArticle(q) /\ req'[q] = req[q]
    BY <1>1 DEF ArticleRows
  <2> QED
    BY <2>1 DEF KnowsArticle, Running
<1>2. req' = [q \in Procs |-> req'[q]]
  BY DEF ArticleRows
<1> QED
  BY <1>1, <1>2 DEF ArticleRows, RevisionOfItsVersion, Body

\* A step after which the same updates are under way, or fewer that miss no redirect.
LEMMA FormerKept ==
  ASSUME FormerInv, UNCHANGED <<redirect, former, overlapped>>, article'.slug = article.slug,
         Updating' \subseteq Updating,
         \A q \in Updating' : /\ req'[q].at = "redirect" <=> req[q].at = "redirect"
                              /\ req'[q].before = req[q].before /\ req'[q].slug = req[q].slug,
         \A q \in Updating : req[q].at = "redirect" => q \in Updating'
  PROVE  FormerInv'
<1>1. SUFFICES ASSUME overlapped = FALSE
               PROVE  FormerInv'
  BY DEF FormerInv
<1>2. \A q \in Updating' :
        /\ req'[q].before \in Slugs
        /\ IF req'[q].at = "redirect" THEN req'[q].slug \in Slugs \ {req'[q].before}
                                      ELSE req'[q].before = article'.slug
  BY <1>1 DEF FormerInv
<1>3. \A s \in former : \/ redirect[s] \in Slugs \ {s}
                        \/ \E q \in Updating' : req'[q].at = "redirect" /\ req'[q].before = s
  BY <1>1 DEF FormerInv
<1>4. \A q, t \in Updating' : q = t
  BY <1>1 DEF FormerInv
<1> QED
  BY <1>2, <1>3, <1>4 DEF FormerInv

LEMMA CreateArticleKeeps ==
  ASSUME ArticleInv, CreateArticle
  PROVE  ArticleInv'
<1>1. PICK row : row = [version |-> 1, status |-> "DRAFT", slug |-> FirstSlug, text |-> 1, deleted |-> FALSE]
  OBVIOUS
<1>2. /\ article = None /\ article' = row /\ texts' = [texts EXCEPT ![1] = Body(row)]
      /\ revision' = [revision EXCEPT ![1] = Body(row)]
      /\ UNCHANGED <<req, redirect, former, overlapped>>
  BY <1>1 DEF CreateArticle
<1>3. 1 \in ArticleVersions
  BY ContentAssumption DEF ArticleVersions
<1>4. row \in ArticleRow /\ Body(row) \in RevisionRow /\ row # None /\ row.version = 1
  <2>1. row \in ArticleRow /\ row.version = 1
    BY <1>1, <1>3, ContentAssumption DEF ArticleRow
  <2>2. Body(row) = [text |-> 1, slug |-> FirstSlug]
    BY <1>1 DEF Body
  <2>3. Body(row) \in RevisionRow
    BY <1>3, <2>2, ContentAssumption DEF RevisionRow
  <2> QED
    BY <2>1, <2>3, ContentAssumption
<1>5. \A p \in Procs : req[p] = None
  BY <1>2 DEF ArticleInv, ArticleRows, KnowsArticle
<1>6. \A v \in ArticleVersions : revision[v] = None
  BY <1>2 DEF ArticleInv, ArticleRows
<1>7. /\ revision' \in [ArticleVersions -> RevisionRow \cup {None}]
      /\ texts' = [v \in ArticleVersions |-> texts'[v]] /\ texts'[1] = Body(row)
      /\ \A v \in ArticleVersions : revision'[v] # None => v = 1 /\ revision'[v] = texts'[v]
  BY <1>2, <1>3, <1>4, <1>6 DEF ArticleInv, ArticleRows
<1>8. Updating = {} /\ Updating' = {} /\ \A p \in Procs : KnowsArticle(p)'
  BY <1>2, <1>5 DEF Updating, KnowsArticle, Running
<1>9. ArticleRows'
  BY <1>2, <1>4, <1>7, <1>8 DEF ArticleInv, ArticleRows, RevisionOfItsVersion
<1>10. FormerInv'
  BY <1>2, <1>8 DEF ArticleInv, FormerInv
<1> QED
  BY <1>9, <1>10 DEF ArticleInv

LEMMA DeleteAndRestoreKeep ==
  ASSUME ArticleInv, article # None, NEW d \in BOOLEAN,
         ArticleWritten([article EXCEPT !.deleted = d]),
         UNCHANGED <<req, revision, redirect, former, overlapped>>
  PROVE  ArticleInv'
<1>1. PICK row : row = [article EXCEPT !.deleted = d]
  OBVIOUS
<1>2. row \in ArticleRow /\ row.version = article.version /\ row.slug = article.slug
  BY <1>1 DEF ArticleInv, ArticleRows, ArticleRow
<1>3. ArticleWritten(row)
  BY <1>1
<1>4. ArticleRows'
  BY <1>2, <1>3, WriteKeepsRows DEF ArticleInv, ArticleRows
<1>5. article'.slug = article.slug
  BY <1>2, <1>3, WrittenVersion DEF ArticleInv
<1>6. FormerInv'
  BY <1>5 DEF ArticleInv, FormerInv, Updating, Running
<1> QED
  BY <1>4, <1>6 DEF ArticleInv

LEMMA TransitionArticleKeeps ==
  ASSUME ArticleInv, NEW p \in Procs, TransitionArticle(p)
  PROVE  ArticleInv'
<1>1. /\ req[p] # None /\ req[p].op = "transitionArticle" /\ req' = [req EXCEPT ![p] = None]
      /\ ArticleWritten([article EXCEPT !.status = req[p].status])
      /\ UNCHANGED <<revision, redirect, former, overlapped>>
  BY DEF TransitionArticle, Running, Done
<1>2. PICK row : row = [article EXCEPT !.status = req[p].status]
  OBVIOUS
<1>3. article # None /\ req[p].status \in {"PUBLISHED", "DRAFT", "ARCHIVED"}
  BY <1>1 DEF ArticleInv, ArticleRows, KnowsArticle, Running
<1>4. row \in ArticleRow /\ row.version = article.version /\ row.slug = article.slug
  BY <1>2, <1>3 DEF ArticleInv, ArticleRows, ArticleRow
<1>5. ArticleWritten(row)
  BY <1>1, <1>2
<1>6. req' = [q \in Procs |-> req'[q]] /\ req'[p] = None /\ \A q \in Procs : q # p => req'[q] = req[q]
  BY <1>1 DEF ArticleInv, ArticleRows
<1>7. ArticleRows'
  BY <1>1, <1>3, <1>4, <1>5, <1>6, WriteKeepsRows DEF ArticleInv, ArticleRows
<1>8. article'.slug = article.slug
  BY <1>4, <1>5, WrittenVersion DEF ArticleInv
<1>9. Updating' = Updating /\ \A q \in Updating : req'[q] = req[q]
  BY <1>1, <1>6 DEF Updating, Running
<1>10. FormerInv'
  BY <1>1, <1>8, <1>9 DEF ArticleInv, FormerInv
<1> QED
  BY <1>7, <1>10 DEF ArticleInv

LEMMA UpdateReadKeeps ==
  ASSUME ArticleInv, NEW p \in Procs, NEW slug \in Slugs \cup {None}, NEW e \in BOOLEAN,
         UpdateArticleRead(p, slug, e)
  PROVE  ArticleInv'
<1>1. PICK r : r = [op |-> "updateArticle", at |-> "check", before |-> article.slug, slug |-> slug,
                    text |-> IF slug = None THEN NewText ELSE None,
                    expected |-> IF e THEN article.version ELSE None, current |-> None]
  OBVIOUS
<1>2. r.op = "updateArticle" /\ r.at = "check" /\ r.before = article.slug
  BY <1>1
<1>3. /\ article # None /\ req[p] = None /\ req' = [req EXCEPT ![p] = r]
      /\ overlapped' = (overlapped \/ Updating # {})
      /\ UNCHANGED <<article, revision, texts, redirect, former>>
  BY <1>1 DEF UpdateArticleRead, Readable, Start
<1>4. req'[p] = r /\ req' = [req EXCEPT ![p] = req'[p]] /\ \A q \in Procs : q # p => req'[q] = req[q]
  BY <1>3 DEF ArticleInv, ArticleRows
<1>5. article.slug \in Slugs /\ article.version \in ArticleVersions
  BY <1>3 DEF ArticleInv, ArticleRows, ArticleRow
<1>6. r \in UpdateRequest /\ r # None /\ KnowsArticle(p)'
  <2>1. r \in UpdateRequest
    BY <1>1, <1>5 DEF UpdateRequest
  <2>2. r # None
    BY <2>1, ContentAssumption
  <2> QED
    BY <1>2, <1>3, <1>4, <2>1, <2>2 DEF KnowsArticle, Running
<1>7. ArticleRows'
  BY <1>3, <1>4, <1>6, RequestKeepsRows DEF ArticleInv, ArticleRows
<1>8. FormerInv'
  <2>1. SUFFICES ASSUME overlapped' = FALSE
                 PROVE  FormerInv'
    BY DEF FormerInv
  <2>2. overlapped = FALSE /\ Updating = {}
    BY <1>3, <2>1 DEF ArticleInv, ArticleRows
  <2>3. Updating' = {p}
    BY <1>2, <1>4, <1>6, <2>2 DEF Updating, Running
  <2>4. \A s \in former : redirect[s] \in Slugs \ {s}
    BY <2>2 DEF ArticleInv, FormerInv
  <2> QED
    BY <1>2, <1>3, <1>4, <1>5, <2>3, <2>4 DEF FormerInv
<1> QED
  BY <1>7, <1>8 DEF ArticleInv

LEMMA RestoreRevisionKeeps ==
  ASSUME ArticleInv, NEW p \in Procs, NEW v \in ArticleVersions, RestoreRevisionRead(p, v)
  PROVE  ArticleInv'
<1>1. PICK r : r = [op |-> "updateArticle", at |-> "check", before |-> None,
                    slug |-> revision[v].slug, text |-> revision[v].text,
                    expected |-> article.version, current |-> None]
  OBVIOUS
<1>2. r.op = "updateArticle"
  BY <1>1
<1>3. /\ article # None /\ revision[v] # None /\ req' = [req EXCEPT ![p] = r] /\ overlapped' = TRUE
      /\ UNCHANGED <<article, revision, texts, redirect, former>>
  BY <1>1 DEF RestoreRevisionRead, Readable, Start
<1>4. req'[p] = r /\ req' = [req EXCEPT ![p] = req'[p]]
  BY <1>3 DEF ArticleInv, ArticleRows
<1>5. revision[v] \in RevisionRow /\ article.version \in ArticleVersions
  BY <1>3 DEF ArticleInv, ArticleRows, ArticleRow
<1>6. KnowsArticle(p)'
  <2>1. r \in UpdateRequest
    BY <1>1, <1>5 DEF UpdateRequest, RevisionRow
  <2> QED
    BY <1>2, <1>3, <1>4, <2>1 DEF KnowsArticle, Running
<1>7. ArticleRows'
  BY <1>3, <1>4, <1>6, RequestKeepsRows DEF ArticleInv, ArticleRows
<1> QED
  BY <1>3, <1>7 DEF ArticleInv, FormerInv

LEMMA EndKeepsArticle ==
  ASSUME ArticleInv, NEW p \in Procs, Done(p), UNCHANGED <<article, revision, texts, former>>,
         UNCHANGED redirect,
         overlapped' \in BOOLEAN,
         overlapped' = TRUE \/ ((p \in Updating => req[p].at # "redirect") /\ UNCHANGED overlapped)
  PROVE  ArticleInv'
<1>1. req'[p] = None /\ req' = [req EXCEPT ![p] = req'[p]] /\ \A q \in Procs : q # p => req'[q] = req[q]
  BY DEF Done, ArticleInv, ArticleRows
<1>2. KnowsArticle(p)'
  BY <1>1 DEF KnowsArticle, Running
<1>3. ArticleRows'
  BY <1>1, <1>2, RequestKeepsRows DEF ArticleInv, ArticleRows
<1>4. ASSUME NEW q \in Procs
      PROVE  /\ q \in Updating' <=> q \in Updating /\ q # p
             /\ q \in Updating' => req'[q] = req[q]
  <2>1. CASE q = p
    BY <1>1, <2>1 DEF Updating, Running
  <2>2. CASE q # p
    BY <1>1, <2>2 DEF Updating, Running
  <2> QED
    BY <2>1, <2>2
<1>5. CASE overlapped' = TRUE
  BY <1>3, <1>5 DEF ArticleInv, FormerInv
<1>6. CASE (p \in Updating => req[p].at # "redirect") /\ UNCHANGED overlapped
  <2>1. Updating \subseteq Procs /\ Updating' \subseteq Procs
    BY DEF Updating
  <2>2. Updating' = Updating \ {p} /\ \A q \in Updating' : req'[q] = req[q]
    BY <1>4, <2>1
  <2>3. ASSUME NEW q \in Updating'
        PROVE  /\ req'[q].at = "redirect" <=> req[q].at = "redirect"
               /\ req'[q].before = req[q].before /\ req'[q].slug = req[q].slug
    BY <2>2
  <2>4. \A q \in Updating : req[q].at = "redirect" => q \in Updating'
    BY <1>6, <2>2
  <2> QED
    BY <1>3, <1>6, <2>2, <2>3, <2>4, FormerKept DEF ArticleInv
<1> QED
  BY <1>3, <1>5, <1>6 DEF ArticleInv

LEMMA CheckVersionKeeps ==
  ASSUME ArticleInv, NEW p \in Procs, CheckVersion(p)
  PROVE  ArticleInv'
<1>1. /\ req[p] # None /\ req[p].op = "updateArticle" /\ req[p].at = "check" /\ p \in Updating
      /\ UNCHANGED <<article, revision, texts, redirect, former, overlapped>>
  BY DEF CheckVersion, Running, At, contentVars, Updating
<1>2. CASE Done(p)
  BY <1>1, <1>2, EndKeepsArticle DEF ArticleInv, ArticleRows
<1>3. CASE req' = [req EXCEPT ![p].at = "write", ![p].current = article]
  <2>1. req'[p] = [req[p] EXCEPT !.at = "write", !.current = article]
        /\ req' = [req EXCEPT ![p] = req'[p]] /\ \A q \in Procs : q # p => req'[q] = req[q]
    BY <1>3 DEF ArticleInv, ArticleRows
  <2>2. req[p] \in UpdateRequest /\ article \in ArticleRow \cup {None} /\ article # None
    BY <1>1 DEF ArticleInv, ArticleRows, KnowsArticle, Running
  <2>3. req'[p] \in UpdateRequest /\ req'[p].at = "write" /\ req'[p].op = "updateArticle"
        /\ req'[p].before = req[p].before /\ req'[p].slug = req[p].slug
    BY <2>1, <2>2 DEF UpdateRequest
  <2>4. KnowsArticle(p)'
    BY <1>1, <2>2, <2>3 DEF KnowsArticle, Running
  <2>5. ArticleRows'
    BY <1>1, <2>1, <2>4, RequestKeepsRows DEF ArticleInv, ArticleRows
  <2>6. req'[p] # None
    BY <2>3, ContentAssumption
  <2>7. Updating' = Updating
    BY <1>1, <2>1, <2>3, <2>6 DEF Updating, Running
  <2>8. ASSUME NEW q \in Updating
        PROVE  /\ req'[q].at = "redirect" <=> req[q].at = "redirect"
               /\ req'[q].before = req[q].before /\ req'[q].slug = req[q].slug
    <3>1. q \in Procs
      BY DEF Updating
    <3> QED
      BY <1>1, <2>1, <2>3, <3>1
  <2>9. FormerInv'
    BY <1>1, <2>7, <2>8, FormerKept DEF ArticleInv
  <2> QED
    BY <2>5, <2>9 DEF ArticleInv
<1> QED
  BY <1>2, <1>3 DEF CheckVersion

LEMMA UpdateArticleKeeps ==
  ASSUME ArticleInv, NEW p \in Procs, UpdateArticle(p)
  PROVE  ArticleInv'
<1> DEFINE r == req[p]
<1>1. /\ r # None /\ r.op = "updateArticle" /\ r.at = "write" /\ p \in Updating
      /\ UNCHANGED <<redirect, overlapped>>
  BY DEF UpdateArticle, Running, At, Updating
<1>2. r \in UpdateRequest /\ article \in ArticleRow /\ article # None
  BY <1>1 DEF ArticleInv, ArticleRows, KnowsArticle, Running
<1>3. PICK row : row = [article EXCEPT
       !.slug = IF req[p].slug = None THEN @ ELSE req[p].slug,
       !.text = CASE req[p].text = None    -> @
                  [] req[p].text = NewText -> article.version + 1
                  [] OTHER -> req[p].text]
  OBVIOUS
<1>4. ArticleWritten(row) /\ revision' = [revision EXCEPT ![article'.version] = Body(article')]
  BY <1>3 DEF UpdateArticle, Snapshot
<1>5. row.version = article.version /\ row.slug = IF r.slug = None THEN article.slug ELSE r.slug
  BY <1>2, <1>3 DEF ArticleRow
<1>6. article.version + 1 \in ArticleVersions
  BY <1>2, <1>4, <1>5, ContentAssumption DEF ArticleWritten, ArticleRow, ArticleVersions
<1>7. row \in ArticleRow
  <2>1. PICK t : t = CASE r.text = None -> article.text [] r.text = NewText -> article.version + 1
                       [] OTHER -> r.text
    OBVIOUS
  <2>2. t \in ArticleVersions
    BY <1>2, <1>6, <2>1 DEF UpdateRequest, ArticleRow
  <2>3. PICK s \in Slugs : s = IF r.slug = None THEN article.slug ELSE r.slug
    BY <1>2 DEF UpdateRequest, ArticleRow
  <2>4. row = [article EXCEPT !.slug = s, !.text = t]
    BY <1>2, <1>3, <2>1, <2>3 DEF ArticleRow
  <2> QED
    BY <1>2, <2>2, <2>4 DEF ArticleRow
<1>8. article'.slug = row.slug
  BY <1>4, <1>5, <1>7, WrittenVersion DEF ArticleInv
<1>9. article'.slug \in Slugs
  BY <1>7, <1>8 DEF ArticleRow
<1>10. CASE r.before # None /\ article'.slug # r.before
  <2>1. former' = former \cup {r.before} /\ req' = [req EXCEPT ![p].at = "redirect"]
    BY <1>10 DEF UpdateArticle, Goto
  <2>2. req'[p] = [r EXCEPT !.at = "redirect"] /\ req' = [q \in Procs |-> req'[q]]
        /\ \A q \in Procs : q # p => req'[q] = req[q]
    BY <2>1 DEF ArticleInv, ArticleRows
  <2>3. former' \subseteq Slugs
    BY <1>2, <1>10, <2>1 DEF ArticleInv, ArticleRows, UpdateRequest
  <2>4. ArticleRows'
    BY <1>1, <1>2, <1>4, <1>5, <1>7, <2>2, <2>3, WriteKeepsRows DEF ArticleInv, Running
  <2>5. req'[p] \in UpdateRequest /\ req'[p].at = "redirect" /\ req'[p].before = r.before
        /\ req'[p].slug = r.slug /\ req'[p].op = "updateArticle"
    BY <1>2, <2>2 DEF UpdateRequest
  <2>6. req'[p] # None
    BY <2>5, ContentAssumption
  <2>7. Updating' = Updating
    BY <1>1, <2>2, <2>5, <2>6 DEF Updating, Running
  <2>8. FormerInv'
    <3>1. SUFFICES ASSUME overlapped = FALSE
                   PROVE  FormerInv'
      BY <1>1 DEF FormerInv
    <3>2. /\ \A q \in Updating : q = p
          /\ r.before \in Slugs /\ r.before = article.slug
          /\ \A s \in former : redirect[s] \in Slugs \ {s}
      BY <1>1, <3>1 DEF ArticleInv, FormerInv
    <3>3. r.slug \in Slugs \ {r.before}
      BY <1>5, <1>8, <1>9, <1>10, <3>2
    <3>4. Updating' = {p}
      BY <1>1, <2>7, <3>2
    <3> QED
      BY <1>1, <2>1, <2>5, <3>2, <3>3, <3>4 DEF FormerInv
  <2> QED
    BY <2>4, <2>8 DEF ArticleInv
<1>11. CASE ~(r.before # None /\ article'.slug # r.before)
  <2>1. UNCHANGED former /\ req' = [req EXCEPT ![p] = None]
    BY <1>11 DEF UpdateArticle, Done
  <2>2. req'[p] = None /\ req' = [q \in Procs |-> req'[q]]
        /\ \A q \in Procs : q # p => req'[q] = req[q]
    BY <2>1 DEF ArticleInv, ArticleRows
  <2>3. ArticleRows'
    BY <1>1, <1>2, <1>4, <1>5, <1>7, <2>1, <2>2, WriteKeepsRows DEF ArticleInv, ArticleRows
  <2>4. FormerInv'
    <3>1. SUFFICES ASSUME overlapped = FALSE
                   PROVE  FormerInv'
      BY <1>1 DEF FormerInv
    <3>2. /\ \A q \in Updating : q = p
          /\ \A s \in former : redirect[s] \in Slugs \ {s}
      BY <1>1, <3>1 DEF ArticleInv, FormerInv
    <3>3. Updating' = {}
      BY <2>2, <3>2 DEF Updating, Running
    <3> QED
      BY <1>1, <2>1, <3>2, <3>3 DEF FormerInv
  <2> QED
    BY <2>3, <2>4 DEF ArticleInv
<1> QED
  BY <1>10, <1>11

LEMMA EnsureRedirectKeeps ==
  ASSUME ArticleInv, NEW p \in Procs, EnsureRedirect(p)
  PROVE  ArticleInv'
<1>1. /\ req[p] # None /\ req[p].op = "updateArticle" /\ req[p].at = "redirect" /\ p \in Updating
      /\ redirect' = [redirect EXCEPT ![req[p].before] = req[p].slug]
      /\ Done(p) /\ UNCHANGED <<article, revision, texts, former, overlapped>>
  BY DEF EnsureRedirect, Running, At, Updating, RedirectFromBefore
<1>2. req'[p] = None /\ req' = [req EXCEPT ![p] = req'[p]] /\ \A q \in Procs : q # p => req'[q] = req[q]
  BY <1>1 DEF Done, ArticleInv, ArticleRows
<1>3. KnowsArticle(p)'
  BY <1>2 DEF KnowsArticle, Running
<1>4. req[p].slug \in Slugs \cup {None}
  BY <1>1 DEF ArticleInv, ArticleRows, KnowsArticle, Running, UpdateRequest
<1>5. redirect' \in [Slugs -> Slugs \cup {None}]
  BY <1>1, <1>4 DEF ArticleInv, ArticleRows
<1>6. ArticleRows'
  BY <1>1, <1>2, <1>3, <1>5, RequestKeepsRows DEF ArticleInv, ArticleRows
<1>7. FormerInv'
  <2>1. SUFFICES ASSUME overlapped = FALSE
                 PROVE  FormerInv'
    BY <1>1 DEF FormerInv
  <2>2. /\ \A q \in Updating : q = p
        /\ req[p].before \in Slugs /\ req[p].slug \in Slugs \ {req[p].before}
        /\ \A s \in former : redirect[s] \in Slugs \ {s} \/ s = req[p].before
    BY <1>1, <2>1 DEF ArticleInv, FormerInv
  <2>3. Updating' = {}
    BY <1>2, <2>2 DEF Updating, Running
  <2>4. \A s \in former : redirect'[s] \in Slugs \ {s}
    BY <1>1, <2>2 DEF ArticleInv, ArticleRows
  <2> QED
    BY <1>1, <2>3, <2>4 DEF FormerInv
<1> QED
  BY <1>6, <1>7 DEF ArticleInv

LEMMA TransitionReadKeeps ==
  ASSUME ArticleInv, NEW p \in Procs, NEW a \in {"publish", "unpublish", "archive"},
         TransitionArticleRead(p, a)
  PROVE  ArticleInv'
<1>1. PICK r : r = [op |-> "transitionArticle", at |-> "write", status |-> StatusAfter(a)]
  OBVIOUS
<1>2. r.op = "transitionArticle" /\ r.status \in {"PUBLISHED", "DRAFT", "ARCHIVED"}
  BY <1>1 DEF StatusAfter
<1>3. /\ article # None /\ req[p] = None /\ req' = [req EXCEPT ![p] = r]
      /\ UNCHANGED <<article, revision, texts, redirect, former, overlapped>>
  BY <1>1 DEF TransitionArticleRead, Readable, Start, contentVars
<1>4. req'[p] = r /\ req' = [req EXCEPT ![p] = req'[p]] /\ \A q \in Procs : q # p => req'[q] = req[q]
  BY <1>3 DEF ArticleInv, ArticleRows
<1>5. KnowsArticle(p)'
  BY <1>2, <1>3, <1>4 DEF KnowsArticle, Running
<1>6. ArticleRows'
  BY <1>3, <1>4, <1>5, RequestKeepsRows DEF ArticleInv, ArticleRows
<1>7. Updating' = Updating /\ \A q \in Updating : req'[q] = req[q]
  BY <1>2, <1>3, <1>4 DEF Updating, Running
<1> QED
  BY <1>3, <1>6, <1>7, FormerKept DEF ArticleInv

LEMMA ReviseReadKeeps ==
  ASSUME ArticleInv, NEW p \in Procs, ReviseRead(p)
  PROVE  ArticleInv'
<1>1. PICK r : r = [op |-> "revise", at |-> "write", version |-> article.version, body |-> Body(article)]
  OBVIOUS
<1>2. r.op = "revise" /\ r.version = article.version /\ r.body = Body(article)
  BY <1>1
<1>3. /\ article # None /\ req[p] = None /\ req' = [req EXCEPT ![p] = r]
      /\ UNCHANGED <<article, revision, texts, redirect, former, overlapped>>
  BY <1>1 DEF ReviseRead, Readable, Start, contentVars
<1>4. req'[p] = r /\ req' = [req EXCEPT ![p] = req'[p]] /\ \A q \in Procs : q # p => req'[q] = req[q]
  BY <1>3 DEF ArticleInv, ArticleRows
<1>5. article \in ArticleRow /\ texts[article.version] = Body(article)
  BY <1>3 DEF ArticleInv, ArticleRows
<1>6. article.version \in ArticleVersions /\ article.version <= article.version
      /\ Body(article) \in RevisionRow
  BY <1>5 DEF ArticleRow, RevisionRow, Body, ArticleVersions
<1>7. KnowsArticle(p)'
  BY <1>2, <1>3, <1>4, <1>5, <1>6 DEF KnowsArticle, Running
<1>8. ArticleRows'
  BY <1>3, <1>4, <1>7, RequestKeepsRows DEF ArticleInv, ArticleRows
<1>9. Updating' = Updating /\ \A q \in Updating : req'[q] = req[q]
  BY <1>2, <1>3, <1>4 DEF Updating, Running
<1> QED
  BY <1>3, <1>8, <1>9, FormerKept DEF ArticleInv

LEMMA CreateRevisionKeeps ==
  ASSUME ArticleInv, NEW p \in Procs, CreateRevision(p)
  PROVE  ArticleInv'
<1> DEFINE v == req[p].version
<1>1. /\ Running(p, "revise") /\ req[p] # None /\ req[p].op = "revise" /\ req' = [req EXCEPT ![p] = None]
      /\ revision' = IF revision[v] = None THEN [revision EXCEPT ![v] = req[p].body] ELSE revision
      /\ UNCHANGED <<article, texts, redirect, former, overlapped>>
  BY DEF CreateRevision, Running, Done, RevisionFree
<1>2. /\ v \in ArticleVersions /\ v <= article.version /\ article # None
      /\ req[p].body = texts[v] /\ req[p].body \in RevisionRow
  BY <1>1 DEF ArticleInv, ArticleRows, KnowsArticle
<1>3. /\ revision' \in [ArticleVersions -> RevisionRow \cup {None}]
      /\ \A w \in ArticleVersions : revision'[w] = revision[w] \/ (w = v /\ revision'[w] = texts[w])
  BY <1>1, <1>2 DEF ArticleInv, ArticleRows
<1>4. \A w \in ArticleVersions : revision'[w] # None => w <= article.version /\ revision'[w] = texts[w]
  BY <1>2, <1>3 DEF ArticleInv, ArticleRows, RevisionOfItsVersion
<1>5. req'[p] = None /\ req' = [q \in Procs |-> req'[q]] /\ \A q \in Procs : q # p => req'[q] = req[q]
  BY <1>1 DEF ArticleInv, ArticleRows
<1>6. ASSUME NEW q \in Procs
      PROVE  KnowsArticle(q)'
  <2>1. KnowsArticle(q)
    BY DEF ArticleInv, ArticleRows
  <2> QED
    BY <1>1, <1>5, <2>1 DEF KnowsArticle, Running
<1>7. ArticleRows'
  BY <1>1, <1>2, <1>3, <1>4, <1>5, <1>6 DEF ArticleInv, ArticleRows, RevisionOfItsVersion, Body
<1>8. Updating' = Updating /\ \A q \in Updating : req'[q] = req[q]
  BY <1>1, <1>5 DEF Updating, Running
<1> QED
  BY <1>1, <1>7, <1>8, FormerKept DEF ArticleInv

LEMMA ArticleKeeps ==
  ASSUME ArticleInv, ArticleNext
  PROVE  ArticleInv'
<1>1. CASE SoftDeleteArticle
  BY <1>1, DeleteAndRestoreKeep DEF SoftDeleteArticle, Readable
<1>2. CASE RestoreArticle
  BY <1>2, DeleteAndRestoreKeep DEF RestoreArticle
<1>3. ASSUME NEW p \in Procs, ContentAbandon(p)
      PROVE  ArticleInv'
  <2>1. Done(p) /\ UNCHANGED <<article, revision, texts, redirect, former>>
        /\ overlapped' = (overlapped \/ p \in Updating)
    BY <1>3 DEF ContentAbandon
  <2>2. CASE p \in Updating
    BY <2>1, <2>2, EndKeepsArticle
  <2>3. CASE p \notin Updating
    <3>1. overlapped \in BOOLEAN /\ UNCHANGED overlapped
      BY <2>1, <2>3 DEF ArticleInv, ArticleRows
    <3> QED
      BY <2>1, <2>3, <3>1, EndKeepsArticle
  <2> QED
    BY <2>2, <2>3
<1> QED
  BY <1>1, <1>2, <1>3, CreateArticleKeeps, UpdateReadKeeps, RestoreRevisionKeeps, CheckVersionKeeps,
     UpdateArticleKeeps, EnsureRedirectKeeps, TransitionReadKeeps, TransitionArticleKeeps,
     ReviseReadKeeps, CreateRevisionKeeps
  DEF ArticleNext

-----------------------------------------------------------------------------
(***************************************************************************)
(* Content: the views of an article.                                       *)
(***************************************************************************)

CountingViews == {p \in Procs : Running(p, "view")}

ViewsInv ==
  /\ req = [p \in Procs |-> req[p]]
  /\ IsFiniteSet(viewed) /\ views \in [counted : Nat, lost : Nat]
  /\ ViewsCounted

LEMMA ViewsInitial ==
  ASSUME RequestsInit, ContentInit
  PROVE  ViewsInv
<1>1. req = [p \in Procs |-> None] /\ viewed = {} /\ views = [counted |-> 0, lost |-> 0]
  BY DEF RequestsInit, ContentInit
<1>2. {p \in Procs : Running(p, "view")} = {}
  BY <1>1 DEF Running
<1> QED
  BY <1>1, <1>2, FS_EmptySet DEF ViewsInv, ViewsCounted

LEMMA CountingFinite ==
  IsFiniteSet(CountingViews) /\ Cardinality(CountingViews) \in Nat
<1>1. CountingViews \subseteq Procs
  BY DEF CountingViews
<1> QED
  BY <1>1, ProcsAssumption, FS_Subset, FS_CardinalityType

LEMMA ViewsKeep ==
  ASSUME ViewsInv, ViewsNext
  PROVE  ViewsInv'
<1>1. /\ IsFiniteSet(viewed) /\ Cardinality(viewed) \in Nat
      /\ views.counted \in Nat /\ views.lost \in Nat
      /\ views.counted + views.lost + Cardinality(CountingViews) = Cardinality(viewed)
  BY FS_CardinalityType DEF ViewsInv, ViewsCounted, CountingViews
<1>2. CASE Tick /\ UNCHANGED contentVars
  BY <1>2 DEF Tick, contentVars, ViewsInv, ViewsCounted, Running
<1>3. ASSUME NEW p \in Procs, NEW v \in Visitors, ViewArticle(p, v)
      PROVE  ViewsInv'
  <2>1. PICK r : r = [op |-> "view", at |-> "count"]
    OBVIOUS
  <2>2. r # None /\ r.op = "view"
    BY <2>1, ContentAssumption
  <2>3. /\ req[p] = None /\ req' = [req EXCEPT ![p] = r] /\ UNCHANGED views
        /\ viewed' = viewed \cup {<<v, clock>>} /\ <<v, clock>> \notin viewed
    BY <1>3, <2>1 DEF ViewArticle, Start, ViewRowFree
  <2>4. req' = [q \in Procs |-> req'[q]] /\ req'[p] = r /\ \A q \in Procs : q # p => req'[q] = req[q]
    BY <2>3 DEF ViewsInv
  <2>5. p \notin CountingViews /\ CountingViews' = CountingViews \cup {p}
    BY <2>2, <2>3, <2>4 DEF CountingViews, Running
  <2>6. Cardinality(CountingViews') = Cardinality(CountingViews) + 1
    BY <2>5, CountingFinite, FS_AddElement
  <2>7. IsFiniteSet(viewed') /\ Cardinality(viewed') = Cardinality(viewed) + 1
    BY <1>1, <2>3, FS_AddElement
  <2>8. views.counted + views.lost + Cardinality(CountingViews') = Cardinality(viewed')
    BY <1>1, <2>6, <2>7, CountingFinite
  <2> QED
    BY <2>3, <2>4, <2>7, <2>8 DEF ViewsInv, ViewsCounted, CountingViews
<1>4. ASSUME NEW p \in Procs, Done(p), UNCHANGED viewed, views' \in [counted : Nat, lost : Nat],
             IF Running(p, "view") THEN views'.counted + views'.lost = views.counted + views.lost + 1
                                   ELSE views' = views
      PROVE  ViewsInv'
  <2>1. req' = [q \in Procs |-> req'[q]] /\ req'[p] = None /\ \A q \in Procs : q # p => req'[q] = req[q]
    BY <1>4 DEF Done, ViewsInv
  <2>2. CountingViews' = CountingViews \ {p}
    BY <2>1 DEF CountingViews, Running
  <2>3. views'.counted + views'.lost + Cardinality(CountingViews') = Cardinality(viewed)
    <3>1. CASE Running(p, "view")
      <4>1. p \in CountingViews
        BY <3>1 DEF CountingViews
      <4>2. Cardinality(CountingViews') = Cardinality(CountingViews) - 1
        BY <2>2, <4>1, CountingFinite, FS_RemoveElement
      <4> QED
        BY <1>1, <1>4, <3>1, <4>2, CountingFinite
    <3>2. CASE ~Running(p, "view")
      <4>1. CountingViews' = CountingViews
        BY <2>2, <3>2 DEF CountingViews
      <4> QED
        BY <1>1, <1>4, <3>2, <4>1
    <3> QED
      BY <3>1, <3>2
  <2> QED
    BY <1>4, <2>1, <2>3 DEF ViewsInv, ViewsCounted, CountingViews
<1>5. ASSUME NEW p \in Procs, CountView(p)
      PROVE  ViewsInv'
  <2>1. Running(p, "view") /\ Done(p) /\ UNCHANGED viewed
        /\ views' = [views EXCEPT !.counted = views.counted + 1]
    BY <1>5 DEF CountView
  <2>2. views' \in [counted : Nat, lost : Nat] /\ views'.counted = views.counted + 1
        /\ views'.lost = views.lost
    BY <2>1 DEF ViewsInv
  <2>3. views'.counted + views'.lost = views.counted + views.lost + 1
    BY <1>1, <2>2
  <2> QED
    BY <1>4, <2>1, <2>2, <2>3
<1>6. ASSUME NEW p \in Procs, ContentAbandon(p)
      PROVE  ViewsInv'
  <2>1. Done(p) /\ UNCHANGED viewed
        /\ views' = IF Running(p, "view") THEN [views EXCEPT !.lost = views.lost + 1] ELSE views
    BY <1>6 DEF ContentAbandon
  <2>2. CASE Running(p, "view")
    <3>1. views' \in [counted : Nat, lost : Nat] /\ views'.lost = views.lost + 1
          /\ views'.counted = views.counted
      BY <2>1, <2>2 DEF ViewsInv
    <3>2. views'.counted + views'.lost = views.counted + views.lost + 1
      BY <1>1, <3>1
    <3> QED
      BY <1>4, <2>1, <2>2, <3>1, <3>2
  <2>3. CASE ~Running(p, "view")
    BY <1>4, <2>1, <2>3 DEF ViewsInv
  <2> QED
    BY <2>2, <2>3
<1> QED
  BY <1>2, <1>3, <1>5, <1>6 DEF ViewsNext

-----------------------------------------------------------------------------
(***************************************************************************)
(* Content: a menu and its items.                                          *)
(***************************************************************************)

ItemRow == [save : 1 .. MaxSaves, order : Nat]

\* While saves have not overlapped, the one that is under way is the last of the menu.
MenuInv ==
  /\ req = [p \in Procs |-> req[p]]
  /\ menu \in MenuRow \cup {None} /\ mixed \in BOOLEAN /\ loose \in BOOLEAN
  /\ menuItems \in Seq(ItemRow)
  /\ menu = None => Saving = {} /\ menuItems = <<>>
  /\ \A p \in Saving : req[p] \in SaveItems
  /\ mixed = FALSE =>
       /\ \A p, q \in Saving : p = q
       /\ \A p \in Saving : req[p].save = menu.save
       /\ Saving = {} => \A i \in DOMAIN menuItems : menuItems[i].save = menu.save
  /\ ItemsInPlaces

LEMMA MenuInitial ==
  ASSUME RequestsInit, ContentResourcesInit
  PROVE  MenuInv
<1>1. req = [p \in Procs |-> None] /\ menu = None /\ menuItems = <<>> /\ mixed = FALSE /\ loose = FALSE
  BY DEF RequestsInit, ContentResourcesInit
<1>2. Saving = {} /\ DOMAIN menuItems = {} /\ menuItems \in Seq(ItemRow)
  BY <1>1 DEF Saving, Running
<1>3. ItemsInPlaces
  BY <1>2 DEF ItemsInPlaces
<1> QED
  BY <1>1, <1>2, <1>3 DEF MenuInv

LEMMA MenuImplies ==
  ASSUME MenuInv
  PROVE  ItemsOfLastSave /\ ItemsInPlaces
BY DEF MenuInv, ItemsOfLastSave

\* A write of the menu that begins a save.
LEMMA SaveStarts ==
  ASSUME MenuInv, NEW p \in Procs, NEW s \in 1 .. MaxSaves, Start(p, [op |-> "items", save |-> s]),
         menu' \in MenuRow, menu'.save = s, UNCHANGED <<menuItems, loose>>,
         mixed' = (mixed \/ Saving # {})
  PROVE  MenuInv'
<1>1. PICK r : r = [op |-> "items", save |-> s]
  OBVIOUS
<1>2. r \in SaveItems /\ r.op = "items" /\ r.save = s
  BY <1>1 DEF SaveItems
<1>3. r # None /\ menu' # None
  BY <1>2, ContentResourcesAssumption
<1>4. req[p] = None /\ req' = [req EXCEPT ![p] = r]
  BY <1>1 DEF Start
<1>5. req' = [q \in Procs |-> req'[q]] /\ req'[p] = r /\ \A q \in Procs : q # p => req'[q] = req[q]
  BY <1>4 DEF MenuInv
<1>6. Saving' = Saving \cup {p} /\ p \notin Saving
  BY <1>2, <1>3, <1>4, <1>5 DEF Saving, Running
<1>7. \A q \in Saving' : req'[q] \in SaveItems
  BY <1>2, <1>5, <1>6 DEF MenuInv, Saving
<1>8. ASSUME mixed' = FALSE
      PROVE  /\ \A q, t \in Saving' : q = t
             /\ \A q \in Saving' : req'[q].save = menu'.save
             /\ Saving' # {}
  <2>1. Saving = {}
    BY <1>8
  <2> QED
    BY <1>2, <1>5, <1>6, <2>1
<1>9. mixed' \in BOOLEAN /\ ItemsInPlaces'
  BY DEF MenuInv, ItemsInPlaces
<1> QED
  BY <1>3, <1>5, <1>7, <1>8, <1>9 DEF MenuInv

LEMMA CreateMenuKeeps ==
  ASSUME MenuInv, NEW p \in Procs, CreateMenu(p)
  PROVE  MenuInv'
<1>1. menu = None /\ menu' = [version |-> 1, deleted |-> FALSE, save |-> 1]
      /\ Start(p, [op |-> "items", save |-> 1]) /\ UNCHANGED <<menuItems, loose, mixed>>
  BY DEF CreateMenu, NewMenu
<1>2. 1 \in 1 .. MaxSaves
  BY ContentResourcesAssumption
<1>3. menu' \in MenuRow /\ menu'.save = 1
  BY <1>1, <1>2 DEF MenuRow
<1>4. mixed' = (mixed \/ Saving # {})
  BY <1>1 DEF MenuInv
<1> QED
  BY <1>1, <1>2, <1>3, <1>4, SaveStarts

LEMMA UpdateMenuKeeps ==
  ASSUME MenuInv, NEW p \in Procs, UpdateMenu(p)
  PROVE  MenuInv'
<1>1. /\ menu # None /\ menu.version < MaxSaves
      /\ menu' = [menu EXCEPT !.version = menu.version + 1, !.save = menu.version + 1]
      /\ Start(p, [op |-> "items", save |-> menu.version + 1])
      /\ mixed' = (mixed \/ Saving # {}) /\ UNCHANGED <<menuItems, loose>>
  BY DEF UpdateMenu
<1>2. menu \in MenuRow /\ menu.version \in 1 .. MaxSaves
  BY <1>1 DEF MenuInv, MenuRow
<1>3. menu.version + 1 \in 1 .. MaxSaves
  BY <1>1, <1>2, ContentResourcesAssumption
<1>4. menu' \in MenuRow /\ menu'.save = menu.version + 1
  BY <1>1, <1>2, <1>3 DEF MenuRow
<1> QED
  BY <1>1, <1>3, <1>4, SaveStarts

\* Renaming, deletion and restoring.
LEMMA MenuRowKeeps ==
  ASSUME MenuInv, menu # None, menu.version < MaxSaves, NEW d \in BOOLEAN,
         menu' = [menu EXCEPT !.version = menu.version + 1, !.deleted = d],
         UNCHANGED <<req, menuItems, loose, mixed>>
  PROVE  MenuInv'
<1>1. menu \in MenuRow /\ menu.version \in 1 .. MaxSaves
  BY DEF MenuInv, MenuRow
<1>2. menu.version + 1 \in 1 .. MaxSaves
  BY <1>1, ContentResourcesAssumption
<1>3. menu' \in MenuRow /\ menu'.save = menu.save
  BY <1>1, <1>2 DEF MenuRow
<1>4. menu' # None
  BY <1>3, ContentResourcesAssumption
<1>5. Saving' = Saving
  BY DEF Saving, Running
<1>6. ItemsInPlaces'
  BY DEF MenuInv, ItemsInPlaces
<1> QED
  BY <1>3, <1>4, <1>5, <1>6 DEF MenuInv

LEMMA ReplaceKeeps ==
  ASSUME MenuInv, NEW p \in Procs, ReplaceMenuItems(p)
  PROVE  MenuInv'
<1>1. Running(p, "items") /\ req' = [req EXCEPT ![p] = None] /\ UNCHANGED menu
  BY DEF ReplaceMenuItems, Done
<1>2. p \in Saving /\ menu # None /\ req[p] \in SaveItems
  BY <1>1 DEF MenuInv, Saving
<1>3. req' = [q \in Procs |-> req'[q]] /\ req'[p] = None /\ \A q \in Procs : q # p => req'[q] = req[q]
  BY <1>1 DEF MenuInv
<1>4. Saving' = Saving \ {p} /\ \A q \in Saving' : req'[q] = req[q]
  BY <1>3 DEF Saving, Running
<1>5. req[p].save \in 1 .. MaxSaves
  BY <1>2 DEF SaveItems
<1>6. ASSUME NEW n \in 0 .. 2, NEW f, f = [i \in 1 .. n |-> f[i]], \A i \in 1 .. n : f[i] \in Nat,
             menuItems' = ItemsOf(req[p].save, f), UNCHANGED mixed, loose' \in BOOLEAN,
             loose' = FALSE => \A i \in 1 .. n : f[i] = i - 1
      PROVE  MenuInv'
  <2>1. DOMAIN f = 1 .. n /\ n \in Nat
    BY <1>6
  <2>2. menuItems' = [i \in 1 .. n |-> [save |-> req[p].save, order |-> f[i]]]
    BY <1>6, <2>1 DEF ItemsOf
  <2>3. DOMAIN menuItems' = 1 .. n
        /\ \A i \in 1 .. n : menuItems'[i].save = req[p].save /\ menuItems'[i].order = f[i]
    BY <2>2
  <2>4. \A i \in 1 .. n : [save |-> req[p].save, order |-> f[i]] \in ItemRow
    BY <1>5, <1>6 DEF ItemRow
  <2>5. menuItems' \in Seq(ItemRow)
    BY <2>1, <2>2, <2>4, SeqDef
  <2>6. ItemsInPlaces'
    <3>1. SUFFICES ASSUME loose' = FALSE
                   PROVE  {menuItems'[i].order : i \in 1 .. n} = {i - 1 : i \in 1 .. n}
      BY <1>6, <2>3 DEF ItemsInPlaces
    <3>2. \A i \in 1 .. n : menuItems'[i].order = i - 1
      BY <1>6, <2>3, <3>1
    <3> QED
      BY <3>2
  <2>7. mixed = FALSE => Saving' = {} /\ \A i \in DOMAIN menuItems' : menuItems'[i].save = menu.save
    BY <1>2, <1>4, <2>3 DEF MenuInv
  <2> QED
    BY <1>1, <1>2, <1>3, <1>4, <1>6, <2>3, <2>5, <2>6, <2>7 DEF MenuInv
<1>7. ASSUME NEW n \in 0 .. 2, menuItems' = ItemsOf(req[p].save, [i \in 1 .. n |-> i - 1]),
             loose' = FALSE, UNCHANGED mixed
      PROVE  MenuInv'
  <2>1. PICK f : f = [i \in 1 .. n |-> i - 1]
    OBVIOUS
  <2>2. f = [i \in 1 .. n |-> f[i]] /\ \A i \in 1 .. n : f[i] = i - 1 /\ f[i] \in Nat
    BY <2>1
  <2> QED
    BY <1>6, <1>7, <2>1, <2>2
<1>8. ASSUME NEW n \in 0 .. 2, menuItems' = ItemsOf(req[p].save, [i \in 1 .. n |-> 1]),
             loose' = TRUE, UNCHANGED mixed
      PROVE  MenuInv'
  <2>1. PICK f : f = [i \in 1 .. n |-> 1]
    OBVIOUS
  <2>2. f = [i \in 1 .. n |-> f[i]] /\ \A i \in 1 .. n : f[i] \in Nat
    BY <2>1
  <2> QED
    BY <1>6, <1>8, <2>1, <2>2
<1>9. ASSUME mixed' = TRUE, UNCHANGED <<menuItems, loose>>
      PROVE  MenuInv'
  <2>1. ItemsInPlaces'
    BY <1>9 DEF MenuInv, ItemsInPlaces
  <2> QED
    BY <1>1, <1>2, <1>3, <1>4, <1>9, <2>1 DEF MenuInv
<1> QED
  BY <1>7, <1>8, <1>9 DEF ReplaceMenuItems

\* A list that names every item once gives the items their places.
LEMMA ReorderKeeps ==
  ASSUME MenuInv, ReorderMenu
  PROVE  MenuInv'
<1>1. PICK n \in 0 .. 2 : \E list \in [1 .. n -> DOMAIN menuItems] :
        LET lastOf(i) == {k \in DOMAIN list : list[k] = i /\ \A l \in DOMAIN list : list[l] = i => l <= k}
        IN  /\ ReorderAccepted(list)
            /\ menuItems' = [i \in DOMAIN menuItems |->
                 IF lastOf(i) = {} THEN menuItems[i]
                 ELSE [menuItems[i] EXCEPT !.order = (CHOOSE k \in lastOf(i) : TRUE) - 1]]
            /\ loose' = \E k, l \in DOMAIN list : k # l /\ list[k] = list[l]
  BY DEF ReorderMenu
<1> DEFINE lastOf(list, i) ==
             {k \in DOMAIN list : list[k] = i /\ \A l \in DOMAIN list : list[l] = i => l <= k}
           placed(list, i) == IF lastOf(list, i) = {} THEN menuItems[i]
                              ELSE [menuItems[i] EXCEPT !.order = (CHOOSE k \in lastOf(list, i) : TRUE) - 1]
<1>2. PICK list \in [1 .. n -> DOMAIN menuItems] :
        /\ ReorderAccepted(list)
        /\ menuItems' = [i \in DOMAIN menuItems |-> placed(list, i)]
        /\ loose' = \E k, l \in DOMAIN list : k # l /\ list[k] = list[l]
  BY <1>1
<1>3. menu # None /\ UNCHANGED <<req, menu, mixed>>
  BY DEF ReorderMenu
<1>4. n \in Nat /\ DOMAIN list = 1 .. n /\ list \in Seq(DOMAIN menuItems) /\ Len(list) = n
  <2>1. n \in Nat /\ DOMAIN list = 1 .. n
    BY <1>2
  <2>2. list \in Seq(DOMAIN menuItems)
    BY <2>1, SeqDef
  <2> QED
    BY <2>1, <2>2, LenProperties
<1>5. Len(menuItems) = n /\ DOMAIN menuItems = 1 .. n /\ \A i \in 1 .. n : menuItems[i] \in ItemRow
  BY <1>2, <1>4, LenProperties, ElementOfSeq DEF ReorderAccepted, MenuInv
<1>6. ASSUME NEW i \in 1 .. n
      PROVE  placed(list, i) \in ItemRow /\ placed(list, i).save = menuItems[i].save
  <2>1. CASE lastOf(list, i) = {}
    BY <1>5, <2>1
  <2>2. CASE lastOf(list, i) # {}
    <3>1. PICK k : k = CHOOSE j \in lastOf(list, i) : TRUE
      OBVIOUS
    <3>2. k \in 1 .. n
      BY <1>4, <2>2, <3>1
    <3>3. k - 1 \in Nat /\ placed(list, i) = [menuItems[i] EXCEPT !.order = k - 1]
      BY <2>2, <3>1, <3>2
    <3> QED
      BY <1>5, <3>3 DEF ItemRow
  <2> QED
    BY <2>1, <2>2
<1> HIDE DEF placed, lastOf
<1>7. DOMAIN menuItems' = 1 .. n /\ \A i \in 1 .. n : menuItems'[i] = placed(list, i)
  BY <1>2, <1>5
<1>8. menuItems' \in Seq(ItemRow)
  <2>1. menuItems' = [i \in 1 .. n |-> placed(list, i)]
    BY <1>2, <1>5
  <2>2. menuItems' \in [1 .. n -> ItemRow]
    BY <1>6, <2>1
  <2> QED
    BY <1>4, <2>2, SeqDef
<1>9. \A i \in 1 .. n : menuItems'[i].save = menuItems[i].save
  BY <1>6, <1>7
<1>10. ASSUME loose' = FALSE
       PROVE  {menuItems'[i].order : i \in 1 .. n} = {i - 1 : i \in 1 .. n}
  <2> USE DEF placed, lastOf
  <2>1. \A k, l \in 1 .. n : list[k] = list[l] => k = l
    BY <1>2, <1>4, <1>10
  <2>2. list \in Injection(1 .. n, 1 .. n)
    BY <1>4, <1>5, <2>1 DEF Injection, IsInjective
  <2>3. list \in Surjection(1 .. n, 1 .. n)
    BY <1>4, <2>2, FS_Injection, FS_Interval
  <2>4. ASSUME NEW k \in 1 .. n
        PROVE  list[k] \in 1 .. n /\ menuItems'[list[k]].order = k - 1
    <3>1. list[k] \in 1 .. n
      BY <1>5
    <3>2. k <= k
      OBVIOUS
    <3>3. lastOf(list, list[k]) = {k}
      BY <1>4, <2>1, <3>2
    <3>4. (CHOOSE j \in lastOf(list, list[k]) : TRUE) = k
      BY <3>3
    <3>5. placed(list, list[k]) = [menuItems[list[k]] EXCEPT !.order = k - 1]
      BY <3>3, <3>4
    <3>6. menuItems[list[k]] \in ItemRow
      BY <1>5, <3>1
    <3>7. placed(list, list[k]).order = k - 1
      BY <3>5, <3>6 DEF ItemRow
    <3>8. menuItems'[list[k]] = placed(list, list[k])
      BY <1>7, <3>1
    <3> QED
      BY <3>1, <3>7, <3>8
  <2>5. \A i \in 1 .. n : \E k \in 1 .. n : list[k] = i
    BY <2>3 DEF Surjection
  <2> HIDE DEF placed, lastOf
  <2>6. \A i \in 1 .. n : \E k \in 1 .. n : menuItems'[i].order = k - 1
    BY <2>4, <2>5
  <2>7. \A k \in 1 .. n : \E i \in 1 .. n : menuItems'[i].order = k - 1
    BY <2>4
  <2> QED
    BY <2>6, <2>7
<1>11. loose' \in BOOLEAN
  BY <1>2
<1>12. Saving' = Saving
  BY <1>3 DEF Saving, Running
<1>13. ItemsInPlaces'
  BY <1>7, <1>10, <1>11 DEF ItemsInPlaces
<1> QED
  BY <1>3, <1>5, <1>7, <1>8, <1>9, <1>11, <1>12, <1>13 DEF MenuInv

MenuNext ==
  \/ RenameMenu \/ DeleteMenu \/ RestoreMenu \/ ReorderMenu
  \/ \E p \in Procs : CreateMenu(p) \/ UpdateMenu(p) \/ ReplaceMenuItems(p) \/ RequestStops(p)

LEMMA MenuKeeps ==
  ASSUME MenuInv, MenuNext
  PROVE  MenuInv'
<1> USE DEF MenuNext
<1>1. CASE RenameMenu
  <2>1. menu # None /\ menu.version < MaxSaves /\ UNCHANGED <<req, menuItems, loose, mixed>>
        /\ menu' = [menu EXCEPT !.version = menu.version + 1]
    BY <1>1 DEF RenameMenu
  <2>2. menu.deleted \in BOOLEAN
        /\ menu' = [menu EXCEPT !.version = menu.version + 1, !.deleted = menu.deleted]
    BY <2>1 DEF MenuInv, MenuRow
  <2> QED
    BY <2>1, <2>2, MenuRowKeeps
<1>2. CASE DeleteMenu
  <2>1. menu # None /\ menu.version < MaxSaves /\ UNCHANGED <<req, menuItems, loose, mixed>>
        /\ menu' = [menu EXCEPT !.deleted = TRUE, !.version = menu.version + 1]
    BY <1>2 DEF DeleteMenu
  <2>2. menu' = [menu EXCEPT !.version = menu.version + 1, !.deleted = TRUE]
    BY <2>1 DEF MenuInv, MenuRow
  <2> QED
    BY <2>1, <2>2, MenuRowKeeps
<1>3. CASE RestoreMenu
  <2>1. menu # None /\ menu.version < MaxSaves /\ UNCHANGED <<req, menuItems, loose, mixed>>
        /\ menu' = [menu EXCEPT !.deleted = FALSE, !.version = menu.version + 1]
    BY <1>3 DEF RestoreMenu
  <2>2. menu' = [menu EXCEPT !.version = menu.version + 1, !.deleted = FALSE]
    BY <2>1 DEF MenuInv, MenuRow
  <2> QED
    BY <2>1, <2>2, MenuRowKeeps
<1>4. ASSUME NEW p \in Procs, RequestStops(p)
      PROVE  MenuInv'
  <2>1. req' = [req EXCEPT ![p] = None] /\ UNCHANGED <<menu, menuItems, loose>>
        /\ mixed' = (mixed \/ p \in Saving)
    BY <1>4 DEF RequestStops, Done
  <2>2. req' = [q \in Procs |-> req'[q]] /\ req'[p] = None /\ \A q \in Procs : q # p => req'[q] = req[q]
    BY <2>1 DEF MenuInv
  <2>3. Saving' = Saving \ {p} /\ \A q \in Saving' : req'[q] = req[q]
    BY <2>2 DEF Saving, Running
  <2>0. ItemsInPlaces'
    BY <2>1 DEF MenuInv, ItemsInPlaces
  <2>4. CASE p \in Saving
    <3>1. mixed' = TRUE
      BY <2>1, <2>4
    <3> QED
      BY <2>0, <2>1, <2>2, <2>3, <2>4, <3>1 DEF MenuInv
  <2>5. CASE p \notin Saving
    <3>1. Saving' = Saving /\ mixed' = mixed
      BY <2>1, <2>3, <2>5 DEF MenuInv
    <3> QED
      BY <2>0, <2>1, <2>2, <2>3, <2>5, <3>1 DEF MenuInv
  <2> QED
    BY <2>4, <2>5
<1> QED
  BY <1>1, <1>2, <1>3, <1>4, ReorderKeeps, CreateMenuKeeps, UpdateMenuKeeps, ReplaceKeeps

-----------------------------------------------------------------------------
(***************************************************************************)
(* Content: likes.                                                         *)
(***************************************************************************)

ToggleRequest ==
  [op : {"toggle"}, at : {"write", "count", "store"}, user : Readers, existing : BOOLEAN,
   count : Nat, alone : BOOLEAN]

\* A toggle that has been alone since it began stores the count of the likes there are.
KnowsLikes(p) ==
  Toggling(p) =>
    /\ req[p] \in ToggleRequest
    /\ req[p].alone =>
         /\ \A q \in Procs : Toggling(q) => q = p
         /\ req[p].at = "store" => req[p].count = Cardinality(likes)

LikesInv ==
  /\ req = [p \in Procs |-> req[p]]
  /\ IsFiniteSet(likes) /\ likesSettled \in BOOLEAN
  /\ likesSettled = TRUE => likeCount = Cardinality(likes)
  /\ \A p \in Procs : KnowsLikes(p)

LEMMA LikesInitial ==
  ASSUME RequestsInit, ContentResourcesInit
  PROVE  LikesInv
<1>1. req = [p \in Procs |-> None] /\ likes = {} /\ likeCount = 0 /\ likesSettled = TRUE
  BY DEF RequestsInit, ContentResourcesInit
<1> QED
  BY <1>1, FS_EmptySet DEF LikesInv, KnowsLikes, Toggling, Running

LEMMA LikesImply ==
  ASSUME LikesInv
  PROVE  LikesCounted
BY DEF LikesInv, LikesCounted

\* A step of a toggle that goes on or ends.
LEMMA ToggleKeeps ==
  ASSUME LikesInv, NEW p \in Procs, req' = [req EXCEPT ![p] = req'[p]],
         IsFiniteSet(likes'), likesSettled' \in BOOLEAN,
         likesSettled' = TRUE => likeCount' = Cardinality(likes'),
         likes' = likes \/ Toggling(p),
         Toggling(p)' => Toggling(p) /\ req'[p].alone = req[p].alone,
         Toggling(p)' => req'[p] \in ToggleRequest
                         /\ (req'[p].at = "store" => req'[p].count = Cardinality(likes'))
  PROVE  LikesInv'
<1>1. req' = [q \in Procs |-> req'[q]] /\ \A q \in Procs : q # p => req'[q] = req[q]
  BY DEF LikesInv
<1>2. \A q \in Procs : Toggling(q)' => Toggling(q)
  BY <1>1 DEF Toggling, Running
<1>3. ASSUME NEW q \in Procs, q # p
      PROVE  KnowsLikes(q)'
  <2>1. SUFFICES ASSUME Toggling(q)'
                 PROVE  KnowsLikes(q)'
    BY DEF KnowsLikes
  <2>2. Toggling(q) /\ req'[q] = req[q] /\ req[q] \in ToggleRequest
    BY <1>1, <1>2, <1>3, <2>1 DEF LikesInv, KnowsLikes
  <2>3. ASSUME req[q].alone
        PROVE  /\ \A t \in Procs : Toggling(t)' => t = q
               /\ req[q].at = "store" => req[q].count = Cardinality(likes')
    <3>1. /\ \A t \in Procs : Toggling(t) => t = q
          /\ req[q].at = "store" => req[q].count = Cardinality(likes)
      BY <2>2, <2>3 DEF LikesInv, KnowsLikes
    <3>2. likes' = likes
      BY <1>3, <3>1
    <3> QED
      BY <1>2, <3>1, <3>2
  <2> QED
    BY <2>2, <2>3 DEF KnowsLikes
<1>4. KnowsLikes(p)'
  <2>1. SUFFICES ASSUME Toggling(p)'
                 PROVE  KnowsLikes(p)'
    BY DEF KnowsLikes
  <2>2. Toggling(p) /\ req'[p].alone = req[p].alone /\ KnowsLikes(p)
    BY <2>1 DEF LikesInv
  <2>3. req'[p].alone => \A q \in Procs : Toggling(q)' => q = p
    BY <1>2, <2>2 DEF KnowsLikes
  <2> QED
    BY <2>1, <2>3 DEF KnowsLikes
<1> QED
  BY <1>1, <1>3, <1>4 DEF LikesInv

LEMMA ToggleReadKeeps ==
  ASSUME LikesInv, NEW p \in Procs, ToggleRead(p)
  PROVE  LikesInv'
<1>1. PICK u \in Readers :
        req' = [q \in Procs |->
          IF q = p THEN [op |-> "toggle", at |-> "write", user |-> u, existing |-> u \in likes,
                         count |-> 0, alone |-> ~\E t \in Procs : Toggling(t)]
          ELSE IF Toggling(q) THEN [req[q] EXCEPT !.alone = FALSE] ELSE req[q]]
  BY DEF ToggleRead
<1>2. req[p] = None /\ UNCHANGED <<likes, likeCount, likesSettled>>
  BY DEF ToggleRead, likeVars
<1>3. PICK a \in BOOLEAN : a = ~(\E t \in Procs : Toggling(t))
  OBVIOUS
<1>0. PICK e \in BOOLEAN : e = (u \in likes)
  <2>1. (u \in likes) \in BOOLEAN
    OBVIOUS
  <2> QED
    BY <2>1, Zenon
<1>4. PICK run : run = [op |-> "toggle", at |-> "write", user |-> u, existing |-> e,
                        count |-> 0, alone |-> a]
  OBVIOUS
<1>5. run \in ToggleRequest /\ run.alone = a /\ run.at = "write"
  BY <1>4 DEF ToggleRequest
<1>6. /\ req' = [q \in Procs |-> req'[q]] /\ req'[p] = run
      /\ \A q \in Procs : q # p =>
           req'[q] = IF Toggling(q) THEN [req[q] EXCEPT !.alone = FALSE] ELSE req[q]
  BY <1>0, <1>1, <1>3, <1>4
<1>7. KnowsLikes(p)'
  <2>1. ASSUME a
        PROVE  \A q \in Procs : Toggling(q)' => q = p
    <3>1. \A q \in Procs : ~Toggling(q)
      BY <1>3, <2>1
    <3> QED
      BY <1>6, <3>1 DEF Toggling, Running
  <2> QED
    BY <1>5, <1>6, <2>1 DEF KnowsLikes
<1>8. ASSUME NEW q \in Procs, q # p
      PROVE  KnowsLikes(q)'
  <2>1. CASE Toggling(q)
    <3>1. req[q] \in ToggleRequest
      BY <2>1 DEF LikesInv, KnowsLikes
    <3>2. req'[q] \in ToggleRequest /\ req'[q].alone = FALSE
      BY <1>6, <1>8, <2>1, <3>1 DEF ToggleRequest
    <3> QED
      BY <3>2 DEF KnowsLikes
  <2>2. CASE ~Toggling(q)
    <3>1. ~Toggling(q)'
      BY <1>6, <1>8, <2>2 DEF Toggling, Running
    <3> QED
      BY <3>1 DEF KnowsLikes
  <2> QED
    BY <2>1, <2>2
<1> QED
  BY <1>2, <1>6, <1>7, <1>8 DEF LikesInv

LEMMA LikesKeep ==
  ASSUME LikesInv, NEW p \in Procs,
         \/ ToggleRead(p) \/ ToggleWrite(p) \/ CountLikes(p) \/ StoreLikeCount(p)
         \/ RequestStops(p)
  PROVE  LikesInv'
<1>1. ASSUME Done(p), IsFiniteSet(likes'), likesSettled' \in BOOLEAN, likes' = likes \/ Toggling(p),
             likesSettled' = TRUE => likeCount' = Cardinality(likes')
      PROVE  LikesInv'
  <2>1. req'[p] = None /\ req' = [req EXCEPT ![p] = req'[p]]
    BY <1>1 DEF Done, LikesInv
  <2>2. ~Toggling(p)'
    BY <2>1 DEF Toggling, Running
  <2> QED
    BY <1>1, <2>1, <2>2, ToggleKeeps
<1>2. Toggling(p) => req[p] \in ToggleRequest /\ req[p].op = "toggle"
  BY DEF LikesInv, KnowsLikes, Toggling, Running
<1>3. CASE ToggleWrite(p)
  <2>1. Toggling(p) /\ UNCHANGED likeCount
    BY <1>3 DEF ToggleWrite
  <2>2. CASE req[p].existing = (req[p].user \in likes)
    <3>1. /\ likes' = IF req[p].existing THEN likes \ {req[p].user} ELSE likes \cup {req[p].user}
          /\ likesSettled' = FALSE /\ req' = [req EXCEPT ![p].at = "count"]
      BY <1>3, <2>2 DEF ToggleWrite, Goto
    <3>2. IsFiniteSet(likes \ {req[p].user}) /\ IsFiniteSet(likes \cup {req[p].user})
      BY FS_AddElement, FS_RemoveElement DEF LikesInv
    <3>3. req'[p] = [req[p] EXCEPT !.at = "count"] /\ req' = [req EXCEPT ![p] = req'[p]]
      BY <3>1 DEF LikesInv
    <3>4. req'[p] \in ToggleRequest /\ req'[p].at = "count" /\ req'[p].alone = req[p].alone
      BY <1>2, <2>1, <3>3 DEF ToggleRequest
    <3> QED
      BY <2>1, <3>1, <3>2, <3>3, <3>4, ToggleKeeps
  <2>3. CASE ~(req[p].existing = (req[p].user \in likes))
    BY <1>1, <1>3, <2>1, <2>3 DEF ToggleWrite, LikesInv
  <2> QED
    BY <2>2, <2>3
<1>4. CASE CountLikes(p)
  <2>1. Toggling(p) /\ UNCHANGED <<likes, likeCount, likesSettled>>
        /\ req' = [req EXCEPT ![p].at = "store", ![p].count = Cardinality(likes)]
    BY <1>4 DEF CountLikes, likeVars
  <2>2. PICK n \in Nat : n = Cardinality(likes)
    BY FS_CardinalityType DEF LikesInv
  <2>3. req'[p] = [req[p] EXCEPT !.at = "store", !.count = n]
        /\ req' = [req EXCEPT ![p] = req'[p]]
    BY <2>1, <2>2 DEF LikesInv
  <2>4. req'[p] \in ToggleRequest /\ req'[p].count = Cardinality(likes)
        /\ req'[p].alone = req[p].alone
    <3>1. req[p] \in ToggleRequest
      BY <1>2, <2>1
    <3>2. PICK t : t = [req[p] EXCEPT !.at = "store", !.count = n]
      OBVIOUS
    <3>3. t \in ToggleRequest /\ t.count = n /\ t.alone = req[p].alone
      BY <3>1, <3>2 DEF ToggleRequest
    <3> QED
      BY <2>2, <2>3, <3>2, <3>3
  <2>5. IsFiniteSet(likes') /\ likesSettled' \in BOOLEAN
        /\ (likesSettled' = TRUE => likeCount' = Cardinality(likes')) /\ Cardinality(likes') = Cardinality(likes)
    BY <2>1 DEF LikesInv
  <2> QED
    BY <2>1, <2>3, <2>4, <2>5, ToggleKeeps
<1>5. CASE StoreLikeCount(p)
  <2>1. Toggling(p) /\ req[p].at = "store" /\ UNCHANGED likes /\ Done(p)
        /\ likeCount' = req[p].count /\ likesSettled' = req[p].alone
    BY <1>5 DEF StoreLikeCount, At, CountStored
  <2>2. req[p].alone \in BOOLEAN
    BY <1>2, <2>1 DEF ToggleRequest
  <2>3. req[p].alone => req[p].count = Cardinality(likes)
    BY <2>1 DEF LikesInv, KnowsLikes
  <2> QED
    BY <1>1, <2>1, <2>2, <2>3 DEF LikesInv
<1>6. CASE RequestStops(p)
  BY <1>1, <1>6 DEF RequestStops, likeVars, LikesInv
<1> QED
  BY <1>3, <1>4, <1>5, <1>6, ToggleReadKeeps

LikesNext ==
  \E p \in Procs : \/ ToggleRead(p) \/ ToggleWrite(p) \/ CountLikes(p) \/ StoreLikeCount(p)
                   \/ RequestStops(p)

LEMMA LikesNextKeeps ==
  ASSUME LikesInv, LikesNext
  PROVE  LikesInv'
BY LikesKeep DEF LikesNext

-----------------------------------------------------------------------------
(***************************************************************************)
(* Content: comments.                                                      *)
(***************************************************************************)

CommentsThere == {c \in Comments : comment[c] # None}
CountingComments == {p \in Procs : Commenting(p) /\ req[p].at = "count"}

\* A comment about to be made in a minute in which its user has one already was asked for
\* beside another, or the one there is has been deleted.
Spaced(u) == \A c \in Comments :
  comment[c] # None /\ comment[c].user = u /\ comment[c].createdAt = clock => comment[c].excused = TRUE

KnowsComments(p) ==
  Commenting(p) =>
    /\ req[p] \in CommentRequest
    /\ req[p].crossed = FALSE =>
         /\ \A q \in Procs : Commenting(q) => q = p
         /\ req[p].at = "create" => Spaced(req[p].user)

CommentsInv ==
  /\ req = [p \in Procs |-> req[p]]
  /\ clock \in 0 .. MaxClock
  /\ comment \in [Comments -> CommentRow \cup {None}]
  /\ \A c \in Comments : comment[c] # None =>
       comment[c].createdAt <= clock /\ (comment[c].deleted = TRUE => comment[c].excused = TRUE)
  /\ IsFiniteSet(CommentsThere) /\ commentCount \in [counted : Nat, lost : Nat]
  /\ CommentsCounted
  /\ \A c, d \in CommentsThere :
       c # d /\ comment[c].user = comment[d].user /\ comment[c].createdAt = comment[d].createdAt
         => comment[c].excused = TRUE \/ comment[d].excused = TRUE
  /\ \A p \in Procs : KnowsComments(p)

LEMMA CommentsInitial ==
  ASSUME RequestsInit, ContentResourcesInit
  PROVE  CommentsInv
<1>1. req = [p \in Procs |-> None] /\ clock = 0 /\ comment = [c \in Comments |-> None]
      /\ commentCount = [counted |-> 0, lost |-> 0]
  BY DEF RequestsInit, ContentResourcesInit
<1>2. {p \in Procs : Commenting(p) /\ req[p].at = "count"} = {} /\ {c \in Comments : comment[c] # None} = {}
  BY <1>1 DEF Commenting, Running
<1> QED
  BY <1>1, <1>2, FS_EmptySet, MaxClockAssumption
     DEF CommentsInv, CommentsCounted, CommentsThere, KnowsComments, Commenting, Running

LEMMA CommentsImply ==
  ASSUME CommentsInv
  PROVE  CommentsCounted /\ CommentsSpaced
<1>1. CommentsSpaced
  <2> SUFFICES ASSUME NEW c \in Comments, NEW d \in Comments, c # d, comment[c] # None, comment[d] # None,
                      comment[c].user = comment[d].user, comment[c].createdAt = comment[d].createdAt
               PROVE  comment[c].excused \/ comment[d].excused
    BY DEF CommentsSpaced
  <2> QED
    BY DEF CommentsInv, CommentsThere
<1> QED
  BY <1>1 DEF CommentsInv

LEMMA CountingCommentsFinite ==
  IsFiniteSet(CountingComments) /\ Cardinality(CountingComments) \in Nat
<1>1. CountingComments \subseteq Procs
  BY DEF CountingComments
<1> QED
  BY <1>1, ProcsAssumption, FS_Subset, FS_CardinalityType

LEMMA CountOfComments ==
  ASSUME CommentsInv
  PROVE  /\ commentCount.counted \in Nat /\ commentCount.lost \in Nat
         /\ Cardinality(CommentsThere) \in Nat
         /\ commentCount.counted + commentCount.lost + Cardinality(CountingComments)
              = Cardinality(CommentsThere)
BY FS_CardinalityType DEF CommentsInv, CommentsCounted, CommentsThere, CountingComments

LEMMA CommentReadKeeps ==
  ASSUME CommentsInv, NEW p \in Procs, CommentRead(p), UNCHANGED clock
  PROVE  CommentsInv'
<1>1. PICK u \in Readers :
        /\ CommentAllowed(u)
        /\ req' = [q \in Procs |->
             IF q = p THEN [op |-> "comment", at |-> "create", user |-> u,
                            crossed |-> \E t \in Procs : Commenting(t)]
             ELSE IF Commenting(q) THEN [req[q] EXCEPT !.crossed = TRUE] ELSE req[q]]
  BY DEF CommentRead
<1>2. req[p] = None /\ UNCHANGED <<comment, commentCount>>
  BY DEF CommentRead, resourceVars, commentVars
<1>3. PICK x \in BOOLEAN : x = \E t \in Procs : Commenting(t)
  OBVIOUS
<1>4. PICK run : run = [op |-> "comment", at |-> "create", user |-> u, crossed |-> x]
  OBVIOUS
<1>5. run \in CommentRequest /\ run.crossed = x /\ run.at = "create" /\ run.user = u
  BY <1>4 DEF CommentRequest
<1>6. /\ req' = [q \in Procs |-> req'[q]] /\ req'[p] = run
      /\ \A q \in Procs : q # p =>
           req'[q] = IF Commenting(q) THEN [req[q] EXCEPT !.crossed = TRUE] ELSE req[q]
  BY <1>1, <1>3, <1>4
<1>7. Spaced(u)'
  <2> SUFFICES ASSUME NEW c \in Comments, comment[c] # None, comment[c].user = u, comment[c].createdAt = clock
               PROVE  comment[c].excused = TRUE
    BY <1>2 DEF Spaced
  <2>1. comment[c].deleted = TRUE
    BY <1>1 DEF CommentAllowed, CommentsInv, CommentRow
  <2> QED
    BY <2>1 DEF CommentsInv
<1>8. KnowsComments(p)'
  <2>1. ASSUME x = FALSE
        PROVE  \A q \in Procs : Commenting(q)' => q = p
    <3>1. \A q \in Procs : ~Commenting(q)
      BY <1>3, <2>1
    <3> QED
      BY <1>6, <3>1 DEF Commenting, Running
  <2> QED
    BY <1>5, <1>6, <1>7, <2>1 DEF KnowsComments
<1>9. ASSUME NEW q \in Procs, q # p
      PROVE  KnowsComments(q)' /\ (q \in CountingComments' <=> q \in CountingComments)
  <2>1. CASE Commenting(q)
    <3>1. req[q] \in CommentRequest
      BY <2>1 DEF CommentsInv, KnowsComments
    <3>2. req'[q] \in CommentRequest /\ req'[q].crossed = TRUE /\ req'[q].at = req[q].at
          /\ req'[q].op = "comment"
      BY <1>6, <1>9, <2>1, <3>1 DEF CommentRequest
    <3>3. req'[q] # None
      BY <3>2, ContentResourcesAssumption
    <3> QED
      BY <2>1, <3>2, <3>3 DEF KnowsComments, CountingComments, Commenting, Running
  <2>2. CASE ~Commenting(q)
    <3>1. ~Commenting(q)'
      BY <1>6, <1>9, <2>2 DEF Commenting, Running
    <3> QED
      BY <2>2, <3>1 DEF KnowsComments, CountingComments
  <2> QED
    BY <2>1, <2>2
<1>10. p \notin CountingComments /\ p \notin CountingComments'
  BY <1>2, <1>5, <1>6 DEF CountingComments, Commenting, Running
<1>11. CountingComments \subseteq Procs /\ CountingComments' \subseteq Procs
  BY DEF CountingComments
<1>12. CountingComments' = CountingComments
  BY <1>9, <1>10, <1>11
<1>13. CommentsThere' = CommentsThere
  BY <1>2 DEF CommentsThere
<1>14. CommentsCounted'
  BY <1>2, <1>12, <1>13, CountOfComments DEF CommentsCounted, CountingComments, CommentsThere
<1> QED
  BY <1>2, <1>6, <1>8, <1>9, <1>13, <1>14 DEF CommentsInv

\* A step of one comment that goes on or ends.
LEMMA OthersComment ==
  ASSUME CommentsInv, NEW p \in Procs, Commenting(p), req' = [req EXCEPT ![p] = req'[p]], UNCHANGED clock
  PROVE  /\ req' = [q \in Procs |-> req'[q]]
         /\ \A q \in Procs : q # p => req'[q] = req[q]
         /\ \A q \in Procs : Commenting(q)' /\ q # p => Commenting(q)
<1>1. req' = [q \in Procs |-> req'[q]] /\ \A q \in Procs : q # p => req'[q] = req[q]
  BY DEF CommentsInv
<1>2. \A q \in Procs : Commenting(q)' /\ q # p => Commenting(q)
  BY <1>1 DEF Commenting, Running
<1> QED
  BY <1>1, <1>2

LEMMA CreateCommentKeeps ==
  ASSUME CommentsInv, NEW p \in Procs, CreateComment(p), UNCHANGED clock
  PROVE  CommentsInv'
<1>1. Commenting(p) /\ req[p].at = "create" /\ UNCHANGED commentCount
      /\ req' = [req EXCEPT ![p].at = "count"]
  BY DEF CreateComment, At, Goto
<1>2. PICK c \in Comments :
        /\ comment[c] = None
        /\ comment' = [comment EXCEPT ![c] = [user |-> req[p].user, createdAt |-> clock,
             status |-> "PENDING", deleted |-> FALSE, excused |-> req[p].crossed]]
  BY DEF CreateComment
<1>3. PICK new : new = [user |-> req[p].user, createdAt |-> clock, status |-> "PENDING",
                        deleted |-> FALSE, excused |-> req[p].crossed]
  OBVIOUS
<1>4. req[p] \in CommentRequest /\ req[p].op = "comment" /\ KnowsComments(p)
  BY <1>1 DEF CommentsInv, KnowsComments, Commenting, Running
<1>5. new \in CommentRow /\ new.user = req[p].user /\ new.createdAt = clock /\ new.deleted = FALSE
      /\ new.excused = req[p].crossed
  BY <1>3, <1>4 DEF CommentRow, CommentRequest, CommentsInv
<1>6. new # None
  BY <1>5, ContentResourcesAssumption
<1>7. /\ comment' \in [Comments -> CommentRow \cup {None}] /\ comment'[c] = new
      /\ \A d \in Comments : d # c => comment'[d] = comment[d]
  BY <1>2, <1>3, <1>5 DEF CommentsInv
<1>8. c \notin CommentsThere /\ CommentsThere' = CommentsThere \cup {c}
  BY <1>2, <1>6, <1>7 DEF CommentsThere
<1>9. IsFiniteSet(CommentsThere') /\ Cardinality(CommentsThere') = Cardinality(CommentsThere) + 1
  BY <1>8, FS_AddElement DEF CommentsInv
<1>10. req'[p] = [req[p] EXCEPT !.at = "count"] /\ req' = [req EXCEPT ![p] = req'[p]]
  BY <1>1 DEF CommentsInv
<1>11. req'[p] \in CommentRequest /\ req'[p].at = "count" /\ req'[p].op = "comment"
       /\ req'[p].crossed = req[p].crossed
  BY <1>4, <1>10 DEF CommentRequest
<1>12. req'[p] # None
  BY <1>11, ContentResourcesAssumption
<1>13. /\ req' = [q \in Procs |-> req'[q]] /\ \A q \in Procs : q # p => req'[q] = req[q]
       /\ \A q \in Procs : Commenting(q)' /\ q # p => Commenting(q)
  BY <1>1, <1>10, OthersComment
<1>14. p \notin CountingComments /\ CountingComments' = CountingComments \cup {p}
  BY <1>1, <1>11, <1>12, <1>13 DEF CountingComments, Commenting, Running
<1>15. Cardinality(CountingComments') = Cardinality(CountingComments) + 1
  BY <1>14, CountingCommentsFinite, FS_AddElement
<1>16. CommentsCounted'
  <2>1. commentCount.counted + commentCount.lost + Cardinality(CountingComments')
          = Cardinality(CommentsThere')
    BY <1>9, <1>15, CountOfComments, CountingCommentsFinite
  <2> QED
    BY <1>1, <2>1 DEF CommentsCounted, CountingComments, CommentsThere
<1>17. ASSUME NEW d \in CommentsThere, comment[d].user = new.user, comment[d].createdAt = clock
       PROVE  new.excused = TRUE \/ comment[d].excused = TRUE
  BY <1>1, <1>4, <1>5, <1>17 DEF KnowsComments, Spaced, CommentsThere, CommentRequest
<1>18. ASSUME NEW d \in CommentsThere', NEW e \in CommentsThere', d # e,
              comment'[d].user = comment'[e].user, comment'[d].createdAt = comment'[e].createdAt
       PROVE  comment'[d].excused = TRUE \/ comment'[e].excused = TRUE
  <2>1. CASE d = c
    <3>1. e \in CommentsThere /\ comment'[e] = comment[e]
      BY <1>7, <1>8, <1>18, <2>1 DEF CommentsThere
    <3> QED
      BY <1>5, <1>7, <1>17, <1>18, <2>1, <3>1
  <2>2. CASE e = c
    <3>1. d \in CommentsThere /\ comment'[d] = comment[d]
      BY <1>7, <1>8, <1>18, <2>2 DEF CommentsThere
    <3> QED
      BY <1>5, <1>7, <1>17, <1>18, <2>2, <3>1
  <2>3. CASE d # c /\ e # c
    <3>1. d \in CommentsThere /\ e \in CommentsThere /\ comment'[d] = comment[d] /\ comment'[e] = comment[e]
      BY <1>7, <1>8, <2>3 DEF CommentsThere
    <3> QED
      BY <1>18, <3>1 DEF CommentsInv
  <2> QED
    BY <2>1, <2>2, <2>3
<1>19. \A d \in Comments : comment'[d] # None =>
         comment'[d].createdAt <= clock /\ (comment'[d].deleted = TRUE => comment'[d].excused = TRUE)
  <2>1. clock <= clock
    BY MaxClockAssumption DEF CommentsInv
  <2> QED
    BY <1>5, <1>7, <2>1 DEF CommentsInv
<1>20. \A q \in Procs : KnowsComments(q)'
  <2>1. ASSUME NEW q \in Procs, q # p
        PROVE  KnowsComments(q)'
    <3>1. SUFFICES ASSUME Commenting(q)'
                   PROVE  KnowsComments(q)'
      BY DEF KnowsComments
    <3>2. Commenting(q) /\ req'[q] = req[q]
      BY <1>13, <2>1, <3>1
    <3>3. req[q] \in CommentRequest /\ req[q].crossed # FALSE
      BY <1>1, <2>1, <3>2 DEF CommentsInv, KnowsComments
    <3> QED
      BY <3>2, <3>3 DEF KnowsComments
  <2>2. KnowsComments(p)'
    BY <1>1, <1>4, <1>11, <1>13 DEF KnowsComments
  <2> QED
    BY <2>1, <2>2
<1> QED
  BY <1>7, <1>1, <1>9, <1>13, <1>16, <1>18, <1>19, <1>20 DEF CommentsInv

\* The end of a request: one that was to be counted is counted now, or lost.
LEMMA CommentEnds ==
  ASSUME CommentsInv, NEW p \in Procs, Done(p), UNCHANGED <<comment, clock>>,
         commentCount' \in [counted : Nat, lost : Nat],
         commentCount'.counted + commentCount'.lost =
           commentCount.counted + commentCount.lost
             + (IF Commenting(p) /\ req[p].at = "count" THEN 1 ELSE 0)
  PROVE  CommentsInv'
<1>1. req' = [q \in Procs |-> req'[q]] /\ req'[p] = None /\ \A q \in Procs : q # p => req'[q] = req[q]
  BY DEF Done, CommentsInv
<1>2. CountingComments' = CountingComments \ {p} /\ CommentsThere' = CommentsThere
  BY <1>1 DEF CountingComments, CommentsThere, Commenting, Running
<1>3. commentCount'.counted + commentCount'.lost + Cardinality(CountingComments')
        = Cardinality(CommentsThere)
  <2>1. CASE Commenting(p) /\ req[p].at = "count"
    <3>1. p \in CountingComments
      BY <2>1 DEF CountingComments
    <3>2. Cardinality(CountingComments') = Cardinality(CountingComments) - 1
      BY <1>2, <3>1, CountingCommentsFinite, FS_RemoveElement
    <3> QED
      BY <2>1, <3>2, CountOfComments, CountingCommentsFinite
  <2>2. CASE ~(Commenting(p) /\ req[p].at = "count")
    <3>1. CountingComments' = CountingComments
      BY <1>2, <2>2 DEF CountingComments
    <3> QED
      BY <2>2, <3>1, CountOfComments, CountingCommentsFinite
  <2> QED
    BY <2>1, <2>2
<1>4. CommentsCounted'
  BY <1>2, <1>3 DEF CommentsCounted, CountingComments, CommentsThere
<1>5. ASSUME NEW q \in Procs
      PROVE  KnowsComments(q)'
  <2>1. CASE q = p
    BY <1>1, <2>1 DEF KnowsComments, Commenting, Running
  <2>2. CASE q # p
    <3>1. KnowsComments(q) /\ req'[q] = req[q] /\ \A t \in Procs : Commenting(t)' => Commenting(t)
      BY <1>1, <2>2 DEF CommentsInv, Commenting, Running
    <3> QED
      BY <3>1 DEF KnowsComments, Commenting, Running, Spaced
  <2> QED
    BY <2>1, <2>2
<1> QED
  BY <1>1, <1>2, <1>4, <1>5 DEF CommentsInv

LEMMA CountCommentKeeps ==
  ASSUME CommentsInv, NEW p \in Procs, CountComment(p), UNCHANGED clock
  PROVE  CommentsInv'
<1>1. Commenting(p) /\ req[p].at = "count" /\ UNCHANGED comment /\ Done(p)
      /\ commentCount' = [commentCount EXCEPT !.counted = commentCount.counted + 1]
  BY DEF CountComment, At
<1>2. commentCount' \in [counted : Nat, lost : Nat] /\ commentCount'.lost = commentCount.lost
      /\ commentCount'.counted = commentCount.counted + 1
  BY <1>1 DEF CommentsInv
<1>3. commentCount'.counted + commentCount'.lost = commentCount.counted + commentCount.lost + 1
  BY <1>2, CountOfComments
<1> QED
  BY <1>1, <1>2, <1>3, CommentEnds

LEMMA ModerateKeeps ==
  ASSUME CommentsInv, Moderate, UNCHANGED clock
  PROVE  CommentsInv'
<1>1. PICK c \in Comments, s \in {"APPROVED", "REJECTED", "SPAM", "DELETED"} :
        /\ comment[c] # None
        /\ comment' = [comment EXCEPT ![c].status = s, ![c].deleted = (s = "DELETED"),
                                      ![c].excused = @ \/ s = "DELETED"]
  BY DEF Moderate
<1>2. UNCHANGED <<req, commentCount>>
  BY DEF Moderate
<1>3. comment[c] \in CommentRow
  BY <1>1 DEF CommentsInv
<1>4. PICK b \in BOOLEAN, e \in BOOLEAN : b = (s = "DELETED") /\ e = (comment[c].excused \/ s = "DELETED")
  OBVIOUS
<1>5. comment'[c] = [comment[c] EXCEPT !.status = s, !.deleted = b, !.excused = e]
      /\ \A d \in Comments : d # c => comment'[d] = comment[d]
  BY <1>1, <1>3, <1>4 DEF CommentsInv, CommentRow
<1>6. comment'[c] \in CommentRow /\ comment'[c].user = comment[c].user
      /\ comment'[c].createdAt = comment[c].createdAt
      /\ (comment'[c].deleted = TRUE => comment'[c].excused = TRUE)
      /\ (comment[c].excused = TRUE => comment'[c].excused = TRUE)
  BY <1>3, <1>4, <1>5 DEF CommentRow
<1>7. comment'[c] # None
  BY <1>6, ContentResourcesAssumption
<1>8. comment' \in [Comments -> CommentRow \cup {None}]
  BY <1>1, <1>5, <1>6 DEF CommentsInv
<1>9. \A d \in Comments : /\ comment'[d] # None <=> comment[d] # None
                          /\ comment[d] # None => /\ comment'[d].user = comment[d].user
                                                  /\ comment'[d].createdAt = comment[d].createdAt
                                                  /\ comment[d].excused = TRUE => comment'[d].excused = TRUE
  BY <1>1, <1>5, <1>6, <1>7
<1>10. \A d \in Comments : comment'[d] # None => comment'[d].createdAt <= clock
                            /\ (comment'[d].deleted = TRUE => comment'[d].excused = TRUE)
  BY <1>1, <1>5, <1>6, <1>7 DEF CommentsInv
<1>11. CommentsThere' = CommentsThere
  BY <1>9 DEF CommentsThere
<1>12. CommentsCounted'
  <2>1. CountingComments' = CountingComments
    BY <1>2 DEF CountingComments, Commenting, Running
  <2> QED
    BY <1>2, <1>11, <2>1, CountOfComments DEF CommentsCounted, CountingComments, CommentsThere
<1>13. ASSUME NEW p \in Procs
       PROVE  KnowsComments(p)'
  <2>1. \A u : Spaced(u) => Spaced(u)'
    BY <1>9 DEF Spaced
  <2>2. KnowsComments(p)
    BY DEF CommentsInv
  <2> QED
    BY <1>2, <2>1, <2>2 DEF KnowsComments, Commenting, Running
<1>14. \A d, f \in CommentsThere' :
         d # f /\ comment'[d].user = comment'[f].user /\ comment'[d].createdAt = comment'[f].createdAt
           => comment'[d].excused = TRUE \/ comment'[f].excused = TRUE
  BY <1>9, <1>11 DEF CommentsInv, CommentsThere
<1> QED
  BY <1>2, <1>8, <1>10, <1>11, <1>12, <1>13, <1>14 DEF CommentsInv

CommentsNext ==
  \/ Tick /\ UNCHANGED resourceVars
  \/ /\ \/ Moderate
        \/ \E p \in Procs : CommentRead(p) \/ CreateComment(p) \/ CountComment(p) \/ RequestStops(p)
     /\ UNCHANGED clock

LEMMA CommentsKeep ==
  ASSUME CommentsInv, CommentsNext
  PROVE  CommentsInv'
<1> USE DEF CommentsNext
<1>1. CASE Tick /\ UNCHANGED resourceVars
  <2>1. /\ UNCHANGED <<req, comment, commentCount>>
        /\ clock' = clock + 1 /\ clock < MaxClock /\ clock \in 0 .. MaxClock
    BY <1>1 DEF Tick, resourceVars, commentVars, CommentsInv
  <2>2. clock \in Nat /\ clock' \in 0 .. MaxClock
    BY <2>1, MaxClockAssumption
  <2>3. ASSUME NEW c \in Comments, comment[c] # None
        PROVE  comment[c].createdAt <= clock' /\ comment[c].createdAt # clock'
    <3>1. comment[c].createdAt <= clock /\ comment[c].createdAt \in 0 .. MaxClock
      BY <2>3 DEF CommentsInv, CommentRow
    <3>2. comment[c].createdAt \in Nat
      BY <3>1
    <3> QED
      BY <2>1, <2>2, <3>1, <3>2
  <2>4. ASSUME NEW p \in Procs
        PROVE  KnowsComments(p)'
    <3>1. \A u : Spaced(u)'
      BY <2>1, <2>3 DEF Spaced
    <3>2. KnowsComments(p)
      BY DEF CommentsInv
    <3> QED
      BY <2>1, <3>1, <3>2 DEF KnowsComments, Commenting, Running
  <2>5. CommentsThere' = CommentsThere /\ CommentsCounted'
    BY <2>1 DEF CommentsThere, CommentsInv, CommentsCounted, Commenting, Running
  <2> QED
    BY <2>1, <2>2, <2>3, <2>4, <2>5 DEF CommentsInv
<1>2. ASSUME NEW p \in Procs, RequestStops(p), UNCHANGED clock
      PROVE  CommentsInv'
  <2>1. Done(p) /\ UNCHANGED comment
        /\ commentCount' = IF Commenting(p) /\ req[p].at = "count"
                           THEN [commentCount EXCEPT !.lost = commentCount.lost + 1] ELSE commentCount
    BY <1>2 DEF RequestStops
  <2>2. CASE Commenting(p) /\ req[p].at = "count"
    <3>1. commentCount' \in [counted : Nat, lost : Nat] /\ commentCount'.lost = commentCount.lost + 1
          /\ commentCount'.counted = commentCount.counted
      BY <2>1, <2>2 DEF CommentsInv
    <3>2. commentCount'.counted + commentCount'.lost = commentCount.counted + commentCount.lost + 1
      BY <3>1, CountOfComments
    <3> QED
      BY <1>2, <2>1, <2>2, <3>1, <3>2, CommentEnds
  <2>3. CASE ~(Commenting(p) /\ req[p].at = "count")
    <3>1. commentCount' \in [counted : Nat, lost : Nat]
          /\ commentCount'.counted + commentCount'.lost = commentCount.counted + commentCount.lost + 0
      BY <2>1, <2>3, CountOfComments DEF CommentsInv
    <3> QED
      BY <1>2, <2>1, <2>3, <3>1, CommentEnds
  <2> QED
    BY <2>2, <2>3
<1> QED
  BY <1>1, <1>2, ModerateKeeps, CommentReadKeeps, CreateCommentKeeps, CountCommentKeeps

-----------------------------------------------------------------------------
(***************************************************************************)
(* Search engines: redirects.                                              *)
(***************************************************************************)

\* From s one does not come back to s: where it leads is in a set that redirects do not
\* leave and that does not hold s.
Closed(C, h) == \A x \in C : h[x] \in C \cup {None}
LeadsAway(s, h) == \E C \in SUBSET Paths : s \notin C /\ h[s] \in C \cup {None} /\ Closed(C, h)

\* The paths that the walk of a creation has come through, and the one it stands at.
Walked(r) == (r.seen \ {r.source}) \cup {r.cursor}

\* What the walk has found of the redirects.
WalkSound(r, h) ==
  /\ r.source \in r.seen /\ r.source # r.destination
  /\ r.destination \in Walked(r)
  /\ \A x \in r.seen \ {r.source} : h[x] \in Walked(r) \cup {None}
  /\ r.at = "upsert" => r.cursor \notin r.seen /\ h[r.cursor] = None

RedirectInv ==
  /\ req = [p \in Procs |-> req[p]]
  /\ hop \in [Paths -> Paths \cup {None}] /\ unchecked \in BOOLEAN
  /\ \A p \in Creating : req[p] \in RedirectRequest
  /\ unchecked = FALSE =>
       /\ \A p, q \in Creating : p = q
       /\ \A s \in Paths : LeadsAway(s, hop)
       /\ \A p \in Creating : WalkSound(req[p], hop)

LEMMA RedirectInitial ==
  ASSUME RequestsInit, SeoInit
  PROVE  RedirectInv
<1>1. req = [p \in Procs |-> None] /\ hop = [s \in Paths |-> None] /\ unchecked = FALSE
  BY DEF RequestsInit, SeoInit
<1>2. Creating = {}
  BY <1>1 DEF Creating, Running
<1>3. \A s \in Paths : LeadsAway(s, hop)
  <2> SUFFICES ASSUME NEW s \in Paths
               PROVE  LeadsAway(s, hop)
    OBVIOUS
  <2>1. {} \in SUBSET Paths /\ s \notin {} /\ hop[s] \in {} \cup {None} /\ Closed({}, hop)
    BY <1>1 DEF Closed
  <2> QED
    BY <2>1 DEF LeadsAway
<1> QED
  BY <1>1, <1>2, <1>3 DEF RedirectInv

\* The paths after s by the number of redirects followed.
Follows(f, n, s) ==
  f[0] = s /\ \A k \in 1 .. n : f[k] = IF f[k - 1] = None THEN None ELSE hop[f[k - 1]]

LEMMA FollowsExist ==
  ASSUME NEW n \in Nat, NEW s \in Paths, hop \in [Paths -> Paths \cup {None}]
  PROVE  \E f \in [0 .. n -> Paths \cup {None}] : Follows(f, n, s)
<1> DEFINE Upto(m) == \E f \in [0 .. m -> Paths \cup {None}] : Follows(f, m, s)
           Missing == {m \in Nat : ~Upto(m)}
<1>1. Upto(0)
  <2>1. PICK f : f = [k \in 0 .. 0 |-> s]
    OBVIOUS
  <2>2. f \in [0 .. 0 -> Paths \cup {None}] /\ f[0] = s
    BY <2>1
  <2>3. 1 .. 0 = {}
    OBVIOUS
  <2> QED
    BY <2>2, <2>3 DEF Follows
<1>2. ASSUME NEW m \in Nat, Upto(m)
      PROVE  Upto(m + 1)
  <2>1. PICK f \in [0 .. m -> Paths \cup {None}] : Follows(f, m, s)
    BY <1>2
  <2>2. PICK y : y = IF f[m] = None THEN None ELSE hop[f[m]]
    OBVIOUS
  <2>3. f[m] \in Paths \cup {None} /\ y \in Paths \cup {None}
    BY <2>1, <2>2
  <2>4. PICK g : g = [k \in 0 .. m + 1 |-> IF k = m + 1 THEN y ELSE f[k]]
    OBVIOUS
  <2>5. g \in [0 .. m + 1 -> Paths \cup {None}] /\ g[m + 1] = y /\ \A k \in 0 .. m : g[k] = f[k]
    BY <2>1, <2>3, <2>4
  <2>6. g[0] = s
    BY <2>1, <2>5 DEF Follows
  <2>7. ASSUME NEW k \in 1 .. m + 1
        PROVE  g[k] = IF g[k - 1] = None THEN None ELSE hop[g[k - 1]]
    <3>1. CASE k = m + 1
      <4>1. k - 1 = m /\ m \in 0 .. m
        BY <3>1
      <4> QED
        BY <2>2, <2>5, <3>1, <4>1
    <3>2. CASE k # m + 1
      <4>1. k \in 1 .. m /\ k - 1 \in 0 .. m /\ k \in 0 .. m
        BY <3>2
      <4>2. g[k] = f[k] /\ g[k - 1] = f[k - 1]
        BY <2>5, <4>1
      <4> QED
        BY <2>1, <4>1, <4>2 DEF Follows
    <3> QED
      BY <3>1, <3>2
  <2> QED
    BY <2>5, <2>6, <2>7 DEF Follows
<1>3. Missing = {}
  <2> HIDE DEF Upto
  <2> SUFFICES ASSUME Missing # {}
               PROVE  FALSE
    OBVIOUS
  <2>1. PICK m \in Missing : \A l \in Missing : m <= l
    BY LeastOf
  <2>2. m \in Nat /\ m # 0 /\ ~Upto(m)
    BY <1>1, <2>1
  <2>3. m - 1 \in Nat /\ (m - 1) + 1 = m /\ ~(m <= m - 1)
    BY <2>2
  <2>4. Upto(m - 1)
    BY <2>1, <2>3
  <2> QED
    BY <1>2, <2>2, <2>3, <2>4
<1> QED
  BY <1>3

LEMMA NoWayBack ==
  ASSUME NEW s \in Paths, hop \in [Paths -> Paths \cup {None}], LeadsAway(s, hop)
  PROVE  s \notin Hops(s)
<1> DEFINE N == Cardinality(Paths)
           Fits(f) == f = [k \in 0 .. N |-> IF k = 0 THEN s ELSE IF f[k - 1] = None THEN None ELSE hop[f[k - 1]]]
           after == CHOOSE f : Fits(f)
<1>1. N \in Nat
  BY SeoAssumption, FS_CardinalityType
<1> HIDE DEF N
<1>2. PICK f \in [0 .. N -> Paths \cup {None}] : Follows(f, N, s)
  BY <1>1, FollowsExist
<1>3. Fits(f)
  <2>1. ASSUME NEW k \in 0 .. N
        PROVE  f[k] = IF k = 0 THEN s ELSE IF f[k - 1] = None THEN None ELSE hop[f[k - 1]]
    <3>1. k = 0 \/ k \in 1 .. N
      BY <1>1
    <3> QED
      BY <1>2, <3>1 DEF Follows
  <2> QED
    BY <1>2, <2>1
<1>4. Fits(after)
  BY <1>3
<1>5. after[0] = s /\ \A k \in 1 .. N : after[k] = IF after[k - 1] = None THEN None ELSE hop[after[k - 1]]
  <2> HIDE DEF after
  <2>1. \A k \in 0 .. N : after[k] = IF k = 0 THEN s ELSE IF after[k - 1] = None THEN None ELSE hop[after[k - 1]]
    BY <1>4
  <2>2. 0 \in 0 .. N /\ \A k \in 1 .. N : k \in 0 .. N /\ k # 0
    BY <1>1
  <2> QED
    BY <2>1, <2>2
<1>6. Hops(s) = {after[k] : k \in 1 .. N}
  BY DEF Hops, N
<1> HIDE DEF after
<1>7. PICK C \in SUBSET Paths : s \notin C /\ hop[s] \in C \cup {None} /\ Closed(C, hop)
  BY DEF LeadsAway
<1> DEFINE Bad == {k \in 1 .. N : after[k] \notin C \cup {None}}
<1>8. Bad = {}
  <2> SUFFICES ASSUME Bad # {}
               PROVE  FALSE
    OBVIOUS
  <2>1. Bad \in SUBSET Nat
    OBVIOUS
  <2>2. PICK k \in Bad : \A l \in Bad : k <= l
    BY <2>1, LeastOf
  <2>3. k \in 1 .. N /\ after[k] \notin C \cup {None}
    BY <2>2
  <2>4. after[k] = IF after[k - 1] = None THEN None ELSE hop[after[k - 1]]
    BY <1>5, <2>3
  <2>5. CASE k = 1
    <3>1. after[k - 1] = s /\ s # None
      BY <1>5, <2>5, SeoAssumption
    <3> QED
      BY <1>7, <2>3, <2>4, <3>1
  <2>6. CASE k # 1
    <3>1. k - 1 \in 1 .. N /\ ~(k <= k - 1)
      BY <1>1, <2>3, <2>6
    <3>2. after[k - 1] \in C \cup {None}
      BY <2>2, <3>1
    <3> QED
      BY <1>7, <2>3, <2>4, <3>2 DEF Closed
  <2> QED
    BY <2>5, <2>6
<1>9. s \notin C \cup {None}
  BY <1>7, SeoAssumption
<1> QED
  BY <1>6, <1>8, <1>9

LEMMA RedirectImplies ==
  ASSUME RedirectInv
  PROVE  NoRedirectCycle
<1>1. SUFFICES ASSUME ~unchecked
               PROVE  \A s \in Paths : s \notin Hops(s)
  BY DEF NoRedirectCycle
<1>2. unchecked = FALSE
  BY <1>1 DEF RedirectInv
<1>3. hop \in [Paths -> Paths \cup {None}] /\ \A s \in Paths : LeadsAway(s, hop)
  BY <1>2 DEF RedirectInv
<1> QED
  BY <1>3, NoWayBack

\* The upsert that follows a walk which found no way back to the source.
LEMMA UpsertLeadsAway ==
  ASSUME hop \in [Paths -> Paths \cup {None}], \A s \in Paths : LeadsAway(s, hop),
         NEW r \in RedirectRequest, WalkSound(r, hop), r.at = "upsert",
         hop' = [hop EXCEPT ![r.source] = r.destination]
  PROVE  \A s \in Paths : LeadsAway(s, hop')
<1> DEFINE W == Walked(r)
<1>1. r.source \in Paths /\ r.destination \in Paths /\ r.seen \subseteq Paths /\ r.cursor \in Paths
  BY DEF RedirectRequest
<1>2. W \in SUBSET Paths /\ r.source \notin W /\ r.destination \in W
  BY <1>1 DEF WalkSound, Walked
<1>3. \A x \in W : hop[x] \in W \cup {None}
  BY DEF WalkSound, Walked
<1>4. hop'[r.source] = r.destination /\ \A x \in Paths : x # r.source => hop'[x] = hop[x]
  BY <1>1
<1> HIDE DEF W
<1> SUFFICES ASSUME NEW s \in Paths
             PROVE  LeadsAway(s, hop')
  OBVIOUS
<1>5. PICK C \in SUBSET Paths : s \notin C /\ hop[s] \in C \cup {None} /\ Closed(C, hop)
  BY DEF LeadsAway
<1>6. \A x \in C : hop[x] \in C \cup {None}
  BY <1>5 DEF Closed
<1>7. CASE s = r.source
  <2>1. Closed(W, hop')
    BY <1>2, <1>3, <1>4 DEF Closed
  <2> QED
    BY <1>2, <1>4, <1>7, <2>1 DEF LeadsAway
<1>8. CASE s # r.source /\ s \in W
  <2>1. PICK D : D = C \cap W
    OBVIOUS
  <2>2. D \in SUBSET Paths /\ s \notin D /\ r.source \notin D
    BY <1>2, <1>5, <2>1
  <2>3. hop'[s] \in D \cup {None}
    BY <1>3, <1>4, <1>5, <1>8, <2>1
  <2>4. Closed(D, hop')
    BY <1>3, <1>4, <1>6, <2>1, <2>2 DEF Closed
  <2> QED
    BY <2>2, <2>3, <2>4 DEF LeadsAway
<1>9. CASE s # r.source /\ s \notin W
  <2>1. PICK D : D = C \cup W
    OBVIOUS
  <2>2. D \in SUBSET Paths /\ s \notin D
    BY <1>2, <1>5, <1>9, <2>1
  <2>3. hop'[s] \in D \cup {None}
    BY <1>4, <1>5, <1>9, <2>1
  <2>4. Closed(D, hop')
    BY <1>2, <1>3, <1>4, <1>6, <2>1, <2>2 DEF Closed
  <2> QED
    BY <2>2, <2>3, <2>4 DEF LeadsAway
<1> QED
  BY <1>7, <1>8, <1>9

LEMMA CreateRedirectKeeps ==
  ASSUME RedirectInv, NEW p \in Procs, NEW s \in Paths, NEW d \in Paths, CreateRedirect(p, s, d)
  PROVE  RedirectInv'
<1>1. PICK r : r = [op |-> "redirect", at |-> "walk", source |-> s, destination |-> d,
                    seen |-> {s}, cursor |-> d, reads |-> 0]
  OBVIOUS
<1>2. s # d /\ req[p] = None /\ req' = [req EXCEPT ![p] = r] /\ UNCHANGED hop
      /\ unchecked' = (unchecked \/ Creating # {})
  BY <1>1 DEF CreateRedirect, Start, Seen
<1>3. r \in RedirectRequest
  <2>1. 0 \in 0 .. MaxChain /\ {s} \in SUBSET Paths
    BY SeoAssumption
  <2> QED
    BY <1>1, <2>1 DEF RedirectRequest
<1>4. r # None /\ r.op = "redirect"
  BY <1>1, <1>3, SeoAssumption
<1>5. req' = [q \in Procs |-> req'[q]] /\ req'[p] = r /\ \A q \in Procs : q # p => req'[q] = req[q]
  BY <1>2 DEF RedirectInv
<1>6. Creating' = Creating \cup {p} /\ p \notin Creating
  BY <1>2, <1>4, <1>5 DEF Creating, Running
<1>7. \A q \in Creating' : req'[q] \in RedirectRequest
  BY <1>3, <1>5, <1>6 DEF RedirectInv, Creating
<1>8. WalkSound(r, hop')
  <2>1. Walked(r) = {d} /\ r.seen \ {r.source} = {}
    BY <1>1, <1>2 DEF Walked
  <2> QED
    BY <1>1, <1>2, <2>1 DEF WalkSound
<1>9. ASSUME unchecked' = FALSE
      PROVE  /\ \A q, t \in Creating' : q = t
             /\ \A x \in Paths : LeadsAway(x, hop')
             /\ \A q \in Creating' : WalkSound(req'[q], hop')
  <2>1. Creating = {} /\ unchecked = FALSE
    BY <1>2, <1>9 DEF RedirectInv
  <2>2. \A x \in Paths : LeadsAway(x, hop')
    BY <1>2, <2>1 DEF RedirectInv
  <2> QED
    BY <1>5, <1>6, <1>8, <2>1, <2>2
<1>10. unchecked' \in BOOLEAN /\ hop' \in [Paths -> Paths \cup {None}]
  BY <1>2 DEF RedirectInv
<1> QED
  BY <1>5, <1>7, <1>9, <1>10 DEF RedirectInv

\* One that ends leaves the others as they are.
LEMMA CreationEnds ==
  ASSUME RedirectInv, NEW p \in Procs, Done(p), UNCHANGED unchecked,
         hop' \in [Paths -> Paths \cup {None}],
         unchecked = FALSE => \A s \in Paths : LeadsAway(s, hop'),
         hop' = hop \/ p \in Creating
  PROVE  RedirectInv'
<1>1. req' = [q \in Procs |-> req'[q]] /\ req'[p] = None /\ \A q \in Procs : q # p => req'[q] = req[q]
  BY DEF Done, RedirectInv
<1>2. Creating' = Creating \ {p} /\ \A q \in Creating' : req'[q] = req[q]
  BY <1>1 DEF Creating, Running
<1>3. ASSUME unchecked = FALSE
      PROVE  \A q \in Creating' : WalkSound(req'[q], hop')
  <2>1. CASE hop' = hop
    <3>1. \A q \in Creating : WalkSound(req[q], hop)
      BY <1>3 DEF RedirectInv
    <3> QED
      BY <1>2, <2>1, <3>1 DEF WalkSound, Walked
  <2>2. CASE p \in Creating
    <3>1. \A q, t \in Creating : q = t
      BY <1>3 DEF RedirectInv
    <3>2. Creating' = {}
      BY <1>2, <2>2, <3>1
    <3> QED
      BY <3>2
  <2> QED
    BY <2>1, <2>2
<1> QED
  BY <1>1, <1>2, <1>3 DEF RedirectInv

LEMMA WouldCycleKeeps ==
  ASSUME RedirectInv, NEW p \in Procs, WouldCycle(p)
  PROVE  RedirectInv'
<1>1. Running(p, "redirect") /\ req[p].at = "walk" /\ UNCHANGED <<hop, unchecked>>
  BY DEF WouldCycle, At, seoVars
<1>2. p \in Creating /\ req[p] \in RedirectRequest
  BY <1>1 DEF RedirectInv, Creating
<1>3. ASSUME NEW r \in RedirectRequest, req' = [req EXCEPT ![p] = r],
             unchecked = FALSE => WalkSound(r, hop)
      PROVE  RedirectInv'
  <2>1. req' = [q \in Procs |-> req'[q]] /\ req'[p] = r /\ \A q \in Procs : q # p => req'[q] = req[q]
    BY <1>3 DEF RedirectInv
  <2>2. r # None /\ r.op = "redirect"
    BY SeoAssumption DEF RedirectRequest
  <2>3. Creating' = Creating
    BY <1>1, <1>2, <2>1, <2>2 DEF Creating, Running
  <2>4. \A q \in Creating' : req'[q] \in RedirectRequest
    BY <2>1, <2>3 DEF RedirectInv, Creating
  <2>5. ASSUME unchecked = FALSE, NEW q \in Creating'
        PROVE  WalkSound(req'[q], hop')
    <3>1. q = p
      BY <1>2, <2>3, <2>5 DEF RedirectInv
    <3> QED
      BY <1>1, <1>3, <2>1, <2>5, <3>1 DEF WalkSound, Walked
  <2> QED
    BY <1>1, <2>1, <2>3, <2>4, <2>5 DEF RedirectInv
<1>4. CASE req[p].cursor \in req[p].seen \/ req[p].reads = MaxChain
  <2>1. Done(p)
    BY <1>4 DEF WouldCycle
  <2> QED
    BY <1>1, <2>1, CreationEnds DEF RedirectInv
<1>5. CASE ~(req[p].cursor \in req[p].seen \/ req[p].reads = MaxChain) /\ hop[req[p].cursor] = None
  <2>1. req' = [req EXCEPT ![p].at = "upsert"]
    BY <1>5 DEF WouldCycle, Goto
  <2>2. PICK r : r = [req[p] EXCEPT !.at = "upsert"]
    OBVIOUS
  <2>3. /\ r \in RedirectRequest /\ r.source = req[p].source /\ r.destination = req[p].destination
        /\ r.seen = req[p].seen /\ r.cursor = req[p].cursor
    BY <1>2, <2>2 DEF RedirectRequest
  <2>4. req' = [req EXCEPT ![p] = r]
    BY <2>1, <2>2
  <2>5. ASSUME unchecked = FALSE
        PROVE  WalkSound(r, hop)
    <3>1. WalkSound(req[p], hop)
      BY <1>2, <2>5 DEF RedirectInv
    <3>2. Walked(r) = Walked(req[p])
      BY <2>3 DEF Walked
    <3> QED
      BY <1>5, <2>3, <3>1, <3>2 DEF WalkSound
  <2> QED
    BY <1>3, <2>3, <2>4, <2>5
<1>6. CASE ~(req[p].cursor \in req[p].seen \/ req[p].reads = MaxChain) /\ hop[req[p].cursor] # None
  <2>1. req' = [req EXCEPT ![p].seen = req[p].seen \cup {req[p].cursor}, ![p].cursor = hop[req[p].cursor],
                           ![p].reads = req[p].reads + 1]
    BY <1>6 DEF WouldCycle
  <2>2. PICK r : r = [req[p] EXCEPT !.seen = req[p].seen \cup {req[p].cursor}, !.cursor = hop[req[p].cursor],
                                    !.reads = req[p].reads + 1]
    OBVIOUS
  <2>3. req[p].cursor \in Paths /\ hop[req[p].cursor] \in Paths
    BY <1>2, <1>6 DEF RedirectInv, RedirectRequest
  <2>4. req[p].reads + 1 \in 0 .. MaxChain
    <3>1. req[p].reads \in 0 .. MaxChain
      BY <1>2 DEF RedirectRequest
    <3> QED
      BY <1>6, <3>1, SeoAssumption
  <2>5. /\ r \in RedirectRequest /\ r.source = req[p].source /\ r.destination = req[p].destination
        /\ r.seen = req[p].seen \cup {req[p].cursor} /\ r.cursor = hop[req[p].cursor]
        /\ r.at = req[p].at
    BY <1>2, <2>2, <2>3, <2>4 DEF RedirectRequest
  <2>6. req' = [req EXCEPT ![p] = r]
    BY <2>1, <2>2
  <2>7. ASSUME unchecked = FALSE
        PROVE  WalkSound(r, hop)
    <3>1. WalkSound(req[p], hop)
      BY <1>2, <2>7 DEF RedirectInv
    <3>2. req[p].cursor # req[p].source
      BY <1>6, <3>1 DEF WalkSound
    <3>3. Walked(r) = Walked(req[p]) \cup {hop[req[p].cursor]}
          /\ r.seen \ {r.source} = (req[p].seen \ {req[p].source}) \cup {req[p].cursor}
      BY <2>5, <3>2 DEF Walked
    <3> QED
      BY <1>1, <2>5, <3>1, <3>3 DEF WalkSound
  <2> QED
    BY <1>3, <2>5, <2>6, <2>7
<1> QED
  BY <1>4, <1>5, <1>6

LEMMA UpsertRedirectKeeps ==
  ASSUME RedirectInv, NEW p \in Procs, UpsertRedirect(p)
  PROVE  RedirectInv'
<1>1. Running(p, "redirect") /\ req[p].at = "upsert" /\ Done(p) /\ UNCHANGED unchecked
      /\ hop' = [hop EXCEPT ![req[p].source] = req[p].destination]
  BY DEF UpsertRedirect, At
<1>2. p \in Creating /\ req[p] \in RedirectRequest
  BY <1>1 DEF RedirectInv, Creating
<1>3. hop' \in [Paths -> Paths \cup {None}]
  BY <1>1, <1>2 DEF RedirectInv, RedirectRequest
<1>4. unchecked = FALSE => \A s \in Paths : LeadsAway(s, hop')
  BY <1>1, <1>2, UpsertLeadsAway DEF RedirectInv
<1> QED
  BY <1>1, <1>2, <1>3, <1>4, CreationEnds

LEMMA DeactivateKeeps ==
  ASSUME RedirectInv, NEW s \in Paths, DeactivateRedirect(s)
  PROVE  RedirectInv'
<1>1. hop' = [hop EXCEPT ![s] = None] /\ UNCHANGED <<req, unchecked>>
  BY DEF DeactivateRedirect
<1>2. hop' \in [Paths -> Paths \cup {None}] /\ \A x \in Paths : hop'[x] = None \/ hop'[x] = hop[x]
  BY <1>1 DEF RedirectInv
<1>3. Creating' = Creating
  BY <1>1 DEF Creating, Running
<1>4. ASSUME NEW x \in Paths, LeadsAway(x, hop)
      PROVE  LeadsAway(x, hop')
  <2>1. PICK C \in SUBSET Paths : x \notin C /\ hop[x] \in C \cup {None} /\ Closed(C, hop)
    BY <1>4 DEF LeadsAway
  <2>2. Closed(C, hop') /\ hop'[x] \in C \cup {None}
    BY <1>2, <2>1 DEF Closed
  <2> QED
    BY <2>1, <2>2 DEF LeadsAway
<1>5. ASSUME NEW p \in Creating, WalkSound(req[p], hop)
      PROVE  WalkSound(req[p], hop')
  <2>1. req[p] \in RedirectRequest
    BY DEF RedirectInv
  <2>2. req[p].cursor \in Paths /\ req[p].seen \subseteq Paths
    BY <2>1 DEF RedirectRequest
  <2> QED
    BY <1>1, <1>2, <1>5, <2>2 DEF WalkSound, Walked
<1> QED
  BY <1>1, <1>2, <1>3, <1>4, <1>5 DEF RedirectInv

LEMMA RedirectKeeps ==
  ASSUME RedirectInv, RedirectNext
  PROVE  RedirectInv'
<1>1. ASSUME NEW s \in Paths, NEW d \in Paths, ContentRedirect(s, d)
      PROVE  RedirectInv'
  <2>1. hop' = [hop EXCEPT ![s] = d] /\ unchecked' = TRUE /\ UNCHANGED req
    BY <1>1 DEF ContentRedirect
  <2>2. Creating' = Creating /\ hop' \in [Paths -> Paths \cup {None}]
    BY <2>1 DEF Creating, Running, RedirectInv
  <2> QED
    BY <2>1, <2>2 DEF RedirectInv
<1> QED
  BY <1>1, CreateRedirectKeeps, WouldCycleKeeps, UpsertRedirectKeeps, DeactivateKeeps DEF RedirectNext

-----------------------------------------------------------------------------
(***************************************************************************)
(* Search engines: the sitemap.  The rows of the four tables stand one     *)
(* behind the other; a row has the place of the rows before its table and  *)
(* its number in the table.                                                *)
(***************************************************************************)

RowsBefore(c, k) ==
  IF k = 1 THEN 0 ELSE IF k = 2 THEN c[1] ELSE IF k = 3 THEN c[1] + c[2] ELSE c[1] + c[2] + c[3]

TableRows == (1 .. 4) \X (Nat \ {0})
RowsUpto(c, n) == {r \in TableRows : r[2] <= c[r[1]] /\ RowsBefore(c, r[1]) + r[2] <= n}

\* The parts hold the rows up to the place that the loop has come to, each once.
SitemapInv ==
  /\ sitemap = [counts |-> sitemap.counts, size |-> sitemap.size, part |-> sitemap.part,
                kind |-> sitemap.kind, cursor |-> sitemap.cursor, entries |-> sitemap.entries,
                twice |-> sitemap.twice]
  /\ sitemap.counts \in [1 .. 4 -> Nat] /\ sitemap.size \in Nat \ {0}
  /\ sitemap.part \in Nat \ {0} /\ sitemap.kind \in 1 .. 4
  /\ sitemap.cursor = RowsBefore(sitemap.counts, sitemap.kind)
  /\ sitemap.cursor < (sitemap.part - 1) * sitemap.size + sitemap.size
  /\ sitemap.twice = {}
  /\ sitemap.entries =
       RowsUpto(sitemap.counts, Greatest((sitemap.part - 1) * sitemap.size, sitemap.cursor))

LEMMA SitemapInitial ==
  ASSUME SeoInit
  PROVE  SitemapInv
<1> DEFINE of(S) == IF focus = "seo sitemap" THEN S ELSE {CHOOSE x \in S : TRUE}
<1>1. PICK c \in of([1 .. 4 -> KindCounts]), z \in of(ChunkSizes) : sitemap = SitemapStart(c, z)
  BY DEF SeoInit
<1>2. [1 .. 4 -> KindCounts] # {}
  <2>1. PICK n : n \in KindCounts
    BY SeoAssumption
  <2>2. [k \in 1 .. 4 |-> n] \in [1 .. 4 -> KindCounts]
    BY <2>1
  <2> QED
    BY <2>2
<1>3. (CHOOSE x \in [1 .. 4 -> KindCounts] : TRUE) \in [1 .. 4 -> KindCounts]
  BY <1>2
<1>4. (CHOOSE x \in ChunkSizes : TRUE) \in ChunkSizes
  BY SeoAssumption
<1>5. c \in [1 .. 4 -> Nat]
  <2>1. c \in [1 .. 4 -> KindCounts]
    BY <1>3
  <2> QED
    BY <2>1, SeoAssumption
<1>6. z \in Nat \ {0}
  BY <1>4, SeoAssumption
<1> HIDE DEF of
<1>7. sitemap = [counts |-> c, size |-> z, part |-> 1, kind |-> 1, cursor |-> 0, entries |-> {},
                 twice |-> {}]
  BY <1>1 DEF SitemapStart
<1>8. (1 - 1) * z = 0 /\ Greatest(0, 0) = 0 /\ 0 < 0 + z
  BY <1>6 DEF Greatest
<1>9. RowsUpto(c, 0) = {}
  <2> SUFFICES ASSUME NEW r \in RowsUpto(c, 0)
               PROVE  FALSE
    OBVIOUS
  <2>1. r[1] \in 1 .. 4 /\ r[2] \in Nat \ {0} /\ RowsBefore(c, r[1]) + r[2] <= 0
    BY DEF RowsUpto, TableRows
  <2>2. RowsBefore(c, r[1]) \in Nat
    BY <1>5, <2>1 DEF RowsBefore
  <2> QED
    BY <2>1, <2>2
<1> QED
  BY <1>5, <1>6, <1>7, <1>8, <1>9 DEF SitemapInv, RowsBefore

\* The rows before a table are naturals, and a later table begins behind an earlier one.
LEMMA TablesInOrder ==
  ASSUME NEW c \in [1 .. 4 -> Nat], NEW k \in 1 .. 4
  PROVE  /\ RowsBefore(c, k) \in Nat /\ c[k] \in Nat
         /\ \A j \in 1 .. 4 : j > k => RowsBefore(c, j) >= RowsBefore(c, k) + c[k]
<1>1. c[1] \in Nat /\ c[2] \in Nat /\ c[3] \in Nat /\ c[4] \in Nat
  OBVIOUS
<1>2. k = 1 \/ k = 2 \/ k = 3 \/ k = 4
  OBVIOUS
<1>3. ASSUME NEW j \in 1 .. 4, j > k
      PROVE  RowsBefore(c, j) >= RowsBefore(c, k) + c[k]
  <2>1. j = 1 \/ j = 2 \/ j = 3 \/ j = 4
    OBVIOUS
  <2> QED
    BY <1>1, <1>2, <1>3, <2>1 DEF RowsBefore
<1>4. RowsBefore(c, k) \in Nat
  BY <1>1, <1>2 DEF RowsBefore
<1> QED
  BY <1>3, <1>4

\* A round adds the rows of its kind between two places.
RowsBetween(c, k, a, b) ==
  IF a < b THEN {<<k, i>> : i \in (a - RowsBefore(c, k)) + 1 .. b - RowsBefore(c, k)} ELSE {}

LEMMA RoundAddsRows ==
  ASSUME NEW c \in [1 .. 4 -> Nat], NEW k \in 1 .. 4, NEW a \in Nat, NEW b \in Nat,
         RowsBefore(c, k) <= a, b <= RowsBefore(c, k) + c[k],
         NEW rows, rows = RowsBetween(c, k, a, b)
  PROVE  rows \cap RowsUpto(c, a) = {} /\ RowsUpto(c, a) \cup rows = RowsUpto(c, Greatest(a, b))
<1>0. PICK cur \in Nat : cur = RowsBefore(c, k)
  BY TablesInOrder
<1>1. c[k] \in Nat /\ cur <= a /\ b <= cur + c[k]
  BY <1>0
<1>2. rows = IF a < b THEN {<<k, i>> : i \in (a - cur) + 1 .. b - cur} ELSE {}
  BY <1>0 DEF RowsBetween
<1>3. ASSUME NEW r \in rows
      PROVE  /\ r \in TableRows /\ r[1] = k /\ r[2] <= c[k] /\ cur + r[2] <= b
             /\ a < cur + r[2] /\ a < b
  <2>1. a < b
    BY <1>2
  <2>2. PICK i \in (a - cur) + 1 .. b - cur : r = <<k, i>>
    BY <1>2, <2>1
  <2>3. a - cur \in Nat /\ b - cur \in Nat
    BY <1>1, <2>1
  <2>4. i \in Nat \ {0} /\ (a - cur) + 1 <= i /\ i <= b - cur
    BY <2>3
  <2>5. cur + i <= b /\ a < cur + i /\ i <= c[k]
    BY <1>1, <2>3, <2>4
  <2> QED
    BY <2>1, <2>2, <2>4, <2>5 DEF TableRows
<1>4. ASSUME NEW r \in RowsUpto(c, Greatest(a, b)), r \notin RowsUpto(c, a)
      PROVE  r \in rows
  <2>1. PICK j \in 1 .. 4, i \in Nat \ {0} : r = <<j, i>>
    BY DEF RowsUpto, TableRows
  <2>2. i <= c[j] /\ RowsBefore(c, j) + i <= Greatest(a, b) /\ ~(RowsBefore(c, j) + i <= a)
        /\ r \in TableRows
    BY <1>4, <2>1 DEF RowsUpto, TableRows
  <2>3. RowsBefore(c, j) \in Nat /\ c[j] \in Nat
    BY TablesInOrder
  <2>4. a < b /\ RowsBefore(c, j) + i <= b /\ a < RowsBefore(c, j) + i
    BY <2>2, <2>3 DEF Greatest
  <2>5. ~(j > k)
    <3>1. SUFFICES ASSUME j > k
                   PROVE  FALSE
      OBVIOUS
    <3>2. RowsBefore(c, j) >= cur + c[k]
      BY <1>0, <3>1, TablesInOrder
    <3> QED
      BY <1>1, <2>3, <2>4, <3>2
  <2>6. ~(k > j)
    <3>1. SUFFICES ASSUME k > j
                   PROVE  FALSE
      OBVIOUS
    <3>2. cur >= RowsBefore(c, j) + c[j]
      BY <1>0, <3>1, TablesInOrder
    <3> QED
      BY <1>1, <2>2, <2>3, <2>4, <3>2
  <2>7. j = k
    BY <2>5, <2>6
  <2>8. i \in (a - cur) + 1 .. b - cur
    BY <1>0, <1>1, <2>4, <2>7
  <2> QED
    BY <1>2, <2>1, <2>4, <2>7, <2>8
<1>5. ASSUME NEW r \in rows
      PROVE  r \in RowsUpto(c, Greatest(a, b)) /\ r \notin RowsUpto(c, a)
  <2>1. Greatest(a, b) = b
    BY <1>3 DEF Greatest
  <2>2. r[2] \in Nat
    BY <1>3 DEF TableRows
  <2> QED
    BY <1>0, <1>3, <2>1, <2>2 DEF RowsUpto
<1>6. ASSUME NEW r \in RowsUpto(c, a)
      PROVE  r \in RowsUpto(c, Greatest(a, b))
  <2>1. r[1] \in 1 .. 4 /\ r[2] \in Nat /\ RowsBefore(c, r[1]) + r[2] <= a
    BY DEF RowsUpto, TableRows
  <2>2. RowsBefore(c, r[1]) \in Nat
    BY <2>1, TablesInOrder
  <2>3. RowsBefore(c, r[1]) + r[2] <= Greatest(a, b)
    BY <2>1, <2>2 DEF Greatest
  <2> QED
    BY <2>3 DEF RowsUpto
<1> QED
  BY <1>4, <1>5, <1>6

\* All rows of the four tables are as many as the tables count.
LEMMA AllRowsCounted ==
  ASSUME NEW c \in [1 .. 4 -> Nat], NEW n \in Nat, n >= c[1] + c[2] + c[3] + c[4]
  PROVE  Cardinality(RowsUpto(c, n)) = c[1] + c[2] + c[3] + c[4]
<1>0. c[1] \in Nat /\ c[2] \in Nat /\ c[3] \in Nat /\ c[4] \in Nat
  OBVIOUS
<1>1. PICK t \in Nat : t = c[1] + c[2] + c[3] + c[4]
  BY <1>0
<1> DEFINE S == RowsUpto(c, n)
           place == [r \in S |-> RowsBefore(c, r[1]) + r[2]]
<1>2. ASSUME NEW r \in S
      PROVE  /\ r[1] \in 1 .. 4 /\ r[2] \in Nat \ {0} /\ r = <<r[1], r[2]>> /\ r[2] <= c[r[1]]
             /\ RowsBefore(c, r[1]) \in Nat /\ place[r] = RowsBefore(c, r[1]) + r[2]
  BY TablesInOrder DEF RowsUpto, TableRows
<1>3. ASSUME NEW r \in S
      PROVE  place[r] \in 1 .. t
  <2>1. r[1] = 1 \/ r[1] = 2 \/ r[1] = 3 \/ r[1] = 4
    BY <1>2
  <2>2. RowsBefore(c, r[1]) + c[r[1]] <= t
    BY <1>0, <1>1, <2>1 DEF RowsBefore
  <2>3. c[r[1]] \in Nat
    BY <1>2
  <2> QED
    BY <1>1, <1>2, <2>2, <2>3
<1>4. ASSUME NEW r \in S, NEW s \in S, place[r] = place[s]
      PROVE  r = s
  <2> HIDE DEF S, place
  <2>1. ~(r[1] > s[1])
    <3>1. SUFFICES ASSUME r[1] > s[1]
                   PROVE  FALSE
      OBVIOUS
    <3>2. RowsBefore(c, r[1]) >= RowsBefore(c, s[1]) + c[s[1]] /\ c[s[1]] \in Nat
      BY <1>2, <3>1, TablesInOrder
    <3> QED
      BY <1>2, <1>4, <3>2
  <2>2. ~(s[1] > r[1])
    <3>1. SUFFICES ASSUME s[1] > r[1]
                   PROVE  FALSE
      OBVIOUS
    <3>2. RowsBefore(c, s[1]) >= RowsBefore(c, r[1]) + c[r[1]] /\ c[r[1]] \in Nat
      BY <1>2, <3>1, TablesInOrder
    <3> QED
      BY <1>2, <1>4, <3>2
  <2>3. r[1] = s[1]
    BY <1>2, <2>1, <2>2
  <2>4. r[2] = s[2]
    BY <1>2, <1>4, <2>3
  <2> QED
    BY <1>2, <2>3, <2>4
<1>5. ASSUME NEW m \in 1 .. t
      PROVE  \E r \in S : place[r] = m
  <2>0. m \in Nat /\ 1 <= m /\ m <= t
    BY <1>1
  <2>1. ASSUME NEW k \in 1 .. 4, RowsBefore(c, k) < m, m <= RowsBefore(c, k) + c[k]
        PROVE  \E r \in S : place[r] = m
    <3>1. RowsBefore(c, k) \in Nat /\ c[k] \in Nat
      BY TablesInOrder
    <3>2. PICK i : i = m - RowsBefore(c, k)
      OBVIOUS
    <3>3. i \in Nat \ {0} /\ i <= c[k] /\ RowsBefore(c, k) + i = m /\ m <= n
      BY <1>0, <1>1, <2>0, <2>1, <3>1, <3>2
    <3>4. <<k, i>> \in TableRows
      BY <3>3 DEF TableRows
    <3>5. <<k, i>> \in S
      BY <3>3, <3>4 DEF RowsUpto
    <3> QED
      BY <3>3, <3>5
  <2>2. RowsBefore(c, 1) = 0 /\ RowsBefore(c, 2) = c[1] /\ RowsBefore(c, 3) = c[1] + c[2]
        /\ RowsBefore(c, 4) = c[1] + c[2] + c[3]
    BY DEF RowsBefore
  <2> HIDE DEF S, place
  <2>3. CASE m <= c[1]
    BY <1>0, <2>0, <2>1, <2>2, <2>3
  <2>4. CASE c[1] < m /\ m <= c[1] + c[2]
    BY <1>0, <2>0, <2>1, <2>2, <2>4
  <2>5. CASE c[1] + c[2] < m /\ m <= c[1] + c[2] + c[3]
    BY <1>0, <2>0, <2>1, <2>2, <2>5
  <2>6. CASE c[1] + c[2] + c[3] < m
    BY <1>0, <1>1, <2>0, <2>1, <2>2, <2>6
  <2> QED
    BY <1>0, <2>0, <2>3, <2>4, <2>5, <2>6
<1>6. place \in [S -> 1 .. t]
  BY <1>3
<1> HIDE DEF S, place
<1>7. place \in Injection(S, 1 .. t) /\ place \in Surjection(S, 1 .. t)
  BY <1>4, <1>5, <1>6 DEF Injection, IsInjective, Surjection
<1>8. IsFiniteSet(1 .. t) /\ Cardinality(1 .. t) = t
  BY <1>1, FS_Interval
<1>9. Cardinality(S) = t
  BY <1>7, <1>8, FS_Injection
<1> QED
  BY <1>1, <1>9 DEF S

\* The parts that the index tells of are enough for all rows.
LEMMA PartsSuffice ==
  ASSUME NEW t \in Nat, NEW z \in Nat \ {0}, NEW part \in Nat, part > (t + z - 1) \div z
  PROVE  (part - 1) * z >= t
<1>1. PICK x \in Nat : x = t + z - 1
  OBVIOUS
<1>2. PICK q \in Nat : q = x \div z /\ x < q * z + z
  OBVIOUS
<1>3. PICK d \in Nat : part - 1 = q + d
  <2>1. part > q
    BY <1>1, <1>2
  <2>2. part - 1 - q \in Nat /\ part - 1 = q + (part - 1 - q)
    BY <2>1
  <2> QED
    BY <2>2
<1>4. (part - 1) * z = q * z + d * z
  BY <1>3
<1>5. q * z \in Nat /\ d * z \in Nat
  OBVIOUS
<1> QED
  BY <1>1, <1>2, <1>4, <1>5

LEMMA SitemapImplies ==
  ASSUME SitemapInv
  PROVE  SitemapComplete
<1>1. PICK c \in [1 .. 4 -> Nat], z \in Nat \ {0} : c = sitemap.counts /\ z = sitemap.size
  BY DEF SitemapInv
<1>2. c[1] \in Nat /\ c[2] \in Nat /\ c[3] \in Nat /\ c[4] \in Nat
  OBVIOUS
<1>3. Total \in Nat /\ Total = c[1] + c[2] + c[3] + c[4]
  BY <1>1, <1>2 DEF Total
<1>4. ASSUME sitemap.part > Parts
      PROVE  Cardinality(sitemap.entries) = Total
  <2>1. sitemap.part \in Nat /\ sitemap.cursor \in Nat
    BY <1>1, TablesInOrder DEF SitemapInv
  <2>2. (sitemap.part - 1) * z >= Total
    BY <1>1, <1>3, <1>4, <2>1, PartsSuffice DEF Parts
  <2>3. PICK n : n = Greatest((sitemap.part - 1) * z, sitemap.cursor)
    OBVIOUS
  <2>4. (sitemap.part - 1) * z \in Nat
    BY <2>1 DEF SitemapInv
  <2>5. n \in Nat /\ n >= Total
    BY <1>3, <2>1, <2>2, <2>3, <2>4 DEF Greatest
  <2>6. sitemap.entries = RowsUpto(c, n)
    BY <1>1, <2>3 DEF SitemapInv
  <2> QED
    BY <1>3, <2>5, <2>6, AllRowsCounted
<1> QED
  BY <1>4 DEF SitemapComplete, SitemapInv

LEMMA SitemapKeeps ==
  ASSUME SitemapInv, PageOfKind
  PROVE  SitemapInv'
<1>1. PICK c \in [1 .. 4 -> Nat], z \in Nat \ {0}, k \in 1 .. 4, u \in Nat \ {0} :
        c = sitemap.counts /\ z = sitemap.size /\ k = sitemap.kind /\ u = sitemap.part
  BY DEF SitemapInv
<1>2. PICK cur \in Nat : cur = sitemap.cursor /\ cur = RowsBefore(c, k)
  BY <1>1, TablesInOrder DEF SitemapInv
<1>3. PICK start \in Nat : start = (u - 1) * z
  OBVIOUS
<1>4. PICK end \in Nat : end = start + z
  OBVIOUS
<1>5. c[k] \in Nat /\ cur < end /\ start < end
  BY <1>1, <1>2, <1>3, <1>4 DEF SitemapInv
<1>6. PICK te \in Nat : te = cur + c[k]
  BY <1>5
<1>7. PICK a \in Nat : a = Greatest(start, cur)
  BY DEF Greatest
<1>8. PICK b \in Nat : b = Least(end, te)
  BY DEF Least
<1>9. cur <= a /\ start <= a /\ (a = start \/ a = cur) /\ b <= te /\ b <= end /\ (b = end \/ b = te)
  BY <1>7, <1>8 DEF Greatest, Least
<1>10. a < b => Least((a - cur) + b - a, c[k]) = b - cur
  BY <1>5, <1>6, <1>9 DEF Least
<1>11. PICK rows : rows = IF a < b THEN {<<k, i>> : i \in (a - cur) + 1 .. b - cur} ELSE {}
  OBVIOUS
<1>12. PICK ends \in BOOLEAN : /\ ends = TRUE => te >= end \/ k = 4
                               /\ ends = FALSE => te < end /\ k # 4
  <2>1. CASE te >= end \/ k = 4
    BY <2>1
  <2>2. CASE te < end /\ k # 4
    BY <2>2
  <2>3. (te >= end \/ k = 4) \/ (te < end /\ k # 4)
    BY <1>4, <1>6
  <2> QED
    BY <2>1, <2>2, <2>3
<1>13. sitemap' = [sitemap EXCEPT !.entries = sitemap.entries \cup rows,
                     !.twice = sitemap.twice \cup (sitemap.entries \cap rows),
                     !.kind = IF ends THEN 1 ELSE k + 1, !.cursor = IF ends THEN 0 ELSE te,
                     !.part = IF ends THEN u + 1 ELSE u]
  <2> DEFINE st == (sitemap.part - 1) * sitemap.size
             en == st + sitemap.size
             ty == sitemap.cursor + sitemap.counts[sitemap.kind]
             oS == Greatest(st, sitemap.cursor)
             oE == Least(en, ty)
             sk == oS - sitemap.cursor
             la == Least(sk + oE - oS, sitemap.counts[sitemap.kind])
             added == IF oS < oE THEN {<<sitemap.kind, i>> : i \in sk + 1 .. la} ELSE {}
  <2>1. sitemap' = [sitemap EXCEPT !.entries = @ \cup added, !.twice = @ \cup (sitemap.entries \cap added),
                      !.kind = IF ty >= en \/ sitemap.kind = 4 THEN 1 ELSE @ + 1,
                      !.cursor = IF ty >= en \/ sitemap.kind = 4 THEN 0 ELSE ty,
                      !.part = IF ty >= en \/ sitemap.kind = 4 THEN @ + 1 ELSE @]
    BY DEF PageOfKind, Skipped
  <2>2. st = start /\ en = end /\ ty = te
    BY <1>1, <1>2, <1>3, <1>4, <1>6
  <2>3. oS = a /\ oE = b
    BY <1>2, <1>7, <1>8, <2>2
  <2>4. sk = a - cur
    BY <1>2, <2>3
  <2> HIDE DEF sk, oS, oE
  <2>5. la = Least((a - cur) + b - a, c[k])
    BY <1>1, <2>3, <2>4
  <2> HIDE DEF la, st, en, ty
  <2>6. added = rows
    BY <1>1, <1>10, <1>11, <2>3, <2>4, <2>5
  <2> HIDE DEF added
  <2>7. CASE ends = TRUE
    <3>1. ty >= en \/ sitemap.kind = 4
      BY <1>1, <1>12, <2>2, <2>7
    <3> QED
      BY <1>1, <2>1, <2>6, <2>7, <3>1
  <2>8. CASE ends = FALSE
    <3>1. ~(ty >= en \/ sitemap.kind = 4)
      BY <1>1, <1>4, <1>6, <1>12, <2>2, <2>8
    <3> QED
      BY <1>1, <2>1, <2>2, <2>6, <2>8, <3>1
  <2> QED
    BY <2>7, <2>8
<1>14. /\ sitemap'.counts = c /\ sitemap'.size = z
       /\ sitemap'.entries = sitemap.entries \cup rows
       /\ sitemap'.twice = sitemap.twice \cup (sitemap.entries \cap rows)
       /\ sitemap'.kind = (IF ends THEN 1 ELSE k + 1) /\ sitemap'.cursor = (IF ends THEN 0 ELSE te)
       /\ sitemap'.part = (IF ends THEN u + 1 ELSE u)
       /\ sitemap' = [counts |-> sitemap'.counts, size |-> sitemap'.size, part |-> sitemap'.part,
                      kind |-> sitemap'.kind, cursor |-> sitemap'.cursor, entries |-> sitemap'.entries,
                      twice |-> sitemap'.twice]
  BY <1>1, <1>13 DEF SitemapInv
<1>15. sitemap.entries = RowsUpto(c, a) /\ sitemap.twice = {}
  BY <1>1, <1>2, <1>3, <1>7 DEF SitemapInv
<1>16. rows \cap RowsUpto(c, a) = {} /\ RowsUpto(c, a) \cup rows = RowsUpto(c, Greatest(a, b))
  <2>1. rows = RowsBetween(c, k, a, b)
    BY <1>2, <1>11 DEF RowsBetween
  <2>2. RowsBefore(c, k) <= a /\ b <= RowsBefore(c, k) + c[k]
    BY <1>2, <1>6, <1>9
  <2> QED
    BY <2>1, <2>2, RoundAddsRows
<1>17. sitemap'.twice = {} /\ sitemap'.entries = RowsUpto(c, Greatest(a, b))
  BY <1>14, <1>15, <1>16
<1>18. CASE ends = FALSE
  <2>1. te < end /\ k # 4 /\ b = te
    BY <1>6, <1>4, <1>9, <1>12, <1>18 DEF Least
  <2>2. k + 1 \in 1 .. 4 /\ RowsBefore(c, k + 1) = te
    <3>1. k = 1 \/ k = 2 \/ k = 3
      BY <2>1
    <3> QED
      BY <1>2, <1>6, <3>1 DEF RowsBefore
  <2>3. Greatest(a, b) = Greatest(start, te)
    BY <1>5, <1>6, <1>9, <2>1 DEF Greatest
  <2> QED
    BY <1>3, <1>4, <1>14, <1>17, <1>18, <2>1, <2>2, <2>3 DEF SitemapInv
<1>19. CASE ends = TRUE
  <2>1. sitemap'.kind = 1 /\ sitemap'.cursor = 0 /\ sitemap'.part = u + 1
    BY <1>14, <1>19
  <2>2. (u + 1) - 1 = u /\ u * z = end /\ end >= 0
    BY <1>3, <1>4
  <2>3. Greatest(end, 0) = end
    BY <2>2 DEF Greatest
  <2>4. RowsUpto(c, Greatest(a, b)) = RowsUpto(c, end)
    <3>1. CASE te >= end
      <4>1. b = end /\ Greatest(a, b) = end
        BY <1>5, <1>8, <1>9, <3>1 DEF Least, Greatest
      <4> QED
        BY <4>1
    <3>2. CASE te < end /\ k = 4
      <4>1. b = te /\ Greatest(a, b) >= te /\ Greatest(a, b) \in Nat
        BY <1>8, <1>9, <3>2 DEF Least, Greatest
      <4>2. ASSUME NEW r \in TableRows, r[2] <= c[r[1]]
            PROVE  RowsBefore(c, r[1]) + r[2] <= te
        <5>1. r[1] \in 1 .. 4 /\ r[2] \in Nat
          BY DEF TableRows
        <5>2. RowsBefore(c, r[1]) \in Nat /\ c[r[1]] \in Nat
          BY <5>1, TablesInOrder
        <5>3. RowsBefore(c, r[1]) + c[r[1]] <= te
          <6>1. CASE r[1] = 4
            BY <1>2, <1>5, <1>6, <3>2, <6>1
          <6>2. CASE r[1] # 4
            <7>1. k > r[1]
              BY <3>2, <5>1, <6>2
            <7>2. cur >= RowsBefore(c, r[1]) + c[r[1]]
              BY <1>2, <5>1, <7>1, TablesInOrder
            <7> QED
              BY <1>5, <1>6, <5>2, <7>2
          <6> QED
            BY <6>1, <6>2
        <5> QED
          BY <4>2, <5>1, <5>2, <5>3
      <4>3. ASSUME NEW r \in TableRows, r[2] <= c[r[1]]
            PROVE  RowsBefore(c, r[1]) + r[2] <= Greatest(a, b) /\ RowsBefore(c, r[1]) + r[2] <= end
        <5>1. RowsBefore(c, r[1]) + r[2] \in Nat
          BY TablesInOrder DEF TableRows
        <5>2. RowsBefore(c, r[1]) + r[2] <= te
          BY <4>2, <4>3
        <5> QED
          BY <3>2, <4>1, <5>1, <5>2
      <4> QED
        BY <4>3 DEF RowsUpto
    <3>3. te >= end \/ (te < end /\ k = 4)
      BY <1>12, <1>19
    <3> QED
      BY <3>1, <3>2, <3>3
  <2>5. RowsBefore(c, 1) = 0 /\ 0 < u * z + z
    BY <2>2 DEF RowsBefore
  <2> QED
    BY <1>14, <1>17, <2>1, <2>2, <2>3, <2>4, <2>5 DEF SitemapInv
<1> QED
  BY <1>18, <1>19

-----------------------------------------------------------------------------
\* The components that check the focus themselves.
LEMMA StepsOfFocus ==
  /\ SalesWorkNext => focus \in {"sales stages", "sales viewings", "sales activities"}
  /\ AgentManagementNext =>
       focus \in {"agent assignment", "agent specialization", "agent availability", "agent target"}
  /\ PropertyDetailsNext =>
       focus \in {"property row", "property media", "property order", "property document"}
  /\ PropertyMatchingNext => focus \in {"matching preference", "matching rule"}
  /\ ContentNext => focus \in {"content article", "content views"}
  /\ SeoNext => focus \in {"seo redirects", "seo sitemap"}
  /\ ContentResourcesNext => focus \in {"content menus", "content likes", "content comments"}
BY DEF SalesWorkNext, AgentManagementNext, PropertyDetailsNext, PropertyMatchingNext, ContentNext,
   SeoNext, ContentResourcesNext


(***************************************************************************)
(* Recommendations and content: the composition.                           *)
(***************************************************************************)

RedirectsLeadAway ==
  hop \in [Paths -> Paths \cup {None}] /\ \A s \in Paths : LeadsAway(s, hop)

LEMMA MatchingSteps ==
  ASSUME PropertyMatchingNext
  PROVE  /\ focus = "matching preference" => PreferenceNext
         /\ focus # "matching preference" => UNCHANGED <<preference, recommendation>>
         /\ focus = "matching rule" => RuleNext
         /\ focus # "matching rule" => UNCHANGED rule
<1>1. PreferenceNext => UNCHANGED rule
  BY DEF PreferenceNext, CreatePreference, PreferenceRead, UpdatePreference, ArchivePreference,
     RestorePreference, PreferenceWrite, GenerateRead, GenerateNow, SaveRecommendation,
     MatchingAbandon, matchingVars
<1>2. RuleNext => UNCHANGED <<preference, recommendation>>
  BY DEF RuleNext, CreateRule, RuleRead, UpdateRule, ActivateRule, MatchingAbandon, matchingVars
<1> QED
  BY <1>1, <1>2 DEF PropertyMatchingNext

LEMMA ContentSteps ==
  ASSUME ContentNext
  PROVE  /\ focus = "content article" => ArticleNext
         /\ focus # "content article" => UNCHANGED <<revision, texts, former>>
         /\ focus = "content views" => ViewsNext
<1>1. ViewsNext => UNCHANGED <<revision, texts, former>>
  BY DEF ViewsNext, ViewArticle, CountView, ContentAbandon, contentVars
<1> QED
  BY <1>1 DEF ContentNext

LEMMA SeoSteps ==
  ASSUME SeoNext
  PROVE  /\ focus = "seo redirects" => RedirectNext
         /\ focus # "seo redirects" => UNCHANGED hop
         /\ focus = "seo sitemap" => PageOfKind
         /\ focus # "seo sitemap" => UNCHANGED sitemap
<1>1. RedirectNext => UNCHANGED sitemap
  BY DEF RedirectNext, ContentRedirect, CreateRedirect, WouldCycle, UpsertRedirect,
     DeactivateRedirect, seoVars
<1>2. PageOfKind => UNCHANGED hop
  BY DEF PageOfKind
<1> QED
  BY <1>1, <1>2 DEF SeoNext

LEMMA ResourceSteps ==
  ASSUME ContentResourcesNext
  PROVE  /\ focus = "content menus" => MenuNext
         /\ focus # "content menus" => UNCHANGED menuItems
         /\ focus = "content likes" => LikesNext
         /\ focus # "content likes" => UNCHANGED <<likes, likeCount, likesSettled>>
         /\ focus = "content comments" => CommentsNext
         /\ focus # "content comments" => UNCHANGED comment
<1>1. MenuNext => UNCHANGED <<likes, likeCount, likesSettled, comment>>
  BY DEF MenuNext, RenameMenu, DeleteMenu, RestoreMenu, ReorderMenu, CreateMenu, UpdateMenu,
     ReplaceMenuItems, RequestStops, likeVars, commentVars
<1>2. LikesNext => UNCHANGED <<menuItems, comment>>
  BY DEF LikesNext, ToggleRead, ToggleWrite, CountLikes, StoreLikeCount, RequestStops, menuVars,
     likeVars, commentVars
<1>3. CommentsNext => UNCHANGED <<menuItems, likes, likeCount, likesSettled>>
  BY DEF CommentsNext, CommentRead, CreateComment, CountComment, Moderate, RequestStops,
     resourceVars, menuVars, likeVars
<1>4. \/ focus = "content menus" /\ MenuNext
      \/ focus = "content likes" /\ LikesNext
      \/ focus = "content comments" /\ CommentsNext
  BY DEF ContentResourcesNext, MenuNext, LikesNext, CommentsNext
<1> QED
  BY <1>1, <1>2, <1>3, <1>4

LEMMA PreferenceStutters ==
  ASSUME PreferenceInv, UNCHANGED <<req, clock, preference, recommendation>>
  PROVE  PreferenceInv'
BY DEF PreferenceInv, KnowsPreference, IsRecommendation, ComputedFrom, Running

LEMMA ArticleStutters ==
  ASSUME ArticleInv, UNCHANGED <<req, article, revision, texts, redirect, former, overlapped>>
  PROVE  ArticleInv'
<1>1. Updating' = Updating
  BY DEF Updating, Running
<1>2. \A p \in Procs : KnowsArticle(p)'
  BY DEF ArticleInv, ArticleRows, KnowsArticle, Running
<1>3. ArticleRows'
  BY <1>2 DEF ArticleInv, ArticleRows, RevisionOfItsVersion, Body
<1>4. FormerInv'
  BY <1>1 DEF ArticleInv, FormerInv
<1> QED
  BY <1>3, <1>4 DEF ArticleInv

LEMMA MenuStutters ==
  ASSUME MenuInv, UNCHANGED <<req, menu, menuItems, loose, mixed>>
  PROVE  MenuInv'
<1>1. Saving' = Saving
  BY DEF Saving, Running
<1> QED
  BY <1>1 DEF MenuInv, ItemsInPlaces

LEMMA CommentsStutter ==
  ASSUME CommentsInv, UNCHANGED <<req, clock, comment, commentCount>>
  PROVE  CommentsInv'
<1>1. CommentsThere' = CommentsThere
  BY DEF CommentsThere
<1>2. CommentsCounted'
  BY DEF CommentsInv, CommentsCounted, Commenting, Running
<1>3. \A p \in Procs : KnowsComments(p)'
  BY DEF CommentsInv, KnowsComments, Commenting, Running, Spaced
<1> QED
  BY <1>1, <1>2, <1>3 DEF CommentsInv


\* A component that the behaviour is not about keeps the property that it began with.
PublishInv ==
  /\ EngineInv
  /\ IF focus = "matching preference" THEN PreferenceInv ELSE recommendation = {}
  /\ IF focus = "matching rule" THEN RuleInv ELSE OneActiveRule
  /\ IF focus = "content article" THEN ArticleInv ELSE RevisionOfItsVersion /\ former = {}
  /\ (focus = "content views" => ViewsInv)
  /\ IF focus = "content menus" THEN MenuInv ELSE menuItems = <<>>
  /\ IF focus = "content likes" THEN LikesInv ELSE LikesCounted
  /\ IF focus = "content comments" THEN CommentsInv ELSE comment = [c \in Comments |-> None]
  /\ IF focus = "seo redirects" THEN RedirectInv ELSE RedirectsLeadAway
  /\ SitemapInv

LEMMA PublishInitial ==
  ASSUME MCInit
  PROVE  PublishInv
<1>1. EngineInv
  BY EngineInitial DEF MCInit
<1>2. IF focus = "matching preference" THEN PreferenceInv ELSE recommendation = {}
  <2>1. CASE focus = "matching preference"
    BY <2>1, PreferenceInitial DEF MCInit
  <2>2. CASE focus # "matching preference"
    BY <2>2 DEF MCInit, PropertyMatchingInit
  <2> QED
    BY <2>1, <2>2
<1>3. IF focus = "matching rule" THEN RuleInv ELSE OneActiveRule
  <2>1. CASE focus = "matching rule"
    BY <2>1, RuleInitial DEF MCInit
  <2>2. CASE focus # "matching rule"
    BY <2>2 DEF MCInit, PropertyMatchingInit, OneActiveRule
  <2> QED
    BY <2>1, <2>2
<1>4. IF focus = "content article" THEN ArticleInv ELSE RevisionOfItsVersion /\ former = {}
  <2>1. CASE focus = "content article"
    BY <2>1, ArticleInitial DEF MCInit
  <2>2. CASE focus # "content article"
    BY <2>2 DEF MCInit, ContentInit, RevisionOfItsVersion
  <2> QED
    BY <2>1, <2>2
<1>5. (focus = "content views" => ViewsInv)
  BY ViewsInitial DEF MCInit
<1>6. IF focus = "content menus" THEN MenuInv ELSE menuItems = <<>>
  <2>1. CASE focus = "content menus"
    BY <2>1, MenuInitial DEF MCInit
  <2>2. CASE focus # "content menus"
    BY <2>2 DEF MCInit, ContentResourcesInit
  <2> QED
    BY <2>1, <2>2
<1>7. IF focus = "content likes" THEN LikesInv ELSE LikesCounted
  <2>1. CASE focus = "content likes"
    BY <2>1, LikesInitial DEF MCInit
  <2>2. CASE focus # "content likes"
    <3>1. LikesInv
      BY LikesInitial DEF MCInit
    <3> QED
      BY <3>1, LikesImply
  <2> QED
    BY <2>1, <2>2
<1>8. IF focus = "content comments" THEN CommentsInv ELSE comment = [c \in Comments |-> None]
  <2>1. CASE focus = "content comments"
    BY <2>1, CommentsInitial DEF MCInit
  <2>2. CASE focus # "content comments"
    BY <2>2 DEF MCInit, ContentResourcesInit
  <2> QED
    BY <2>1, <2>2
<1>9. IF focus = "seo redirects" THEN RedirectInv ELSE RedirectsLeadAway
  <2>1. CASE focus = "seo redirects"
    BY <2>1, RedirectInitial DEF MCInit
  <2>2. CASE focus # "seo redirects"
    <3>1. RedirectInv /\ unchecked = FALSE
      BY RedirectInitial DEF MCInit, SeoInit
    <3> QED
      BY <3>1 DEF RedirectInv, RedirectsLeadAway
  <2> QED
    BY <2>1, <2>2
<1>10. SitemapInv
  BY SitemapInitial DEF MCInit
<1> QED
  BY <1>1, <1>2, <1>3, <1>4, <1>5, <1>6, <1>7, <1>8, <1>9, <1>10 DEF PublishInv

\* Which component takes a step.
LEMMA OnePublishStep ==
  ASSUME MCNext
  PROVE  /\ UNCHANGED focus
         /\ IF focus = "matching engine" THEN MatchingEngineNext ELSE UNCHANGED engine
         /\ IF focus = "matching preference" THEN PreferenceNext ELSE UNCHANGED <<preference, recommendation>>
         /\ IF focus = "matching rule" THEN RuleNext ELSE UNCHANGED rule
         /\ IF focus = "content article" THEN ArticleNext ELSE UNCHANGED <<revision, texts, former>>
         /\ (focus = "content views" => ViewsNext)
         /\ IF focus = "content menus" THEN MenuNext ELSE UNCHANGED menuItems
         /\ IF focus = "content likes" THEN LikesNext ELSE UNCHANGED <<likes, likeCount, likesSettled>>
         /\ IF focus = "content comments" THEN CommentsNext ELSE UNCHANGED comment
         /\ IF focus = "seo redirects" THEN RedirectNext ELSE UNCHANGED hop
         /\ IF focus = "seo sitemap" THEN PageOfKind ELSE UNCHANGED sitemap
<1>1. UNCHANGED focus
  BY DEF MCNext
<1>2. IF focus = "matching engine" THEN MatchingEngineNext ELSE UNCHANGED engine
  BY StepsOfFocus, FocusesAssumption DEF MCNext, rankingVars, publicVars, engineVars
<1>3. IF focus = "matching preference" THEN PreferenceNext ELSE UNCHANGED <<preference, recommendation>>
  BY StepsOfFocus, FocusesAssumption, MatchingSteps DEF MCNext, rankingVars, publicVars,
     matchingVars
<1>4. IF focus = "matching rule" THEN RuleNext ELSE UNCHANGED rule
  BY StepsOfFocus, FocusesAssumption, MatchingSteps DEF MCNext, rankingVars, publicVars,
     matchingVars
<1>5. IF focus = "content article" THEN ArticleNext ELSE UNCHANGED <<revision, texts, former>>
  BY StepsOfFocus, FocusesAssumption, ContentSteps DEF MCNext, rankingVars, publicVars,
     contentVars
<1>6. (focus = "content views" => ViewsNext)
  BY StepsOfFocus, FocusesAssumption, ContentSteps DEF MCNext, rankingVars, publicVars,
     contentVars
<1>7. IF focus = "content menus" THEN MenuNext ELSE UNCHANGED menuItems
  BY StepsOfFocus, FocusesAssumption, ResourceSteps DEF MCNext, rankingVars, publicVars,
     resourceVars, menuVars
<1>8. IF focus = "content likes" THEN LikesNext ELSE UNCHANGED <<likes, likeCount, likesSettled>>
  BY StepsOfFocus, FocusesAssumption, ResourceSteps DEF MCNext, rankingVars, publicVars,
     resourceVars, likeVars
<1>9. IF focus = "content comments" THEN CommentsNext ELSE UNCHANGED comment
  BY StepsOfFocus, FocusesAssumption, ResourceSteps DEF MCNext, rankingVars, publicVars,
     resourceVars, commentVars
<1>10. IF focus = "seo redirects" THEN RedirectNext ELSE UNCHANGED hop
  BY StepsOfFocus, FocusesAssumption, SeoSteps DEF MCNext, rankingVars, publicVars, seoVars
<1>11. IF focus = "seo sitemap" THEN PageOfKind ELSE UNCHANGED sitemap
  BY StepsOfFocus, FocusesAssumption, SeoSteps DEF MCNext, rankingVars, publicVars, seoVars
<1> QED
  BY <1>1, <1>2, <1>3, <1>4, <1>5, <1>6, <1>7, <1>8, <1>9, <1>10, <1>11

LEMMA PublishKeeps ==
  ASSUME PublishInv, [MCNext]_vars
  PROVE  PublishInv'
<1>1. CASE MCNext
  <2>1. EngineInv'
    <3>1. CASE focus = "matching engine"
      BY <1>1, <3>1, OnePublishStep, EngineKeeps DEF PublishInv
    <3>2. UNCHANGED engine /\ EngineInv => EngineInv'
      BY <1>1, OnePublishStep DEF EngineInv
    <3>3. CASE focus # "matching engine"
      BY <1>1, <3>2, <3>3, OnePublishStep DEF PublishInv
    <3> QED
      BY <1>1, <3>1, <3>3, OnePublishStep
  <2>2. IF focus' = "matching preference" THEN PreferenceInv' ELSE (recommendation = {})'
    <3>1. CASE focus = "matching preference"
      BY <1>1, <3>1, OnePublishStep, PreferenceKeeps DEF PublishInv
    <3>2. UNCHANGED <<preference, recommendation>> /\ recommendation = {}
            => (recommendation = {})'
      OBVIOUS
    <3>3. CASE focus # "matching preference"
      BY <1>1, <3>2, <3>3, OnePublishStep DEF PublishInv
    <3> QED
      BY <1>1, <3>1, <3>3, OnePublishStep
  <2>3. IF focus' = "matching rule" THEN RuleInv' ELSE OneActiveRule'
    <3>1. CASE focus = "matching rule"
      BY <1>1, <3>1, OnePublishStep, RuleKeeps DEF PublishInv
    <3>2. UNCHANGED rule /\ OneActiveRule => OneActiveRule'
      BY <1>1, OnePublishStep DEF OneActiveRule
    <3>3. CASE focus # "matching rule"
      BY <1>1, <3>2, <3>3, OnePublishStep DEF PublishInv
    <3> QED
      BY <1>1, <3>1, <3>3, OnePublishStep
  <2>4. IF focus' = "content article" THEN ArticleInv' ELSE (RevisionOfItsVersion /\ former = {})'
    <3>1. CASE focus = "content article"
      BY <1>1, <3>1, OnePublishStep, ArticleKeeps DEF PublishInv
    <3>2. UNCHANGED <<revision, texts, former>> /\ RevisionOfItsVersion /\ former = {}
            => (RevisionOfItsVersion /\ former = {})'
      BY <1>1, OnePublishStep DEF RevisionOfItsVersion
    <3>3. CASE focus # "content article"
      BY <1>1, <3>2, <3>3, OnePublishStep DEF PublishInv
    <3> QED
      BY <1>1, <3>1, <3>3, OnePublishStep
  <2>5. (focus' = "content views" => ViewsInv')
    BY <1>1, OnePublishStep, ViewsKeep DEF PublishInv
  <2>6. IF focus' = "content menus" THEN MenuInv' ELSE (menuItems = <<>>)'
    <3>1. CASE focus = "content menus"
      BY <1>1, <3>1, OnePublishStep, MenuKeeps DEF PublishInv
    <3>2. UNCHANGED menuItems /\ menuItems = <<>> => (menuItems = <<>>)'
      OBVIOUS
    <3>3. CASE focus # "content menus"
      BY <1>1, <3>2, <3>3, OnePublishStep DEF PublishInv
    <3> QED
      BY <1>1, <3>1, <3>3, OnePublishStep
  <2>7. IF focus' = "content likes" THEN LikesInv' ELSE LikesCounted'
    <3>1. CASE focus = "content likes"
      BY <1>1, <3>1, OnePublishStep, LikesNextKeeps DEF PublishInv
    <3>2. UNCHANGED <<likes, likeCount, likesSettled>> /\ LikesCounted => LikesCounted'
      BY <1>1, OnePublishStep DEF LikesCounted
    <3>3. CASE focus # "content likes"
      BY <1>1, <3>2, <3>3, OnePublishStep DEF PublishInv
    <3> QED
      BY <1>1, <3>1, <3>3, OnePublishStep
  <2>8. IF focus' = "content comments" THEN CommentsInv' ELSE (comment = [c \in Comments |-> None])'
    <3>1. CASE focus = "content comments"
      BY <1>1, <3>1, OnePublishStep, CommentsKeep DEF PublishInv
    <3>2. UNCHANGED comment /\ comment = [c \in Comments |-> None]
            => (comment = [c \in Comments |-> None])'
      OBVIOUS
    <3>3. CASE focus # "content comments"
      BY <1>1, <3>2, <3>3, OnePublishStep DEF PublishInv
    <3> QED
      BY <1>1, <3>1, <3>3, OnePublishStep
  <2>9. IF focus' = "seo redirects" THEN RedirectInv' ELSE RedirectsLeadAway'
    <3>1. CASE focus = "seo redirects"
      BY <1>1, <3>1, OnePublishStep, RedirectKeeps DEF PublishInv
    <3>2. UNCHANGED hop /\ RedirectsLeadAway => RedirectsLeadAway'
      BY <1>1, OnePublishStep DEF RedirectsLeadAway
    <3>3. CASE focus # "seo redirects"
      BY <1>1, <3>2, <3>3, OnePublishStep DEF PublishInv
    <3> QED
      BY <1>1, <3>1, <3>3, OnePublishStep
  <2>10. SitemapInv'
    <3>1. CASE focus = "seo sitemap"
      BY <1>1, <3>1, OnePublishStep, SitemapKeeps DEF PublishInv
    <3>2. UNCHANGED sitemap /\ SitemapInv => SitemapInv'
      BY <1>1, OnePublishStep DEF SitemapInv
    <3>3. CASE focus # "seo sitemap"
      BY <1>1, <3>2, <3>3, OnePublishStep DEF PublishInv
    <3> QED
      BY <1>1, <3>1, <3>3, OnePublishStep
  <2> QED
    BY <2>1, <2>2, <2>3, <2>4, <2>5, <2>6, <2>7, <2>8, <2>9, <2>10 DEF PublishInv
<1>2. CASE UNCHANGED vars
  <2>1. UNCHANGED focus /\ UNCHANGED req
    BY <1>2 DEF vars
  <2>2. EngineInv'
    <3>1. UNCHANGED engine
      BY <1>2 DEF vars, rankingVars, publicVars, engineVars, matchingVars, contentVars, engagementVars, seoVars, resourceVars, menuVars, likeVars, commentVars
    <3>2. EngineInv => EngineInv'
      BY <2>1, <3>1 DEF EngineInv
    <3> QED
      BY <2>1, <3>2 DEF PublishInv
  <2>3. IF focus' = "matching preference" THEN PreferenceInv' ELSE (recommendation = {})'
    <3>1. UNCHANGED <<clock, preference, recommendation>>
      BY <1>2 DEF vars, rankingVars, publicVars, engineVars, matchingVars, contentVars, engagementVars, seoVars, resourceVars, menuVars, likeVars, commentVars
    <3>2. PreferenceInv => PreferenceInv'
      BY <2>1, <3>1, PreferenceStutters
    <3>3. recommendation = {} => (recommendation = {})'
      BY <3>1
    <3> QED
      BY <2>1, <3>2, <3>3 DEF PublishInv
  <2>4. IF focus' = "matching rule" THEN RuleInv' ELSE OneActiveRule'
    <3>1. UNCHANGED rule
      BY <1>2 DEF vars, rankingVars, publicVars, engineVars, matchingVars, contentVars, engagementVars, seoVars, resourceVars, menuVars, likeVars, commentVars
    <3>2. RuleInv => RuleInv'
      BY <2>1, <3>1 DEF RuleInv, OneActiveRule, Running
    <3>3. OneActiveRule => OneActiveRule'
      BY <2>1, <3>1 DEF OneActiveRule
    <3> QED
      BY <2>1, <3>2, <3>3 DEF PublishInv
  <2>5. IF focus' = "content article" THEN ArticleInv' ELSE (RevisionOfItsVersion /\ former = {})'
    <3>1. UNCHANGED <<article, revision, texts, redirect, former, overlapped>>
      BY <1>2 DEF vars, rankingVars, publicVars, engineVars, matchingVars, contentVars, engagementVars, seoVars, resourceVars, menuVars, likeVars, commentVars
    <3>2. ArticleInv => ArticleInv'
      BY <2>1, <3>1, ArticleStutters
    <3>3. RevisionOfItsVersion /\ former = {} => (RevisionOfItsVersion /\ former = {})'
      BY <2>1, <3>1 DEF RevisionOfItsVersion
    <3> QED
      BY <2>1, <3>2, <3>3 DEF PublishInv
  <2>6. (focus' = "content views" => ViewsInv')
    <3>1. UNCHANGED <<viewed, views>>
      BY <1>2 DEF vars, rankingVars, publicVars, engineVars, matchingVars, contentVars, engagementVars, seoVars, resourceVars, menuVars, likeVars, commentVars
    <3>2. ViewsInv => ViewsInv'
      BY <2>1, <3>1 DEF ViewsInv, ViewsCounted, Running
    <3> QED
      BY <2>1, <3>2 DEF PublishInv
  <2>7. IF focus' = "content menus" THEN MenuInv' ELSE (menuItems = <<>>)'
    <3>1. UNCHANGED <<menu, menuItems, loose, mixed>>
      BY <1>2 DEF vars, rankingVars, publicVars, engineVars, matchingVars, contentVars, engagementVars, seoVars, resourceVars, menuVars, likeVars, commentVars
    <3>2. MenuInv => MenuInv'
      BY <2>1, <3>1, MenuStutters
    <3>3. menuItems = <<>> => (menuItems = <<>>)'
      BY <3>1
    <3> QED
      BY <2>1, <3>2, <3>3 DEF PublishInv
  <2>8. IF focus' = "content likes" THEN LikesInv' ELSE LikesCounted'
    <3>1. UNCHANGED <<likes, likeCount, likesSettled>>
      BY <1>2 DEF vars, rankingVars, publicVars, engineVars, matchingVars, contentVars, engagementVars, seoVars, resourceVars, menuVars, likeVars, commentVars
    <3>2. LikesInv => LikesInv'
      BY <2>1, <3>1 DEF LikesInv, KnowsLikes, Toggling, Running
    <3>3. LikesCounted => LikesCounted'
      BY <2>1, <3>1 DEF LikesCounted
    <3> QED
      BY <2>1, <3>2, <3>3 DEF PublishInv
  <2>9. IF focus' = "content comments" THEN CommentsInv' ELSE (comment = [c \in Comments |-> None])'
    <3>1. UNCHANGED <<clock, comment, commentCount>>
      BY <1>2 DEF vars, rankingVars, publicVars, engineVars, matchingVars, contentVars, engagementVars, seoVars, resourceVars, menuVars, likeVars, commentVars
    <3>2. CommentsInv => CommentsInv'
      BY <2>1, <3>1, CommentsStutter
    <3>3. comment = [c \in Comments |-> None] => (comment = [c \in Comments |-> None])'
      BY <3>1
    <3> QED
      BY <2>1, <3>2, <3>3 DEF PublishInv
  <2>10. IF focus' = "seo redirects" THEN RedirectInv' ELSE RedirectsLeadAway'
    <3>1. UNCHANGED <<hop, unchecked>>
      BY <1>2 DEF vars, rankingVars, publicVars, engineVars, matchingVars, contentVars, engagementVars, seoVars, resourceVars, menuVars, likeVars, commentVars
    <3>2. RedirectInv => RedirectInv'
      BY <2>1, <3>1 DEF RedirectInv, Creating, Running
    <3>3. RedirectsLeadAway => RedirectsLeadAway'
      BY <2>1, <3>1 DEF RedirectsLeadAway
    <3> QED
      BY <2>1, <3>2, <3>3 DEF PublishInv
  <2>11. SitemapInv'
    <3>1. UNCHANGED sitemap
      BY <1>2 DEF vars, rankingVars, publicVars, engineVars, matchingVars, contentVars, engagementVars, seoVars, resourceVars, menuVars, likeVars, commentVars
    <3>2. SitemapInv => SitemapInv'
      BY <2>1, <3>1 DEF SitemapInv
    <3> QED
      BY <2>1, <3>2 DEF PublishInv
  <2> QED
    BY <2>2, <2>3, <2>4, <2>5, <2>6, <2>7, <2>8, <2>9, <2>10, <2>11 DEF PublishInv
<1> QED
  BY <1>1, <1>2


LEMMA PublishInvImplies ==
  ASSUME PublishInv
  PROVE  PublishingInvariant
<1>1. QueryMissesNoMatch
  BY EngineImplies DEF PublishInv
<1>2. NotStaleIsCurrent
  <2>1. CASE focus = "matching preference"
    BY <2>1, CurrentIfNotStale DEF PublishInv
  <2>2. CASE focus # "matching preference"
    BY <2>2 DEF PublishInv, NotStaleIsCurrent
  <2> QED
    BY <2>1, <2>2
<1>3. OneActiveRule
  BY DEF PublishInv, RuleInv
<1>4. RevisionOfItsVersion /\ FormerSlugRedirected
  BY ArticleImplies DEF PublishInv, FormerSlugRedirected
<1>5. focus = "content views" => ViewsCounted
  BY DEF PublishInv, ViewsInv
<1>6. NoRedirectCycle
  <2>1. CASE focus = "seo redirects"
    BY <2>1, RedirectImplies DEF PublishInv
  <2>2. CASE focus # "seo redirects"
    BY <2>2, NoWayBack DEF PublishInv, RedirectsLeadAway, NoRedirectCycle
  <2> QED
    BY <2>1, <2>2
<1>7. SitemapComplete
  BY SitemapImplies DEF PublishInv
<1>8. ItemsOfLastSave /\ ItemsInPlaces
  <2>1. CASE focus = "content menus"
    BY <2>1, MenuImplies DEF PublishInv
  <2>2. CASE focus # "content menus"
    <3>1. menuItems = <<>>
      BY <2>2 DEF PublishInv
    <3>2. DOMAIN menuItems = {}
      BY <3>1
    <3> QED
      BY <3>2 DEF ItemsOfLastSave, ItemsInPlaces
  <2> QED
    BY <2>1, <2>2
<1>9. LikesCounted
  BY LikesImply DEF PublishInv
<1>10. /\ focus = "content comments" => CommentsCounted
       /\ CommentsSpaced
  <2>1. CASE focus = "content comments"
    BY <2>1, CommentsImply DEF PublishInv
  <2>2. CASE focus # "content comments"
    BY <2>2 DEF PublishInv, CommentsSpaced
  <2> QED
    BY <2>1, <2>2
<1> QED
  BY <1>1, <1>2, <1>3, <1>4, <1>5, <1>6, <1>7, <1>8, <1>9, <1>10 DEF PublishingInvariant

\* However requests overlap and stop halfway: the query of the recommendations misses no
\* match but for a price less than a cent too low, what is not stale is current, one rule
\* is active; a revision holds its version, a former slug leads on, visits, likes and
\* comments are counted; redirects close no cycle, the parts of the sitemap hold every row
\* once, and a menu has the items of its last save in their places (listCandidates, the
\* services of property-matching, content and seo and their repositories).
THEOREM PublishingIsSafe == MCSpec => []PublishingInvariant
<1>1. MCInit => PublishInv
  BY PublishInitial
<1>2. PublishInv /\ [MCNext]_vars => PublishInv'
  BY PublishKeeps
<1>3. PublishInv => PublishingInvariant
  BY PublishInvImplies
<1> QED
  BY <1>1, <1>2, <1>3, PTL DEF MCSpec



(***************************************************************************)
(* Leads, contacts, agents and sales: the composition.                     *)
(***************************************************************************)

\* The parts of the crm that CrmRecords holds, the week of an agent, the outcomes of a viewing.
RecordFoci == {"crm contact", "crm inquiry", "crm activity", "crm message"}
WeekOfOneSave ==
  availability.row = availability.schedule /\ availability.row = availability.exceptions
OneOutcomeEach == \A v \in Viewings : viewing[v] # None => viewing[v].outcomes <= 1

\* A component that the behaviour is not about keeps the property that it began with.
PeopleInv ==
  /\ IF focus = "crm leads" THEN LeadInv ELSE OwnerIsAssigned /\ ConvertedHasOpportunity
  /\ IF focus \in RecordFoci THEN RecordInv ELSE OnePrimary /\ TimestampsFollowStatus
  /\ IF focus = "agent assignment" THEN CapacityInv ELSE CapacityOverrunBounded
  /\ IF focus = "agent specialization" THEN SpecializationInv ELSE OnePrimarySpecialization
  /\ IF focus = "agent availability" THEN SaveInv ELSE WeekOfOneSave
  /\ IF focus = "sales stages" THEN StagesInv ELSE StagesContiguous /\ StagesAsAsked
  /\ IF focus = "sales viewings" THEN ViewingsInv ELSE NoDoubleBooking /\ OneOutcomeEach
  /\ IF focus = "sales activities" THEN ActivityInv ELSE salesActivity.outcomes <= Cardinality(Procs)

LEMMA PeopleInitial ==
  ASSUME MCInit
  PROVE  PeopleInv
<1>1. IF focus = "crm leads" THEN LeadInv ELSE OwnerIsAssigned /\ ConvertedHasOpportunity
  <2>1. CASE focus = "crm leads"
    BY <2>1, LeadInitial DEF MCInit
  <2>2. CASE focus # "crm leads"
    <3>1. LeadInv
      BY LeadInitial DEF MCInit
    <3> QED
      BY <3>1 DEF LeadInv
  <2> QED
    BY <2>1, <2>2
<1>2. IF focus \in RecordFoci THEN RecordInv ELSE OnePrimary /\ TimestampsFollowStatus
  <2>1. CASE focus \in RecordFoci
    BY <2>1, RecordInitial DEF MCInit
  <2>2. CASE focus \notin RecordFoci
    <3>1. RecordInv
      BY RecordInitial DEF MCInit
    <3> QED
      BY <3>1, RecordImplies
  <2> QED
    BY <2>1, <2>2
<1>3. IF focus = "agent assignment" THEN CapacityInv ELSE CapacityOverrunBounded
  <2>1. CASE focus = "agent assignment"
    BY <2>1, CapacityInitial DEF MCInit
  <2>2. CASE focus # "agent assignment"
    <3>1. CapacityInv
      BY CapacityInitial DEF MCInit
    <3> QED
      BY <3>1, CapacityImplies
  <2> QED
    BY <2>1, <2>2
<1>4. IF focus = "agent specialization" THEN SpecializationInv ELSE OnePrimarySpecialization
  <2>1. CASE focus = "agent specialization"
    BY <2>1, SpecializationInitial DEF MCInit
  <2>2. CASE focus # "agent specialization"
    <3>1. SpecializationInv
      BY SpecializationInitial DEF MCInit
    <3> QED
      BY <3>1 DEF SpecializationInv
  <2> QED
    BY <2>1, <2>2
<1>5. IF focus = "agent availability" THEN SaveInv ELSE WeekOfOneSave
  <2>1. CASE focus = "agent availability"
    BY <2>1, SaveInitial DEF MCInit
  <2>2. CASE focus # "agent availability"
    BY <2>2 DEF MCInit, AgentManagementInit, WeekOfOneSave
  <2> QED
    BY <2>1, <2>2
<1>6. IF focus = "sales stages" THEN StagesInv ELSE StagesContiguous /\ StagesAsAsked
  <2>1. CASE focus = "sales stages"
    BY <2>1, StagesInitial DEF MCInit
  <2>2. CASE focus # "sales stages"
    <3>1. StagesInv
      BY StagesInitial DEF MCInit
    <3> QED
      BY <3>1 DEF StagesInv
  <2> QED
    BY <2>1, <2>2
<1>7. IF focus = "sales viewings" THEN ViewingsInv ELSE NoDoubleBooking /\ OneOutcomeEach
  <2>1. CASE focus = "sales viewings"
    BY <2>1, ViewingsInitial DEF MCInit
  <2>2. CASE focus # "sales viewings"
    BY <2>2 DEF MCInit, SalesWorkInit, NoDoubleBooking, Booked, OneOutcomeEach
  <2> QED
    BY <2>1, <2>2
<1>8. IF focus = "sales activities" THEN ActivityInv ELSE salesActivity.outcomes <= Cardinality(Procs)
  <2>1. CASE focus = "sales activities"
    BY <2>1, ActivityInitial DEF MCInit
  <2>2. CASE focus # "sales activities"
    <3>1. ActivityInv
      BY ActivityInitial DEF MCInit
    <3> QED
      BY <3>1, ActivityImplies
  <2> QED
    BY <2>1, <2>2
<1> QED
  BY <1>1, <1>2, <1>3, <1>4, <1>5, <1>6, <1>7, <1>8 DEF PeopleInv

\* Which component takes a step.
LEMMA OnePeopleStep ==
  ASSUME MCNext
  PROVE  /\ UNCHANGED focus
         /\ IF focus = "crm leads" THEN CrmLeadsNext ELSE UNCHANGED <<lead, open, opportunity, merged>>
         /\ IF focus \in RecordFoci THEN CrmRecordsNext ELSE UNCHANGED <<child, activity, message>>
         /\ IF focus = "agent assignment" THEN WorkNext ELSE UNCHANGED <<agent, assigned, most>>
         /\ IF focus = "agent specialization" THEN SpecializationNext ELSE UNCHANGED link
         /\ IF focus = "agent availability" THEN AvailabilityNext ELSE UNCHANGED availability
         /\ IF focus = "sales stages" THEN StagesNext ELSE UNCHANGED <<stageOrder, asked, explicit>>
         /\ IF focus = "sales viewings" THEN ViewingsNext ELSE UNCHANGED <<viewing, crossed>>
         /\ IF focus = "sales activities" THEN ActivitiesNext ELSE UNCHANGED salesActivity
<1>1. UNCHANGED focus
  BY DEF MCNext
<1>2. IF focus = "crm leads" THEN CrmLeadsNext ELSE UNCHANGED <<lead, open, opportunity, merged>>
  BY StepsOfFocus, FocusesAssumption DEF MCNext, crmVars, leadVars
<1>3. IF focus \in RecordFoci THEN CrmRecordsNext ELSE UNCHANGED <<child, activity, message>>
  BY StepsOfFocus, FocusesAssumption DEF MCNext, crmVars, recordVars, RecordFoci
<1>4. IF focus = "agent assignment" THEN WorkNext ELSE UNCHANGED <<agent, assigned, most>>
  BY StepsOfFocus, FocusesAssumption, AgentSteps DEF MCNext, crmVars, agentVars
<1>5. IF focus = "agent specialization" THEN SpecializationNext ELSE UNCHANGED link
  BY StepsOfFocus, FocusesAssumption, AgentSteps DEF MCNext, crmVars, agentVars
<1>6. IF focus = "agent availability" THEN AvailabilityNext ELSE UNCHANGED availability
  BY StepsOfFocus, FocusesAssumption, AgentSteps DEF MCNext, crmVars, agentVars
<1>7. IF focus = "sales stages" THEN StagesNext ELSE UNCHANGED <<stageOrder, asked, explicit>>
  BY StepsOfFocus, FocusesAssumption, SalesSteps DEF MCNext, crmVars, workVars
<1>8. IF focus = "sales viewings" THEN ViewingsNext ELSE UNCHANGED <<viewing, crossed>>
  BY StepsOfFocus, FocusesAssumption, SalesSteps DEF MCNext, crmVars, workVars
<1>9. IF focus = "sales activities" THEN ActivitiesNext ELSE UNCHANGED salesActivity
  BY StepsOfFocus, FocusesAssumption, SalesSteps DEF MCNext, crmVars, workVars
<1> QED
  BY <1>1, <1>2, <1>3, <1>4, <1>5, <1>6, <1>7, <1>8, <1>9

LEMMA PeopleKeeps ==
  ASSUME PeopleInv, [MCNext]_vars
  PROVE  PeopleInv'
<1>1. CASE MCNext
  <2>1. IF focus' = "crm leads" THEN LeadInv' ELSE (OwnerIsAssigned /\ ConvertedHasOpportunity)'
    <3>1. CASE focus = "crm leads"
      BY <1>1, <3>1, OnePeopleStep, LeadsKeep DEF PeopleInv
    <3>2. UNCHANGED <<lead, open, opportunity, merged>> /\ OwnerIsAssigned /\ ConvertedHasOpportunity
            => (OwnerIsAssigned /\ ConvertedHasOpportunity)'
      BY <1>1, OnePeopleStep DEF OwnerIsAssigned, ConvertedHasOpportunity
    <3>3. CASE focus # "crm leads"
      BY <1>1, <3>2, <3>3, OnePeopleStep DEF PeopleInv
    <3> QED
      BY <1>1, <3>1, <3>3, OnePeopleStep
  <2>2. IF focus' \in RecordFoci THEN RecordInv' ELSE (OnePrimary /\ TimestampsFollowStatus)'
    <3>1. CASE focus \in RecordFoci
      BY <1>1, <3>1, OnePeopleStep, RecordsKeep DEF PeopleInv
    <3>2. UNCHANGED <<child, activity, message>> /\ OnePrimary /\ TimestampsFollowStatus
            => (OnePrimary /\ TimestampsFollowStatus)'
      BY <1>1, OnePeopleStep DEF OnePrimary, TimestampsFollowStatus
    <3>3. CASE focus \notin RecordFoci
      BY <1>1, <3>2, <3>3, OnePeopleStep DEF PeopleInv
    <3> QED
      BY <1>1, <3>1, <3>3, OnePeopleStep
  <2>3. IF focus' = "agent assignment" THEN CapacityInv' ELSE CapacityOverrunBounded'
    <3>1. CASE focus = "agent assignment"
      BY <1>1, <3>1, OnePeopleStep, CapacityKeeps DEF PeopleInv
    <3>2. UNCHANGED <<agent, assigned, most>> /\ CapacityOverrunBounded
            => CapacityOverrunBounded'
      BY <1>1, OnePeopleStep DEF CapacityOverrunBounded
    <3>3. CASE focus # "agent assignment"
      BY <1>1, <3>2, <3>3, OnePeopleStep DEF PeopleInv
    <3> QED
      BY <1>1, <3>1, <3>3, OnePeopleStep
  <2>4. IF focus' = "agent specialization" THEN SpecializationInv' ELSE OnePrimarySpecialization'
    <3>1. CASE focus = "agent specialization"
      BY <1>1, <3>1, OnePeopleStep, SpecializationKeeps DEF PeopleInv
    <3>2. UNCHANGED link /\ OnePrimarySpecialization => OnePrimarySpecialization'
      BY <1>1, OnePeopleStep DEF OnePrimarySpecialization
    <3>3. CASE focus # "agent specialization"
      BY <1>1, <3>2, <3>3, OnePeopleStep DEF PeopleInv
    <3> QED
      BY <1>1, <3>1, <3>3, OnePeopleStep
  <2>5. IF focus' = "agent availability" THEN SaveInv' ELSE WeekOfOneSave'
    <3>1. CASE focus = "agent availability"
      BY <1>1, <3>1, OnePeopleStep, SaveKeeps DEF PeopleInv
    <3>2. UNCHANGED availability /\ WeekOfOneSave => WeekOfOneSave'
      BY <1>1, OnePeopleStep DEF WeekOfOneSave
    <3>3. CASE focus # "agent availability"
      BY <1>1, <3>2, <3>3, OnePeopleStep DEF PeopleInv
    <3> QED
      BY <1>1, <3>1, <3>3, OnePeopleStep
  <2>6. IF focus' = "sales stages" THEN StagesInv' ELSE (StagesContiguous /\ StagesAsAsked)'
    <3>1. CASE focus = "sales stages"
      BY <1>1, <3>1, OnePeopleStep, StagesKeep DEF PeopleInv
    <3>2. UNCHANGED <<stageOrder, asked, explicit>> /\ StagesContiguous /\ StagesAsAsked
            => (StagesContiguous /\ StagesAsAsked)'
      BY <1>1, OnePeopleStep, StagesRest
    <3>3. CASE focus # "sales stages"
      BY <1>1, <3>2, <3>3, OnePeopleStep DEF PeopleInv
    <3> QED
      BY <1>1, <3>1, <3>3, OnePeopleStep
  <2>7. IF focus' = "sales viewings" THEN ViewingsInv' ELSE (NoDoubleBooking /\ OneOutcomeEach)'
    <3>1. CASE focus = "sales viewings"
      BY <1>1, <3>1, OnePeopleStep, ViewingsKeep DEF PeopleInv
    <3>2. UNCHANGED <<viewing, crossed>> /\ NoDoubleBooking /\ OneOutcomeEach
            => (NoDoubleBooking /\ OneOutcomeEach)'
      BY <1>1, OnePeopleStep DEF NoDoubleBooking, Booked, OneOutcomeEach
    <3>3. CASE focus # "sales viewings"
      BY <1>1, <3>2, <3>3, OnePeopleStep DEF PeopleInv
    <3> QED
      BY <1>1, <3>1, <3>3, OnePeopleStep
  <2>8. IF focus' = "sales activities" THEN ActivityInv' ELSE (salesActivity.outcomes <= Cardinality(Procs))'
    <3>1. CASE focus = "sales activities"
      BY <1>1, <3>1, OnePeopleStep, ActivityKeeps DEF PeopleInv
    <3>2. UNCHANGED salesActivity /\ salesActivity.outcomes <= Cardinality(Procs)
            => (salesActivity.outcomes <= Cardinality(Procs))'
      OBVIOUS
    <3>3. CASE focus # "sales activities"
      BY <1>1, <3>2, <3>3, OnePeopleStep DEF PeopleInv
    <3> QED
      BY <1>1, <3>1, <3>3, OnePeopleStep
  <2> QED
    BY <2>1, <2>2, <2>3, <2>4, <2>5, <2>6, <2>7, <2>8 DEF PeopleInv
<1>2. CASE UNCHANGED vars
  <2>1. UNCHANGED focus /\ UNCHANGED req
    BY <1>2 DEF vars
  <2>2. IF focus' = "crm leads" THEN LeadInv' ELSE (OwnerIsAssigned /\ ConvertedHasOpportunity)'
    <3>1. UNCHANGED <<lead, open, opportunity, merged>>
      BY <1>2 DEF vars, crmVars, leadVars, recordVars, workVars, agentVars
    <3>2. LeadInv => LeadInv'
      BY <2>1, <3>1 DEF LeadInv, CrmLeadsTypeOK, KnowsLead, OwnerIsAssigned,
         ConvertedHasOpportunity
    <3>3. OwnerIsAssigned /\ ConvertedHasOpportunity => (OwnerIsAssigned /\ ConvertedHasOpportunity)'
      BY <2>1, <3>1 DEF OwnerIsAssigned, ConvertedHasOpportunity
    <3> QED
      BY <2>1, <3>2, <3>3 DEF PeopleInv
  <2>3. IF focus' \in RecordFoci THEN RecordInv' ELSE (OnePrimary /\ TimestampsFollowStatus)'
    <3>1. UNCHANGED <<child, activity, message>>
      BY <1>2 DEF vars, crmVars, leadVars, recordVars, workVars, agentVars
    <3>2. RecordInv => RecordInv'
      BY <2>1, <3>1 DEF RecordInv, KnowsRecord, AlonePrimary, MarksFollow
    <3>3. OnePrimary /\ TimestampsFollowStatus => (OnePrimary /\ TimestampsFollowStatus)'
      BY <2>1, <3>1 DEF OnePrimary, TimestampsFollowStatus
    <3> QED
      BY <2>1, <3>2, <3>3 DEF PeopleInv
  <2>4. IF focus' = "agent assignment" THEN CapacityInv' ELSE CapacityOverrunBounded'
    <3>1. UNCHANGED <<agent, assigned, most>>
      BY <1>2 DEF vars, crmVars, leadVars, recordVars, workVars, agentVars
    <3>2. CapacityInv => CapacityInv'
      BY <2>1, <3>1, CapacityStutters
    <3>3. CapacityOverrunBounded => CapacityOverrunBounded'
      BY <2>1, <3>1 DEF CapacityOverrunBounded
    <3> QED
      BY <2>1, <3>2, <3>3 DEF PeopleInv
  <2>5. IF focus' = "agent specialization" THEN SpecializationInv' ELSE OnePrimarySpecialization'
    <3>1. UNCHANGED link
      BY <1>2 DEF vars, crmVars, leadVars, recordVars, workVars, agentVars
    <3>2. SpecializationInv => SpecializationInv'
      BY <2>1, <3>1 DEF SpecializationInv, OnePrimarySpecialization
    <3>3. OnePrimarySpecialization => OnePrimarySpecialization'
      BY <2>1, <3>1 DEF OnePrimarySpecialization
    <3> QED
      BY <2>1, <3>2, <3>3 DEF PeopleInv
  <2>6. IF focus' = "agent availability" THEN SaveInv' ELSE WeekOfOneSave'
    <3>1. UNCHANGED availability
      BY <1>2 DEF vars, crmVars, leadVars, recordVars, workVars, agentVars
    <3>2. SaveInv => SaveInv'
      BY <2>1, <3>1, SaveStutters
    <3>3. WeekOfOneSave => WeekOfOneSave'
      BY <2>1, <3>1 DEF WeekOfOneSave
    <3> QED
      BY <2>1, <3>2, <3>3 DEF PeopleInv
  <2>7. IF focus' = "sales stages" THEN StagesInv' ELSE (StagesContiguous /\ StagesAsAsked)'
    <3>1. UNCHANGED <<stageOrder, asked, explicit>>
      BY <1>2 DEF vars, crmVars, leadVars, recordVars, workVars, agentVars
    <3>2. StagesInv => StagesInv'
      BY <2>1, <3>1, StagesStutter
    <3>3. StagesContiguous /\ StagesAsAsked => (StagesContiguous /\ StagesAsAsked)'
      BY <2>1, <3>1, StagesRest
    <3> QED
      BY <2>1, <3>2, <3>3 DEF PeopleInv
  <2>8. IF focus' = "sales viewings" THEN ViewingsInv' ELSE (NoDoubleBooking /\ OneOutcomeEach)'
    <3>1. UNCHANGED <<viewing, crossed>>
      BY <1>2 DEF vars, crmVars, leadVars, recordVars, workVars, agentVars
    <3>2. ViewingsInv => ViewingsInv'
      BY <2>1, <3>1, ViewingsStutter
    <3>3. NoDoubleBooking /\ OneOutcomeEach => (NoDoubleBooking /\ OneOutcomeEach)'
      BY <2>1, <3>1 DEF NoDoubleBooking, Booked, OneOutcomeEach
    <3> QED
      BY <2>1, <3>2, <3>3 DEF PeopleInv
  <2>9. IF focus' = "sales activities" THEN ActivityInv' ELSE (salesActivity.outcomes <= Cardinality(Procs))'
    <3>1. UNCHANGED salesActivity
      BY <1>2 DEF vars, crmVars, leadVars, recordVars, workVars, agentVars
    <3>2. ActivityInv => ActivityInv'
      BY <2>1, <3>1, ActivityStutters
    <3>3. salesActivity.outcomes <= Cardinality(Procs) => (salesActivity.outcomes <= Cardinality(Procs))'
      BY <3>1
    <3> QED
      BY <2>1, <3>2, <3>3 DEF PeopleInv
  <2> QED
    BY <2>2, <2>3, <2>4, <2>5, <2>6, <2>7, <2>8, <2>9 DEF PeopleInv
<1> QED
  BY <1>1, <1>2


LEMMA PeopleInvImplies ==
  ASSUME PeopleInv
  PROVE  PeopleInvariant
<1>1. OwnerIsAssigned /\ ConvertedHasOpportunity
  BY DEF PeopleInv, LeadInv
<1>2. OnePrimary /\ TimestampsFollowStatus
  BY RecordImplies DEF PeopleInv
<1>3. CapacityOverrunBounded
  BY CapacityImplies DEF PeopleInv
<1>4. OnePrimarySpecialization
  BY DEF PeopleInv, SpecializationInv
<1>5. AvailabilityOfOneSave
  BY SaveImplies DEF PeopleInv, AvailabilityOfOneSave, WeekOfOneSave
<1>6. StagesContiguous /\ StagesAsAsked
  BY DEF PeopleInv, StagesInv
<1>7. NoDoubleBooking /\ OneOutcomeEach
  <2>1. CASE focus = "sales viewings"
    <3>1. ViewingsInv
      BY <2>1 DEF PeopleInv
    <3> QED
      BY <3>1 DEF ViewingsInv, OneOutcomeEach
  <2>2. CASE focus # "sales viewings"
    BY <2>2 DEF PeopleInv
  <2> QED
    BY <2>1, <2>2
<1>8. salesActivity.outcomes <= Cardinality(Procs)
  BY ActivityImplies DEF PeopleInv
<1> QED
  BY <1>1, <1>2, <1>3, <1>4, <1>5, <1>6, <1>7, <1>8 DEF PeopleInvariant, OneOutcome, OneOutcomeEach

\* However requests overlap: the owner of a lead is one it is assigned to and a converted
\* lead has its opportunity, one email of a contact is primary, the times of activities
\* and messages agree with their statuses, an agent's work exceeds the capacity by the
\* racing requests at most, one specialization is primary and the week is that of one
\* save, stages are numbered without gaps and as they were asked to be, and viewings and
\* activities are booked and closed twice by overlapping requests alone (crm and sales
\* services, prisma-crm.repository.ts, agent-management.service.ts,
\* prisma-agent.repository.ts, prisma-sales.repository.ts).
THEOREM PeopleIsSafe == MCSpec => []PeopleInvariant
<1>1. MCInit => PeopleInv
  BY PeopleInitial
<1>2. PeopleInv /\ [MCNext]_vars => PeopleInv'
  BY PeopleKeeps
<1>3. PeopleInv => PeopleInvariant
  BY PeopleInvImplies
<1> QED
  BY <1>1, <1>2, <1>3, PTL DEF MCSpec



(***************************************************************************)
(* Properties: the composition.                                            *)
(***************************************************************************)

\* A component that the behaviour is not about keeps the property that it began with.
EstateInv ==
  /\ IF focus = "listings" THEN ListingsInv ELSE SoldTogether
  /\ IF focus = "property row" THEN RowInv ELSE ExtrasStayValid
  /\ IF focus = "property media" THEN MediaInv ELSE OneCover
  /\ IF focus = "property order" THEN OrderInv ELSE order.row = order.committed
  /\ IF focus = "property document" THEN DocumentInv ELSE VersionsContiguous
  /\ IF focus \in DOMAIN RowsOf THEN MasterInv ELSE NoOrphans /\ AttachedIsKept

LEMMA EstateInitial ==
  ASSUME MCInit
  PROVE  EstateInv
<1>1. IF focus = "listings" THEN ListingsInv ELSE SoldTogether
  <2>1. CASE focus = "listings"
    BY <2>1, ListingsInitial DEF MCInit
  <2>2. CASE focus # "listings"
    BY <2>2 DEF MCInit, ListingsInit, SoldTogether
  <2> QED
    BY <2>1, <2>2
<1>2. IF focus = "property row" THEN RowInv ELSE ExtrasStayValid
  <2>1. CASE focus = "property row"
    BY <2>1, RowInitial DEF MCInit
  <2>2. CASE focus # "property row"
    BY <2>2 DEF MCInit, PropertyDetailsInit, ExtrasStayValid
  <2> QED
    BY <2>1, <2>2
<1>3. IF focus = "property media" THEN MediaInv ELSE OneCover
  <2>1. CASE focus = "property media"
    BY <2>1, MediaInitial DEF MCInit
  <2>2. CASE focus # "property media"
    BY <2>2 DEF MCInit, PropertyDetailsInit, OneCover, Covers, MediaLive
  <2> QED
    BY <2>1, <2>2
<1>4. IF focus = "property order" THEN OrderInv ELSE order.row = order.committed
  <2>1. CASE focus = "property order"
    BY <2>1, OrderInitial DEF MCInit
  <2>2. CASE focus # "property order"
    BY <2>2 DEF MCInit, PropertyDetailsInit
  <2> QED
    BY <2>1, <2>2
<1>5. IF focus = "property document" THEN DocumentInv ELSE VersionsContiguous
  <2>1. CASE focus = "property document"
    BY <2>1, DocumentInitial DEF MCInit
  <2>2. CASE focus # "property document"
    <3>1. DocumentInv
      BY DocumentInitial DEF MCInit
    <3> QED
      BY <2>2, <3>1 DEF DocumentInv
  <2> QED
    BY <2>1, <2>2
<1>6. IF focus \in DOMAIN RowsOf THEN MasterInv ELSE NoOrphans /\ AttachedIsKept
  <2>1. CASE focus \in DOMAIN RowsOf
    BY <2>1, MasterInitial DEF MCInit
  <2>2. CASE focus \notin DOMAIN RowsOf
    <3>1. MasterInv
      BY MasterInitial DEF MCInit
    <3> QED
      BY <3>1, MasterImplies
  <2> QED
    BY <2>1, <2>2
<1> QED
  BY <1>1, <1>2, <1>3, <1>4, <1>5, <1>6 DEF EstateInv

\* Which component takes a step.
LEMMA OneEstateSteps ==
  ASSUME MCNext
  PROVE  /\ UNCHANGED focus
         /\ IF focus = "listings" THEN ListingsNext ELSE UNCHANGED <<listing, property>>
         /\ IF focus = "property row" THEN DetailNext ELSE UNCHANGED detail
         /\ IF focus = "property media" THEN MediaNext ELSE UNCHANGED media
         /\ IF focus = "property order" THEN OrderNext ELSE UNCHANGED order
         /\ IF focus = "property document" THEN DocumentNext ELSE UNCHANGED document
         /\ IF focus \in DOMAIN RowsOf THEN MasterDataNext ELSE UNCHANGED masterVars
<1>1. UNCHANGED focus
  BY DEF MCNext
<1>2. IF focus = "listings" THEN ListingsNext ELSE UNCHANGED <<listing, property>>
  BY StepsOfFocus, FocusesAssumption DEF MCNext, estateVars, listingVars
<1>3. IF focus = "property row" THEN DetailNext ELSE UNCHANGED detail
  BY StepsOfFocus, FocusesAssumption DEF MCNext, estateVars, detailVars, PropertyDetailsNext,
     DetailNext, MediaNext, OrderNext, DocumentNext
<1>4. IF focus = "property media" THEN MediaNext ELSE UNCHANGED media
  BY StepsOfFocus, FocusesAssumption DEF MCNext, estateVars, detailVars, PropertyDetailsNext,
     DetailNext, MediaNext, OrderNext, DocumentNext
<1>5. IF focus = "property order" THEN OrderNext ELSE UNCHANGED order
  BY StepsOfFocus, FocusesAssumption DEF MCNext, estateVars, detailVars, PropertyDetailsNext,
     DetailNext, MediaNext, OrderNext, DocumentNext
<1>6. IF focus = "property document" THEN DocumentNext ELSE UNCHANGED document
  BY StepsOfFocus, FocusesAssumption DEF MCNext, estateVars, detailVars, PropertyDetailsNext,
     DetailNext, MediaNext, OrderNext, DocumentNext
<1>7. IF focus \in DOMAIN RowsOf THEN MasterDataNext ELSE UNCHANGED masterVars
  BY StepsOfFocus, FocusesAssumption DEF MCNext, estateVars
<1> QED
  BY <1>1, <1>2, <1>3, <1>4, <1>5, <1>6, <1>7

LEMMA EstateKeeps ==
  ASSUME EstateInv, [MCNext]_vars
  PROVE  EstateInv'
<1>1. CASE MCNext
  <2>1. IF focus' = "listings" THEN ListingsInv' ELSE SoldTogether'
    <3>1. CASE focus = "listings"
      BY <1>1, <3>1, OneEstateSteps, ListingsKeeps DEF EstateInv
    <3>2. UNCHANGED <<listing, property>> /\ SoldTogether => SoldTogether'
      BY <1>1, OneEstateSteps DEF SoldTogether
    <3>3. CASE focus # "listings"
      BY <1>1, <3>2, <3>3, OneEstateSteps DEF EstateInv
    <3> QED
      BY <1>1, <3>1, <3>3, OneEstateSteps
  <2>2. IF focus' = "property row" THEN RowInv' ELSE ExtrasStayValid'
    <3>1. CASE focus = "property row"
      BY <1>1, <3>1, OneEstateSteps, RowKeeps DEF EstateInv
    <3>2. UNCHANGED detail /\ ExtrasStayValid => ExtrasStayValid'
      BY <1>1, OneEstateSteps DEF ExtrasStayValid
    <3>3. CASE focus # "property row"
      BY <1>1, <3>2, <3>3, OneEstateSteps DEF EstateInv
    <3> QED
      BY <1>1, <3>1, <3>3, OneEstateSteps
  <2>3. IF focus' = "property media" THEN MediaInv' ELSE OneCover'
    <3>1. CASE focus = "property media"
      BY <1>1, <3>1, OneEstateSteps, MediaKeeps DEF EstateInv
    <3>2. UNCHANGED media /\ OneCover => OneCover'
      BY <1>1, OneEstateSteps DEF OneCover, Covers, MediaLive
    <3>3. CASE focus # "property media"
      BY <1>1, <3>2, <3>3, OneEstateSteps DEF EstateInv
    <3> QED
      BY <1>1, <3>1, <3>3, OneEstateSteps
  <2>4. IF focus' = "property order" THEN OrderInv' ELSE (order.row = order.committed)'
    <3>1. CASE focus = "property order"
      BY <1>1, <3>1, OneEstateSteps, OrderKeeps DEF EstateInv
    <3>2. UNCHANGED order /\ order.row = order.committed => (order.row = order.committed)'
      OBVIOUS
    <3>3. CASE focus # "property order"
      BY <1>1, <3>2, <3>3, OneEstateSteps DEF EstateInv
    <3> QED
      BY <1>1, <3>1, <3>3, OneEstateSteps
  <2>5. IF focus' = "property document" THEN DocumentInv' ELSE VersionsContiguous'
    <3>1. CASE focus = "property document"
      BY <1>1, <3>1, OneEstateSteps, DocumentKeeps DEF EstateInv
    <3>2. UNCHANGED document /\ VersionsContiguous => VersionsContiguous'
      BY <1>1, OneEstateSteps DEF VersionsContiguous
    <3>3. CASE focus # "property document"
      BY <1>1, <3>2, <3>3, OneEstateSteps DEF EstateInv
    <3> QED
      BY <1>1, <3>1, <3>3, OneEstateSteps
  <2>6. IF focus' \in DOMAIN RowsOf THEN MasterInv' ELSE (NoOrphans /\ AttachedIsKept)'
    <3>1. CASE focus \in DOMAIN RowsOf
      BY <1>1, <3>1, OneEstateSteps, MasterKeeps DEF EstateInv
    <3>2. UNCHANGED masterVars /\ NoOrphans /\ AttachedIsKept => (NoOrphans /\ AttachedIsKept)'
      BY <1>1, OneEstateSteps DEF NoOrphans, AttachedIsKept, LiveRow, MasterRows, masterVars
    <3>3. CASE focus \notin DOMAIN RowsOf
      BY <1>1, <3>2, <3>3, OneEstateSteps DEF EstateInv
    <3> QED
      BY <1>1, <3>1, <3>3, OneEstateSteps
  <2> QED
    BY <2>1, <2>2, <2>3, <2>4, <2>5, <2>6 DEF EstateInv
<1>2. CASE UNCHANGED vars
  <2>1. UNCHANGED focus /\ UNCHANGED req
    BY <1>2 DEF vars
  <2>2. IF focus' = "listings" THEN ListingsInv' ELSE SoldTogether'
    <3>1. UNCHANGED <<listing, property>>
      BY <1>2 DEF vars, estateVars, listingVars, detailVars, masterVars
    <3>2. ListingsInv => ListingsInv'
      BY <2>1, <3>1 DEF ListingsInv, KnowsListing, SoldTogether
    <3>3. SoldTogether => SoldTogether'
      BY <2>1, <3>1 DEF SoldTogether
    <3> QED
      BY <2>1, <3>2, <3>3 DEF EstateInv
  <2>3. IF focus' = "property row" THEN RowInv' ELSE ExtrasStayValid'
    <3>1. UNCHANGED detail
      BY <1>2 DEF vars, estateVars, listingVars, detailVars, masterVars
    <3>2. RowInv => RowInv'
      BY <2>1, <3>1 DEF RowInv, KnowsRow, ExtrasStayValid
    <3>3. ExtrasStayValid => ExtrasStayValid'
      BY <2>1, <3>1 DEF ExtrasStayValid
    <3> QED
      BY <2>1, <3>2, <3>3 DEF EstateInv
  <2>4. IF focus' = "property media" THEN MediaInv' ELSE OneCover'
    <3>1. UNCHANGED media
      BY <1>2 DEF vars, estateVars, listingVars, detailVars, masterVars
    <3>2. MediaInv => MediaInv'
      BY <2>1, <3>1 DEF MediaInv, KnowsMedia, Locked, Covers, MediaLive, OneCover
    <3>3. OneCover => OneCover'
      BY <2>1, <3>1 DEF OneCover, Covers, MediaLive
    <3> QED
      BY <2>1, <3>2, <3>3 DEF EstateInv
  <2>5. IF focus' = "property order" THEN OrderInv' ELSE (order.row = order.committed)'
    <3>1. UNCHANGED order
      BY <1>2 DEF vars, estateVars, listingVars, detailVars, masterVars
    <3>2. OrderInv => OrderInv'
      BY <2>1, <3>1 DEF OrderInv, HasUpdated
    <3>3. order.row = order.committed => (order.row = order.committed)'
      BY <3>1
    <3> QED
      BY <2>1, <3>2, <3>3 DEF EstateInv
  <2>6. IF focus' = "property document" THEN DocumentInv' ELSE VersionsContiguous'
    <3>1. UNCHANGED document
      BY <1>2 DEF vars, estateVars, listingVars, detailVars, masterVars
    <3>2. DocumentInv => DocumentInv'
      BY <2>1, <3>1 DEF DocumentInv, Running, VersionsContiguous
    <3>3. VersionsContiguous => VersionsContiguous'
      BY <2>1, <3>1 DEF VersionsContiguous
    <3> QED
      BY <2>1, <3>2, <3>3 DEF EstateInv
  <2>7. IF focus' \in DOMAIN RowsOf THEN MasterInv' ELSE (NoOrphans /\ AttachedIsKept)'
    <3>1. UNCHANGED <<master, attached, met, revived>>
      BY <1>2 DEF vars, estateVars, listingVars, detailVars, masterVars
    <3>2. MasterInv => MasterInv'
      BY <2>1, <3>1, MasterStutters
    <3>3. NoOrphans /\ AttachedIsKept => (NoOrphans /\ AttachedIsKept)'
      BY <2>1, <3>1 DEF NoOrphans, AttachedIsKept, LiveRow, MasterRows, masterVars
    <3> QED
      BY <2>1, <3>2, <3>3 DEF EstateInv
  <2> QED
    BY <2>2, <2>3, <2>4, <2>5, <2>6, <2>7 DEF EstateInv
<1> QED
  BY <1>1, <1>2


LEMMA EstateInvImplies ==
  ASSUME EstateInv
  PROVE  EstateInvariant
<1>1. SoldTogether
  BY DEF EstateInv, ListingsInv
<1>2. ExtrasStayValid
  BY DEF EstateInv, RowInv
<1>3. OneCover
  BY DEF EstateInv, MediaInv
<1>4. OrderIsAsked
  BY OrderAsked DEF EstateInv, OrderIsAsked
<1>5. VersionsContiguous
  BY DEF EstateInv, DocumentInv
<1>6. NoOrphans /\ AttachedIsKept
  BY MasterImplies DEF EstateInv
<1> QED
  BY <1>1, <1>2, <1>3, <1>4, <1>5, <1>6 DEF EstateInvariant

\* However requests overlap and stop halfway: a listing that is sold has sold its
\* property, a row of extras stays valid as a whole, one medium is the cover, the items
\* stand in the order of one reorder, versions of a document have no gaps, and what
\* references a removed row of master data, or has one attached, overlapped its removal
\* (listing.repository.ts, the property extras and details services, property-media,
\* property-document and property-master services).
THEOREM EstateIsSafe == MCSpec => []EstateInvariant
<1>1. MCInit => EstateInv
  BY EstateInitial
<1>2. EstateInv /\ [MCNext]_vars => EstateInv'
  BY EstateKeeps
<1>3. EstateInv => EstateInvariant
  BY EstateInvImplies
<1> QED
  BY <1>1, <1>2, <1>3, PTL DEF MCSpec

\* A listing moves along its transition table, and a property becomes ACTIVE only
\* verified, whatever requests overlap (listing.repository.ts transitionListing,
\* updateProperty, publishProperty).
THEOREM ListingStepsAreSafe == MCSpec => ListingSteps
<1>1. MCInit => EstateInv
  BY EstateInitial
<1>2. EstateInv /\ [MCNext]_vars => EstateInv'
  BY EstateKeeps
<1>3. EstateInv /\ [MCNext]_vars =>
        [listing # None /\ listing'.status # listing.status
           => <<listing.status, listing'.status>> \in ListingTransitions]_listingVars
  <2> SUFFICES ASSUME EstateInv, [MCNext]_vars, listing # None,
                      listing'.status # listing.status
               PROVE  <<listing.status, listing'.status>> \in ListingTransitions
    BY DEF listingVars
  <2>1. UNCHANGED vars => UNCHANGED listing
    BY DEF vars, estateVars, listingVars
  <2>2. MCNext /\ UNCHANGED <<listing, property>> => UNCHANGED listing
    OBVIOUS
  <2>3. MCNext /\ focus = "listings" /\ ListingsInv /\ ListingsNext
    BY <2>1, <2>2, OneEstateSteps DEF EstateInv
  <2> QED
    BY <2>3, ListingsKeeps
<1>4. EstateInv /\ [MCNext]_vars =>
        [property.status # "ACTIVE" /\ property'.status = "ACTIVE" => property.verified]_listingVars
  <2> SUFFICES ASSUME EstateInv, [MCNext]_vars, property.status # "ACTIVE",
                      property'.status = "ACTIVE"
               PROVE  property.verified
    BY DEF listingVars
  <2>1. UNCHANGED vars => UNCHANGED property
    BY DEF vars, estateVars, listingVars
  <2>2. MCNext /\ UNCHANGED <<listing, property>> => UNCHANGED property
    OBVIOUS
  <2>3. MCNext /\ focus = "listings" /\ ListingsInv /\ ListingsNext
    BY <2>1, <2>2, OneEstateSteps DEF EstateInv
  <2> QED
    BY <2>3, ListingsKeeps
<1> QED
  BY <1>1, <1>2, <1>3, <1>4, PTL DEF MCSpec, ListingSteps, ListingAlongTransitions, ActivatedVerified
=============================================================================
