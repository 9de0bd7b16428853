----------------------------- MODULE Workflows -----------------------------
(***************************************************************************)
(* Authoring of a workflow (src/modules/automation): its versions, their   *)
(* publication, the dispatch of events to the versions that are active,    *)
(* and the search for cycles by which WorkflowValidator accepts a graph.   *)
(* The executions that a dispatch creates run in AutomationExecution.      *)
(***************************************************************************)
EXTENDS Requests, Sequences

CONSTANTS
  Versions,    \* uuids of versions
  Events,
  GraphNodes, GraphEntry

\* A row of automation_workflow_versions, and what publishActivate works with.
VersionRow == [number : Nat, status : {"DRAFT", "ACTIVE", "PAUSED"}]
PublishRequest ==
  [op : {"publish"}, at : {"activate", "previous", "workflow"}, v : Versions,
   previous : Versions \cup {None}]

ASSUME WorkflowsAssumption ==
  /\ GraphEntry \in GraphNodes
  /\ None \notin Versions \cup VersionRow \cup PublishRequest

VARIABLES
  workflow,    \* automation_workflows: status, active (activeVersionUuid)
  version,     \* automation_workflow_versions: number (version), status; or None
  execution,   \* automation_workflow_executions: version, event, and whether the
               \* workflow was ACTIVE when the event arrived
  disturbed,   \* history: publications overlapped, or one stopped half-way
  search       \* validate: the edges, and the state of assertAcyclic

workflowVars == <<workflow, version, execution, disturbed, search>>

-----------------------------------------------------------------------------
(* Versions.                                                               *)

UpdateWorkflowStatus(s) ==
  /\ workflow' = [workflow EXCEPT !.status = s]
  /\ UNCHANGED <<req, clock, version, execution, disturbed, search>>

PauseWorkflow == UpdateWorkflowStatus("PAUSED")
ArchiveWorkflow == UpdateWorkflowStatus("ARCHIVED")

Created == {v \in Versions : version[v] # None}
LatestNumber ==
  CHOOSE n \in {0} \cup {version[v].number : v \in Created} :
    \A v \in Created : version[v].number <= n

CreateDraftRead(p, v) ==
  /\ version[v] = None
  /\ Start(p, [op |-> "draft", at |-> "create", v |-> v, number |-> LatestNumber + 1])
  /\ UNCHANGED <<workflowVars, clock>>

\* Mutant: the version numbers have no unique key.
NumberFreeAlways(n) == TRUE

\* The unique key of the workflow and the number.
NumberFree(n) == \A v \in Created : version[v].number # n

CreateDraftVersion(p) ==
  /\ Running(p, "draft") /\ version[req[p].v] = None
  /\ version' = IF NumberFree(req[p].number)
                THEN [version EXCEPT ![req[p].v] = [number |-> req[p].number, status |-> "DRAFT"]]
                ELSE version
  /\ Done(p)
  /\ UNCHANGED <<workflow, execution, disturbed, search, clock>>

\* publishActivate, from its two reads to the update of the workflow.
PublishRead(p, v) ==
  /\ version[v] # None /\ version[v].status = "DRAFT"
  /\ Start(p, [op |-> "publish", at |-> "activate", v |-> v, previous |-> workflow.active])
  /\ disturbed' = (disturbed \/ \E q \in Procs : Running(q, "publish"))
  /\ UNCHANGED <<workflow, version, execution, search, clock>>

PublishActivate(p) ==
  /\ Running(p, "publish") /\ At(p, "activate")
  /\ version' = [version EXCEPT ![req[p].v].status = "ACTIVE"]
  /\ Goto(p, "previous")
  /\ UNCHANGED <<workflow, execution, disturbed, search, clock>>

\* Mutant: the version that was active stays so.
PausedVersionForgotten(p) == version

\* The version that was the workflow's when the request began.
PausedVersion(p) ==
  IF req[p].previous # None /\ req[p].previous # req[p].v
  THEN [version EXCEPT ![req[p].previous].status = IF @ = "ACTIVE" THEN "PAUSED" ELSE @]
  ELSE version

PublishPausePrevious(p) ==
  /\ Running(p, "publish") /\ At(p, "previous")
  /\ version' = PausedVersion(p)
  /\ Goto(p, "workflow")
  /\ UNCHANGED <<workflow, execution, disturbed, search, clock>>

PublishWorkflow(p) ==
  /\ Running(p, "publish") /\ At(p, "workflow")
  /\ workflow' = [status |-> "ACTIVE", active |-> req[p].v]
  /\ Done(p)
  /\ UNCHANGED <<version, execution, disturbed, search, clock>>

-----------------------------------------------------------------------------
(* Dispatch.                                                               *)

\* Mutant: every active version is listed.
AnyActiveVersion(v) == version[v] # None /\ version[v].status = "ACTIVE"

\* listActiveVersions.
ListedVersion(v) ==
  version[v] # None /\ version[v].status = "ACTIVE" /\ workflow.status = "ACTIVE"

DispatchRead(p, e) ==
  /\ Start(p, [op |-> "dispatch", at |-> "next", event |-> e,
               todo |-> {v \in Versions : ListedVersion(v)},
               arrived |-> workflow.status = "ACTIVE"])
  /\ UNCHANGED <<workflowVars, clock>>

\* One version of the list whose trigger matches: the workflow is read again.
\* The unique key of version and event ends a dispatch that was made before.
DispatchCreate(p, v) ==
  /\ Running(p, "dispatch") /\ v \in req[p].todo
  /\ \/ /\ workflow.status = "ACTIVE"
        /\ \A x \in execution : <<x.version, x.event>> # <<v, req[p].event>>
        /\ execution' = execution \cup
             {[version |-> v, event |-> req[p].event, arrived |-> req[p].arrived]}
        /\ req' = [req EXCEPT ![p].todo = @ \ {v}]
     \/ /\ workflow.status # "ACTIVE"
        /\ req' = [req EXCEPT ![p].todo = @ \ {v}]
        /\ UNCHANGED execution
     \/ /\ \E x \in execution : <<x.version, x.event>> = <<v, req[p].event>>
        /\ Done(p)
        /\ UNCHANGED execution
  /\ UNCHANGED <<workflow, version, disturbed, search, clock>>

\* A request that ends, is refused or whose process stops.
WorkflowsAbandon(p) ==
  /\ req[p] # None
  /\ Done(p)
  /\ disturbed' = (disturbed \/ (req[p].op = "publish" /\ req[p].at # "activate"))
  /\ UNCHANGED <<workflow, version, execution, search, clock>>

VersionNext ==
  \/ PauseWorkflow \/ ArchiveWorkflow
  \/ \E p \in Procs :
       \/ \E v \in Versions : CreateDraftRead(p, v) \/ PublishRead(p, v) \/ DispatchCreate(p, v)
       \/ \E e \in Events : DispatchRead(p, e)
       \/ CreateDraftVersion(p)
       \/ PublishActivate(p) \/ PublishPausePrevious(p) \/ PublishWorkflow(p)
       \/ WorkflowsAbandon(p)

-----------------------------------------------------------------------------
(* assertAcyclic: a depth-first search from the entry.  stack holds the    *)
(* calls of visit, each with the node and the edges it has still to follow.*)

Call(n, edges) == [node |-> n, next |-> {m \in GraphNodes : <<n, m>> \in edges}]

\* for (const next of adjacency.get(id)): visit(next).
VisitNext(m) ==
  /\ search.verdict = None /\ search.stack # <<>>
  /\ m \in Head(search.stack).next
  /\ LET followed == <<[Head(search.stack) EXCEPT !.next = @ \ {m}]>> \o Tail(search.stack)
     IN  search' = IF m \in search.visiting THEN [search EXCEPT !.verdict = "cycle"]
                   ELSE IF m \in search.visited THEN [search EXCEPT !.stack = followed]
                   ELSE [search EXCEPT
                           !.stack = <<Call(m, search.edges)>> \o followed,
                           !.visiting = @ \cup {m}]
  /\ UNCHANGED <<req, clock, workflow, version, execution, disturbed>>

\* Mutant: a node that was left stays among those being visited.
LeftStillVisiting(n) == [search EXCEPT !.stack = Tail(@), !.visited = @ \cup {n}]

\* visiting.delete(id); visited.add(id).
Left(n) ==
  [search EXCEPT !.stack = Tail(@), !.visiting = @ \ {n}, !.visited = @ \cup {n}]

VisitReturn ==
  /\ search.verdict = None /\ search.stack # <<>>
  /\ Head(search.stack).next = {}
  /\ search' = Left(Head(search.stack).node)
  /\ UNCHANGED <<req, clock, workflow, version, execution, disturbed>>

\* Then every node but the entry has to be the target of an edge.
OrphanCheck ==
  /\ search.verdict = None /\ search.stack = <<>>
  /\ search' = [search EXCEPT !.verdict =
       IF \A n \in GraphNodes \ {GraphEntry} : \E m \in GraphNodes : <<m, n>> \in search.edges
       THEN "accepted" ELSE "orphan"]
  /\ UNCHANGED <<req, clock, workflow, version, execution, disturbed>>

GraphNext == (\E m \in GraphNodes : VisitNext(m)) \/ VisitReturn \/ OrphanCheck

-----------------------------------------------------------------------------
\* Every graph whose edges have passed the checks of validate.
Graphs == SUBSET {e \in GraphNodes \X GraphNodes : e[1] # e[2]}

StartOfSearch(edges) ==
  [edges |-> edges, visiting |-> {GraphEntry}, visited |-> {}, verdict |-> None,
   stack |-> <<Call(GraphEntry, edges)>>]

WorkflowsInit ==
  /\ workflow = [status |-> "DRAFT", active |-> None]
  /\ version = [v \in Versions |-> None]
  /\ execution = {} /\ disturbed = FALSE
  /\ \E edges \in IF focus = "workflow graph" THEN Graphs ELSE {{}} : search = StartOfSearch(edges)

WorkflowsNext ==
  \/ focus = "workflow versions" /\ VersionNext
  \/ focus = "workflow graph" /\ GraphNext

-----------------------------------------------------------------------------
(* Properties.                                                             *)

\* The rows have the types of the schema.
WorkflowsTypeOK ==
  /\ workflow \in [status : {"DRAFT", "ACTIVE", "PAUSED", "ARCHIVED"}, active : Versions \cup {None}]
  /\ version \in [Versions -> VersionRow \cup {None}]
  /\ \A v \in Created : version[v].number <= Cardinality(Versions)

\* While no publication is under way, and none has overlapped another or died,
\* the version that an ACTIVE workflow points to is the only one that is ACTIVE:
\* an event starts one execution of the workflow (publishActivate and dispatch).
OneActiveVersion ==
  ~disturbed /\ (\A p \in Procs : ~Running(p, "publish")) =>
    {v \in Versions : version[v] # None /\ version[v].status = "ACTIVE"}
      = {workflow.active} \ {None}

\* The versions of a workflow are numbered from 1 without gap or repetition,
\* although each request computes its number from what it has read.
VersionsNumbered ==
  {version[v].number : v \in Created} = 1..Cardinality(Created)

\* An event that arrives while the workflow is paused or archived starts nothing,
\* even if a publication activates the workflow during the dispatch.
PausedIgnoresEvents == \A x \in execution : x.arrived

\* What a walk from the entry can reach, by any number of edges.
ReachedBy(S) == S \cup {m \in GraphNodes : \E n \in S : <<n, m>> \in search.edges}
Reachable(from) ==
  LET reach[k \in 0..Cardinality(GraphNodes)] ==
        IF k = 0 THEN from ELSE ReachedBy(reach[k - 1])
  IN  reach[Cardinality(GraphNodes)]
OnCycle(n) == n \in Reachable({m \in GraphNodes : <<n, m>> \in search.edges})

\* assertAcyclic finds a cycle exactly if an execution, which begins at the
\* entry, could run into one: a diamond is no cycle, and a cycle that the entry
\* does not lead to is let through.
CycleFoundIfReachable ==
  search.verdict # None =>
    ((search.verdict = "cycle") <=> \E n \in Reachable({GraphEntry}) : OnCycle(n))
=============================================================================
