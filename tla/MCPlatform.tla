----------------------------- MODULE MCPlatform -----------------------------
(***************************************************************************)
(* The components of the platform (accounts, access, integrations, imports *)
(* and the authoring of workflows) for TLC.  They share no state, so each  *)
(* behaviour is about one of them, its focus, and the others rest.         *)
(***************************************************************************)
EXTENDS Accounts, TwoFactor, AccessControl, IntegrationSync, InboundCallbacks,
        ImportJobs, SystemSettings, Workflows, Routing, CircuitBreaker, NotificationDelivery,
        IntegrationLifecycle, PagedLists, Retention, RoadmapControl, TLC

Focuses ==
  {"accounts", "two factor", "access control", "integration push",
   "integration pull", "integration lifecycle", "circuit breaker", "callbacks",
   "import", "http", "notifications", "settings", "workflow versions",
   "workflow graph", "lists", "retention", "credentials", "alerts"}

\* A user who is activated, becomes unverified, or has one identity cleared.
Change(set, cleared, status, isActive) ==
  [set |-> set, cleared |-> cleared, status |-> status, isActive |-> isActive]
MCUserChanges ==
  {Change({}, {}, "active", None), Change({}, {}, None, FALSE),
   Change({}, {CHOOSE i \in Identities : TRUE}, None, None)}

identityVars == <<accountVars, twoFactorVars, accessVars, routingVars>>
exchangeVars == <<syncVars, callbackVars, circuitVars, lifecycleVars, controlVars>>
dataVars == <<importVars, settingVars, deliveryVars, pagingVars, retentionVars>>

vars == <<req, clock, focus, identityVars, exchangeVars, dataVars, workflowVars>>

MCInit ==
  /\ RequestsInit /\ focus \in Focuses
  /\ AccountsInit /\ TwoFactorInit /\ AccessControlInit /\ RoutingInit
  /\ IntegrationSyncInit /\ InboundCallbacksInit /\ CircuitBreakerInit
  /\ IntegrationLifecycleInit /\ RoadmapControlInit
  /\ ImportJobsInit /\ SystemSettingsInit /\ NotificationDeliveryInit /\ PagedListsInit
  /\ RetentionInit /\ WorkflowsInit

MCNext ==
  \/ /\ \/ /\ focus = "accounts" /\ AccountsNext
           /\ UNCHANGED <<twoFactorVars, accessVars, routingVars>>
        \/ /\ focus = "two factor" /\ TwoFactorNext
           /\ UNCHANGED <<accountVars, accessVars, routingVars>>
        \/ /\ focus = "access control" /\ AccessControlNext
           /\ UNCHANGED <<accountVars, twoFactorVars, routingVars>>
        \/ /\ focus = "http" /\ RoutingNext
           /\ UNCHANGED <<accountVars, twoFactorVars, accessVars>>
     /\ UNCHANGED <<focus, exchangeVars, dataVars, workflowVars>>
  \/ /\ \/ /\ focus \in {"integration push", "integration pull"} /\ IntegrationSyncNext
           /\ UNCHANGED <<callbackVars, circuitVars, lifecycleVars, controlVars>>
        \/ /\ focus = "callbacks" /\ InboundCallbacksNext
           /\ UNCHANGED <<syncVars, circuitVars, lifecycleVars, controlVars>>
        \/ /\ focus = "circuit breaker" /\ CircuitBreakerNext
           /\ UNCHANGED <<syncVars, callbackVars, lifecycleVars, controlVars>>
        \/ /\ focus = "integration lifecycle" /\ IntegrationLifecycleNext
           /\ UNCHANGED <<syncVars, callbackVars, circuitVars, controlVars>>
        \/ /\ RoadmapControlNext
           /\ UNCHANGED <<syncVars, callbackVars, circuitVars, lifecycleVars>>
     /\ UNCHANGED <<focus, identityVars, dataVars, workflowVars>>
  \/ /\ \/ /\ focus = "import" /\ ImportJobsNext
           /\ UNCHANGED <<settingVars, deliveryVars, pagingVars, retentionVars>>
        \/ /\ focus = "settings" /\ SystemSettingsNext
           /\ UNCHANGED <<importVars, deliveryVars, pagingVars, retentionVars>>
        \/ /\ focus = "notifications" /\ NotificationDeliveryNext
           /\ UNCHANGED <<importVars, settingVars, pagingVars, retentionVars>>
        \/ /\ focus = "lists" /\ PagedListsNext
           /\ UNCHANGED <<importVars, settingVars, deliveryVars, retentionVars>>
        \/ /\ focus = "retention" /\ RetentionNext
           /\ UNCHANGED <<importVars, settingVars, deliveryVars, pagingVars>>
     /\ UNCHANGED <<focus, identityVars, exchangeVars, workflowVars>>
  \/ /\ WorkflowsNext
     /\ UNCHANGED <<focus, identityVars, exchangeVars, dataVars>>

MCSpec == MCInit /\ [][MCNext]_vars

Symmetry == Permutations(Procs) \cup Permutations(Secrets) \cup Permutations(Codes)

-----------------------------------------------------------------------------
\* The rows of every component have the types of the schema.
PlatformTypeOK ==
  /\ AccountsTypeOK /\ TwoFactorTypeOK /\ AccessControlTypeOK /\ IntegrationSyncTypeOK
  /\ InboundCallbacksTypeOK /\ ImportJobsTypeOK /\ SystemSettingsTypeOK /\ WorkflowsTypeOK
  /\ RoutingTypeOK /\ CircuitBreakerTypeOK /\ NotificationDeliveryTypeOK
  /\ IntegrationLifecycleTypeOK
  /\ PagedListsTypeOK
  /\ RetentionTypeOK
  /\ RoadmapControlTypeOK

(* The properties of the components, gathered by what they protect.        *)

\* Who may log in, and with what: a new password ends the sessions that the old
\* one opened, failures at the threshold lock the account, a one-time or backup
\* code counts once, a challenge bounds the guesses, and no assignment outlives
\* its role or permission.
IdentityInvariant ==
  /\ SessionsFollowPassword /\ ThresholdLocks /\ NothingAcceptedTwice
  /\ ChallengeGuessesBounded /\ NoDanglingAssignment

\* What is exchanged with other systems: one attempt per claimed retry, no page
\* passed over, no success without the provider's answer, and an event that is
\* accepted once, called a duplicate only once it is being processed.  A provider is
\* reconnected once per key, its circuit opens only on failures, no lock on it is
\* left without holder, and its credentials have a history without gaps.
IntegrationInvariant ==
  /\ RetryClaimedOnce /\ NoPageSkipped /\ SucceededWasDone
  /\ DuplicateWasProcessed /\ AcceptedOnce
  /\ ReconnectedOncePerKey /\ ConnectingIsHeld /\ OpenedByFailures /\ ProbeFlagIsHeld
  /\ CredentialHistory

\* What is kept in the system's tables: imports store all or nothing where they
\* promise to, and report what they stored; a version of a setting is replaced
\* once, and a stale value is read only by whom an update overtook; overlapping
\* schedulers repeat and lose a notification only within bounds.  What is on hold is
\* kept, what is old is removed, and no alert is closed by who has not seen it.  One
\* version of a workflow is active, they are numbered without gaps or repeats, and
\* none runs while the workflow is paused.
SystemDataInvariant ==
  /\ AllOrNothing /\ ReportMatchesStore /\ VersionReplacedOnce /\ StaleOnlyWhenOvertaken
  /\ SentOncePerScheduler /\ DeliveryAttemptsBounded /\ SendingIsHeld
  /\ HeldIsKept /\ SweepIsComplete /\ SignalsAreSeen
  /\ OneActiveVersion /\ VersionsNumbered /\ PausedIgnoresEvents

\* What is answered from a table, a list or a graph: a request reaches the handler of
\* its path, strangers are refused, whom the guards admit is served; who reads a list
\* page by page misses and repeats nothing but what changed meanwhile; and a graph is
\* refused if an execution could reach a cycle.
DecisionInvariant ==
  /\ ReachesOwnHandler /\ StrangersRefused /\ AdmittedAreServed /\ AdministratorServed
  /\ WalkMissesNothing /\ WalkRepeatsNothing /\ PageMatchesTotal
  /\ CycleFoundIfReachable

\* No step shortens a lock that is in force, and a login is refused once a code of
\* its time step or a later one was accepted for the secret in force.
LoginSteps == LockStays /\ OvertakenLoginRefused
=============================================================================
