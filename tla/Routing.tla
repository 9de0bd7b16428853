------------------------------ MODULE Routing -------------------------------
(***************************************************************************)
(* How a request finds its handler and is let in: the router takes the     *)
(* first registered route that matches, the guards of the route are asked  *)
(* in order, and several services ask once more.  A request is made by an  *)
(* actor, who is logged in or not and holds permissions, for a record that *)
(* is the actor's own or not.                                              *)
(***************************************************************************)
EXTENDS Requests, Sequences, SequencesExt, HttpRoutes

VARIABLE answer   \* how the request of the behaviour was answered, None before

routingVars == answer
RoutingInit == answer = None

\* app.module.ts and the modules it imports: the order of registration.
IdentityControllers ==
  <<UsersController, UserProfileController, CredentialsController, AuthController,
    TwoFactorController, SessionController, AdminSessionController, PermissionsController>>
PropertyControllers ==
  <<PropertyTypesController, PropertyController, PropertyCategoryController,
    PropertySubcategoryController, PropertyLocationController, PropertyFacilityController,
    PropertyDetailsController, PropertyExtrasController, PropertyLifecycleController,
    PropertyCapabilitiesController, ListingController>>
SystemControllers ==
  <<AuditLogsController, ActivityController, ExportController, ImportController,
    JobsController, NotificationsController, SettingsController, WebhookController,
    IntegrationController, OperationsController, ObservabilityController,
    ProductionHardeningController, IntegrationLogsController,
    SystemHealthAggregationController, RetentionController, SystemRoadmapControlController,
    IntegrationCallbackController, SystemCacheOperationsController>>
BusinessControllers ==
  <<ContentController, SupportingContentController, PublicContentController, CrmController,
    CrmPublicInquiryController, CrmLifecycleController, CrmCommunicationDeliveryController,
    CrmCommunicationHealthController, SalesController, AgentManagementController,
    PropertyMatchingController, AutomationController, AnalyticsController, SeoController,
    SeoRedirectAdminController, ExecutiveDashboardController>>
RouteTable ==
  FlattenSeq(IdentityControllers \o PropertyControllers
             \o <<RolesController, UserRolesController>> \o SystemControllers
             \o BusinessControllers \o <<HealthController, AppController>>)

\* The router: the first route of the method whose literals are those of the path.
\* The values in place of parameters differ from every literal.
Matches(route, asked) ==
  /\ route.verb = asked.verb /\ Len(route.path) = Len(asked.path)
  /\ \A k \in DOMAIN route.path :
       route.path[k] \in Params \/ route.path[k] = asked.path[k]
Dispatch(asked) == SelectInSeq(RouteTable, LAMBDA route : Matches(route, asked))

-----------------------------------------------------------------------------
(* The permissions that prisma/seeds creates, and gives the role ADMIN.    *)

UserPermissions ==
  {"users"} \X {"read", "create", "update", "delete"}
  \cup {"roles", "permissions"} \X {"read", "create", "update", "delete", "manage",
       "manage.protected"}

PropertyPermissions ==
  {"property-types", "property-categories", "property-subcategories", "facilities",
       "property-features", "property-security", "property-environment", "property-seo"} \X
       {"create", "read", "update", "delete"}
  \cup {"locations"} \X {"manage", "read"}
  \cup {"properties"} \X {"create", "read", "update", "delete", "verify", "publish", "archive",
       "manage", "sensitive.read"}
  \cup {"property-specifications", "property-locations", "property-buildings",
       "property-utilities", "property-legal", "property-certificates", "property-financial"} \X
       {"read", "create", "update", "delete"}
  \cup {"property-rooms"} \X {"read", "create", "update", "delete", "reorder"}
  \cup {"property-facilities"} \X {"read", "create", "attach", "bulk-attach", "update", "detach",
       "delete"}
  \cup {"property-media"} \X {"read", "create", "update", "delete", "reorder", "set-cover"}
  \cup {"property-agents"} \X {"assign", "create", "read", "update", "delete", "change"}
  \cup {"property-owners"} \X {"manage"}
  \cup {"listings"} \X {"read", "create", "update", "delete", "manage", "submit-review",
       "verify", "reject", "activate", "publish", "unpublish", "archive", "restore", "sold",
       "rented", "expire", "duplicate", "analytics.read"}

PropertyMatchingPermissions ==
  {"property-matching"} \X {"rules.read", "rules.manage"}

AutomationPermissions ==
  {"automation"} \X {"workflows.read", "workflows.create", "workflows.update",
       "workflows.publish", "workflows.activate", "workflows.pause", "workflows.archive",
       "execute", "executions.read", "executions.retry", "executions.cancel"}

SystemPermissionCodes ==
  {"system"} \X {"settings.read", "settings.update", "activity.read", "dashboard.read",
       "flags.read", "flags.update", "import.profile.read", "import.profile.create",
       "import.profile.update", "integration.credentials.read", "integration.credentials.update",
       "integration.runtime.read", "integration.runtime.update", "integration.operation.read",
       "integration.operation.create", "integration.operation.update", "integration.event.read",
       "integration.event.create", "integration.event.update", "integration.conflict.read",
       "integration.conflict.update", "integration.sync", "alert.read", "alert.update",
       "notifications.read", "jobs.read", "jobs.retry", "jobs.cancel", "import.create",
       "import.read", "import.retry", "import.cancel", "export.create", "export.read",
       "export.download", "export.retry", "export.cancel", "export.cleanup", "webhook.create",
       "webhook.read", "webhook.update", "webhook.delete", "webhook.rotate", "webhook.replay",
       "webhook.test", "integration.create", "integration.read", "integration.update",
       "integration.delete", "integration.test", "operations.read", "operations.update",
       "operations.retry", "operations.cleanup", "integration.metrics.read", "jobs.metrics.read",
       "integration.health.read", "external.health.read", "observability.read"}

CrmPermissions ==
  {"crm"} \X {"contacts.read", "contacts.create", "contacts.update", "contacts.archive",
       "contacts.consent", "leads.read", "leads.create", "leads.update", "leads.archive",
       "leads.assign", "leads.merge", "leads.qualify", "leads.nurture", "leads.reactivate",
       "leads.close", "leads.convert", "leads.history.read", "config.read", "config.manage",
       "scoring.read", "scoring.manage", "duplicates.read", "duplicates.manage",
       "inquiries.create", "inquiries.read", "inquiries.update", "inquiries.convert",
       "activities.create", "activities.read", "activities.update", "communications.create",
       "communications.read", "communications.update", "communications.send",
       "communications.manage"}

SalesPermissions ==
  {"sales"} \X {"pipelines.create", "pipelines.read", "pipelines.update",
       "pipelines.archive", "pipelines.stages.create", "pipelines.stages.update",
       "pipelines.stages.reorder", "opportunities.create", "opportunities.read",
       "opportunities.update", "opportunities.assign", "opportunities.transition",
       "opportunities.lost", "activities.create", "activities.read", "activities.update",
       "viewings.create", "viewings.read", "viewings.update", "negotiations.create",
       "negotiations.read", "negotiations.transition", "offers.create", "offers.read",
       "offers.transition", "deals.create", "deals.read", "deals.items.update",
       "deals.transition", "deals.lost", "deals.reopen", "closing.create", "lost-reasons.read",
       "lost-reasons.manage", "commission.rules.manage", "commission.calculate",
       "commission.read", "commission.approve", "commission.settle", "forecast.read"}

AgentPermissions ==
  {"agents"} \X {"access", "read", "manage", "specialization.manage", "location.manage",
       "availability.manage", "assignment.self", "assignment.manage", "target.read",
       "target.manage", "performance.read"}

AnalyticsPermissions ==
  {"analytics"} \X {"read", "read.all", "revenue.read", "export", "forecast", "manage"}

ContentPermissions ==
  {"content"} \X
    {"articles.read", "articles.create", "articles.update", "articles.delete",
     "articles.restore", "categories.read", "categories.create", "categories.update",
     "categories.delete", "categories.restore", "tags.read", "tags.create", "tags.update",
     "tags.delete", "tags.restore", "pages.read", "pages.create", "pages.update",
     "pages.delete", "pages.restore", "faqs.read", "faqs.create", "faqs.update",
     "faqs.delete", "faqs.restore", "testimonials.read", "testimonials.create",
     "testimonials.update", "testimonials.delete", "testimonials.restore", "banners.read",
     "banners.create", "banners.update", "banners.delete", "banners.restore", "menus.read",
     "menus.create", "menus.update", "menus.delete", "menus.restore", "media.read",
     "media.create", "media.update", "media.delete", "media.restore", "redirects.read",
     "redirects.create", "redirects.update", "redirects.delete", "redirects.restore",
     "relations.read", "relations.create", "relations.update", "relations.delete",
     "relations.restore", "comments.read", "comments.create", "comments.update",
     "comments.delete", "comments.restore"}

ContentExtraPermissions ==
  {"content"} \X {"articles.publish", "articles.archive", "articles.interact", "comments.moderate"}

\* Mutant: the second list of data.ts is not spread into PERMISSIONS.
SeededWithoutExtra ==
  UserPermissions \cup PropertyPermissions \cup PropertyMatchingPermissions
  \cup AutomationPermissions \cup SystemPermissionCodes \cup ContentPermissions
  \cup CrmPermissions \cup SalesPermissions \cup AgentPermissions \cup AnalyticsPermissions

\* Every seeded permission is given to the role ADMIN (roles/seed.ts).
SeededPermissions ==
  UserPermissions \cup PropertyPermissions \cup PropertyMatchingPermissions
  \cup AutomationPermissions \cup SystemPermissionCodes \cup ContentPermissions
  \cup ContentExtraPermissions \cup CrmPermissions \cup SalesPermissions
  \cup AgentPermissions \cup AnalyticsPermissions

-----------------------------------------------------------------------------
(* Permissions *)

\* authorization.service.ts: a code is granted as such or by <domain>.manage.
HasPermission(granted, code) == {code, <<code[1], "manage">>} \cap granted # {}
AssertPermissions(granted, need) ==
  IF need.match = "AND" THEN \A c \in need.codes : HasPermission(granted, c)
                        ELSE \E c \in need.codes : HasPermission(granted, c)

\* property-access.guard.ts: whoever may not manage properties has to be entitled to
\* the property or the listing that the path names.
HasGlobalPropertyAccess(granted) ==
  {<<"properties", "manage">>, <<"listings", "manage">>, <<"property", "manage">>}
    \cap granted # {}
Within(path, token) == \E k \in 1 .. Len(path) - 1 : path[k] = token
Has(path, token) == \E k \in DOMAIN path : path[k] = token
PropertyAccess(route, granted, own) ==
  LET isListing  == Within(route.path, "listings")
      isProperty == Within(route.path, "properties") \/ Within(route.path, "read-model")
  IN  \/ ~isListing /\ ~isProperty
      \/ HasGlobalPropertyAccess(granted)
      \/ /\ own
         /\ IF isListing THEN Has(route.path, ":uuid")
            ELSE Has(route.path, ":propertyUuid") \/ Has(route.path, ":uuid")

UserPermission(verb) ==
  <<"users", CASE verb = "GET" -> "read" [] verb = "POST" -> "create"
               [] verb \in {"PATCH", "PUT"} -> "update" [] verb = "DELETE" -> "delete">>

(* The guards.  Each returns the error it throws, or None, and claims are what the *)
(* request carries on: the token has no permissions, so that only the two guards   *)
(* that look the actor up provide them.                                            *)
AuthenticatingGuards ==
  {"JwtAuthGuard", "AuthenticatedAccessGuard", "ProfileAuthenticationGuard"}

UserManagementAccess(route, r) ==
  CASE ~r.actor.loggedIn -> "401"
    [] route.verb = "GET" /\ Has(route.path, ":uuid") /\ r.own -> None
    [] UserPermission(route.verb) \in r.actor.permissions -> None
    [] OTHER -> "403"

Authorization(route, r) ==
  CASE route.need.match = "PUBLIC" -> None
    [] route.need.match = "NONE" -> "403"
    [] ~r.actor.loggedIn -> "401"
    [] /\ AssertPermissions(r.actor.permissions, route.need)
       /\ PropertyAccess(route, r.actor.permissions, r.own) -> None
    [] OTHER -> "403"

Refusal(guard, route, r) ==
  CASE guard \in AuthenticatingGuards -> IF r.actor.loggedIn THEN None ELSE "401"
    [] guard = "UserManagementAccessGuard" -> UserManagementAccess(route, r)
    [] guard = "SessionAdminGuard" ->
         IF <<"sessions", "manage">> \in r.claims THEN None ELSE "403"
    [] guard = "AuthorizationGuard" -> Authorization(route, r)

ClaimsAfter(guard, r) ==
  IF guard \in {"UserManagementAccessGuard", "AuthorizationGuard"}
  THEN r.actor.permissions ELSE r.claims

-----------------------------------------------------------------------------
(* What the services ask for themselves *)

\* sales.service.ts: the code that each method requires, with sales.manage for all.
SalesPipelineChecks ==
  [createPipeline |-> "pipelines.create", listPipelines |-> "pipelines.read",
   getPipeline |-> "pipelines.read", updatePipeline |-> "pipelines.update",
   archivePipeline |-> "pipelines.archive", createStage |-> "pipelines.stages.create",
   listStages |-> "pipelines.read", updateStage |-> "pipelines.stages.update",
   archiveStage |-> "pipelines.stages.update", reorderStages |-> "pipelines.stages.reorder"]
SalesOpportunityChecks ==
  [createOpportunity |-> "opportunities.create", getOpportunity |-> "opportunities.read",
   listOpportunities |-> "opportunities.read", updateOpportunity |-> "opportunities.update",
   assignOpportunity |-> "opportunities.assign",
   transitionOpportunity |-> "opportunities.transition",
   attachProperty |-> "opportunities.update", detachProperty |-> "opportunities.update",
   stageHistory |-> "opportunities.read"]
SalesActivityChecks ==
  [createActivity |-> "activities.create", activityStatus |-> "activities.update",
   listActivities |-> "activities.read", createViewing |-> "viewings.create",
   viewingStatus |-> "viewings.update", listViewings |-> "viewings.read",
   createNegotiation |-> "negotiations.create",
   negotiationStatus |-> "negotiations.transition", negotiationHistory |-> "negotiations.read",
   createOffer |-> "offers.create", offerStatus |-> "offers.transition",
   offers |-> "offers.read"]
SalesDealChecks ==
  [createDeal |-> "deals.create", getDeal |-> "deals.read", listDeals |-> "deals.read",
   addDealItem |-> "deals.items.update", updateDealItem |-> "deals.items.update",
   removeDealItem |-> "deals.items.update", dealStatus |-> "deals.transition",
   closeDeal |-> "closing.create"]
SalesOutcomeChecks ==
  [lostOpportunity |-> "opportunities.lost", lostDeal |-> "deals.lost",
   reopenDeal |-> "deals.reopen", lostReasons |-> "lost-reasons.read",
   createLostReason |-> "lost-reasons.manage", updateLostReason |-> "lost-reasons.manage",
   createCommissionRule |-> "commission.rules.manage",
   calculateCommission |-> "commission.calculate", approveCommission |-> "commission.approve",
   settleCommission |-> "commission.settle", commissionReport |-> "commission.read",
   forecast |-> "forecast.read"]
SalesChecks ==
  SalesPipelineChecks @@ SalesOpportunityChecks @@ SalesActivityChecks @@ SalesDealChecks
  @@ SalesOutcomeChecks

\* Methods that first get the opportunity or the deal, which has to be the actor's.
ThroughOpportunity ==
  {"getOpportunity", "updateOpportunity", "transitionOpportunity", "attachProperty",
   "detachProperty", "stageHistory", "createActivity", "listActivities", "createViewing",
   "listViewings", "createNegotiation", "createDeal"}
ThroughDeal == {"getDeal", "addDealItem", "dealStatus", "closeDeal", "calculateCommission"}

SalesRequire(claims, action) == {<<"sales", action>>, <<"sales", "manage">>} \cap claims # {}
EnsureOwner(claims, own) == own \/ <<"sales", "manage">> \in claims
SalesService(handler, r) ==
  /\ SalesRequire(r.claims, SalesChecks[handler])
  /\ handler \in ThroughOpportunity => SalesRequire(r.claims, "opportunities.read")
  /\ handler \in ThroughDeal => SalesRequire(r.claims, "deals.read")
  /\ handler \in ThroughOpportunity \cup ThroughDeal => EnsureOwner(r.claims, r.own)

\* agent-management.service.ts looks the permissions of the actor up again.
AgentChecks ==
  [list |-> "read", create |-> "manage", createSpecialization |-> "specialization.manage",
   reassign |-> "assignment.manage", update |-> "manage", archive |-> "manage",
   addSpecialization |-> "specialization.manage",
   removeSpecialization |-> "specialization.manage", addCoverage |-> "location.manage",
   removeCoverage |-> "location.manage", unassign |-> "assignment.manage",
   createTarget |-> "target.manage", updateTarget |-> "target.manage",
   closeTarget |-> "target.manage"]
AgentChecksOfOthers ==
  [get |-> "read", specializationsForAgent |-> "read", coverage |-> "read",
   updateAvailability |-> "availability.manage", capacity |-> "read",
   assignmentList |-> "read", targets |-> "target.read", performance |-> "performance.read"]
AssignmentPermission(own) == IF own THEN "assignment.self" ELSE "assignment.manage"
AgentService(handler, r) ==
  LET holds(action) == HasPermission(r.actor.permissions, <<"agents", action>>)
  IN  CASE handler \in DOMAIN AgentChecks -> holds(AgentChecks[handler])
        [] handler \in DOMAIN AgentChecksOfOthers ->
             r.own \/ holds(AgentChecksOfOthers[handler])
        [] handler = "assignments" -> holds(AssignmentPermission(r.own))
        [] handler = "candidates" -> holds("read") \/ holds("assignment.manage")
        [] OTHER -> TRUE

\* analytics-scope.policy.ts.
CanReadRevenue(claims) ==
  ({"analytics"} \X {"revenue.read", "manage", "read.all"}) \cap claims # {}
CanExport(claims) == ({"analytics"} \X {"export", "manage"}) \cap claims # {}
\* Mutant: the forecast is left to who may export.
CanForecastExport(claims) == CanExport(claims)
CanForecast(claims) == ({"analytics"} \X {"forecast", "manage"}) \cap claims # {}

\* analytics.service.ts: the reports that ask nothing more than their route, those that
\* ask the policy, and an export, which asks for itself and then as its report does.
OpenReports == {"getLeads", "getAcquisition", "getConversion", "getPipeline", "getSla"}
AgentReports == {"getPropertyAgent"}
ReportAllowed(report, claims) ==
  \/ report \in OpenReports \cup AgentReports
  \/ report = "getSalesRevenue" /\ CanReadRevenue(claims)
  \/ report = "getForecast" /\ CanForecast(claims)
AnalyticsService(handler, r) ==
  IF handler = "exportReport" THEN CanExport(r.claims) /\ ReportAllowed(r.subject, r.claims)
  ELSE ReportAllowed(handler, r.claims)

\* The policies of roles and permissions, for rows that are not protected.
RoleAction(controller, handler) ==
  CASE handler \in {"get", "list", "listPermissions"} -> "read"
    [] controller = "Roles" /\ handler = "remove" -> "delete"
    [] handler = "create" -> "create"
    [] OTHER -> "update"
RoleService(route, r) ==
  ({"roles"} \X {RoleAction(route.controller, route.handler), "manage"}) \cap r.claims # {}
PermissionService(handler, r) ==
  LET action == CASE handler \in {"get", "list"} -> "read" [] handler = "remove" -> "delete"
                  [] OTHER -> handler
  IN  ({"permissions"} \X {action, "manage"}) \cap r.claims # {}

\* Records of the actor: a profile, a workflow, a lead, the subject of a preference.
OwnProfile(r) == r.own \/ <<"users", "manage">> \in r.claims
OwnLead(r) == r.own \/ {<<"crm", "manage">>, <<"crm", "leads.manage">>} \cap r.claims # {}
OwnSubject(r) ==
  \/ r.own
  \/ \E code \in {<<"crm", IF r.subject = "CONTACT" THEN "contacts.read" ELSE "leads.read">>,
                  <<"sales", "manage">>} : HasPermission(r.actor.permissions, code)
OwnWorkflowHandlers ==
  {"create", "get", "update", "createVersion", "activate", "pause", "archive", "execution",
   "assignmentRule", "slaPolicy", "escalationPolicy"}
SubjectHandlers ==
  {"createPreference", "getPreference", "updatePreference", "archivePreference",
   "restorePreference", "match", "generate", "refresh", "history", "latest", "feedback"}

ServiceAllows(route, r) ==
  CASE route.controller = "Sales" -> SalesService(route.handler, r)
    [] route.controller = "AgentManagement" -> AgentService(route.handler, r)
    [] route.controller = "Analytics" -> AnalyticsService(route.handler, r)
    [] route.controller \in {"Roles", "UserRoles"} -> RoleService(route, r)
    [] route.controller = "Permissions" -> PermissionService(route.handler, r)
    [] route.controller = "UserProfile" -> OwnProfile(r)
    [] route.controller = "CrmLifecycle" -> OwnLead(r)
    [] route.controller = "Automation" /\ route.handler \in OwnWorkflowHandlers -> r.own
    [] route.controller = "PropertyMatching" /\ route.handler \in SubjectHandlers ->
         OwnSubject(r)
    [] OTHER -> TRUE

-----------------------------------------------------------------------------
(* Requests.  The actors differ in what they hold: somebody who is not     *)
(* logged in, a user without permissions, users with one of the codes that *)
(* the route asks for (and the right to read the sales records they work   *)
(* on), users who manage its domain, and the administrator of the seeds.   *)
(* A request is at 0 until it is routed, then at its next guard.           *)

Actor(name, loggedIn, permissions) ==
  [name |-> name, loggedIn |-> loggedIn, permissions |-> permissions]
AskedCodes(route) ==
  IF "UserManagementAccessGuard" \in ToSet(route.guards)
  THEN {UserPermission(route.verb)} ELSE route.need.codes
SalesReader == {<<"sales", "opportunities.read">>, <<"sales", "deals.read">>}
Actors(route) ==
  {Actor("anonymous", FALSE, {}), Actor("newcomer", TRUE, {}),
   Actor("administrator", TRUE, SeededPermissions)}
  \cup {Actor("specialist", TRUE, {code} \cup SalesReader) : code \in AskedCodes(route)}
  \cup {Actor("manager", TRUE, {<<code[1], "manage">>}) : code \in route.need.codes}

\* What a request names besides its path: whose preference, or which report.
Subjects(route) ==
  CASE route.controller = "PropertyMatching" -> {"CONTACT", "LEAD"}
    [] route.controller = "Analytics" /\ route.handler = "exportReport" ->
         {"getLeads", "getSalesRevenue", "getForecast"}
    [] OTHER -> {None}

Receive(p) ==
  /\ answer = None /\ \A q \in Procs : req[q] = None
  /\ \E i \in DOMAIN RouteTable, own \in BOOLEAN :
       \E actor \in Actors(RouteTable[i]), subject \in Subjects(RouteTable[i]) :
         Start(p, [op |-> "http", at |-> 0, asked |-> i, actor |-> actor,
                   own |-> own, subject |-> subject, claims |-> {}])
  /\ UNCHANGED <<answer, clock>>

Find(p) ==
  /\ Running(p, "http") /\ At(p, 0)
  /\ req' = [req EXCEPT ![p] =
       [at |-> 1, reached |-> Dispatch(RouteTable[req[p].asked])] @@ @]
  /\ UNCHANGED <<answer, clock>>

Reply(p, status) ==
  /\ answer' = [asked |-> req[p].asked, reached |-> req[p].reached, own |-> req[p].own,
                actor |-> req[p].actor.name, status |-> status]
  /\ Done(p)

\* The guards one after the other: the first that refuses ends the request.
AskGuard(p) ==
  /\ Running(p, "http") /\ req[p].at > 0
  /\ LET r     == req[p]
         route == RouteTable[r.reached]
         guard == route.guards[r.at]
     IN  /\ r.at <= Len(route.guards)
         /\ IF Refusal(guard, route, r) = None
            THEN /\ req' = [req EXCEPT ![p].at = @ + 1, ![p].claims = ClaimsAfter(guard, r)]
                 /\ UNCHANGED answer
            ELSE Reply(p, Refusal(guard, route, r))
  /\ UNCHANGED clock

Serve(p) ==
  /\ Running(p, "http") /\ req[p].at > 0
  /\ LET route == RouteTable[req[p].reached]
     IN  /\ req[p].at > Len(route.guards)
         /\ Reply(p, IF ServiceAllows(route, req[p]) THEN "served" ELSE "403")
  /\ UNCHANGED clock

RoutingNext == \E p \in Procs : Receive(p) \/ Find(p) \/ AskGuard(p) \/ Serve(p)

RoutingTypeOK ==
  answer = None \/ answer.status \in {"served", "401", "403"}

-----------------------------------------------------------------------------
(* Properties *)

\* Three handlers of two controllers that no request reaches: a parameter of a
\* controller that is registered before takes the place of their literal.
Shadowed(route) ==
  \/ route.controller = "ProductionHardening" /\ route.handler \in {"integrationMetrics", "jobMetrics"}
  \/ route.controller = "CrmCommunicationHealth"

Answered(name) == answer # None /\ answer.actor = name
AskedRoute == RouteTable[answer.asked]

\* The router finds the handler whose path was requested, however the controllers
\* and their routes are ordered (system.module.ts, crm.module.ts), except for the
\* handlers that are shadowed.
ReachesOwnHandler ==
  answer # None => answer.reached = answer.asked \/ Shadowed(AskedRoute)

\* Nobody who is not logged in is served where guards are declared, and nobody
\* without permissions is served somebody else's record where a permission is asked.
StrangersRefused ==
  /\ Answered("anonymous") /\ answer.status = "served" =>
       AskedRoute.need \in {Public, Unstated} /\ AskedRoute.guards = <<>>
  /\ Answered("newcomer") /\ answer.status = "served" =>
       AskedCodes(AskedRoute) = {} \/ (answer.own /\ AskedRoute.controller = "Users")

\* Whom the guards let in with the permission of the route, the service does not
\* turn away from an own record: the two lists of codes agree.  The exceptions are an
\* agent's own assignment, for which the service asks for another code, and the export
\* of a report that takes a permission of its own besides that to export.
AdmittedAreServed ==
  (Answered("specialist") \/ Answered("manager")) /\ answer.own =>
    \/ answer.status = "served" \/ Shadowed(AskedRoute)
    \/ AskedRoute.controller = "AgentManagement" /\ AskedRoute.handler = "assignments"
    \/ /\ AskedRoute.controller = "Analytics" /\ AskedRoute.handler = "exportReport"
       /\ Answered("specialist")

\* The role ADMIN of the seeds is served on every route for an own record.  The
\* exceptions are the revocation of another's session, whose guard looks for a
\* permission in the token, and the audit log, whose permission is not seeded.
AdministratorServed ==
  Answered("administrator") /\ answer.own =>
    \/ answer.status = "served" \/ Shadowed(AskedRoute)
    \/ AskedRoute.controller \in {"AdminSession", "AuditLogs"}
=============================================================================
