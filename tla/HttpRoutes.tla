----------------------------- MODULE HttpRoutes -----------------------------
(***************************************************************************)
(* The vocabulary of the route tables: what the decorators of a controller *)
(* and of its handlers say.  A path is the sequence of its tokens, and a   *)
(* permission code is split after its first token, the domain of which     *)
(* authorization.service.ts lets <domain>.manage stand for every code.     *)
(* (audit:read is the code audit.read: colons are normalised to dots.)     *)
(* Then the routes of every registered controller: each line is a handler  *)
(* with its decorators, the method, the handler, the path below that of    *)
(* the controller and the permission it asks for.                          *)
(***************************************************************************)
EXTENDS Naturals, Sequences

\* @RequirePermissions, @RequirePermissionsAny, @Public, or none of them.
Requirement(match, codes) == [match |-> match, codes |-> codes]
Asks(domain, action) == Requirement("AND", {<<domain, action>>})
AnyOf(codes) == Requirement("OR", codes)
Public == Requirement("PUBLIC", {})
Unstated == Requirement("NONE", {})

Route(verb, handler, path, need) ==
  [verb |-> verb, handler |-> handler, path |-> path, need |-> need, guards |-> <<>>]
GET(handler, path, need) == Route("GET", handler, path, need)
POST(handler, path, need) == Route("POST", handler, path, need)
PUT(handler, path, need) == Route("PUT", handler, path, need)
PATCH(handler, path, need) == Route("PATCH", handler, path, need)
DELETE(handler, path, need) == Route("DELETE", handler, path, need)

\* @UseGuards on a handler.
Guarded(guards, route) == [route EXCEPT !.guards = guards]

\* @Controller and @UseGuards on a class: the guards of the class come first.
Controller(name, prefix, guards, routes) ==
  [i \in DOMAIN routes |->
     [controller |-> name, verb |-> routes[i].verb, handler |-> routes[i].handler,
      path |-> prefix \o routes[i].path, need |-> routes[i].need,
      guards |-> guards \o routes[i].guards]]

\* The tokens that the router matches with any value.
Params ==
  {":uuid", ":id", ":slug", ":key", ":kind", ":level", ":email", ":username", ":namespace",
   ":identifier", ":part.xml", ":resourceType", ":resourceUuid", ":subjectType",
   ":subjectUuid", ":propertyUuid", ":roomUuid", ":facilityUuid", ":amenityUuid",
   ":certificateUuid", ":mediaUuid", ":documentUuid", ":versionUuid", ":userUuid",
   ":roleUuid", ":permissionUuid", ":pipelineUuid", ":contactUuid", ":childUuid",
   ":sourceUuid", ":tagUuid", ":revisionUuid", ":assignmentUuid", ":targetUuid",
   ":specializationUuid", ":coverageUuid", ":credentialUuid", ":integrationUuid",
   ":deliveryUuid", ":conflictKey"}

-----------------------------------------------------------------------------

(***************************************************************************)
(* Users, authentication, roles and permissions, the system's own data.    *)
(***************************************************************************)
UserListRoutes ==
  <<POST("create", <<>>, Unstated),
    GET("list", <<>>, Unstated),
    GET("getByEmail", <<"email", ":email">>, Unstated),
    GET("getByUsername", <<"username", ":username">>, Unstated)>>

UserRoutes ==
  <<GET("getByUuid", <<":uuid">>, Unstated),
    PATCH("update", <<":uuid">>, Unstated),
    DELETE("remove", <<":uuid">>, Unstated)>>

UsersController ==
  Controller("Users", <<"users">>, <<"UserManagementAccessGuard">>,
    UserListRoutes \o UserRoutes)

UserProfileController ==
  Controller("UserProfile", <<"users">>, <<"ProfileAuthenticationGuard">>,
    <<POST("create", <<":uuid", "profile">>, Unstated),
      GET("get", <<":uuid", "profile">>, Unstated),
      PATCH("update", <<":uuid", "profile">>, Unstated)>>)

CredentialsController ==
  Controller("Credentials", <<>>, <<>>,
    <<POST("requestReset", <<"password-reset">>, Unstated),
      POST("confirmReset", <<"password-reset", "confirm">>, Unstated),
      Guarded(<<"ProfileAuthenticationGuard">>,
         POST("changePassword", <<"users", "me", "password">>, Unstated))>>)

AuthController ==
  Controller("Auth", <<"auth">>, <<>>,
    <<POST("loginUser", <<"login">>, Unstated),
      POST("refresh", <<"refresh">>, Unstated),
      Guarded(<<"JwtAuthGuard">>,
         POST("logoutUser", <<"logout">>, Unstated)),
      Guarded(<<"JwtAuthGuard">>,
         GET("currentUser", <<"me">>, Unstated))>>)

TwoFactorController ==
  Controller("TwoFactor", <<"auth", "2fa">>, <<>>,
    <<Guarded(<<"JwtAuthGuard">>,
         GET("status", <<>>, Unstated)),
      Guarded(<<"JwtAuthGuard">>,
         POST("enrollment", <<"enrollment">>, Unstated)),
      Guarded(<<"JwtAuthGuard">>,
         POST("verifyEnrollment", <<"enrollment", "verify">>, Unstated)),
      POST("verify", <<"verify">>, Unstated),
      Guarded(<<"JwtAuthGuard">>,
         POST("regenerateRecoveryCodes", <<"recovery-codes", "regenerate">>, Unstated)),
      Guarded(<<"JwtAuthGuard">>,
         POST("disable", <<"disable">>, Unstated))>>)

SessionController ==
  Controller("Session", <<"auth", "sessions">>, <<"JwtAuthGuard">>,
    <<GET("list", <<>>, Unstated),
      POST("logoutAll", <<"logout-all">>, Unstated),
      DELETE("revoke", <<":id">>, Unstated)>>)

AdminSessionController ==
  Controller("AdminSession", <<"admin", "session-management">>, <<"JwtAuthGuard", "SessionAdminGuard">>,
    <<POST("revoke", <<"users", ":userUuid", "sessions", ":id", "revoke">>, Unstated)>>)

PermissionsController ==
  Controller("Permissions", <<"permissions">>, <<"JwtAuthGuard", "AuthorizationGuard">>,
    <<GET("get", <<":uuid">>, Asks("permissions", "read")),
      GET("list", <<>>, Asks("permissions", "read")),
      POST("create", <<>>, Asks("permissions", "create")),
      PUT("update", <<":uuid">>, Asks("permissions", "update")),
      DELETE("remove", <<":uuid">>, Asks("permissions", "delete"))>>)

RoleRoutes ==
  <<GET("get", <<":uuid">>, Asks("roles", "read")),
    GET("list", <<>>, Asks("roles", "read")),
    GET("listPermissions", <<":uuid", "permissions">>, Asks("roles", "read")),
    POST("assignPermission", <<":uuid", "permissions">>, Asks("roles", "update")),
    DELETE("removePermission", <<":uuid", "permissions", ":permissionUuid">>, Asks("roles", "update")),
    POST("create", <<>>, Asks("roles", "create")),
    PUT("update", <<":uuid">>, Asks("roles", "update"))>>

RoleRemoval ==
  <<DELETE("remove", <<":uuid">>, Asks("roles", "delete"))>>

RolesController ==
  Controller("Roles", <<"roles">>, <<"JwtAuthGuard", "AuthorizationGuard">>,
    RoleRoutes \o RoleRemoval)

UserRolesController ==
  Controller("UserRoles", <<"users">>, <<"JwtAuthGuard", "AuthorizationGuard">>,
    <<GET("list", <<":userUuid", "roles">>, Asks("roles", "read")),
      POST("assign", <<":userUuid", "roles">>, Asks("roles", "manage")),
      DELETE("remove", <<":userUuid", "roles", ":roleUuid">>, Asks("roles", "manage"))>>)

HealthController ==
  Controller("Health", <<"health">>, <<>>,
    <<GET("liveness", <<"live">>, Unstated),
      GET("readiness", <<"ready">>, Unstated)>>)

AppController ==
  Controller("App", <<>>, <<>>,
    <<GET("getHello", <<>>, Unstated)>>)

-----------------------------------------------------------------------------
(* The system.                                                             *)

AuditLogsController ==
  Controller("AuditLogs", <<"system", "audit-logs">>, <<"JwtAuthGuard", "AuthorizationGuard">>,
    <<GET("list", <<>>, Asks("audit", "read"))>>)

ActivityController ==
  Controller("Activity", <<"system", "activity">>, <<"JwtAuthGuard", "AuthorizationGuard">>,
    <<GET("list", <<>>, Asks("system", "activity.read")),
      GET("get", <<":uuid">>, Asks("system", "activity.read"))>>)

ExportController ==
  Controller("Export", <<"system", "exports">>, <<"AuthenticatedAccessGuard", "AuthorizationGuard">>,
    <<POST("create", <<>>, Asks("system", "export.create")),
      GET("list", <<>>, Asks("system", "export.read")),
      GET("get", <<":uuid">>, Asks("system", "export.read")),
      POST("retry", <<":uuid", "retry">>, Asks("system", "export.retry")),
      POST("cancel", <<":uuid", "cancel">>, Asks("system", "export.cancel")),
      GET("download", <<":uuid", "download">>, Asks("system", "export.download"))>>)

ImportController ==
  Controller("Import", <<"system", "imports">>, <<"AuthenticatedAccessGuard", "AuthorizationGuard">>,
    <<POST("create", <<>>, Asks("system", "import.create")),
      GET("list", <<>>, Asks("system", "import.read")),
      GET("get", <<":uuid">>, Asks("system", "import.read")),
      GET("errors", <<":uuid", "errors">>, Asks("system", "import.read")),
      POST("retry", <<":uuid", "retry">>, Asks("system", "import.retry")),
      POST("cancel", <<":uuid", "cancel">>, Asks("system", "import.cancel"))>>)

JobsController ==
  Controller("Jobs", <<"system", "jobs">>, <<"JwtAuthGuard", "AuthorizationGuard">>,
    <<GET("list", <<>>, Asks("system", "jobs.read")),
      GET("get", <<":uuid">>, Asks("system", "jobs.read")),
      POST("retry", <<":uuid", "retry">>, Asks("system", "jobs.retry")),
      POST("cancel", <<":uuid", "cancel">>, Asks("system", "jobs.cancel"))>>)

NotificationRoutes ==
  <<GET("list", <<>>, Asks("system", "notifications.read")),
    PATCH("markAllRead", <<"read-all">>, Asks("system", "notifications.read")),
    PATCH("markRead", <<":uuid", "read">>, Asks("system", "notifications.read")),
    GET("preferences", <<"preferences">>, Asks("system", "notifications.read")),
    PATCH("setPreference", <<"preferences">>, Asks("system", "notifications.read")),
    GET("templates", <<"templates">>, Asks("system", "notifications.read")),
    POST("createTemplate", <<"templates">>, Asks("system", "settings.update")),
    PATCH("updateTemplate", <<"templates", ":uuid">>, Asks("system", "settings.update"))>>

NotificationPolicyRoutes ==
  <<GET("policy", <<":uuid", "policy">>, Asks("system", "notifications.read")),
    PATCH("setPolicy", <<":uuid", "policy">>, Asks("system", "settings.update")),
    GET("deliveries", <<":uuid", "deliveries">>, Asks("system", "notifications.read")),
    POST("createDelivery", <<":uuid", "deliveries">>, Asks("system", "settings.update")),
    POST("retryDelivery", <<"deliveries", ":deliveryUuid", "retry">>, Asks("system", "settings.update"))>>

NotificationsController ==
  Controller("Notifications", <<"system", "notifications">>, <<"JwtAuthGuard", "AuthorizationGuard">>,
    NotificationRoutes \o NotificationPolicyRoutes)

SettingsController ==
  Controller("Settings", <<"system", "settings">>, <<"JwtAuthGuard", "AuthorizationGuard">>,
    <<GET("list", <<>>, Asks("system", "settings.read")),
      GET("get", <<":key">>, Asks("system", "settings.read")),
      PATCH("update", <<":key">>, Asks("system", "settings.update"))>>)

WebhookRoutes ==
  <<GET("events", <<"events">>, Asks("system", "webhook.read")),
    GET("list", <<>>, Asks("system", "webhook.read")),
    POST("create", <<>>, Asks("system", "webhook.create")),
    GET("get", <<":uuid">>, Asks("system", "webhook.read")),
    GET("health", <<":uuid", "health">>, Asks("system", "webhook.read")),
    PATCH("update", <<":uuid">>, Asks("system", "webhook.update")),
    DELETE("remove", <<":uuid">>, Asks("system", "webhook.delete")),
    POST("rotate", <<":uuid", "rotate-secret">>, Asks("system", "webhook.rotate")),
    POST("test", <<":uuid", "test">>, Asks("system", "webhook.test")),
    GET("deliveries", <<":uuid", "deliveries">>, Asks("system", "webhook.read"))>>

ReplayRoutes ==
  <<POST("replay", <<"deliveries", ":deliveryUuid", "replay">>, Asks("system", "webhook.replay"))>>

WebhookController ==
  Controller("Webhook", <<"system", "webhooks">>, <<"AuthenticatedAccessGuard", "AuthorizationGuard">>,
    WebhookRoutes \o ReplayRoutes)

IntegrationRoutes ==
  <<GET("registry", <<"registry">>, Asks("system", "integration.read")),
    GET("list", <<>>, Asks("system", "integration.read")),
    POST("create", <<>>, Asks("system", "integration.create")),
    GET("get", <<":uuid">>, Asks("system", "integration.read")),
    GET("health", <<":uuid", "health">>, Asks("system", "integration.read")),
    PATCH("update", <<":uuid">>, Asks("system", "integration.update")),
    DELETE("remove", <<":uuid">>, Asks("system", "integration.delete")),
    POST("test", <<":uuid", "test">>, Asks("system", "integration.test")),
    POST("reconnect", <<":uuid", "reconnect">>, Asks("system", "integration.test")),
    POST("sync", <<":uuid", "sync">>, Asks("system", "integration.sync")),
    GET("reconciliation", <<":uuid", "reconciliation">>, Asks("system", "integration.read"))>>

\* Mutant: the registry is declared after the handler of :uuid.
IntegrationControllerLast ==
  Controller("Integration", <<"system", "integrations">>,
    <<"AuthenticatedAccessGuard", "AuthorizationGuard">>,
    Tail(IntegrationRoutes) \o <<Head(IntegrationRoutes)>>)

IntegrationController ==
  Controller("Integration", <<"system", "integrations">>, <<"AuthenticatedAccessGuard", "AuthorizationGuard">>,
    IntegrationRoutes)

OperationsController ==
  Controller("Operations", <<"system", "operations">>, <<"AuthenticatedAccessGuard", "AuthorizationGuard">>,
    <<GET("state", <<>>, Asks("system", "operations.read")),
      GET("diagnostics", <<"diagnostics">>, Asks("system", "operations.read")),
      PATCH("maintenance", <<"maintenance">>, Asks("system", "operations.update")),
      PATCH("readOnly", <<"read-only">>, Asks("system", "operations.update"))>>)

ObservabilityController ==
  Controller("Observability", <<"observability">>, <<"AuthenticatedAccessGuard", "AuthorizationGuard">>,
    <<GET("systemMetrics", <<"system-metrics">>, Asks("system", "observability.read")),
      GET("jobMetrics", <<"job-metrics">>, Asks("system", "observability.read")),
      GET("webhookMetrics", <<"webhook-metrics">>, Asks("system", "observability.read")),
      GET("integrationMetrics", <<"integration-metrics">>, Asks("system", "observability.read")),
      GET("importExportMetrics", <<"import-export-metrics">>, Asks("system", "observability.read")),
      GET("deliveryMetrics", <<"delivery-metrics">>, Asks("system", "observability.read")),
      GET("errorTracking", <<"error-tracking">>, Asks("system", "observability.read")),
      GET("auditCorrelation", <<"audit-correlation">>, Asks("system", "observability.read"))>>)

ProductionHardeningController ==
  Controller("ProductionHardening", <<"system">>, <<"AuthenticatedAccessGuard", "AuthorizationGuard">>,
    <<GET("integrationMetrics", <<"integrations", "metrics">>, Asks("system", "integration.read")),
      GET("jobMetrics", <<"jobs", "metrics">>, Asks("system", "jobs.read")),
      GET("integrationHealth", <<"health", "integration">>, Asks("system", "integration.read")),
      GET("externalDependencyHealth", <<"health", "external-dependency">>, Asks("system", "operations.read")),
      GET("commands", <<"operations", "commands">>, Asks("system", "operations.read")),
      POST("retryFailed", <<"operations", "retry-failed">>, Asks("system", "operations.retry")),
      POST("orphanCleanup", <<"operations", "orphan-cleanup">>, Asks("system", "operations.cleanup"))>>)

IntegrationLogsController ==
  Controller("IntegrationLogs", <<"observability">>, <<"AuthenticatedAccessGuard", "AuthorizationGuard">>,
    <<GET("list", <<"integration-logs">>, Asks("system", "integration.read"))>>)

SystemHealthAggregationController ==
  Controller("SystemHealthAggregation", <<"health">>, <<"AuthenticatedAccessGuard", "AuthorizationGuard">>,
    <<GET("integrationHealth", <<"integration-health">>, Asks("system", "integration.health.read")),
      GET("externalDependencyHealth", <<"external-dependency-health">>, Asks("system", "external.health.read"))>>)

RetentionController ==
  Controller("Retention", <<"system", "retention">>, <<"AuthenticatedAccessGuard", "AuthorizationGuard">>,
    <<PATCH("setActivityHold", <<"activity", ":uuid", "hold">>, Asks("system", "settings.update")),
      PATCH("setAuditHold", <<"audit", ":uuid", "hold">>, Asks("system", "settings.update"))>>)

IntegrationControlRoutes ==
  <<GET("dashboard", <<"dashboard">>, Asks("system", "dashboard.read")),
    GET("environmentMetadata", <<"environment">>, Asks("system", "dashboard.read")),
    GET("flags", <<"flags">>, Asks("system", "flags.read")),
    POST("setFlag", <<"flags">>, Asks("system", "flags.update")),
    POST("evaluate", <<"flags", "evaluate">>, Asks("system", "flags.read")),
    GET("profiles", <<"import-profiles">>, Asks("system", "import.profile.read")),
    POST("createProfile", <<"import-profiles">>, Asks("system", "import.profile.create")),
    GET("profile", <<"import-profiles", ":uuid">>, Asks("system", "import.profile.read")),
    PATCH("updateProfile", <<"import-profiles", ":uuid">>, Asks("system", "import.profile.update")),
    GET("credentialsList", <<"integrations", ":uuid", "credentials">>, Asks("system", "integration.credentials.read")),
    POST("createCredential", <<"integrations", ":uuid", "credentials">>, Asks("system", "integration.credentials.update"))>>

OperationControlRoutes ==
  <<POST("rotateCredential", <<"credentials", ":uuid", "rotate">>, Asks("system", "integration.credentials.update")),
    POST("refreshCredential", <<"integrations", ":integrationUuid", "credentials", ":credentialUuid", "refresh">>, Asks("system", "integration.credentials.update")),
    POST("revokeCredential", <<"credentials", ":uuid", "revoke">>, Asks("system", "integration.credentials.update")),
    GET("runtime", <<"integrations", ":uuid", "runtime">>, Asks("system", "integration.runtime.read")),
    PATCH("configureRuntime", <<"integrations", ":uuid", "runtime">>, Asks("system", "integration.runtime.update")),
    POST("push", <<"integrations", ":uuid", "sync", "push">>, Asks("system", "integration.sync")),
    POST("pull", <<"integrations", ":uuid", "sync", "pull">>, Asks("system", "integration.sync")),
    POST("bidirectional", <<"integrations", ":uuid", "sync">>, Asks("system", "integration.sync")),
    GET("operations", <<"integrations", ":uuid", "operations">>, Asks("system", "integration.operation.read")),
    POST("operation", <<"integrations", ":uuid", "operations">>, Asks("system", "integration.operation.create"))>>

SyncControlRoutes ==
  <<POST("retryOperation", <<"operations", ":uuid", "retry">>, Asks("system", "integration.operation.update")),
    POST("complete", <<"operations", ":uuid", "complete">>, Asks("system", "integration.operation.update")),
    POST("fail", <<"operations", ":uuid", "fail">>, Asks("system", "integration.operation.update")),
    GET("events", <<"integrations", ":uuid", "events">>, Asks("system", "integration.event.read")),
    POST("event", <<"integrations", ":uuid", "events">>, Asks("system", "integration.event.create")),
    POST("processEvent", <<"events", ":uuid", "process">>, Asks("system", "integration.event.update")),
    GET("conflicts", <<"integrations", ":uuid", "conflicts">>, Asks("system", "integration.conflict.read")),
    POST("conflict", <<"integrations", ":uuid", "conflicts">>, Asks("system", "integration.conflict.update")),
    POST("resolveConflict", <<"integrations", ":uuid", "conflicts", ":conflictKey", "resolve">>, Asks("system", "integration.conflict.update")),
    GET("alerts", <<"alerts">>, Asks("system", "alert.read")),
    POST("evaluateAlerts", <<"alerts", "evaluate">>, Asks("system", "alert.update")),
    POST("acknowledgeAlert", <<"alerts", ":uuid", "acknowledge">>, Asks("system", "alert.update")),
    POST("resolveAlert", <<"alerts", ":uuid", "resolve">>, Asks("system", "alert.update")),
    POST("resync", <<"integrations", ":uuid", "resync">>, Asks("system", "integration.sync"))>>

SystemRoadmapControlController ==
  Controller("SystemRoadmapControl", <<"system", "control">>, <<"AuthenticatedAccessGuard", "AuthorizationGuard">>,
    IntegrationControlRoutes \o OperationControlRoutes \o SyncControlRoutes)

IntegrationCallbackController ==
  Controller("IntegrationCallback", <<"system", "integrations">>, <<>>,
    <<POST("callback", <<":uuid", "callback">>, Unstated)>>)

SystemCacheOperationsController ==
  Controller("SystemCacheOperations", <<"system", "operations", "cache">>, <<"AuthenticatedAccessGuard", "AuthorizationGuard">>,
    <<GET("stats", <<>>, Asks("system", "operations.read")),
      GET("health", <<"health">>, Asks("system", "operations.read")),
      DELETE("clearNamespace", <<":namespace">>, Asks("system", "operations.update"))>>)

-----------------------------------------------------------------------------

(***************************************************************************)
(* Properties and their listings, content, search engine optimisation.     *)
(***************************************************************************)
PropertyTypesController ==
  Controller("PropertyTypes", <<"property-types">>, <<"JwtAuthGuard", "AuthorizationGuard">>,
    <<POST("create", <<>>, Asks("property-types", "create")),
      GET("list", <<>>, Asks("property-types", "read")),
      GET("get", <<":uuid">>, Asks("property-types", "read")),
      PATCH("update", <<":uuid">>, Asks("property-types", "update")),
      DELETE("remove", <<":uuid">>, Asks("property-types", "delete"))>>)

PropertyController ==
  Controller("Property", <<"property">>, <<"JwtAuthGuard", "AuthorizationGuard">>,
    <<POST("create", <<"properties">>, Asks("properties", "create")),
      GET("list", <<"properties">>, Asks("properties", "read")),
      GET("get", <<"properties", ":uuid">>, Asks("properties", "read")),
      PATCH("update", <<"properties", ":uuid">>, Asks("properties", "update")),
      DELETE("remove", <<"properties", ":uuid">>, Asks("properties", "delete")),
      POST("restore", <<"properties", ":uuid", "restore">>, Asks("properties", "update")),
      POST("duplicate", <<"properties", ":uuid", "duplicate">>, Asks("properties", "create"))>>)

PropertyCategoryController ==
  Controller("PropertyCategory", <<"property">>, <<"JwtAuthGuard", "AuthorizationGuard">>,
    <<POST("create", <<"categories">>, Asks("property-categories", "create")),
      GET("list", <<"categories">>, Asks("property-categories", "read")),
      GET("get", <<"categories", ":uuid">>, Asks("property-categories", "read")),
      PATCH("update", <<"categories", ":uuid">>, Asks("property-categories", "update")),
      DELETE("remove", <<"categories", ":uuid">>, Asks("property-categories", "delete"))>>)

PropertySubcategoryController ==
  Controller("PropertySubcategory", <<"property">>, <<"JwtAuthGuard", "AuthorizationGuard">>,
    <<POST("create", <<"subcategories">>, Asks("property-subcategories", "create")),
      GET("list", <<"subcategories">>, Asks("property-subcategories", "read")),
      GET("get", <<"subcategories", ":uuid">>, Asks("property-subcategories", "read")),
      PATCH("update", <<"subcategories", ":uuid">>, Asks("property-subcategories", "update")),
      DELETE("remove", <<"subcategories", ":uuid">>, Asks("property-subcategories", "delete"))>>)

PropertyLocationController ==
  Controller("PropertyLocation", <<"property">>, <<"JwtAuthGuard", "AuthorizationGuard">>,
    <<POST("create", <<"locations", ":level">>, Asks("locations", "manage")),
      GET("list", <<"locations", ":level">>, Asks("locations", "read")),
      GET("get", <<"locations", ":level", ":uuid">>, Asks("locations", "read")),
      PATCH("update", <<"locations", ":level", ":uuid">>, Asks("locations", "manage")),
      DELETE("remove", <<"locations", ":level", ":uuid">>, Asks("locations", "manage")),
      GET("children", <<"locations", ":level", ":uuid", "children">>, Asks("locations", "read"))>>)

PropertyFacilityController ==
  Controller("PropertyFacility", <<"property">>, <<"JwtAuthGuard", "AuthorizationGuard">>,
    <<POST("create", <<"facilities">>, Asks("facilities", "create")),
      GET("list", <<"facilities">>, Asks("facilities", "read")),
      GET("get", <<"facilities", ":uuid">>, Asks("facilities", "read")),
      PATCH("update", <<"facilities", ":uuid">>, Asks("facilities", "update")),
      DELETE("remove", <<"facilities", ":uuid">>, Asks("facilities", "delete"))>>)

SpecificationRoutes ==
  <<GET("getSpecifications", <<"specifications">>, Asks("property-specifications", "read")),
    PATCH("updateSpecifications", <<"specifications">>, Asks("property-specifications", "update")),
    GET("getLocation", <<"location">>, Asks("property-locations", "read")),
    PATCH("updateLocation", <<"location">>, Asks("property-locations", "update")),
    GET("getBuilding", <<"building">>, Asks("property-buildings", "read")),
    PATCH("updateBuilding", <<"building">>, Asks("property-buildings", "update"))>>

RoomRoutes ==
  <<GET("listRooms", <<"rooms">>, Asks("property-rooms", "read")),
    POST("createRoom", <<"rooms">>, Asks("property-rooms", "create")),
    PATCH("reorderRooms", <<"rooms", "reorder">>, Asks("property-rooms", "reorder")),
    PATCH("updateRoom", <<"rooms", ":roomUuid">>, Asks("property-rooms", "update")),
    DELETE("deleteRoom", <<"rooms", ":roomUuid">>, Asks("property-rooms", "delete"))>>

PropertyFacilityRoutes ==
  <<GET("listFacilities", <<"facilities">>, Asks("property-facilities", "read")),
    POST("attachFacility", <<"facilities">>, Asks("property-facilities", "attach")),
    POST("bulkAttachFacilities", <<"facilities", "bulk">>, Asks("property-facilities", "bulk-attach")),
    PATCH("updateFacility", <<"facilities", ":facilityUuid">>, Asks("property-facilities", "update")),
    DELETE("detachFacility", <<"facilities", ":facilityUuid">>, Asks("property-facilities", "detach"))>>

PropertyDetailsController ==
  Controller("PropertyDetails", <<"property", "properties", ":propertyUuid">>, <<"JwtAuthGuard", "AuthorizationGuard">>,
    SpecificationRoutes \o RoomRoutes \o PropertyFacilityRoutes)

UtilityRoutes ==
  <<GET("getUtilities", <<"utilities">>, Asks("property-utilities", "read")),
    PATCH("updateUtilities", <<"utilities">>, Asks("property-utilities", "update")),
    GET("getLegal", <<"legal">>, Asks("property-legal", "read")),
    PATCH("updateLegal", <<"legal">>, Asks("property-legal", "update")),
    GET("listCertificates", <<"certificates">>, Asks("property-certificates", "read")),
    POST("createCertificate", <<"certificates">>, Asks("property-certificates", "create")),
    PATCH("updateCertificate", <<"certificates", ":certificateUuid">>, Asks("property-certificates", "update")),
    DELETE("deleteCertificate", <<"certificates", ":certificateUuid">>, Asks("property-certificates", "delete")),
    GET("getFinancial", <<"financial">>, Asks("property-financial", "read")),
    PATCH("updateFinancial", <<"financial">>, Asks("property-financial", "update")),
    GET("getFeatures", <<"features">>, Asks("property-features", "read")),
    PATCH("updateFeatures", <<"features">>, Asks("property-features", "update")),
    GET("getSecurity", <<"security">>, Asks("property-security", "read")),
    PATCH("updateSecurity", <<"security">>, Asks("property-security", "update"))>>

EnvironmentRoutes ==
  <<GET("getEnvironment", <<"environment">>, Asks("property-environment", "read")),
    PATCH("updateEnvironment", <<"environment">>, Asks("property-environment", "update")),
    GET("getSeo", <<"seo">>, Asks("property-seo", "read")),
    PATCH("updateSeo", <<"seo">>, Asks("property-seo", "update")),
    GET("listMedia", <<"media">>, Asks("property-media", "read")),
    POST("addMedia", <<"media">>, Asks("property-media", "create")),
    PATCH("reorderMedia", <<"media", "reorder">>, Asks("property-media", "reorder")),
    POST("setCover", <<"media", ":mediaUuid", "cover">>, Asks("property-media", "set-cover")),
    PATCH("updateMedia", <<"media", ":mediaUuid">>, Asks("property-media", "update")),
    DELETE("deleteMedia", <<"media", ":mediaUuid">>, Asks("property-media", "delete"))>>

PropertyExtrasController ==
  Controller("PropertyExtras", <<"property", "properties", ":propertyUuid">>, <<"JwtAuthGuard", "AuthorizationGuard">>,
    UtilityRoutes \o EnvironmentRoutes)

PropertyLifecycleController ==
  Controller("PropertyLifecycle", <<"property", "properties">>, <<"JwtAuthGuard", "AuthorizationGuard">>,
    <<POST("verify", <<":uuid", "verify">>, Asks("properties", "verify")),
      POST("publish", <<":uuid", "publish">>, Asks("properties", "publish"))>>)

AmenityRoutes ==
  <<GET("listAmenities", <<"amenities">>, Asks("properties", "read")),
    POST("createAmenity", <<"amenities">>, Asks("properties", "manage")),
    PATCH("updateAmenity", <<"amenities", ":uuid">>, Asks("properties", "manage")),
    DELETE("deleteAmenity", <<"amenities", ":uuid">>, Asks("properties", "manage"))>>

PropertyMediaRoutes ==
  <<GET("listPropertyAmenities", <<"properties", ":propertyUuid", "amenities">>, Asks("properties", "read")),
    PUT("assignAmenity", <<"properties", ":propertyUuid", "amenities", ":amenityUuid">>, Asks("properties", "update")),
    DELETE("unassignAmenity", <<"properties", ":propertyUuid", "amenities", ":amenityUuid">>, Asks("properties", "update")),
    GET("listDocuments", <<"properties", ":propertyUuid", "documents">>, Asks("properties", "sensitive.read")),
    GET("getDocument", <<"properties", ":propertyUuid", "documents", ":documentUuid">>, Asks("properties", "sensitive.read")),
    POST("createDocument", <<"properties", ":propertyUuid", "documents">>, Asks("properties", "manage")),
    POST("createDocumentVersion", <<"properties", ":propertyUuid", "documents", ":documentUuid", "versions">>, Asks("properties", "manage")),
    PATCH("updateDocument", <<"properties", ":propertyUuid", "documents", ":documentUuid">>, Asks("properties", "manage")),
    DELETE("deleteDocument", <<"properties", ":propertyUuid", "documents", ":documentUuid">>, Asks("properties", "manage"))>>

PropertyHistoryRoutes ==
  <<GET("listHistory", <<"properties", ":propertyUuid", "history">>, Asks("properties", "read")),
    POST("createHistory", <<"properties", ":propertyUuid", "history">>, Asks("properties", "manage"))>>

PropertyCapabilitiesController ==
  Controller("PropertyCapabilities", <<"property">>, <<"JwtAuthGuard", "AuthorizationGuard">>,
    AmenityRoutes \o PropertyMediaRoutes \o PropertyHistoryRoutes)

ListingRoutes ==
  <<POST("create", <<"listings">>, Asks("listings", "create")),
    GET("search", <<"listings">>, Asks("listings", "read")),
    GET("get", <<"listings", ":uuid">>, Asks("listings", "read")),
    PATCH("update", <<"listings", ":uuid">>, Asks("listings", "update")),
    POST("submitReview", <<"listings", ":uuid", "submit-review">>, Asks("listings", "submit-review")),
    POST("verify", <<"listings", ":uuid", "verify">>, Asks("listings", "verify")),
    POST("reject", <<"listings", ":uuid", "reject">>, Asks("listings", "reject")),
    POST("activate", <<"listings", ":uuid", "activate">>, Asks("listings", "activate")),
    POST("publish", <<"listings", ":uuid", "publish">>, Asks("listings", "publish")),
    POST("unpublish", <<"listings", ":uuid", "unpublish">>, Asks("listings", "unpublish")),
    POST("archive", <<"listings", ":uuid", "archive">>, Asks("listings", "archive")),
    POST("restore", <<"listings", ":uuid", "restore">>, Asks("listings", "restore")),
    POST("sold", <<"listings", ":uuid", "sold">>, Asks("listings", "sold"))>>

ListingOutcomeRoutes ==
  <<POST("rented", <<"listings", ":uuid", "rented">>, Asks("listings", "rented")),
    POST("expire", <<"listings", ":uuid", "expire">>, Asks("listings", "expire")),
    POST("duplicate", <<"listings", ":uuid", "duplicate">>, Asks("listings", "duplicate")),
    GET("detail", <<"read-model", ":uuid">>, Asks("properties", "read")),
    GET("propertySearch", <<"search">>, Asks("properties", "read")),
    POST("assignAgent", <<"properties", ":uuid", "agents">>, Asks("property-agents", "assign")),
    PATCH("changeAgent", <<"properties", ":uuid", "agents", ":assignmentUuid">>, Asks("property-agents", "change")),
    PUT("assignOwner", <<"properties", ":uuid", "owner">>, Asks("property-owners", "manage"))>>

ListingController ==
  Controller("Listing", <<"property">>, <<"JwtAuthGuard", "AuthorizationGuard">>,
    ListingRoutes \o ListingOutcomeRoutes)

-----------------------------------------------------------------------------
(* Content and search engine optimisation.                                 *)

ArticleRoutes ==
  <<POST("create", <<"articles">>, Asks("content", "articles.create")),
    GET("list", <<"articles">>, Asks("content", "articles.read")),
    GET("get", <<"articles", ":uuid">>, Asks("content", "articles.read")),
    PATCH("update", <<"articles", ":uuid">>, Asks("content", "articles.update")),
    DELETE("remove", <<"articles", ":uuid">>, Asks("content", "articles.delete")),
    POST("restore", <<"articles", ":uuid", "restore">>, Asks("content", "articles.restore")),
    POST("duplicate", <<"articles", ":uuid", "duplicate">>, Asks("content", "articles.create")),
    POST("publish", <<"articles", ":uuid", "publish">>, Asks("content", "articles.publish")),
    POST("unpublish", <<"articles", ":uuid", "unpublish">>, Asks("content", "articles.publish")),
    POST("archive", <<"articles", ":uuid", "archive">>, Asks("content", "articles.archive")),
    GET("revisionsList", <<"articles", ":uuid", "revisions">>, Asks("content", "articles.read")),
    POST("revisionRestore", <<"articles", ":uuid", "revisions", ":revisionUuid", "restore">>, Asks("content", "articles.restore"))>>

ArticleSeoRoutes ==
  <<PUT("seo", <<"articles", ":uuid", "seo">>, Asks("content", "articles.update")),
    GET("listMedia", <<"media">>, Asks("content", "media.read")),
    GET("getMedia", <<"media", ":uuid">>, Asks("content", "media.read")),
    PATCH("updateMedia", <<"media", ":uuid">>, Asks("content", "media.update")),
    DELETE("deleteMedia", <<"media", ":uuid">>, Asks("content", "media.delete")),
    POST("restoreMedia", <<"media", ":uuid", "restore">>, Asks("content", "media.restore")),
    POST("uploadMedia", <<"media", "upload">>, Asks("content", "media.create")),
    POST("addRelation", <<"relations">>, Asks("content", "relations.create")),
    GET("relationList", <<"relations", ":sourceUuid">>, Asks("content", "relations.read")),
    DELETE("relationDelete", <<"relations", ":uuid">>, Asks("content", "relations.delete"))>>

ArticleReaderRoutes ==
  <<POST("like", <<"articles", ":uuid", "likes">>, Asks("content", "articles.interact")),
    DELETE("unlike", <<"articles", ":uuid", "likes">>, Asks("content", "articles.interact")),
    POST("bookmark", <<"articles", ":uuid", "bookmark">>, Asks("content", "articles.interact")),
    DELETE("unbookmark", <<"articles", ":uuid", "bookmark">>, Asks("content", "articles.interact")),
    POST("comment", <<"articles", ":uuid", "comments">>, Asks("content", "comments.create")),
    POST("moderate", <<"comments", ":uuid", "moderate">>, Asks("content", "comments.moderate"))>>

ContentController ==
  Controller("Content", <<"cms">>, <<"JwtAuthGuard", "AuthorizationGuard">>,
    ArticleRoutes \o ArticleSeoRoutes \o ArticleReaderRoutes)

TaxonomyRoutes ==
  <<GET("listCategories", <<"categories">>, Asks("content", "categories.read")),
    GET("getCategory", <<"categories", ":uuid">>, Asks("content", "categories.read")),
    POST("createCategory", <<"categories">>, Asks("content", "categories.create")),
    PATCH("updateCategory", <<"categories", ":uuid">>, Asks("content", "categories.update")),
    DELETE("deleteCategory", <<"categories", ":uuid">>, Asks("content", "categories.delete")),
    POST("restoreCategory", <<"categories", ":uuid", "restore">>, Asks("content", "categories.restore")),
    GET("listTags", <<"tags">>, Asks("content", "tags.read")),
    GET("getTag", <<"tags", ":uuid">>, Asks("content", "tags.read")),
    POST("createTag", <<"tags">>, Asks("content", "tags.create")),
    PATCH("updateTag", <<"tags", ":uuid">>, Asks("content", "tags.update")),
    DELETE("deleteTag", <<"tags", ":uuid">>, Asks("content", "tags.delete")),
    POST("restoreTag", <<"tags", ":uuid", "restore">>, Asks("content", "tags.restore"))>>

PageRoutes ==
  <<GET("listPages", <<"pages">>, Asks("content", "pages.read")),
    GET("getPage", <<"pages", ":uuid">>, Asks("content", "pages.read")),
    POST("createPage", <<"pages">>, Asks("content", "pages.create")),
    PATCH("updatePage", <<"pages", ":uuid">>, Asks("content", "pages.update")),
    DELETE("deletePage", <<"pages", ":uuid">>, Asks("content", "pages.delete")),
    POST("restorePage", <<"pages", ":uuid", "restore">>, Asks("content", "pages.restore")),
    POST("publishPage", <<"pages", ":uuid", "publish">>, Asks("content", "pages.update")),
    POST("unpublishPage", <<"pages", ":uuid", "unpublish">>, Asks("content", "pages.update")),
    POST("schedulePage", <<"pages", ":uuid", "schedule">>, Asks("content", "pages.update")),
    GET("listFaqs", <<"faqs">>, Asks("content", "faqs.read")),
    GET("getFaq", <<"faqs", ":uuid">>, Asks("content", "faqs.read")),
    POST("createFaq", <<"faqs">>, Asks("content", "faqs.create")),
    PATCH("updateFaq", <<"faqs", ":uuid">>, Asks("content", "faqs.update")),
    DELETE("deleteFaq", <<"faqs", ":uuid">>, Asks("content", "faqs.delete")),
    POST("restoreFaq", <<"faqs", ":uuid", "restore">>, Asks("content", "faqs.restore"))>>

TestimonialRoutes ==
  <<GET("listTestimonials", <<"testimonials">>, Asks("content", "testimonials.read")),
    GET("getTestimonial", <<"testimonials", ":uuid">>, Asks("content", "testimonials.read")),
    POST("createTestimonial", <<"testimonials">>, Asks("content", "testimonials.create")),
    PATCH("updateTestimonial", <<"testimonials", ":uuid">>, Asks("content", "testimonials.update")),
    DELETE("deleteTestimonial", <<"testimonials", ":uuid">>, Asks("content", "testimonials.delete")),
    POST("restoreTestimonial", <<"testimonials", ":uuid", "restore">>, Asks("content", "testimonials.restore")),
    GET("listBanners", <<"banners">>, Asks("content", "banners.read")),
    GET("getBanner", <<"banners", ":uuid">>, Asks("content", "banners.read")),
    POST("createBanner", <<"banners">>, Asks("content", "banners.create")),
    PATCH("updateBanner", <<"banners", ":uuid">>, Asks("content", "banners.update")),
    DELETE("deleteBanner", <<"banners", ":uuid">>, Asks("content", "banners.delete")),
    POST("restoreBanner", <<"banners", ":uuid", "restore">>, Asks("content", "banners.restore")),
    POST("activateBanner", <<"banners", ":uuid", "activate">>, Asks("content", "banners.update")),
    POST("deactivateBanner", <<"banners", ":uuid", "deactivate">>, Asks("content", "banners.update"))>>

MenuRoutes ==
  <<GET("listMenus", <<"menus">>, Asks("content", "menus.read")),
    GET("getMenu", <<"menus", ":uuid">>, Asks("content", "menus.read")),
    POST("createMenu", <<"menus">>, Asks("content", "menus.create")),
    PATCH("updateMenu", <<"menus", ":uuid">>, Asks("content", "menus.update")),
    DELETE("deleteMenu", <<"menus", ":uuid">>, Asks("content", "menus.delete")),
    POST("restoreMenu", <<"menus", ":uuid", "restore">>, Asks("content", "menus.restore")),
    POST("reorderMenu", <<"menus", ":uuid", "reorder">>, Asks("content", "menus.update")),
    GET("listRedirects", <<"redirects">>, Asks("content", "redirects.read")),
    GET("getRedirect", <<"redirects", ":uuid">>, Asks("content", "redirects.read")),
    POST("createRedirect", <<"redirects">>, Asks("content", "redirects.create")),
    PATCH("updateRedirect", <<"redirects", ":uuid">>, Asks("content", "redirects.update")),
    DELETE("deleteRedirect", <<"redirects", ":uuid">>, Asks("content", "redirects.delete")),
    POST("restoreRedirect", <<"redirects", ":uuid", "restore">>, Asks("content", "redirects.restore"))>>

SupportingContentController ==
  Controller("SupportingContent", <<"cms">>, <<"JwtAuthGuard", "AuthorizationGuard">>,
    TaxonomyRoutes \o PageRoutes \o TestimonialRoutes \o MenuRoutes)

PublicContentController ==
  Controller("PublicContent", <<"content">>, <<>>,
    <<GET("article", <<"articles", ":slug">>, Public),
      GET("page", <<"pages", ":slug">>, Public),
      POST("view", <<"articles", ":uuid", "view">>, Public)>>)

PublicSeoRoutes ==
  <<GET("publicMetadata", <<"public", ":resourceType", ":identifier">>, Unstated),
    GET("publicStructuredData", <<"public", ":resourceType", ":identifier", "structured-data">>, Unstated),
    GET("sitemapIndex", <<"sitemap-index.xml">>, Unstated),
    GET("sitemap", <<"sitemap", ":part.xml">>, Unstated),
    GET("robots", <<"robots.txt">>, Unstated),
    GET("resolveRedirect", <<"redirect">>, Unstated)>>

AdminSeoRoutes ==
  <<Guarded(<<"JwtAuthGuard", "AuthorizationGuard">>,
         PATCH("updateProperty", <<"admin", "property", ":propertyUuid">>, Asks("property-seo", "update"))),
    Guarded(<<"JwtAuthGuard", "AuthorizationGuard">>,
         PATCH("updateArticle", <<"admin", "article", ":resourceUuid">>, Asks("content", "articles.update"))),
    Guarded(<<"JwtAuthGuard", "AuthorizationGuard">>,
         PATCH("updatePage", <<"admin", "page", ":resourceUuid">>, Asks("content", "pages.update"))),
    Guarded(<<"JwtAuthGuard", "AuthorizationGuard">>,
         POST("createRedirect", <<"admin", "redirects">>, Asks("content", "redirects.create"))),
    Guarded(<<"JwtAuthGuard", "AuthorizationGuard">>,
         DELETE("deactivateRedirect", <<"admin", "redirects", ":uuid">>, Asks("content", "redirects.delete")))>>

\* Mutant: the handlers of the administrators have no guards of their own.
SeoControllerOpen ==
  Controller("Seo", <<"seo">>, <<>>,
    PublicSeoRoutes
      \o [i \in DOMAIN AdminSeoRoutes |-> [AdminSeoRoutes[i] EXCEPT !.guards = <<>>]])

SeoController ==
  Controller("Seo", <<"seo">>, <<>>,
    PublicSeoRoutes \o AdminSeoRoutes)

SeoRedirectAdminController ==
  Controller("SeoRedirectAdmin", <<"seo", "admin", "redirects">>, <<"JwtAuthGuard", "AuthorizationGuard">>,
    <<GET("list", <<>>, Asks("content", "redirects.read"))>>)

-----------------------------------------------------------------------------

(***************************************************************************)
(* CRM, sales, agents, matching, automation and reports.                   *)
(***************************************************************************)
ContactRoutes ==
  <<POST("createContact", <<"contacts">>, Asks("crm", "contacts.create")),
    GET("listContacts", <<"contacts">>, Asks("crm", "contacts.read")),
    GET("getContact", <<"contacts", ":uuid">>, Asks("crm", "contacts.read")),
    PATCH("updateContact", <<"contacts", ":uuid">>, Asks("crm", "contacts.update")),
    DELETE("archiveContact", <<"contacts", ":uuid">>, Asks("crm", "contacts.archive")),
    POST("addAddress", <<"contacts", ":uuid", "addresses">>, Asks("crm", "contacts.update")),
    POST("addPhone", <<"contacts", ":uuid", "phones">>, Asks("crm", "contacts.update"))>>

ContactChannelRoutes ==
  <<POST("addEmail", <<"contacts", ":uuid", "emails">>, Asks("crm", "contacts.update")),
    PATCH("updateChild", <<"contacts", ":contactUuid", "contact-fields", ":kind", ":uuid">>, Asks("crm", "contacts.update")),
    DELETE("deleteChild", <<"contacts", ":contactUuid", "contact-fields", ":kind", ":uuid">>, Asks("crm", "contacts.update")),
    POST("primary", <<"contacts", ":uuid", ":kind", ":childUuid", "primary">>, Asks("crm", "contacts.update")),
    PATCH("preferences", <<"contacts", ":uuid", "preferences">>, Asks("crm", "contacts.update")),
    POST("consent", <<"contacts", ":uuid", "consents">>, Asks("crm", "contacts.consent")),
    POST("relationship", <<"contacts", ":uuid", "relationships">>, Asks("crm", "contacts.update")),
    DELETE("removeRelationship", <<"contact-relationships", ":uuid">>, Asks("crm", "contacts.update"))>>

LeadRoutes ==
  <<POST("createLead", <<"leads">>, Asks("crm", "leads.create")),
    GET("listLeads", <<"leads">>, Asks("crm", "leads.read")),
    GET("getLead", <<"leads", ":uuid">>, Asks("crm", "leads.read")),
    PATCH("updateLead", <<"leads", ":uuid">>, Asks("crm", "leads.update")),
    DELETE("archiveLead", <<"leads", ":uuid">>, Asks("crm", "leads.archive")),
    POST("status", <<"leads", ":uuid", "status">>, Asks("crm", "leads.update")),
    POST("assign", <<"leads", ":uuid", "assign">>, Asks("crm", "leads.assign")),
    DELETE("unassign", <<"leads", ":uuid", "assign">>, Asks("crm", "leads.assign")),
    POST("note", <<"leads", ":uuid", "notes">>, Asks("crm", "leads.update")),
    POST("tag", <<"leads", ":uuid", "tags", ":tagUuid">>, Asks("crm", "leads.update")),
    DELETE("untag", <<"leads", ":uuid", "tags", ":tagUuid">>, Asks("crm", "leads.update")),
    GET("history", <<"leads", ":uuid", "history">>, Asks("crm", "leads.read")),
    GET("score", <<"leads", ":uuid", "score">>, Asks("crm", "leads.read")),
    POST("recalc", <<"leads", ":uuid", "score", "recalculate">>, Asks("crm", "leads.update"))>>

LeadScoreRoutes ==
  <<GET("rules", <<"score-rules">>, Asks("crm", "scoring.read")),
    POST("createRule", <<"score-rules">>, Asks("crm", "scoring.manage")),
    PATCH("updateRule", <<"score-rules", ":uuid">>, Asks("crm", "scoring.manage")),
    DELETE("deleteRule", <<"score-rules", ":uuid">>, Asks("crm", "scoring.manage")),
    POST("duplicates", <<"leads", ":uuid", "duplicates", "detect">>, Asks("crm", "duplicates.read")),
    GET("duplicateList", <<"duplicates">>, Asks("crm", "duplicates.read")),
    POST("duplicateReview", <<"duplicates", ":uuid", "review">>, Asks("crm", "duplicates.manage")),
    POST("merge", <<"leads", ":uuid", "merge">>, Asks("crm", "leads.merge")),
    GET("configList", <<"configs", ":kind">>, Asks("crm", "config.read")),
    POST("configCreate", <<"configs", ":kind">>, Asks("crm", "config.manage")),
    PATCH("configUpdate", <<"configs", ":kind", ":uuid">>, Asks("crm", "config.manage")),
    DELETE("configDelete", <<"configs", ":kind", ":uuid">>, Asks("crm", "config.manage"))>>

InquiryRoutes ==
  <<POST("createInquiry", <<"inquiries">>, Asks("crm", "inquiries.create")),
    GET("inquiryList", <<"inquiries">>, Asks("crm", "inquiries.read")),
    GET("inquiryGet", <<"inquiries", ":uuid">>, Asks("crm", "inquiries.read")),
    PATCH("inquiryUpdate", <<"inquiries", ":uuid">>, Asks("crm", "inquiries.update")),
    POST("inquiryConvert", <<"inquiries", ":uuid", "convert">>, Asks("crm", "inquiries.convert")),
    POST("activityCreate", <<"activities">>, Asks("crm", "activities.create")),
    GET("activityList", <<"activities">>, Asks("crm", "activities.read")),
    GET("activityGet", <<"activities", ":uuid">>, Asks("crm", "activities.read")),
    PATCH("activityUpdate", <<"activities", ":uuid">>, Asks("crm", "activities.update")),
    POST("activityStatus", <<"activities", ":uuid", "status">>, Asks("crm", "activities.update")),
    POST("communicationCreate", <<"communications">>, Asks("crm", "communications.create")),
    GET("communicationList", <<"communications">>, Asks("crm", "communications.read")),
    GET("communicationGet", <<"communications", ":uuid">>, Asks("crm", "communications.read")),
    POST("communicationStatus", <<"communications", ":uuid", "status">>, Asks("crm", "communications.update")),
    GET("templates", <<"communication-templates">>, Asks("crm", "communications.read")),
    POST("templateCreate", <<"communication-templates">>, Asks("crm", "communications.manage")),
    PATCH("templateUpdate", <<"communication-templates", ":uuid">>, Asks("crm", "communications.manage"))>>

CrmController ==
  Controller("Crm", <<"crm">>, <<"JwtAuthGuard", "AuthorizationGuard">>,
    ContactRoutes \o ContactChannelRoutes \o LeadRoutes \o LeadScoreRoutes \o InquiryRoutes)

CrmPublicInquiryController ==
  Controller("CrmPublicInquiry", <<"crm", "public">>, <<>>,
    <<POST("submit", <<"inquiries">>, Public)>>)

CrmLifecycleController ==
  Controller("CrmLifecycle", <<"crm", "leads">>, <<"JwtAuthGuard", "AuthorizationGuard">>,
    <<POST("qualify", <<":uuid", "qualify">>, Asks("crm", "leads.qualify")),
      POST("nurture", <<":uuid", "nurture">>, Asks("crm", "leads.nurture")),
      POST("reactivate", <<":uuid", "reactivate">>, Asks("crm", "leads.reactivate")),
      POST("close", <<":uuid", "close">>, Asks("crm", "leads.close")),
      POST("convert", <<":uuid", "convert">>, Asks("crm", "leads.convert")),
      GET("timeline", <<":uuid", "timeline">>, Asks("crm", "leads.read"))>>)

CrmCommunicationDeliveryController ==
  Controller("CrmCommunicationDelivery", <<"crm", "communications">>, <<"AuthenticatedAccessGuard", "AuthorizationGuard">>,
    <<POST("send", <<":uuid", "send">>, Asks("crm", "communications.send"))>>)

CrmCommunicationHealthController ==
  Controller("CrmCommunicationHealth", <<"crm", "communications", "health">>, <<"AuthenticatedAccessGuard", "AuthorizationGuard">>,
    <<GET("status", <<>>, AnyOf({<<"crm", "communications.read">>, <<"crm", "activities.read">>, <<"sales", "manage">>}))>>)

PipelineRoutes ==
  <<POST("createPipeline", <<"pipelines">>, Asks("sales", "pipelines.create")),
    GET("listPipelines", <<"pipelines">>, Asks("sales", "pipelines.read")),
    GET("getPipeline", <<"pipelines", ":uuid">>, Asks("sales", "pipelines.read")),
    PATCH("updatePipeline", <<"pipelines", ":uuid">>, Asks("sales", "pipelines.update")),
    DELETE("archivePipeline", <<"pipelines", ":uuid">>, Asks("sales", "pipelines.archive")),
    POST("createStage", <<"pipelines", ":pipelineUuid", "stages">>, Asks("sales", "pipelines.stages.create")),
    GET("listStages", <<"pipelines", ":pipelineUuid", "stages">>, Asks("sales", "pipelines.read")),
    PATCH("reorderStages", <<"pipelines", ":pipelineUuid", "stages", "reorder">>, Asks("sales", "pipelines.stages.reorder")),
    PATCH("updateStage", <<"stages", ":uuid">>, Asks("sales", "pipelines.stages.update")),
    DELETE("archiveStage", <<"stages", ":uuid">>, Asks("sales", "pipelines.stages.update"))>>

OpportunityRoutes ==
  <<POST("createOpportunity", <<"opportunities">>, Asks("sales", "opportunities.create")),
    GET("listOpportunities", <<"opportunities">>, Asks("sales", "opportunities.read")),
    GET("getOpportunity", <<"opportunities", ":uuid">>, Asks("sales", "opportunities.read")),
    PATCH("updateOpportunity", <<"opportunities", ":uuid">>, Asks("sales", "opportunities.update")),
    POST("assignOpportunity", <<"opportunities", ":uuid", "assign">>, Asks("sales", "opportunities.assign")),
    POST("transitionOpportunity", <<"opportunities", ":uuid", "transition">>, Asks("sales", "opportunities.transition")),
    POST("attachProperty", <<"opportunities", ":uuid", "property">>, Asks("sales", "opportunities.update")),
    DELETE("detachProperty", <<"opportunities", ":uuid", "property">>, Asks("sales", "opportunities.update")),
    POST("lostOpportunity", <<"opportunities", ":uuid", "lost">>, Asks("sales", "opportunities.lost")),
    GET("stageHistory", <<"opportunities", ":uuid", "stage-history">>, Asks("sales", "opportunities.read"))>>

SalesActivityRoutes ==
  <<POST("createActivity", <<"activities">>, Asks("sales", "activities.create")),
    GET("listActivities", <<"activities">>, Asks("sales", "activities.read")),
    POST("activityStatus", <<"activities", ":uuid", "status">>, Asks("sales", "activities.update")),
    POST("createViewing", <<"viewings">>, Asks("sales", "viewings.create")),
    GET("listViewings", <<"viewings">>, Asks("sales", "viewings.read")),
    POST("viewingStatus", <<"viewings", ":uuid", "status">>, Asks("sales", "viewings.update")),
    POST("createNegotiation", <<"negotiations">>, Asks("sales", "negotiations.create")),
    POST("negotiationStatus", <<"negotiations", ":uuid", "status">>, Asks("sales", "negotiations.transition")),
    GET("negotiationHistory", <<"negotiations", ":uuid", "history">>, Asks("sales", "negotiations.read")),
    POST("createOffer", <<"offers">>, Asks("sales", "offers.create")),
    GET("offers", <<"negotiations", ":uuid", "offers">>, Asks("sales", "offers.read"))>>

OfferAndDealRoutes ==
  <<POST("offerStatus", <<"offers", ":uuid", "status">>, Asks("sales", "offers.transition")),
    POST("createDeal", <<"deals">>, Asks("sales", "deals.create")),
    GET("listDeals", <<"deals">>, Asks("sales", "deals.read")),
    GET("getDeal", <<"deals", ":uuid">>, Asks("sales", "deals.read")),
    POST("addDealItem", <<"deals", ":uuid", "items">>, Asks("sales", "deals.items.update")),
    PATCH("updateDealItem", <<"deal-items", ":uuid">>, Asks("sales", "deals.items.update")),
    DELETE("removeDealItem", <<"deal-items", ":uuid">>, Asks("sales", "deals.items.update")),
    POST("dealStatus", <<"deals", ":uuid", "status">>, Asks("sales", "deals.transition")),
    POST("closeDeal", <<"deals", ":uuid", "close">>, Asks("sales", "closing.create")),
    POST("lostDeal", <<"deals", ":uuid", "lost">>, Asks("sales", "deals.lost")),
    POST("reopenDeal", <<"deals", ":uuid", "reopen">>, Asks("sales", "deals.reopen"))>>

CommissionRoutes ==
  <<GET("lostReasons", <<"lost-reasons">>, Asks("sales", "lost-reasons.read")),
    POST("createLostReason", <<"lost-reasons">>, Asks("sales", "lost-reasons.manage")),
    PATCH("updateLostReason", <<"lost-reasons", ":uuid">>, Asks("sales", "lost-reasons.manage")),
    POST("createCommissionRule", <<"commission", "rules">>, Asks("sales", "commission.rules.manage")),
    POST("calculateCommission", <<"deals", ":uuid", "commission", "calculate">>, Asks("sales", "commission.calculate")),
    POST("approveCommission", <<"commission", ":uuid", "approve">>, Asks("sales", "commission.approve")),
    POST("settleCommission", <<"commission", ":uuid", "settle">>, Asks("sales", "commission.settle")),
    GET("commissionReport", <<"commission", "report">>, Asks("sales", "commission.read")),
    GET("forecast", <<"forecast">>, Asks("sales", "forecast.read"))>>

SalesController ==
  Controller("Sales", <<"sales">>, <<"AuthenticatedAccessGuard", "AuthorizationGuard">>,
    PipelineRoutes \o OpportunityRoutes \o SalesActivityRoutes \o OfferAndDealRoutes \o CommissionRoutes)

AgentProfileRoutes ==
  <<GET("list", <<>>, Asks("agents", "read")),
    POST("create", <<>>, Asks("agents", "manage")),
    GET("specializations", <<"specializations">>, Asks("agents", "read")),
    POST("createSpecialization", <<"specializations">>, Asks("agents", "specialization.manage")),
    GET("candidates", <<"candidates", "search">>, Asks("agents", "read")),
    POST("assignments", <<"assignments">>, Asks("agents", "assignment.manage")),
    POST("reassign", <<"assignments", ":propertyUuid", "reassign">>, Asks("agents", "assignment.manage"))>>

AgentRecordRoutes ==
  <<GET("get", <<":uuid">>, Asks("agents", "read")),
    PATCH("update", <<":uuid">>, Asks("agents", "manage")),
    DELETE("archive", <<":uuid">>, Asks("agents", "manage")),
    GET("specializationsForAgent", <<":uuid", "specializations">>, Asks("agents", "read")),
    POST("addSpecialization", <<":uuid", "specializations", ":specializationUuid">>, Asks("agents", "specialization.manage")),
    DELETE("removeSpecialization", <<":uuid", "specializations", ":specializationUuid">>, Asks("agents", "specialization.manage")),
    GET("coverage", <<":uuid", "coverage">>, Asks("agents", "read")),
    POST("addCoverage", <<":uuid", "coverage">>, Asks("agents", "location.manage")),
    DELETE("removeCoverage", <<"coverage", ":coverageUuid">>, Asks("agents", "location.manage"))>>

AgentWorkRoutes ==
  <<GET("availability", <<":uuid", "availability">>, Asks("agents", "read")),
    PUT("updateAvailability", <<":uuid", "availability">>, Asks("agents", "availability.manage")),
    GET("capacity", <<":uuid", "capacity">>, Asks("agents", "read")),
    GET("assignmentList", <<":uuid", "assignments">>, Asks("agents", "read")),
    DELETE("unassign", <<":uuid", "assignments", ":propertyUuid">>, Asks("agents", "assignment.manage")),
    GET("targets", <<":uuid", "targets">>, Asks("agents", "target.read")),
    POST("createTarget", <<":uuid", "targets">>, Asks("agents", "target.manage")),
    PATCH("updateTarget", <<"targets", ":targetUuid">>, Asks("agents", "target.manage")),
    DELETE("closeTarget", <<"targets", ":targetUuid">>, Asks("agents", "target.manage")),
    GET("performance", <<":uuid", "performance">>, Asks("agents", "performance.read"))>>

AgentManagementController ==
  Controller("AgentManagement", <<"agents">>, <<"AuthenticatedAccessGuard", "AuthorizationGuard">>,
    AgentProfileRoutes \o AgentRecordRoutes \o AgentWorkRoutes)

MatchingRuleRoutes ==
  <<Guarded(<<"AuthorizationGuard">>,
         GET("activeRule", <<"rules", "active">>, Asks("property-matching", "rules.read"))),
    Guarded(<<"AuthorizationGuard">>,
         GET("listRules", <<"rules">>, Asks("property-matching", "rules.read"))),
    Guarded(<<"AuthorizationGuard">>,
         GET("getRule", <<"rules", ":uuid">>, Asks("property-matching", "rules.read"))),
    Guarded(<<"AuthorizationGuard">>,
         POST("createRule", <<"rules">>, Asks("property-matching", "rules.manage"))),
    Guarded(<<"AuthorizationGuard">>,
         PATCH("updateRule", <<"rules", ":uuid">>, Asks("property-matching", "rules.manage"))),
    Guarded(<<"AuthorizationGuard">>,
         POST("activateRule", <<"rules", ":uuid", "activate">>, Asks("property-matching", "rules.manage")))>>

PreferenceRoutes ==
  <<POST("createPreference", <<"preferences">>, Unstated),
    GET("getPreference", <<"preferences", ":subjectType", ":subjectUuid">>, Unstated),
    PATCH("updatePreference", <<"preferences", ":subjectType", ":subjectUuid">>, Unstated),
    POST("archivePreference", <<"preferences", ":subjectType", ":subjectUuid", "archive">>, Unstated),
    POST("restorePreference", <<"preferences", ":subjectType", ":subjectUuid", "restore">>, Unstated),
    POST("match", <<"matches">>, Unstated)>>

RecommendationRoutes ==
  <<POST("generate", <<"recommendations", "generate">>, Unstated),
    POST("refresh", <<"recommendations", "refresh">>, Unstated),
    GET("history", <<"recommendations", ":subjectType", ":subjectUuid", "history">>, Unstated),
    GET("latest", <<"recommendations", ":subjectType", ":subjectUuid">>, Unstated),
    GET("saved", <<"saved-properties">>, Unstated),
    POST("feedback", <<"feedback">>, Unstated)>>

PropertyMatchingController ==
  Controller("PropertyMatching", <<"property-matching">>, <<"AuthenticatedAccessGuard">>,
    MatchingRuleRoutes \o PreferenceRoutes \o RecommendationRoutes)

WorkflowRoutes ==
  <<GET("list", <<"workflows">>, Asks("automation", "workflows.read")),
    POST("create", <<"workflows">>, Asks("automation", "workflows.create")),
    GET("get", <<"workflows", ":uuid">>, Asks("automation", "workflows.read")),
    PATCH("update", <<"workflows", ":uuid">>, Asks("automation", "workflows.update")),
    POST("createVersion", <<"workflows", ":uuid", "versions">>, Asks("automation", "workflows.update")),
    POST("activate", <<"workflows", ":uuid", "versions", ":versionUuid", "activate">>, Asks("automation", "workflows.activate")),
    POST("pause", <<"workflows", ":uuid", "pause">>, Asks("automation", "workflows.pause")),
    POST("archive", <<"workflows", ":uuid", "archive">>, Asks("automation", "workflows.archive")),
    POST("dispatch", <<"events">>, Asks("automation", "execute")),
    GET("executions", <<"executions">>, Asks("automation", "executions.read")),
    GET("execution", <<"executions", ":uuid">>, Asks("automation", "executions.read")),
    POST("retry", <<"executions", ":uuid", "retry">>, Asks("automation", "executions.retry")),
    POST("cancel", <<"executions", ":uuid", "cancel">>, Asks("automation", "executions.cancel"))>>

AssignmentRuleRoutes ==
  <<POST("assignmentRule", <<"workflows", ":uuid", "assignment-rules">>, Asks("automation", "workflows.update")),
    POST("slaPolicy", <<"workflows", ":uuid", "sla-policies">>, Asks("automation", "workflows.update")),
    POST("escalationPolicy", <<"workflows", ":uuid", "escalation-policies">>, Asks("automation", "workflows.update")),
    GET("metrics", <<"metrics">>, Asks("automation", "executions.read"))>>

AutomationController ==
  Controller("Automation", <<"automation">>, <<"JwtAuthGuard", "AuthorizationGuard">>,
    WorkflowRoutes \o AssignmentRuleRoutes)

AnalyticsReportRoutes ==
  <<GET("getLeads", <<"leads">>, Asks("analytics", "read")),
    GET("getAcquisition", <<"acquisition">>, Asks("analytics", "read")),
    GET("getConversion", <<"conversion">>, Asks("analytics", "read")),
    GET("getPipeline", <<"pipeline">>, Asks("analytics", "read")),
    GET("getPropertyAgent", <<"property-agent">>, Asks("analytics", "read")),
    GET("getSalesRevenue", <<"sales-revenue">>, Asks("analytics", "revenue.read")),
    GET("getSla", <<"sla">>, Asks("analytics", "read")),
    GET("getForecast", <<"forecast">>, Asks("analytics", "forecast"))>>

AnalyticsExportRoutes ==
  <<GET("exportReport", <<"export">>, Asks("analytics", "export"))>>

AnalyticsController ==
  Controller("Analytics", <<"analytics">>, <<"AuthenticatedAccessGuard", "AuthorizationGuard">>,
    AnalyticsReportRoutes \o AnalyticsExportRoutes)

ExecutiveDashboardController ==
  Controller("ExecutiveDashboard", <<"dashboard">>, <<"AuthenticatedAccessGuard", "AuthorizationGuard">>,
    <<GET("get", <<"executive">>, AnyOf({<<"system", "dashboard.read">>, <<"analytics", "read">>, <<"analytics", "read.all">>, <<"analytics", "manage">>})),
      GET("property", <<"property">>, AnyOf({<<"system", "dashboard.read">>, <<"analytics", "read">>, <<"analytics", "read.all">>, <<"analytics", "manage">>})),
      GET("crm", <<"crm">>, AnyOf({<<"system", "dashboard.read">>, <<"analytics", "read">>, <<"analytics", "read.all">>, <<"analytics", "manage">>})),
      GET("sales", <<"sales">>, AnyOf({<<"system", "dashboard.read">>, <<"analytics", "read">>, <<"analytics", "read.all">>, <<"analytics", "manage">>})),
      GET("agent", <<"agent">>, AnyOf({<<"system", "dashboard.read">>, <<"analytics", "read">>, <<"analytics", "read.all">>, <<"analytics", "manage">>})),
      GET("operational", <<"operational">>, Asks("system", "dashboard.read"))>>)
=============================================================================
