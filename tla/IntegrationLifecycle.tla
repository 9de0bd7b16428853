------------------------ MODULE IntegrationLifecycle ------------------------
(***************************************************************************)
(* SystemIntegrationService: one integration from its creation to its      *)
(* removal, its connection tests, syncs and reconnects.  A reconnect has   *)
(* an idempotency key, under which its operation is stored; the lock that  *)
(* it looks for as well is never stored.  Every update of the integration  *)
(* is unconditional, and a request may stop between any two statements.    *)
(***************************************************************************)
EXTENDS Requests

CONSTANTS ReconnectKeys   \* idempotency keys of reconnects

\* No row, and no request, is not one of them.
ASSUME LifecycleAssumption ==
  /\ None \notin {"RUNNING", "SUCCEEDED", "FAILED", "CONNECTING"}
  /\ None \notin [op : {"reconnect"}, at : {"provider", "succeeded", "failed"}, key : ReconnectKeys]

VARIABLES
  integration,   \* state of the row in system_integrations, None before, REMOVED after
  reconnectOp,   \* per key: state of its row in system_integration_operations, or None
  reconnects,    \* per key: calls of provider.reconnect
  verified,      \* keys whose reconnect the provider confirmed
  cutShort       \* a reconnect stopped halfway

lifecycleVars == <<integration, reconnectOp, reconnects, verified, cutShort>>

IntegrationLifecycleInit ==
  /\ integration = None /\ reconnectOp = [k \in ReconnectKeys |-> None]
  /\ reconnects = [k \in ReconnectKeys |-> 0]
  /\ verified = {} /\ cutShort = FALSE

Present == integration \notin {None, "REMOVED"}

\* create: an integration of the provider that is found is returned.  Unique
\* (providerKey, providerVersion).
CreateIntegrationRead(p) ==
  /\ integration = None
  /\ Start(p, [op |-> "create integration", at |-> "create"])
  /\ UNCHANGED <<lifecycleVars, clock>>
CreateIntegration(p) ==
  /\ Running(p, "create integration")
  /\ integration' = IF integration = None THEN "CONFIGURED" ELSE integration
  /\ Done(p)
  /\ UNCHANGED <<reconnectOp, reconnects, verified, cutShort, clock>>

\* update with enabled, and remove: a read, then the statement on the uuid.
ChangeRead(p) ==
  /\ Present
  /\ \E to \in {"ACTIVE", "DISABLED", "REMOVED"} :
       Start(p, [op |-> "change integration", at |-> "update", to |-> to])
  /\ UNCHANGED <<lifecycleVars, clock>>
ChangeWrite(p) ==
  /\ Running(p, "change integration")
  /\ integration' = IF Present THEN req[p].to ELSE integration
  /\ Done(p)
  /\ UNCHANGED <<reconnectOp, reconnects, verified, cutShort, clock>>

\* test and sync: the provider is asked, and its answer becomes the state, also of
\* an integration that is or was meanwhile DISABLED.
ProbeRead(p) ==
  /\ Present
  /\ Start(p, [op |-> "probe", at |-> "update"])
  /\ UNCHANGED <<lifecycleVars, clock>>
ProbeWrite(p) ==
  /\ Running(p, "probe")
  /\ \/ ~Present /\ UNCHANGED integration
     \/ Present /\ integration' \in {"ACTIVE", "ERROR"}
  /\ Done(p)
  /\ UNCHANGED <<reconnectOp, reconnects, verified, cutShort, clock>>

-----------------------------------------------------------------------------
ReconnectRead(p) ==
  /\ Present /\ integration \notin {"DISABLED", "CONNECTING"}
  /\ \E k \in ReconnectKeys : Start(p, [op |-> "reconnect", at |-> "find", key |-> k])
  /\ UNCHANGED <<lifecycleVars, clock>>

\* getByIdempotency: whatever is stored under the key answers, as a replay if it
\* SUCCEEDED.  There is no operation under the key of the lock.
ReconnectFind(p) ==
  /\ Running(p, "reconnect") /\ At(p, "find")
  /\ IF reconnectOp[req[p].key] = None THEN Goto(p, "create") ELSE Done(p)
  /\ UNCHANGED <<lifecycleVars, clock>>

\* Mutant: the key is not unique.
ReconnectKeyFreeAlways(k) == TRUE

\* Unique (integrationId, idempotencyKey).
ReconnectKeyFree(k) == reconnectOp[k] = None

ReserveReconnect(p) ==
  LET k == req[p].key
  IN  /\ Running(p, "reconnect") /\ At(p, "create")
      /\ \/ ReconnectKeyFree(k) /\ reconnectOp' = [reconnectOp EXCEPT ![k] = "RUNNING"] /\ Goto(p, "connecting")
         \/ Done(p) /\ UNCHANGED reconnectOp
      /\ UNCHANGED <<integration, reconnects, verified, cutShort, clock>>

\* The state becomes CONNECTING; the row may be gone.
Connecting(p) ==
  /\ Running(p, "reconnect") /\ At(p, "connecting")
  /\ IF ~Present THEN Done(p) /\ UNCHANGED integration
     ELSE integration' = "CONNECTING" /\ Goto(p, "provider")
  /\ UNCHANGED <<reconnectOp, reconnects, verified, cutShort, clock>>

\* provider.reconnect and its verification, each with a timeout.
CallReconnect(p) ==
  LET k == req[p].key
  IN  /\ Running(p, "reconnect") /\ At(p, "provider")
      /\ reconnects' = [reconnects EXCEPT ![k] = @ + 1]
      /\ \/ verified' = verified \cup {k} /\ Goto(p, "succeeded")
         \/ UNCHANGED verified /\ Goto(p, "failed")
      /\ UNCHANGED <<integration, reconnectOp, cutShort, clock>>

\* Mutant: a failure leaves the integration as it is.
AfterReconnectKept(at) == IF at = "succeeded" THEN "ACTIVE" ELSE integration

\* The state after the answer; a failure may come from the update itself.
AfterReconnect(at) == IF at = "succeeded" THEN "ACTIVE" ELSE "ERROR"

StoreOutcome(p) ==
  /\ Running(p, "reconnect") /\ req[p].at \in {"succeeded", "failed"}
  /\ IF ~Present
     THEN /\ UNCHANGED integration
          /\ IF At(p, "succeeded") THEN Goto(p, "failed") ELSE Done(p)
     ELSE /\ integration' = AfterReconnect(req[p].at)
          /\ Goto(p, IF At(p, "succeeded") THEN "SUCCEEDED" ELSE "FAILED")
  /\ UNCHANGED <<reconnectOp, reconnects, verified, cutShort, clock>>

CompleteReconnect(p) ==
  /\ Running(p, "reconnect") /\ req[p].at \in {"SUCCEEDED", "FAILED"}
  /\ reconnectOp' = [reconnectOp EXCEPT ![req[p].key] = req[p].at]
  /\ Done(p)
  /\ UNCHANGED <<integration, reconnects, verified, cutShort, clock>>

StopIntegration(p) ==
  /\ req[p] # None /\ Done(p)
  /\ cutShort' = (cutShort \/ Running(p, "reconnect"))
  /\ UNCHANGED <<integration, reconnectOp, reconnects, verified, clock>>

IntegrationLifecycleNext ==
  \E p \in Procs :
    \/ CreateIntegrationRead(p) \/ CreateIntegration(p) \/ ChangeRead(p) \/ ChangeWrite(p)
    \/ ProbeRead(p) \/ ProbeWrite(p) \/ ReconnectRead(p) \/ ReconnectFind(p)
    \/ ReserveReconnect(p) \/ Connecting(p) \/ CallReconnect(p) \/ StoreOutcome(p)
    \/ CompleteReconnect(p) \/ StopIntegration(p)

IntegrationLifecycleTypeOK ==
  /\ integration \in {None, "CONFIGURED", "ACTIVE", "DISABLED", "CONNECTING", "ERROR",
                      "REMOVED"}
  /\ \A k \in ReconnectKeys : reconnectOp[k] \in {None, "RUNNING", "SUCCEEDED", "FAILED"}

-----------------------------------------------------------------------------
\* However requests with one key overlap, the provider is asked to reconnect once,
\* and a replay reports a success only if the provider confirmed it
\* (system-integration.service.ts:244).
ReconnectedOncePerKey ==
  \A k \in ReconnectKeys :
    /\ reconnects[k] <= 1
    /\ reconnectOp[k] = "SUCCEEDED" => k \in verified

\* An integration is CONNECTING, which refuses every reconnect, only while one runs;
\* only a process that stops leaves it so (system-integration.service.ts:313).
ConnectingIsHeld ==
  integration = "CONNECTING" /\ ~cutShort =>
    \E p \in Procs : Running(p, "reconnect") /\ req[p].at \in {"provider", "succeeded", "failed"}
=============================================================================
