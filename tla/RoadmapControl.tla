--------------------------- MODULE RoadmapControl ---------------------------
(***************************************************************************)
(* SystemRoadmapControlService and SystemOperationalAlertService: the      *)
(* versions of one kind of credential of an integration, and one           *)
(* operational alert with the signals that raise it.  Credentials are kept *)
(* apart by a unique version; an alert is written over under its key, with *)
(* a uuid of its own every time.                                           *)
(***************************************************************************)
EXTENDS Requests, FiniteSetsExt

CONSTANTS
  MaxCredentials,   \* bound: versions of the credential
  MaxSignals        \* bound: signals above the threshold

\* A row of system_operational_alerts.
AlertRow ==
  [uuid : Nat, status : {"OPEN", "ACKNOWLEDGED", "RESOLVED"}, resolvedAt : BOOLEAN]

ASSUME ControlAssumption ==
  MaxCredentials \in Nat \ {0} /\ MaxSignals \in Nat \ {0} /\ None \notin AlertRow

VARIABLES
  credential,   \* rows of system_integration_credentials, by version
  alert,        \* the row of system_operational_alerts
  raised,       \* signals so far; the number of a signal stands for the uuid it gives
  closedFor,    \* the uuid under which the alert was last acknowledged or resolved
  writtenOver   \* an acknowledgement was written over a later signal or a resolution

controlVars == <<credential, alert, raised, closedFor, writtenOver>>

RoadmapControlInit ==
  /\ credential = <<>>
  /\ alert = None /\ raised = 0 /\ closedFor = None /\ writtenOver = FALSE

-----------------------------------------------------------------------------
(* Credentials.                                                            *)
CredentialVersions == DOMAIN credential
Newest == Max({0} \cup CredentialVersions)

\* A new row, and whether it takes the place of the version before it.
ActiveCredential(replaces) ==
  [status |-> "ACTIVE", rotatedAt |-> FALSE, revokedAt |-> FALSE, replaces |-> replaces]

WithVersion(rows, v, row) == [w \in DOMAIN rows \cup {v} |-> IF w = v THEN row ELSE rows[w]]

\* The unique index on the integration, the type and the version.
VersionFree(v) == v \notin CredentialVersions

\* createCredential reads the versions, then inserts the next one.
CreateCredentialRead(p) ==
  /\ Newest < MaxCredentials
  /\ Start(p, [op |-> "create credential", version |-> Newest + 1])
  /\ UNCHANGED controlVars

CreateCredentialWrite(p) ==
  LET v == req[p].version
  IN  /\ Running(p, "create credential") /\ Done(p)
      /\ credential' = IF VersionFree(v) THEN WithVersion(credential, v, ActiveCredential(FALSE)) ELSE credential
      /\ UNCHANGED <<alert, raised, closedFor, writtenOver>>

MarkRotated(v) == [credential EXCEPT ![v].status = "ROTATED", ![v].rotatedAt = TRUE]

\* Mutant: the old credential is updated outside the transaction.
RotatedAlone(v) ==
  IF VersionFree(v + 1) THEN WithVersion(MarkRotated(v), v + 1, ActiveCredential(TRUE))
                        ELSE MarkRotated(v)

\* credential.rotate: one transaction, which fails if there is a next version.  The
\* status of the credential is not looked at.
Rotated(v) ==
  IF VersionFree(v + 1) THEN WithVersion(MarkRotated(v), v + 1, ActiveCredential(TRUE))
                        ELSE credential

RotateCredential(v) ==
  /\ v < MaxCredentials
  /\ credential' = Rotated(v)
  /\ UNCHANGED <<req, alert, raised, closedFor, writtenOver>>

RevokeCredential(v) ==
  /\ credential' = [credential EXCEPT ![v].status = "REVOKED", ![v].revokedAt = TRUE]
  /\ UNCHANGED <<req, alert, raised, closedFor, writtenOver>>

-----------------------------------------------------------------------------
(* Alerts.                                                                 *)

\* evaluate, for a rule whose threshold is reached: the row is written over, its
\* uuid included.  (The notification that the rule may ask for begins its life in
\* NotificationDelivery.)
Evaluate ==
  /\ raised < MaxSignals
  /\ raised' = raised + 1
  /\ alert' = [uuid |-> raised + 1, status |-> "OPEN", resolvedAt |-> FALSE]
  /\ UNCHANGED <<req, credential, closedFor, writtenOver>>

\* acknowledge looks for the alert among the open ones, then writes all of it back
\* under its key.
AcknowledgeRead(p) ==
  /\ alert # None /\ alert.status = "OPEN"
  /\ Start(p, [op |-> "acknowledge", row |-> alert])
  /\ UNCHANGED controlVars

AcknowledgeWrite(p) ==
  LET row == req[p].row
  IN  /\ Running(p, "acknowledge") /\ Done(p)
      /\ alert' = [row EXCEPT !.status = "ACKNOWLEDGED"]
      /\ closedFor' = row.uuid
      /\ writtenOver' = (writtenOver \/ row # alert)
      /\ UNCHANGED <<credential, raised>>

\* An operator lists the alerts, and resolves one of them later.
ListAlerts(p) ==
  /\ alert # None
  /\ Start(p, [op |-> "resolve", uuid |-> alert.uuid])
  /\ UNCHANGED controlVars

\* Mutant: the alert is resolved by its key.
FoundByKey(uuid) == TRUE

FoundByUuid(uuid) == alert.uuid = uuid

ResolveAlert(p) ==
  LET found == FoundByUuid(req[p].uuid)
  IN  /\ Running(p, "resolve") /\ Done(p)
      /\ alert' = IF found THEN [alert EXCEPT !.status = "RESOLVED", !.resolvedAt = TRUE] ELSE alert
      /\ closedFor' = IF found THEN req[p].uuid ELSE closedFor
      /\ UNCHANGED <<credential, raised, writtenOver>>

RoadmapControlNext ==
  /\ \/ /\ focus = "credentials"
        /\ \/ \E v \in CredentialVersions : RotateCredential(v) \/ RevokeCredential(v)
           \/ \E p \in Procs : CreateCredentialRead(p) \/ CreateCredentialWrite(p)
     \/ /\ focus = "alerts"
        /\ \/ Evaluate
           \/ \E p \in Procs : \/ AcknowledgeRead(p) \/ AcknowledgeWrite(p)
                               \/ ListAlerts(p) \/ ResolveAlert(p)
  /\ UNCHANGED clock

-----------------------------------------------------------------------------
RoadmapControlTypeOK ==
  /\ \A v \in CredentialVersions : credential[v] \in
       [status : {"ACTIVE", "ROTATED", "REVOKED"}, rotatedAt : BOOLEAN, revokedAt : BOOLEAN,
        replaces : BOOLEAN]
  /\ alert \in AlertRow \cup {None} /\ raised \in 0 .. MaxSignals

\* Whatever is created, rotated and revoked at the same time, the versions of a
\* credential have no gaps, a rotated one has a successor that replaces it
\* (credential.rotate), and one that was revoked is never active again.
CredentialHistory ==
  /\ CredentialVersions = 1 .. Newest
  /\ \A v \in CredentialVersions :
       /\ credential[v].rotatedAt => v + 1 \in CredentialVersions /\ credential[v + 1].replaces
       /\ credential[v].rotatedAt \/ credential[v].revokedAt => credential[v].status # "ACTIVE"

\* An alert that is not open was closed by someone who knew of its last signal
\* (SystemOperationalAlertService), unless an acknowledgement overwrote it.
SignalsAreSeen ==
  alert # None /\ alert.status # "OPEN" => closedFor = raised \/ writtenOver
=============================================================================
