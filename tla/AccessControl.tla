--------------------------- MODULE AccessControl ---------------------------
(***************************************************************************)
(* Roles, permissions, and their assignment: src/modules/roles and         *)
(* src/modules/permissions, with the guard that resolves what a user may   *)
(* do when a request arrives.  The permissions that the two policies ask   *)
(* for are two here: "manage" and, for system roles and permissions,       *)
(* "manage.protected".  A request reads, and writes in a later statement.  *)
(***************************************************************************)
EXTENDS Requests

CONSTANTS
  Users,
  Roles,
  Permissions,          \* codes, "manage" and "manage.protected" among them
  SystemRoles,          \* PROTECTED_ROLE_CODES
  SystemPermissions     \* PROTECTED_PERMISSION_CODES

ASSUME AccessControlAssumption ==
  SystemRoles \subseteq Roles /\ SystemPermissions \subseteq Permissions /\ None \notin BOOLEAN

VARIABLES
  role,          \* authorization_roles: isActive, or None
  permission,    \* authorization_permissions
  grant,         \* authorization_role_permissions
  userRole       \* authorization_user_roles: isActive, or None

accessVars == <<role, permission, grant, userRole>>

\* The seed: every user is an administrator.
AccessControlInit ==
  /\ role = [r \in Roles |-> IF r \in SystemRoles THEN TRUE ELSE None]
  /\ permission = Permissions
  /\ grant = SystemRoles \X Permissions
  /\ userRole = [u \in Users |-> [r \in Roles |-> IF r \in SystemRoles THEN TRUE ELSE None]]

\* getAuthorizationSnapshot
permissionCodes(u) ==
  {c \in Permissions : \E r \in Roles : userRole[u][r] = TRUE /\ role[r] = TRUE /\ <<r, c>> \in grant}

\* AuthorizationGuard: the permissions of the request are those of its arrival.
Authorized(p, u, op, r, c, of) ==
  /\ "manage" \in permissionCodes(u)
  /\ Start(p, [op |-> op, at |-> "read", role |-> r, code |-> c, user |-> of,
               protected |-> "manage.protected" \in permissionCodes(u)])
  /\ UNCHANGED <<accessVars, clock>>

\* canManage of the policies.
CanManage(p) ==
  req[p].role \in SystemRoles \/ req[p].code \in SystemPermissions => req[p].protected

AccessRead(p, ops, found) ==
  /\ req[p] # None /\ req[p].op \in ops /\ At(p, "read")
  /\ CanManage(p) /\ found
  /\ Goto(p, "write")
  /\ UNCHANGED <<accessVars, clock>>

AccessWrite(p, op) == Running(p, op) /\ At(p, "write") /\ Done(p) /\ UNCHANGED clock

-----------------------------------------------------------------------------
(* Roles.                                                                  *)

RoleRead(p) ==
  LET r == req[p].role IN
  \/ AccessRead(p, {"createRole"}, role[r] = None)
  \/ AccessRead(p, {"activateRole"}, role[r] # None)
  \/ AccessRead(p, {"deactivateRole"}, role[r] # None /\ r \notin SystemRoles)
  \/ AccessRead(p, {"deleteRole"},
       /\ role[r] # None /\ r \notin SystemRoles
       /\ \A u \in Users : userRole[u][r] = None
       /\ \A c \in Permissions : <<r, c>> \notin grant)

CreateRole(p) ==
  /\ AccessWrite(p, "createRole") /\ role[req[p].role] = None
  /\ role' = [role EXCEPT ![req[p].role] = TRUE]
  /\ UNCHANGED <<permission, grant, userRole>>

UpdateRole(p) ==
  /\ \/ AccessWrite(p, "activateRole")
     \/ AccessWrite(p, "deactivateRole")
  /\ role[req[p].role] # None
  /\ role' = [role EXCEPT ![req[p].role] = (req[p].op = "activateRole")]
  /\ UNCHANGED <<permission, grant, userRole>>

\* Mutant: the foreign key of the assignments is missing.
RoleReferencedNever(r) == FALSE

\* The foreign keys refuse the deletion (P2003).
RoleReferenced(r) ==
  (\E u \in Users : userRole[u][r] # None) \/ (\E c \in Permissions : <<r, c>> \in grant)

DeleteRole(p) ==
  /\ AccessWrite(p, "deleteRole") /\ ~RoleReferenced(req[p].role)
  /\ role' = [role EXCEPT ![req[p].role] = None]
  /\ UNCHANGED <<permission, grant, userRole>>

-----------------------------------------------------------------------------
(* Permissions, and the permissions of a role.                             *)

PermissionRead(p) ==
  LET r == req[p].role
      c == req[p].code
  IN
  \/ AccessRead(p, {"createPermission"}, c \notin permission)
  \/ AccessRead(p, {"deletePermission"}, c \in permission /\ \A s \in Roles : <<s, c>> \notin grant)
  \/ AccessRead(p, {"grantPermission"}, role[r] # None /\ c \in permission /\ <<r, c>> \notin grant)
  \/ AccessRead(p, {"revokePermission"}, role[r] # None /\ c \in permission /\ <<r, c>> \in grant)

CreatePermission(p) ==
  /\ AccessWrite(p, "createPermission") /\ req[p].code \notin permission
  /\ permission' = permission \cup {req[p].code}
  /\ UNCHANGED <<role, grant, userRole>>

PermissionReferenced(c) == \E r \in Roles : <<r, c>> \in grant

DeletePermission(p) ==
  /\ AccessWrite(p, "deletePermission") /\ ~PermissionReferenced(req[p].code)
  /\ permission' = permission \ {req[p].code}
  /\ UNCHANGED <<role, grant, userRole>>

\* The transaction reads both rows again; a second grant is P2002.
GrantPermission(p) ==
  /\ AccessWrite(p, "grantPermission")
  /\ role[req[p].role] # None /\ req[p].code \in permission
  /\ <<req[p].role, req[p].code>> \notin grant
  /\ grant' = grant \cup {<<req[p].role, req[p].code>>}
  /\ UNCHANGED <<role, permission, userRole>>

RevokePermission(p) ==
  /\ AccessWrite(p, "revokePermission") /\ <<req[p].role, req[p].code>> \in grant
  /\ grant' = grant \ {<<req[p].role, req[p].code>>}
  /\ UNCHANGED <<role, permission, userRole>>

-----------------------------------------------------------------------------
(* The roles of a user.                                                    *)

UserRoleRead(p) ==
  LET r == req[p].role IN
  \/ AccessRead(p, {"assignRole"}, role[r] # None /\ userRole[req[p].user][r] # TRUE)
  \/ AccessRead(p, {"removeRole"}, role[r] # None /\ userRole[req[p].user][r] = TRUE)

AssignRole(p) ==
  /\ AccessWrite(p, "assignRole")
  /\ role[req[p].role] # None /\ userRole[req[p].user][req[p].role] # TRUE
  /\ userRole' = [userRole EXCEPT ![req[p].user][req[p].role] = TRUE]
  /\ UNCHANGED <<role, permission, grant>>

\* The row stays, revoked.
RemoveRole(p) ==
  /\ AccessWrite(p, "removeRole") /\ userRole[req[p].user][req[p].role] = TRUE
  /\ userRole' = [userRole EXCEPT ![req[p].user][req[p].role] = FALSE]
  /\ UNCHANGED <<role, permission, grant>>

-----------------------------------------------------------------------------
AccessAbandon(p) == req[p] # None /\ Done(p) /\ UNCHANGED <<accessVars, clock>>

AccessControlNext ==
  \E p \in Procs :
    \/ \E u \in Users, r \in Roles :
         \/ \E op \in {"createRole", "activateRole", "deactivateRole", "deleteRole"} :
              Authorized(p, u, op, r, None, None)
         \/ \E c \in Permissions :
              \/ \E op \in {"createPermission", "deletePermission"} :
                   Authorized(p, u, op, None, c, None)
              \/ \E op \in {"grantPermission", "revokePermission"} :
                   Authorized(p, u, op, r, c, None)
         \/ \E of \in Users, op \in {"assignRole", "removeRole"} : Authorized(p, u, op, r, None, of)
    \/ req[p] # None /\ (RoleRead(p) \/ PermissionRead(p) \/ UserRoleRead(p))
    \/ CreateRole(p) \/ UpdateRole(p) \/ DeleteRole(p)
    \/ CreatePermission(p) \/ DeletePermission(p) \/ GrantPermission(p) \/ RevokePermission(p)
    \/ AssignRole(p) \/ RemoveRole(p)
    \/ AccessAbandon(p)

-----------------------------------------------------------------------------
\* The rows have the types of the schema.
AccessControlTypeOK ==
  /\ role \in [Roles -> BOOLEAN \cup {None}]
  /\ permission \subseteq Permissions /\ grant \subseteq Roles \X Permissions
  /\ userRole \in [Users -> [Roles -> BOOLEAN \cup {None}]]

\* Deletions count the references before they delete, and an assignment may be
\* made in between: none is left behind without its role or its permission.
NoDanglingAssignment ==
  /\ \A g \in grant : role[g[1]] # None /\ g[2] \in permission
  /\ \A u \in Users, r \in Roles : userRole[u][r] # None => role[r] # None
=============================================================================
