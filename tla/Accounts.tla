------------------------------ MODULE Accounts ------------------------------
(***************************************************************************)
(* One user account (src/modules/users, src/modules/auth): its identities  *)
(* and status, its password and reset tokens, the counter of failed        *)
(* logins, and the sessions that logins open.                              *)
(*                                                                         *)
(* What happens inside sessions is in RefreshTokens, second factors are in *)
(* TwoFactor.  A client sends a right or a wrong password; right means     *)
(* that it matches the hash that the request has read.                     *)
(***************************************************************************)
EXTENDS Requests

CONSTANTS
  Identities,        \* username, email, phone
  UserChanges,       \* what update may be asked for; None leaves a field alone
  Logins,            \* sessions
  ResetTokens,
  Threshold, Window, Duration,   \* auth.login.lockout*
  ResetTtl,          \* auth.passwordReset.tokenTtlMinutes
  MaxPassword        \* bound: changes of the password

ASSUME AccountsAssumption ==
  /\ {Threshold, Duration, ResetTtl} \subseteq Nat \ {0}
  /\ {Window, MaxPassword} \subseteq Nat

VARIABLES
  account,     \* authentication_users, or None
  password,    \* password_hash: the number of changes so far
  reset,       \* authentication_password_reset_tokens
  security,    \* authentication_user_security
  login,       \* authentication_user_sessions
  wrong        \* history: wrong passwords since the counter last started

accountVars == <<account, password, reset, security, login, wrong>>

Statuses == {"pending", "active", "inactive", "suspended"}
Account == [ident : SUBSET Identities, status : Statuses, isActive : BOOLEAN,
            deleted : BOOLEAN]
Accessible(a) == ~a.deleted /\ a.isActive

AccountsInit ==
  /\ account = None
  /\ password = 0
  /\ reset = [t \in ResetTokens |-> None]
  /\ security = [failed |-> 0, locked |-> 0, updated |-> 0]
  /\ login = [s \in Logins |-> None]
  /\ wrong = 0

Found == account # None /\ ~account.deleted

\* sessions.revokeAll, or the same statement inside a transaction.
RevokeLogins ==
  login' = [s \in Logins |-> IF login[s] = None THEN None
                             ELSE [login[s] EXCEPT !.live = FALSE]]

-----------------------------------------------------------------------------
(* UserManagementService.                                                  *)

\* A duplicate is refused by the check or by the unique keys.
CreateUser(I) ==
  /\ account = None
  /\ I # {}
  /\ account' = [ident |-> I, status |-> "pending", isActive |-> TRUE, deleted |-> FALSE]
  /\ UNCHANGED <<password, reset, security, login, wrong, req, clock>>

\* update: some identities are set, some cleared, and perhaps the status.
UpdateUserRead(p, c) ==
  /\ Found
  /\ (account.ident \cup c.set) \ c.cleared # {}
  /\ Start(p, [op |-> "updateUser", at |-> "write", change |-> c,
               disables |-> /\ Accessible(account)
                            /\ c.isActive = FALSE \/ c.status \in {"inactive", "suspended"}])
  /\ UNCHANGED <<accountVars, clock>>

\* By uuid alone; sessions are revoked in a later transaction.
UpdateUserWrite(p) ==
  /\ Running(p, "updateUser") /\ At(p, "write")
  /\ account' = [account EXCEPT
       !.ident = (@ \cup req[p].change.set) \ req[p].change.cleared,
       !.status = IF req[p].change.status = None THEN @ ELSE req[p].change.status,
       !.isActive = IF req[p].change.isActive = None THEN @ ELSE req[p].change.isActive]
  /\ IF req[p].disables THEN Goto(p, "revoke") ELSE Done(p)
  /\ UNCHANGED <<password, reset, security, login, wrong, clock>>

SoftDelete(p) ==
  /\ Found
  /\ account' = [account EXCEPT !.deleted = TRUE, !.isActive = FALSE, !.status = "inactive"]
  /\ Start(p, [op |-> "removeUser", at |-> "revoke"])
  /\ UNCHANGED <<password, reset, security, login, wrong, clock>>

\* revokeAllForSecurityEvent, of these and of the password's operations.
RevokeAllForSecurityEvent(p) ==
  /\ At(p, "revoke")
  /\ RevokeLogins
  /\ Done(p)
  /\ UNCHANGED <<account, password, reset, security, wrong, clock>>

-----------------------------------------------------------------------------
(* LoginService.execute.                                                   *)

Locked(now) == security.locked > now

LoginRead(p) ==
  /\ Found /\ ~Locked(clock)
  /\ account.isActive /\ account.status = "active"
  /\ \E right \in BOOLEAN :
       Start(p, [op |-> "login", at |-> IF right THEN "recheck" ELSE "failed",
                 now |-> clock, password |-> IF right THEN password ELSE None])
  /\ UNCHANGED <<accountVars, clock>>

WindowOver(row, now) == row.updated + Window < now

\* Mutant: one failure more is allowed.
AtThresholdLate(failed) == failed > Threshold

AtThreshold(failed) == failed >= Threshold

\* nextFailedLoginState of the row that SELECT ... FOR UPDATE returned.
NextFailedLoginState(row, now) ==
  LET failed == IF WindowOver(row, now) THEN 1 ELSE row.failed + 1
  IN  IF row.locked > now THEN [failed |-> row.failed, locked |-> row.locked]
      ELSE [failed |-> failed,
            locked |-> IF AtThreshold(failed) THEN now + Duration ELSE 0]

RecordFailedLogin(p) ==
  /\ At(p, "failed")
  /\ LET next == NextFailedLoginState(security, req[p].now)
     IN  /\ security' = [failed |-> next.failed, locked |-> next.locked, updated |-> clock]
         /\ wrong' = IF ~Locked(req[p].now) /\ WindowOver(security, req[p].now) THEN 1 ELSE wrong + 1
  /\ Done(p)
  /\ UNCHANGED <<account, password, reset, login, clock>>

RecheckLock(p) ==
  /\ At(p, "recheck")
  /\ IF Locked(req[p].now) THEN Done(p) ELSE Goto(p, "session")
  /\ UNCHANGED <<accountVars, clock>>

\* issueSession: the session, and later the security row.
IssueSession(p) ==
  /\ At(p, "session")
  /\ \E s \in Logins :
       /\ login[s] = None
       /\ login' = [login EXCEPT ![s] =
            [live |-> TRUE, password |-> req[p].password,
             late |-> req[p].password # password]]
  /\ Goto(p, "success")
  /\ UNCHANGED <<account, password, reset, security, wrong, clock>>

\* Mutant: a success clears whatever lock there is.
ClearableAlways(now) == TRUE

Clearable(now) == ~Locked(now)

RecordSuccessfulLogin(p) ==
  /\ At(p, "success")
  /\ IF Clearable(req[p].now)
     THEN security' = [failed |-> 0, locked |-> 0, updated |-> clock] /\ wrong' = 0
     ELSE UNCHANGED <<security, wrong>>
  /\ Done(p)
  /\ UNCHANGED <<account, password, reset, login, clock>>

-----------------------------------------------------------------------------
(* CredentialService and PasswordResetService.                             *)

ChangePasswordRead(p) ==
  /\ Found
  /\ Start(p, [op |-> "changePassword", at |-> "change", password |-> password])
  /\ UNCHANGED <<accountVars, clock>>

\* Mutant: the sessions are left to the security event that follows.
NewPasswordOnly == password' = password + 1 /\ UNCHANGED login

\* What updatePassword and resetPasswordAtomically write in one transaction.
NewPassword == password' = password + 1 /\ RevokeLogins

\* updatePassword, conditional on the hash that was verified.
UpdatePassword(p) ==
  /\ At(p, "change")
  /\ \/ /\ password = req[p].password /\ password < MaxPassword
        /\ NewPassword
        /\ Goto(p, "revoke")
     \/ password # req[p].password /\ Done(p) /\ UNCHANGED <<password, login>>
  /\ UNCHANGED <<account, reset, security, wrong, clock>>

RequestReset(t) ==
  /\ account # None /\ Accessible(account)
  /\ reset[t] = None
  /\ reset' = [reset EXCEPT ![t] = [expires |-> clock + ResetTtl, used |-> FALSE]]
  /\ UNCHANGED <<account, password, security, login, wrong, req, clock>>

ResetPasswordAtomically(p, t) ==
  /\ reset[t] # None
  /\ ~reset[t].used /\ reset[t].expires > clock
  /\ password < MaxPassword
  /\ reset' = [reset EXCEPT ![t].used = TRUE]
  /\ NewPassword
  /\ Start(p, [op |-> "reset", at |-> "revoke"])
  /\ UNCHANGED <<account, security, wrong, clock>>

\* A request that is refused, or that fails before its next statement.
AccountsAbandon(p) == req[p] # None /\ Done(p) /\ UNCHANGED <<accountVars, clock>>

AccountsNext ==
  \/ \E p \in Procs :
       \/ UpdateUserWrite(p) \/ SoftDelete(p) \/ RevokeAllForSecurityEvent(p)
       \/ LoginRead(p) \/ RecordFailedLogin(p) \/ RecheckLock(p) \/ IssueSession(p)
       \/ RecordSuccessfulLogin(p)
       \/ ChangePasswordRead(p) \/ UpdatePassword(p) \/ AccountsAbandon(p)
  \/ \E p \in Procs, c \in UserChanges : UpdateUserRead(p, c)
  \/ \E p \in Procs, t \in ResetTokens : ResetPasswordAtomically(p, t)
  \/ \E t \in ResetTokens : RequestReset(t)
  \/ \E i \in SUBSET Identities : CreateUser(i)
  \/ Tick /\ UNCHANGED accountVars

-----------------------------------------------------------------------------
\* The rows have the types of the schema.
AccountsTypeOK ==
  /\ account \in Account \cup {None}
  /\ password \in 0..MaxPassword
  /\ reset \in [ResetTokens -> [expires : Nat, used : BOOLEAN] \cup {None}]
  /\ security \in [failed : Nat, locked : Nat, updated : Nat]
  /\ login \in [Logins -> [live : BOOLEAN, password : 0..MaxPassword, late : BOOLEAN] \cup {None}]

\* A change or a reset of the password ends every session that was opened with
\* an older one (updatePassword and resetPasswordAtomically revoke in the same
\* transaction).  The only survivor is a login that had verified the old
\* password and opens its session after the change.
SessionsFollowPassword ==
  \A s \in Logins :
    login[s] # None /\ login[s].live /\ login[s].password # password => login[s].late

\* A lock in force is neither lifted nor shortened, by whatever request with an
\* older idea of the time: recordSuccessfulLogin and nextFailedLoginState.
LockStays ==
  [][security.locked > clock => security'.locked >= security.locked]_accountVars

\* No wrong password is lost between requests that overlap: with the threshold
\* reached there is a lock (perhaps one that has run out).
ThresholdLocks == wrong >= Threshold => security.locked > 0
=============================================================================
