----------------------------- MODULE PlatformProofs -----------------------------
(***************************************************************************)
(* Proofs about accounts, second factors and access rights, as MCPlatform  *)
(* composes them.  The invariant of each component is shown on the steps   *)
(* of the component alone; a behaviour of the composition is about one of  *)
(* them, and the others stay as they began.                                *)
(***************************************************************************)
EXTENDS MCPlatform, FiniteSetTheorems, TLAPS

(***************************************************************************)
(* Accounts.                                                               *)
(***************************************************************************)

AccountRequest ==
  [op : {"updateUser"}, at : {"write", "revoke"}, change : UserChanges, disables : BOOLEAN]
    \cup [op : {"removeUser", "reset"}, at : {"revoke"}]
    \cup [op : {"login"}, at : {"recheck", "session", "success"}, now : Nat, password : Nat]
    \cup [op : {"login"}, at : {"failed"}, now : Nat, password : {None}]
    \cup [op : {"changePassword"}, at : {"change", "revoke"}, password : Nat]

\* A request holds a time that has been, and whoever went past the threshold has
\* been counted: wrong passwords are missing from the counter only while, or
\* after, a lock was set.
AccountInv ==
  /\ clock \in Nat /\ wrong \in Nat /\ password \in Nat
  /\ req \in [Procs -> AccountRequest \cup {None}]
  /\ security \in [failed : Nat, locked : Nat, updated : Nat]
  /\ login \in [Logins -> [live : BOOLEAN, password : Nat, late : BOOLEAN] \cup {None}]
  /\ \A p \in Procs : req[p] # None /\ req[p].op = "login" => req[p].now <= clock
  /\ (security.locked > 0) <=> (security.failed >= Threshold)
  /\ wrong <= security.failed \/ security.failed >= Threshold
  /\ SessionsFollowPassword

\* The fields of a request, by the point it has reached.
LEMMA AccountRequestFields ==
  ASSUME NEW r \in AccountRequest
  PROVE  /\ r.at = "write" => r.change \in UserChanges /\ r.op = "updateUser"
         /\ r.at \in {"recheck", "session", "success", "failed"} => r.op = "login" /\ r.now \in Nat
         /\ r.op = "login" => r.now \in Nat
         /\ r.at \in {"recheck", "session", "success", "change"} => r.password \in Nat
         /\ r.at = "change" => r.op = "changePassword"
         /\ r.at = "write" => [r EXCEPT !.at = "revoke"] \in AccountRequest
         /\ r.at = "recheck" => [r EXCEPT !.at = "session"] \in AccountRequest
         /\ r.at = "session" => [r EXCEPT !.at = "success"] \in AccountRequest
         /\ r.at = "change" => [r EXCEPT !.at = "revoke"] \in AccountRequest
         /\ \A l : [r EXCEPT !.at = l].op = r.op
         /\ \A l : r.op = "login" => [r EXCEPT !.at = l].now = r.now
BY DEF AccountRequest

LEMMA AccountInitial ==
  ASSUME RequestsInit, AccountsInit
  PROVE  AccountInv
BY AccountsAssumption DEF RequestsInit, AccountsInit, AccountInv, SessionsFollowPassword

\* What a step may change of req, seen from one request.
AccountReqStep(p) ==
  \E r \in AccountRequest \cup {None} :
    /\ req' = [req EXCEPT ![p] = r]
    /\ r # None /\ r.op = "login" => r.now <= clock

\* The next point of a request.
LEMMA AccountGoto ==
  ASSUME AccountInv, NEW p \in Procs, req[p] # None,
         NEW l, Goto(p, l),
         \/ req[p].at = "write" /\ l = "revoke"
         \/ req[p].at = "recheck" /\ l = "session"
         \/ req[p].at = "session" /\ l = "success"
         \/ req[p].at = "change" /\ l = "revoke"
  PROVE  AccountReqStep(p)
<1> DEFINE r == [req[p] EXCEPT !.at = l]
<1>1. req[p] \in AccountRequest
  BY DEF AccountInv
<1>2. r \in AccountRequest /\ r.op = req[p].op /\ (r.op = "login" => r.now = req[p].now)
  BY <1>1, AccountRequestFields
<1>3. req' = [req EXCEPT ![p] = r]
  BY DEF Goto, AccountInv
<1>4. req[p].op = "login" => req[p].now <= clock
  BY DEF AccountInv
<1> HIDE DEF r
<1> QED
  BY <1>2, <1>3, <1>4 DEF AccountReqStep

LEMMA AccountDone ==
  ASSUME AccountInv, NEW p \in Procs, Done(p)
  PROVE  AccountReqStep(p)
BY DEF AccountReqStep, Done

\* A step that changes the rows as the invariant asks.
LEMMA AccountWrites ==
  ASSUME AccountInv, NEW p \in Procs, AccountReqStep(p) \/ req' = req,
         clock' = clock, wrong' \in Nat, password' \in Nat,
         security' \in [failed : Nat, locked : Nat, updated : Nat],
         (security'.locked > 0) <=> (security'.failed >= Threshold),
         wrong' <= security'.failed \/ security'.failed >= Threshold,
         login' \in [Logins -> [live : BOOLEAN, password : Nat, late : BOOLEAN] \cup {None}],
         SessionsFollowPassword'
  PROVE  AccountInv'
BY DEF AccountInv, AccountReqStep

\* What NextFailedLoginState leaves, with the count of wrong passwords.
LEMMA FailureCounted ==
  ASSUME NEW row \in [failed : Nat, locked : Nat, updated : Nat], NEW now \in Nat, NEW n \in Nat,
         (row.locked > 0) <=> (row.failed >= Threshold),
         n <= row.failed \/ row.failed >= Threshold,
         NEW m, m = IF ~(row.locked > now) /\ WindowOver(row, now) THEN 1 ELSE n + 1
  PROVE  LET next == NextFailedLoginState(row, now)
         IN  /\ next.failed \in Nat /\ next.locked \in Nat /\ m \in Nat
             /\ (next.locked > 0) <=> (next.failed >= Threshold)
             /\ m <= next.failed \/ next.failed >= Threshold
             /\ row.locked > now => next.locked = row.locked
BY AccountsAssumption DEF NextFailedLoginState, AtThreshold

\* A new password ends the sessions.
LEMMA NewPasswordEnds ==
  ASSUME AccountInv, NewPassword
  PROVE  /\ login' \in [Logins -> [live : BOOLEAN, password : Nat, late : BOOLEAN] \cup {None}]
         /\ password' \in Nat
         /\ SessionsFollowPassword'
<1>1. \A s \in Logins : login'[s] = IF login[s] = None THEN None
                                    ELSE [login[s] EXCEPT !.live = FALSE]
  BY DEF NewPassword, RevokeLogins
<1>2. \A s \in Logins : login[s] # None =>
        login[s] \in [live : BOOLEAN, password : Nat, late : BOOLEAN]
  BY DEF AccountInv
<1>3. \A s \in Logins : login'[s] # None => login'[s].live = FALSE
  BY <1>1, <1>2
<1>4. SessionsFollowPassword'
  BY <1>3 DEF SessionsFollowPassword
<1>5. login' \in [Logins -> [live : BOOLEAN, password : Nat, late : BOOLEAN] \cup {None}]
  BY <1>1, <1>2 DEF NewPassword, RevokeLogins
<1> QED
  BY <1>4, <1>5 DEF NewPassword, AccountInv

LEMMA AccountKeeps ==
  ASSUME AccountInv, AccountsNext
  PROVE  /\ AccountInv'
         /\ security.locked > clock => security'.locked >= security.locked
<1> DEFINE Kept == AccountInv' /\ (security.locked > clock => security'.locked >= security.locked)
<1>0. /\ security.locked \in Nat /\ security.failed \in Nat /\ clock \in Nat /\ wrong \in Nat
      /\ password \in Nat /\ security \in [failed : Nat, locked : Nat, updated : Nat]
      /\ (security.locked > 0) <=> (security.failed >= Threshold)
      /\ wrong <= security.failed \/ security.failed >= Threshold
      /\ login \in [Logins -> [live : BOOLEAN, password : Nat, late : BOOLEAN] \cup {None}]
      /\ SessionsFollowPassword
      /\ \A p \in Procs : req[p] # None => req[p] \in AccountRequest
  BY DEF AccountInv
<1>1. ASSUME NEW p \in Procs, AccountReqStep(p) \/ req' = req,
             UNCHANGED <<password, security, login, wrong, clock>>
      PROVE  Kept
  <2>1. SessionsFollowPassword'
    BY <1>0, <1>1 DEF SessionsFollowPassword
  <2> QED
    BY <1>0, <1>1, <2>1, AccountWrites
<1>2. ASSUME NEW p \in Procs, NEW r \in AccountRequest, Start(p, r),
             r.op = "login" => r.now <= clock
      PROVE  AccountReqStep(p)
  BY <1>2 DEF Start, AccountReqStep
<1>3. ASSUME NEW p \in Procs, UpdateUserWrite(p) PROVE Kept
  <2>1. AccountReqStep(p)
    <3>1. CASE req[p].disables
      BY <1>3, <3>1, AccountGoto DEF UpdateUserWrite, At
    <3>2. CASE ~req[p].disables
      BY <1>3, <3>2, AccountDone DEF UpdateUserWrite
    <3> QED
      BY <3>1, <3>2
  <2> QED
    BY <1>1, <1>3, <2>1 DEF UpdateUserWrite
<1>4. ASSUME NEW p \in Procs, SoftDelete(p) PROVE Kept
  <2>1. [op |-> "removeUser", at |-> "revoke"] \in AccountRequest
    BY DEF AccountRequest
  <2> QED
    BY <1>1, <1>2, <1>4, <2>1 DEF SoftDelete
<1>5. ASSUME NEW p \in Procs, RevokeAllForSecurityEvent(p) PROVE Kept
  <2>1. AccountReqStep(p)
    BY <1>5, AccountDone DEF RevokeAllForSecurityEvent
  <2>2. \A s \in Logins : login'[s] = IF login[s] = None THEN None
                                      ELSE [login[s] EXCEPT !.live = FALSE]
    BY <1>5 DEF RevokeAllForSecurityEvent, RevokeLogins
  <2>3. \A s \in Logins : login[s] # None =>
          login[s] \in [live : BOOLEAN, password : Nat, late : BOOLEAN]
    BY <1>0
  <2>4. \A s \in Logins : login'[s] # None => login'[s].live = FALSE
    BY <2>2, <2>3
  <2>5. SessionsFollowPassword'
    BY <2>4 DEF SessionsFollowPassword
  <2>6. login' \in [Logins -> [live : BOOLEAN, password : Nat, late : BOOLEAN] \cup {None}]
    BY <1>5, <2>2, <2>3 DEF RevokeAllForSecurityEvent, RevokeLogins
  <2> QED
    BY <1>0, <1>5, <2>1, <2>5, <2>6, AccountWrites DEF RevokeAllForSecurityEvent
<1>6. ASSUME NEW p \in Procs, LoginRead(p) PROVE Kept
  <2>1. PICK right \in BOOLEAN :
          Start(p, [op |-> "login", at |-> IF right THEN "recheck" ELSE "failed",
                    now |-> clock, password |-> IF right THEN password ELSE None])
    BY <1>6 DEF LoginRead
  <2> DEFINE r == [op |-> "login", at |-> IF right THEN "recheck" ELSE "failed",
                   now |-> clock, password |-> IF right THEN password ELSE None]
  <2>2. r \in AccountRequest /\ r.now <= clock
    BY <1>0 DEF AccountRequest
  <2>3. Start(p, r)
    BY <2>1
  <2> HIDE DEF r
  <2>4. AccountReqStep(p)
    BY <1>2, <2>2, <2>3
  <2> QED
    BY <1>1, <1>6, <2>4 DEF LoginRead, accountVars
<1>7. ASSUME NEW p \in Procs, RecordFailedLogin(p) PROVE Kept
  <2>1. AccountReqStep(p)
    BY <1>7, AccountDone DEF RecordFailedLogin
  <2>2. req[p].now \in Nat /\ req[p].now <= clock
    BY <1>0, <1>7, AccountRequestFields DEF RecordFailedLogin, At, AccountInv
  <2> DEFINE next == NextFailedLoginState(security, req[p].now)
  <2>3. /\ security' = [failed |-> next.failed, locked |-> next.locked, updated |-> clock]
        /\ wrong' = IF ~(security.locked > req[p].now) /\ WindowOver(security, req[p].now)
                    THEN 1 ELSE wrong + 1
    BY <1>7 DEF RecordFailedLogin, Locked
  <2>4. /\ next.failed \in Nat /\ next.locked \in Nat /\ wrong' \in Nat
        /\ (next.locked > 0) <=> (next.failed >= Threshold)
        /\ wrong' <= next.failed \/ next.failed >= Threshold
        /\ security.locked > req[p].now => next.locked = security.locked
    BY <1>0, <2>2, <2>3, FailureCounted
  <2> HIDE DEF next
  <2>5. /\ security' \in [failed : Nat, locked : Nat, updated : Nat]
        /\ security'.failed = next.failed /\ security'.locked = next.locked
    BY <1>0, <2>3, <2>4
  <2>6. UNCHANGED <<account, password, reset, login, clock>>
    BY <1>7 DEF RecordFailedLogin
  <2>7. SessionsFollowPassword'
    BY <1>0, <2>6 DEF SessionsFollowPassword
  <2>8. AccountInv'
    BY <1>0, <2>1, <2>4, <2>5, <2>6, <2>7, AccountWrites
  <2> QED
    BY <1>0, <2>2, <2>4, <2>5, <2>8
<1>8. ASSUME NEW p \in Procs, RecheckLock(p) PROVE Kept
  <2>1. AccountReqStep(p)
    <3>1. CASE Locked(req[p].now)
      BY <1>8, <3>1, AccountDone DEF RecheckLock
    <3>2. CASE ~Locked(req[p].now)
      BY <1>8, <3>2, AccountGoto DEF RecheckLock, At
    <3> QED
      BY <3>1, <3>2
  <2> QED
    BY <1>1, <1>8, <2>1 DEF RecheckLock, accountVars
<1>9. ASSUME NEW p \in Procs, IssueSession(p) PROVE Kept
  <2>1. AccountReqStep(p)
    BY <1>9, AccountGoto DEF IssueSession, At
  <2>2. req[p].password \in Nat
    BY <1>0, <1>9, AccountRequestFields DEF IssueSession, At
  <2>3. PICK s \in Logins : login' = [login EXCEPT ![s] =
            [live |-> TRUE, password |-> req[p].password,
             late |-> req[p].password # password]]
    BY <1>9 DEF IssueSession
  <2>4. UNCHANGED <<account, password, reset, security, wrong, clock>>
    BY <1>9 DEF IssueSession
  <2> DEFINE new == [live |-> TRUE, password |-> req[p].password,
                     late |-> req[p].password # password]
  <2>5. new \in [live : BOOLEAN, password : Nat, late : BOOLEAN]
    BY <2>2
  <2>6. new.password # password => new.late
    OBVIOUS
  <2>7. login' = [login EXCEPT ![s] = new]
    BY <2>3
  <2> HIDE DEF new
  <2>8. login' \in [Logins -> [live : BOOLEAN, password : Nat, late : BOOLEAN] \cup {None}]
    BY <1>0, <2>5, <2>7
  <2>9. SessionsFollowPassword'
    BY <1>0, <2>4, <2>6, <2>7 DEF SessionsFollowPassword
  <2> QED
    BY <1>0, <2>1, <2>4, <2>8, <2>9, AccountWrites
<1>10. ASSUME NEW p \in Procs, RecordSuccessfulLogin(p) PROVE Kept
  <2>1. AccountReqStep(p)
    BY <1>10, AccountDone DEF RecordSuccessfulLogin
  <2>2. req[p].now \in Nat /\ req[p].now <= clock
    BY <1>0, <1>10, AccountRequestFields DEF RecordSuccessfulLogin, At, AccountInv
  <2>3. UNCHANGED <<account, password, reset, login, clock>>
    BY <1>10 DEF RecordSuccessfulLogin
  <2>4. SessionsFollowPassword'
    BY <1>0, <2>3 DEF SessionsFollowPassword
  <2>5. CASE Clearable(req[p].now)
    <3>1. security' = [failed |-> 0, locked |-> 0, updated |-> clock] /\ wrong' = 0
      BY <1>10, <2>5 DEF RecordSuccessfulLogin
    <3>2. ~(security.locked > clock)
      BY <1>0, <2>2, <2>5 DEF Clearable, Locked
    <3>3. /\ security' \in [failed : Nat, locked : Nat, updated : Nat]
          /\ security'.failed = 0 /\ security'.locked = 0 /\ wrong' \in Nat
      BY <1>0, <3>1
    <3>4. AccountInv'
      BY <1>0, <2>1, <2>3, <2>4, <3>1, <3>3, AccountsAssumption, AccountWrites
    <3> QED
      BY <3>2, <3>4
  <2>6. CASE ~Clearable(req[p].now)
    <3>1. UNCHANGED <<security, wrong>>
      BY <1>10, <2>6 DEF RecordSuccessfulLogin
    <3> QED
      BY <1>1, <2>1, <2>3, <3>1
  <2> QED
    BY <2>5, <2>6
<1>11. ASSUME NEW p \in Procs, ChangePasswordRead(p) PROVE Kept
  <2>1. [op |-> "changePassword", at |-> "change", password |-> password] \in AccountRequest
    BY <1>0 DEF AccountRequest
  <2> QED
    BY <1>1, <1>2, <1>11, <2>1 DEF ChangePasswordRead, accountVars
<1>12. ASSUME NEW p \in Procs, UpdatePassword(p) PROVE Kept
  <2>1. UNCHANGED <<account, reset, security, wrong, clock>>
    BY <1>12 DEF UpdatePassword
  <2>2. CASE NewPassword /\ Goto(p, "revoke")
    <3>1. AccountReqStep(p)
      BY <1>12, <2>2, AccountGoto DEF UpdatePassword, At
    <3> QED
      BY <1>0, <2>1, <2>2, <3>1, NewPasswordEnds, AccountWrites
  <2>3. CASE Done(p) /\ UNCHANGED <<password, login>>
    BY <1>1, <2>1, <2>3, AccountDone
  <2> QED
    BY <1>12, <2>2, <2>3 DEF UpdatePassword
<1>13. ASSUME NEW p \in Procs, AccountsAbandon(p) PROVE Kept
  BY <1>1, <1>13, AccountDone DEF AccountsAbandon, accountVars
<1>14. ASSUME NEW p \in Procs, NEW c \in UserChanges, UpdateUserRead(p, c) PROVE Kept
  <2> DEFINE r == [op |-> "updateUser", at |-> "write", change |-> c,
                   disables |-> /\ Accessible(account)
                                /\ c.isActive = FALSE \/ c.status \in {"inactive", "suspended"}]
  <2>1. r \in AccountRequest /\ r.op = "updateUser"
    BY DEF AccountRequest
  <2>2. Start(p, r) /\ UNCHANGED <<accountVars, clock>>
    BY <1>14 DEF UpdateUserRead
  <2> HIDE DEF r
  <2>3. AccountReqStep(p)
    BY <1>2, <2>1, <2>2
  <2> QED
    BY <1>1, <2>2, <2>3 DEF accountVars
<1>15. ASSUME NEW p \in Procs, NEW t \in ResetTokens, ResetPasswordAtomically(p, t) PROVE Kept
  <2>1. [op |-> "reset", at |-> "revoke"] \in AccountRequest
    BY DEF AccountRequest
  <2>2. AccountReqStep(p)
    BY <1>2, <1>15, <2>1 DEF ResetPasswordAtomically
  <2> QED
    BY <1>0, <1>15, <2>2, NewPasswordEnds, AccountWrites DEF ResetPasswordAtomically
<1>16. ASSUME UNCHANGED <<req, clock, password, security, login, wrong>> PROVE Kept
  <2>1. SessionsFollowPassword'
    BY <1>0, <1>16 DEF SessionsFollowPassword
  <2> QED
    BY <1>0, <1>16, <2>1 DEF AccountInv
<1>17. ASSUME Tick, UNCHANGED accountVars PROVE Kept
  <2>1. AccountInv'
    <3>1. clock' \in Nat /\ clock' >= clock /\ UNCHANGED <<req, password, security, login, wrong>>
      BY <1>0, <1>17 DEF Tick, accountVars
    <3>2. SessionsFollowPassword'
      BY <1>0, <3>1 DEF SessionsFollowPassword
    <3>3. \A p \in Procs : req'[p] # None /\ req'[p].op = "login" => req'[p].now <= clock'
      <4> SUFFICES ASSUME NEW p \in Procs, req[p] # None, req[p].op = "login"
                   PROVE  req[p].now <= clock'
        BY <3>1
      <4>1. req[p].now \in Nat /\ req[p].now <= clock
        BY <1>0, AccountRequestFields DEF AccountInv
      <4> QED
        BY <1>0, <3>1, <4>1
    <3> QED
      BY <3>1, <3>2, <3>3 DEF AccountInv
  <2> QED
    BY <1>0, <1>17, <2>1 DEF Tick, accountVars
<1> HIDE DEF Kept
<1>18. Kept
  BY <1>3, <1>4, <1>5, <1>6, <1>7, <1>8, <1>9, <1>10, <1>11, <1>12, <1>13, <1>14, <1>15,
     <1>16, <1>17 DEF AccountsNext, RequestReset, CreateUser
<1> QED
  BY <1>18 DEF Kept

-----------------------------------------------------------------------------
(***************************************************************************)
(* Two-factor authentication.                                              *)
(***************************************************************************)

TwoFactorRequest ==
  [op : {"enroll"}, at : {"update", "insert"}, secret : Secrets]
    \cup [op : {"fail"}, at : {"failIncrement", "failLatest", "failLock"}, now : Nat]
    \cup [op : {"verifyEnrollment"}, at : {"enable"}, now : Nat, secret : Secrets]
    \cup [op : {"login"}, at : {"factor", "failChallenge"}, now : Nat, ch : Challenges]
    \cup [op : {"login"}, at : {"mark", "consume", "failChallenge"}, now : Nat,
          ch : Challenges, code : Codes]
    \cup [op : {"login"}, at : {"success", "consume", "failChallenge"}, now : Nat,
          ch : Challenges, secret : Secrets]
    \cup [op : {"regenerate"}, at : {"success", "delete", "create"}, now : Nat, secret : Secrets]
    \cup [op : {"disable"}, at : {"success", "disable", "delete"}, now : Nat, secret : Secrets]
    \cup [op : {"disable"}, at : {"mark", "disable", "delete"}, code : Codes]

\* The fields of a request, by the point it has reached.
LEMMA TwoFactorRequestFields ==
  ASSUME NEW r \in TwoFactorRequest
  PROVE  /\ r.op = "enroll" \/ r.at \in {"enable", "success"} => r.secret \in Secrets
         /\ r.at \in {"update", "insert"} => r.op = "enroll"
         /\ r.at = "enable" => r.op = "verifyEnrollment"
         /\ r.at \in {"enable", "success", "consume", "failChallenge", "failIncrement",
                      "failLatest", "failLock"} => r.now \in Nat
         /\ r.op = "login" => r.ch \in Challenges /\ r.now \in Nat
         /\ r.at = "mark" => r.code \in Codes
         /\ r.at \in {"factor", "consume", "failChallenge"} => r.op = "login"
         /\ r.at \in {"failIncrement", "failLatest", "failLock"} => r.op = "fail"
         /\ r.at \in {"success", "mark"} => r.op \in {"login", "regenerate", "disable"}
         /\ r.op = "regenerate" => r.at # "mark"
         /\ r.at \in {"delete", "create", "disable"} => r.op \in {"regenerate", "disable"}
         /\ r.at = "disable" => r.op = "disable"
         /\ r.at = "create" => r.op = "regenerate"
BY DEF TwoFactorRequest

\* The points that may follow on a point.
Follows(r, l) ==
  \/ r.at = "update" /\ l = "insert"
  \/ r.at \in {"success", "mark"} /\ r.op = "login" /\ l \in {"consume", "failChallenge"}
  \/ r.at = "success" /\ r.op = "regenerate" /\ l = "delete"
  \/ r.at \in {"success", "mark"} /\ r.op = "disable" /\ l = "disable"
  \/ r.at = "disable" /\ l = "delete"
  \/ r.at = "delete" /\ r.op = "regenerate" /\ l = "create"
  \/ r.at = "factor" /\ l = "failChallenge"
  \/ r.at = "failIncrement" /\ l = "failLatest"
  \/ r.at = "failLatest" /\ l = "failLock"

LEMMA TwoFactorNextPoint ==
  ASSUME NEW r \in TwoFactorRequest, NEW l, Follows(r, l)
  PROVE  LET n == [r EXCEPT !.at = l]
         IN  /\ n \in TwoFactorRequest /\ n.op = r.op /\ n.at = l
             /\ n.op = "enroll" => n.secret = r.secret
             /\ n.op = "login" => n.ch = r.ch
<1> DEFINE n == [r EXCEPT !.at = l]
<1>1. ASSUME r \in [op : {"enroll"}, at : {"update", "insert"}, secret : Secrets]
      PROVE  n \in TwoFactorRequest /\ n.op = r.op /\ n.at = l /\ n.secret = r.secret
  BY <1>1 DEF TwoFactorRequest, Follows
<1>2. ASSUME r \in [op : {"fail"}, at : {"failIncrement", "failLatest", "failLock"}, now : Nat]
      PROVE  n \in TwoFactorRequest /\ n.op = r.op /\ n.at = l
  BY <1>2 DEF TwoFactorRequest, Follows
<1>3. ASSUME r \in [op : {"verifyEnrollment"}, at : {"enable"}, now : Nat, secret : Secrets]
      PROVE  n \in TwoFactorRequest /\ n.op = r.op /\ n.at = l
  BY <1>3 DEF Follows
<1>4. ASSUME r \in [op : {"login"}, at : {"factor", "failChallenge"}, now : Nat, ch : Challenges]
      PROVE  n \in TwoFactorRequest /\ n.op = r.op /\ n.at = l /\ n.ch = r.ch
  BY <1>4 DEF TwoFactorRequest, Follows
<1>5. ASSUME r \in [op : {"login"}, at : {"mark", "consume", "failChallenge"}, now : Nat,
                    ch : Challenges, code : Codes]
      PROVE  n \in TwoFactorRequest /\ n.op = r.op /\ n.at = l /\ n.ch = r.ch
  BY <1>5 DEF TwoFactorRequest, Follows
<1>6. ASSUME r \in [op : {"login"}, at : {"success", "consume", "failChallenge"}, now : Nat,
                    ch : Challenges, secret : Secrets]
      PROVE  n \in TwoFactorRequest /\ n.op = r.op /\ n.at = l /\ n.ch = r.ch
  BY <1>6 DEF TwoFactorRequest, Follows
<1>7. ASSUME r \in [op : {"regenerate"}, at : {"success", "delete", "create"}, now : Nat,
                    secret : Secrets]
      PROVE  n \in TwoFactorRequest /\ n.op = r.op /\ n.at = l
  BY <1>7 DEF TwoFactorRequest, Follows
<1>8. ASSUME r \in [op : {"disable"}, at : {"success", "disable", "delete"}, now : Nat,
                    secret : Secrets]
      PROVE  n \in TwoFactorRequest /\ n.op = r.op /\ n.at = l
  BY <1>8 DEF TwoFactorRequest, Follows
<1>9. ASSUME r \in [op : {"disable"}, at : {"mark", "disable", "delete"}, code : Codes]
      PROVE  n \in TwoFactorRequest /\ n.op = r.op /\ n.at = l
  BY <1>9 DEF TwoFactorRequest, Follows
<1> HIDE DEF n
<1>10. \/ r \in [op : {"login"}, at : {"factor", "failChallenge"}, now : Nat, ch : Challenges]
       \/ r \in [op : {"login"}, at : {"mark", "consume", "failChallenge"}, now : Nat,
                 ch : Challenges, code : Codes]
       \/ r \in [op : {"login"}, at : {"success", "consume", "failChallenge"}, now : Nat,
                 ch : Challenges, secret : Secrets]
       \/ r \in [op : {"enroll"}, at : {"update", "insert"}, secret : Secrets]
       \/ r \in TwoFactorRequest /\ r.op \notin {"login", "enroll"}
  BY DEF TwoFactorRequest
<1>11. n \in TwoFactorRequest /\ n.op = r.op /\ n.at = l
  BY <1>1, <1>2, <1>3, <1>4, <1>5, <1>6, <1>7, <1>8, <1>9 DEF TwoFactorRequest
<1>12. /\ n.op = "enroll" => n.secret = r.secret
       /\ n.op = "login" => n.ch = r.ch
  BY <1>1, <1>4, <1>5, <1>6, <1>10, <1>11
<1> QED
  BY <1>11, <1>12 DEF n

\* The requests that hold a secret they will use, and those that guess at a challenge.
HoldsSecret(r) == r.op = "enroll" \/ r.at \in {"enable", "success"}
Guessing(c) == {p \in Procs : Running(p, "login") /\ req[p].ch = c}

FactorRowsOK ==
  /\ clock \in Nat
  /\ req \in [Procs -> TwoFactorRequest \cup {None}]
  /\ TwoFactorTypeOK
  /\ factor # None => /\ factor.enabled => factor.pending
                      /\ factor.pending => factor.secret \in drawn
                      /\ factor.secret \in drawn \cup {None}
  /\ factor = None => /\ accepted = {} /\ again = {}
                      /\ \A k \in Codes : code[k] = "fresh"
                      /\ \A c \in Challenges : challenge[c] = None
  /\ \A p \in Procs : req[p] # None /\ req[p].op # "enroll" => factor # None
  /\ \A p \in Procs : Running(p, "login") => challenge[req[p].ch] # None

\* A secret that is being enrolled is nobody else's, and nothing was accepted for it.
SecretsAreNew ==
  /\ \A p \in Procs : req[p] # None /\ HoldsSecret(req[p]) => req[p].secret \in drawn
  /\ \A p \in Procs : Running(p, "enroll") =>
       /\ factor # None => factor.secret # req[p].secret
       /\ \A x \in accepted : x[1] = "step" => x[2] # req[p].secret
       /\ \A q \in Procs \ {p} :
            req[q] # None /\ HoldsSecret(req[q]) => req[q].secret # req[p].secret

\* What was accepted has left its trace in the rows.
StepIsKept(x) ==
  /\ x[1] = "step" /\ x[2] \in drawn /\ x[3] \in Nat
  /\ x[2] = factor.secret => factor.enabled /\ x[3] <= factor.last
CodeIsKept(x) == x[1] = "code" /\ x[2] \in Codes /\ code[x[2]] \in {"used", "gone"}
ChallengeIsKept(x) ==
  x[1] = "challenge" /\ x[2] \in Challenges /\ challenge[x[2]] # None /\ challenge[x[2]].consumed

AcceptedIsKept ==
  /\ again \subseteq accepted
  /\ \A x \in accepted : StepIsKept(x) \/ CodeIsKept(x) \/ ChallengeIsKept(x)
  /\ NothingAcceptedTwice

\* A request that will count a failure of the challenge is counted beforehand.
GuessesCounted ==
  \A c \in Challenges : challenge[c] # None =>
    challenge[c].failed + Cardinality(Guessing(c)) + 1
      <= ChallengeMaxAttempts + Cardinality(Procs)

TwoFactorInv == FactorRowsOK /\ SecretsAreNew /\ AcceptedIsKept /\ GuessesCounted

LEMMA GuessingFinite ==
  ASSUME NEW c
  PROVE  /\ IsFiniteSet(Guessing(c)) /\ Cardinality(Guessing(c)) \in Nat
         /\ Cardinality(Guessing(c)) <= Cardinality(Procs)
         /\ Cardinality(Procs) \in Nat
BY ProcsAssumption, FS_Subset, FS_CardinalityType DEF Guessing

LEMMA TwoFactorInitial ==
  ASSUME RequestsInit, TwoFactorInit
  PROVE  TwoFactorInv
BY DEF RequestsInit, TwoFactorInit, TwoFactorInv, FactorRowsOK, TwoFactorTypeOK, SecretsAreNew,
       AcceptedIsKept, NothingAcceptedTwice, GuessesCounted, Running

\* The invariant gives the property of the runs.
LEMMA GuessesAreBounded ==
  ASSUME TwoFactorInv
  PROVE  ChallengeGuessesBounded
<1> SUFFICES ASSUME NEW c \in Challenges, challenge[c] # None
             PROVE  challenge[c].failed <= ChallengeMaxAttempts + Cardinality(Procs) - 1
  BY DEF ChallengeGuessesBounded
<1>1. challenge[c].failed + Cardinality(Guessing(c)) + 1
        <= ChallengeMaxAttempts + Cardinality(Procs)
  BY DEF TwoFactorInv, GuessesCounted
<1>2. challenge[c].failed \in Nat
  BY DEF TwoFactorInv, FactorRowsOK, TwoFactorTypeOK, ChallengeRow
<1> QED
  BY <1>1, <1>2, GuessingFinite, TwoFactorAssumption

\* A request goes on: it takes up the secret of the row, or none.
Continues(p) ==
  \E r \in TwoFactorRequest \cup {None} :
    /\ req' = [req EXCEPT ![p] = r]
    /\ r # None /\ r.op = "enroll" => Running(p, "enroll") /\ r.secret = req[p].secret
    /\ r # None /\ r.op # "enroll" => factor # None
    /\ r # None /\ r.at \in {"enable", "success"} =>
         r.secret = factor.secret /\ factor.secret \in drawn
    /\ r # None /\ r.op = "login" => Running(p, "login") /\ r.ch = req[p].ch

LEMMA TwoFactorDone ==
  ASSUME NEW p \in Procs, Done(p)
  PROVE  Continues(p)
BY DEF Done, Continues

LEMMA TwoFactorGoto ==
  ASSUME FactorRowsOK, NEW p \in Procs, req[p] # None, NEW l, Goto(p, l), Follows(req[p], l)
  PROVE  Continues(p)
<1> DEFINE r == [req[p] EXCEPT !.at = l]
<1>1. req[p] \in TwoFactorRequest /\ (req[p].op # "enroll" => factor # None)
  BY DEF FactorRowsOK
<1>2. /\ r \in TwoFactorRequest /\ r.op = req[p].op /\ r.at = l
      /\ r.op = "enroll" => r.secret = req[p].secret
      /\ r.op = "login" => r.ch = req[p].ch
  BY <1>1, TwoFactorNextPoint
<1>3. req' = [req EXCEPT ![p] = r]
  BY DEF Goto, FactorRowsOK
<1>4. l \notin {"enable", "success"}
  BY DEF Follows
<1> HIDE DEF r
<1> QED
  BY <1>1, <1>2, <1>3, <1>4 DEF Continues, Running

\* What holds of the requests once one of them has gone on.
LEMMA ContinuesKeeps ==
  ASSUME FactorRowsOK, SecretsAreNew, NEW p \in Procs, Continues(p),
         factor # None => factor' # None,
         \A c \in Challenges : challenge[c] # None => challenge'[c] # None
  PROVE  /\ req' \in [Procs -> TwoFactorRequest \cup {None}]
         /\ \A q \in Procs : req'[q] # None /\ req'[q].op # "enroll" => factor' # None
         /\ \A q \in Procs : req'[q] # None /\ req'[q].op = "login" =>
              challenge'[req'[q].ch] # None
         /\ \A c : Guessing(c)' \subseteq Guessing(c)
         /\ \A q \in Procs : req'[q] # None /\ HoldsSecret(req'[q]) => req'[q].secret \in drawn
         /\ \A q \in Procs : req'[q] # None /\ req'[q].op = "enroll" =>
              Running(q, "enroll") /\ req'[q].secret = req[q].secret
         /\ \A q \in Procs : req'[q] # None /\ HoldsSecret(req'[q]) =>
              \/ req[q] # None /\ HoldsSecret(req[q]) /\ req'[q].secret = req[q].secret
              \/ factor # None /\ req'[q].secret = factor.secret
<1>1. PICK r \in TwoFactorRequest \cup {None} :
        /\ req' = [req EXCEPT ![p] = r]
        /\ r # None /\ r.op = "enroll" => Running(p, "enroll") /\ r.secret = req[p].secret
        /\ r # None /\ r.op # "enroll" => factor # None
        /\ r # None /\ r.at \in {"enable", "success"} =>
             r.secret = factor.secret /\ factor.secret \in drawn
        /\ r # None /\ r.op = "login" => Running(p, "login") /\ r.ch = req[p].ch
  BY DEF Continues
<1>2. req \in [Procs -> TwoFactorRequest \cup {None}]
  BY DEF FactorRowsOK
<1>3. req'[p] = r /\ \A q \in Procs \ {p} : req'[q] = req[q]
  BY <1>1, <1>2
<1>4. req' \in [Procs -> TwoFactorRequest \cup {None}]
  BY <1>1, <1>2
<1>5. \A q \in Procs : req'[q] # None /\ req'[q].op # "enroll" => factor' # None
  BY <1>1, <1>3 DEF FactorRowsOK
<1>6. \A q \in Procs : req'[q] # None /\ req'[q].op = "login" =>
        Running(q, "login") /\ req'[q].ch = req[q].ch
  BY <1>1, <1>3 DEF Running
<1>7. \A q \in Procs : req'[q] # None /\ req'[q].op = "login" => challenge'[req'[q].ch] # None
  <2> SUFFICES ASSUME NEW q \in Procs, req'[q] # None, req'[q].op = "login"
               PROVE  challenge'[req'[q].ch] # None
    OBVIOUS
  <2>1. req'[q].ch \in Challenges
    BY <1>4, TwoFactorRequestFields
  <2>2. challenge[req'[q].ch] # None
    BY <1>6 DEF FactorRowsOK
  <2> QED
    BY <2>1, <2>2
<1>8. \A c : Guessing(c)' \subseteq Guessing(c)
  BY <1>6 DEF Guessing, Running
<1>9. \A q \in Procs : req'[q] # None /\ HoldsSecret(req'[q]) => req'[q].secret \in drawn
  BY <1>1, <1>3 DEF SecretsAreNew, HoldsSecret, Running
<1>10. \A q \in Procs : req'[q] # None /\ req'[q].op = "enroll" =>
         Running(q, "enroll") /\ req'[q].secret = req[q].secret
  BY <1>1, <1>3 DEF Running
<1>11. \A q \in Procs : req'[q] # None /\ HoldsSecret(req'[q]) =>
         \/ req[q] # None /\ HoldsSecret(req[q]) /\ req'[q].secret = req[q].secret
         \/ factor # None /\ req'[q].secret = factor.secret
  <2> SUFFICES ASSUME NEW q \in Procs, req'[q] # None, HoldsSecret(req'[q])
               PROVE  \/ req[q] # None /\ HoldsSecret(req[q]) /\ req'[q].secret = req[q].secret
                      \/ factor # None /\ req'[q].secret = factor.secret
    OBVIOUS
  <2>1. CASE req'[q].op = "enroll"
    BY <1>10, <2>1 DEF Running, HoldsSecret
  <2>2. CASE req'[q].op # "enroll" /\ q = p
    BY <1>1, <1>3, <2>2 DEF HoldsSecret
  <2>3. CASE q # p
    BY <1>3, <2>3
  <2> QED
    BY <2>1, <2>2, <2>3
<1> QED
  BY <1>4, <1>5, <1>7, <1>8, <1>9, <1>10, <1>11

\* Secrets stay new when the row keeps its secret or drops it, and what is newly
\* accepted is for the secret of the request.
LEMMA SecretsStayNew ==
  ASSUME TwoFactorInv, NEW p \in Procs, Continues(p), drawn' = drawn,
         factor # None => factor' # None,
         factor' # None => factor # None /\ factor'.secret \in {factor.secret, None},
         \A c \in Challenges : challenge[c] # None => challenge'[c] # None,
         \A x \in accepted' : x[1] = "step" =>
           \/ x \in accepted
           \/ req[p] # None /\ req[p].at \in {"enable", "success"} /\ x[2] = req[p].secret
  PROVE  SecretsAreNew'
<1>0. FactorRowsOK /\ SecretsAreNew
  BY DEF TwoFactorInv
<1>1. /\ \A q \in Procs : req'[q] # None /\ HoldsSecret(req'[q]) => req'[q].secret \in drawn
      /\ \A q \in Procs : req'[q] # None /\ req'[q].op = "enroll" =>
           Running(q, "enroll") /\ req'[q].secret = req[q].secret
      /\ \A q \in Procs : req'[q] # None /\ HoldsSecret(req'[q]) =>
           \/ req[q] # None /\ HoldsSecret(req[q]) /\ req'[q].secret = req[q].secret
           \/ factor # None /\ req'[q].secret = factor.secret
  BY <1>0, ContinuesKeeps
<1>2. ASSUME NEW q \in Procs, req'[q] # None, req'[q].op = "enroll"
      PROVE  /\ factor' # None => factor'.secret # req'[q].secret
             /\ \A x \in accepted' : x[1] = "step" => x[2] # req'[q].secret
             /\ \A s \in Procs \ {q} :
                  req'[s] # None /\ HoldsSecret(req'[s]) => req'[s].secret # req'[q].secret
  <2>1. Running(q, "enroll") /\ req'[q].secret = req[q].secret
    BY <1>1, <1>2
  <2>2. /\ factor # None => factor.secret # req[q].secret
        /\ \A x \in accepted : x[1] = "step" => x[2] # req[q].secret
        /\ \A s \in Procs \ {q} :
             req[s] # None /\ HoldsSecret(req[s]) => req[s].secret # req[q].secret
    BY <1>0, <2>1 DEF SecretsAreNew
  <2>3. req[q].secret \in Secrets
    BY <1>0, <2>1, TwoFactorRequestFields DEF FactorRowsOK, Running
  <2>4. factor' # None => factor'.secret # req'[q].secret
    BY <2>1, <2>2, <2>3, TwoFactorAssumption
  <2>5. req[p] # None /\ req[p].at \in {"enable", "success"} =>
          p # q /\ req[p].secret # req[q].secret
    <3>1. req[p] # None /\ req[p].at \in {"enable", "success"} => req[p].op # "enroll"
      BY <1>0, TwoFactorRequestFields DEF FactorRowsOK
    <3> QED
      BY <2>1, <2>2, <3>1 DEF Running, HoldsSecret
  <2>6. \A x \in accepted' : x[1] = "step" => x[2] # req'[q].secret
    BY <2>1, <2>2, <2>5
  <2>7. \A s \in Procs \ {q} :
          req'[s] # None /\ HoldsSecret(req'[s]) => req'[s].secret # req'[q].secret
    BY <1>1, <2>1, <2>2
  <2> QED
    BY <2>4, <2>6, <2>7
<1> QED
  BY <1>1, <1>2 DEF SecretsAreNew, Running

\* What was accepted keeps its trace while nothing else is accepted.
LEMMA AcceptedStays ==
  ASSUME TwoFactorInv, drawn \subseteq drawn', UNCHANGED <<accepted, again>>,
         accepted # {} =>
           \/ factor'.secret = factor.secret /\ factor'.enabled = factor.enabled
              /\ factor'.last = factor.last
           \/ factor'.secret \notin drawn
           \/ \A x \in accepted : x[1] = "step" => x[2] # factor'.secret,
         \A k \in Codes : code[k] \in {"used", "gone"} => code'[k] \in {"used", "gone"},
         \A c \in Challenges : challenge[c] # None /\ challenge[c].consumed =>
           challenge'[c] # None /\ challenge'[c].consumed
  PROVE  AcceptedIsKept'
<1>0. AcceptedIsKept
  BY DEF TwoFactorInv
<1>1. ASSUME NEW x \in accepted
      PROVE  (StepIsKept(x) \/ CodeIsKept(x) \/ ChallengeIsKept(x))'
  <2>1. CASE StepIsKept(x)
    BY <1>1, <2>1 DEF StepIsKept
  <2>2. CASE CodeIsKept(x)
    BY <2>2 DEF CodeIsKept
  <2>3. CASE ChallengeIsKept(x)
    BY <2>3 DEF ChallengeIsKept
  <2> QED
    BY <1>0, <1>1, <2>1, <2>2, <2>3 DEF AcceptedIsKept
<1>2. NothingAcceptedTwice'
  <2> SUFFICES ASSUME NEW x \in again PROVE x[1] = "step" /\ x[2] # factor'.secret
    BY DEF NothingAcceptedTwice
  <2>1. x \in accepted /\ x[1] = "step" /\ x[2] # factor.secret
    BY <1>0 DEF AcceptedIsKept, NothingAcceptedTwice
  <2>2. x[2] \in drawn
    BY <1>0, <2>1 DEF AcceptedIsKept, StepIsKept, CodeIsKept, ChallengeIsKept
  <2> QED
    BY <2>1, <2>2
<1> QED
  BY <1>0, <1>1, <1>2 DEF AcceptedIsKept

\* Guesses stay counted while no failure is.
LEMMA GuessesStayCounted ==
  ASSUME TwoFactorInv, TwoFactorTypeOK',
         \A c \in Challenges : Guessing(c)' \subseteq Guessing(c),
         \A c \in Challenges : challenge'[c] # None =>
           challenge[c] # None /\ challenge'[c].failed <= challenge[c].failed
  PROVE  GuessesCounted'
<1> SUFFICES ASSUME NEW c \in Challenges, challenge'[c] # None
             PROVE  challenge'[c].failed + Cardinality(Guessing(c)') + 1
                      <= ChallengeMaxAttempts + Cardinality(Procs)
  BY DEF GuessesCounted
<1>1. /\ challenge[c].failed + Cardinality(Guessing(c)) + 1
           <= ChallengeMaxAttempts + Cardinality(Procs)
      /\ challenge[c] # None /\ challenge'[c].failed <= challenge[c].failed
  BY DEF TwoFactorInv, GuessesCounted
<1>2. challenge[c].failed \in Nat /\ challenge'[c].failed \in Nat
  BY <1>1 DEF TwoFactorInv, FactorRowsOK, TwoFactorTypeOK, ChallengeRow
<1>3. Cardinality(Guessing(c)') <= Cardinality(Guessing(c)) /\ Cardinality(Guessing(c)') \in Nat
  BY GuessingFinite, FS_Subset, FS_CardinalityType
<1> QED
  BY <1>1, <1>2, <1>3, GuessingFinite, TwoFactorAssumption

\* A step that only moves a request on.
LEMMA OnlyContinues ==
  ASSUME TwoFactorInv, NEW p \in Procs, Continues(p), UNCHANGED <<twoFactorVars, clock>>
  PROVE  TwoFactorInv'
<1>0. FactorRowsOK /\ SecretsAreNew /\ TwoFactorTypeOK
  BY DEF TwoFactorInv, FactorRowsOK
<1>1. UNCHANGED <<factor, challenge, code, drawn, accepted, again, clock>>
  BY DEF twoFactorVars
<1>2. TwoFactorTypeOK'
  BY <1>0, <1>1 DEF TwoFactorTypeOK
<1>3. FactorRowsOK'
  BY <1>0, <1>1, <1>2, ContinuesKeeps DEF FactorRowsOK, Running
<1>4. SecretsAreNew'
  BY <1>1, SecretsStayNew
<1>5. AcceptedIsKept'
  BY <1>1, AcceptedStays
<1>6. GuessesCounted'
  <2>1. \A c \in Challenges : challenge[c] # None => challenge[c].failed \in Nat
    BY <1>0 DEF TwoFactorTypeOK, ChallengeRow
  <2>2. \A c \in Challenges : Guessing(c)' \subseteq Guessing(c)
    BY <1>0, <1>1, ContinuesKeeps
  <2> QED
    BY <1>1, <1>2, <2>1, <2>2, GuessesStayCounted
<1> QED
  BY <1>3, <1>4, <1>5, <1>6 DEF TwoFactorInv

-----------------------------------------------------------------------------
(* The steps of the two-factor component.                                  *)

\* What a step on the rows has to keep, apart from what it accepts.
LEMMA FactorRowsKept ==
  ASSUME TwoFactorInv, NEW p \in Procs, Continues(p), clock' = clock, drawn' = drawn,
         factor' \in TwoFactorRow \cup {None},
         challenge' \in [Challenges -> ChallengeRow \cup {None}],
         code' \in [Codes -> {"fresh", "unused", "used", "gone"}],
         factor # None => factor' # None,
         factor' # None => /\ factor'.enabled => factor'.pending
                           /\ factor'.pending => factor'.secret \in drawn
                           /\ factor'.secret \in drawn \cup {None},
         factor' = None => /\ accepted' = accepted /\ again' = again
                           /\ \A k \in Codes : code'[k] = code[k]
                           /\ \A c \in Challenges : challenge'[c] = challenge[c],
         \A c \in Challenges : challenge[c] # None => challenge'[c] # None
  PROVE  FactorRowsOK'
<1>0. FactorRowsOK /\ SecretsAreNew /\ TwoFactorTypeOK
  BY DEF TwoFactorInv, FactorRowsOK
<1>1. TwoFactorTypeOK'
  BY <1>0 DEF TwoFactorTypeOK
<1>2. /\ req' \in [Procs -> TwoFactorRequest \cup {None}]
      /\ \A q \in Procs : req'[q] # None /\ req'[q].op # "enroll" => factor' # None
      /\ \A q \in Procs : req'[q] # None /\ req'[q].op = "login" =>
           challenge'[req'[q].ch] # None
  BY <1>0, ContinuesKeeps
<1>3. factor' = None => factor = None
  OBVIOUS
<1> QED
  BY <1>0, <1>1, <1>2, <1>3 DEF FactorRowsOK, Running

\* The rows of a factor that exists, field by field.
LEMMA FactorFields ==
  ASSUME TwoFactorInv, factor # None
  PROVE  /\ factor \in TwoFactorRow
         /\ factor.secret \in Secrets \cup {None} /\ factor.last \in Nat /\ factor.failed \in Nat
         /\ factor.locked \in Nat /\ factor.enabled \in BOOLEAN /\ factor.pending \in BOOLEAN
         /\ factor.enabled => factor.pending /\ factor.secret \in drawn
         /\ factor.pending => factor.secret \in drawn
         /\ factor.secret \in drawn \cup {None}
         /\ drawn \subseteq Secrets /\ None \notin drawn
BY TwoFactorAssumption
   DEF TwoFactorInv, FactorRowsOK, TwoFactorTypeOK, TwoFactorRow

\* The invariant that a step keeps when it accepts nothing and leaves the failures
\* of the challenges and the secret alone.
LEMMA TwoFactorPlain ==
  ASSUME TwoFactorInv, NEW p \in Procs, Continues(p),
         UNCHANGED <<clock, drawn, accepted, again>>,
         factor' \in TwoFactorRow \cup {None},
         code' \in [Codes -> {"fresh", "unused", "used", "gone"}],
         UNCHANGED challenge,
         factor' = None <=> factor = None,
         factor' # None => factor'.pending = factor.pending /\ factor'.secret = factor.secret
                           /\ factor'.enabled = factor.enabled /\ factor'.last = factor.last,
         \A k \in Codes : code[k] \in {"used", "gone"} => code'[k] \in {"used", "gone"},
         factor' = None => \A k \in Codes : code'[k] = code[k]
  PROVE  TwoFactorInv'
<1>0. FactorRowsOK /\ SecretsAreNew /\ TwoFactorTypeOK
  BY DEF TwoFactorInv, FactorRowsOK
<1>1. challenge \in [Challenges -> ChallengeRow \cup {None}]
  BY <1>0 DEF TwoFactorTypeOK
<1>2. FactorRowsOK'
  BY <1>1, FactorFields, FactorRowsKept
<1>3. SecretsAreNew'
  BY SecretsStayNew
<1>4. AcceptedIsKept'
  <2>1. factor = None => accepted = {}
    BY <1>0 DEF FactorRowsOK
  <2> QED
    BY <2>1, AcceptedStays
<1>5. GuessesCounted'
  <2>1. \A c \in Challenges : challenge[c] # None => challenge[c].failed \in Nat
    BY <1>0 DEF TwoFactorTypeOK, ChallengeRow
  <2>2. \A c \in Challenges : Guessing(c)' \subseteq Guessing(c)
    BY <1>0, ContinuesKeeps
  <2> QED
    BY <1>2, <2>1, <2>2, GuessesStayCounted DEF FactorRowsOK
<1> QED
  BY <1>2, <1>3, <1>4, <1>5 DEF TwoFactorInv

LEMMA KeptByStart ==
  ASSUME TwoFactorInv, NEW p \in Procs, NEW r \in TwoFactorRequest, Start(p, r),
         r.op \notin {"enroll", "login"}, factor # None,
         r.at \in {"enable", "success"} => r.secret = factor.secret /\ factor.secret \in drawn,
         UNCHANGED <<twoFactorVars, clock>>
  PROVE  TwoFactorInv'
<1>1. Continues(p)
  BY DEF Continues, Start
<1> QED
  BY <1>1, OnlyContinues

LEMMA KeptByStartEnrollment ==
  ASSUME TwoFactorInv, NEW p \in Procs, StartEnrollment(p)
  PROVE  TwoFactorInv'
<1>0. FactorRowsOK /\ SecretsAreNew /\ TwoFactorTypeOK /\ AcceptedIsKept /\ GuessesCounted
  BY DEF TwoFactorInv, FactorRowsOK
<1>1. PICK s \in Secrets \ drawn :
        drawn' = drawn \cup {s} /\ Start(p, [op |-> "enroll", at |-> "update", secret |-> s])
  BY DEF StartEnrollment
<1>2. UNCHANGED <<factor, challenge, code, accepted, again, clock>>
  BY DEF StartEnrollment
<1> DEFINE r == [op |-> "enroll", at |-> "update", secret |-> s]
<1>3. r \in TwoFactorRequest /\ r.op = "enroll" /\ r.secret = s
  BY DEF TwoFactorRequest
<1>4. req[p] = None /\ req' = [req EXCEPT ![p] = r]
  BY <1>1 DEF Start
<1> HIDE DEF r
<1>5. /\ req' \in [Procs -> TwoFactorRequest \cup {None}]
      /\ req'[p] = r /\ \A q \in Procs \ {p} : req'[q] = req[q]
  BY <1>0, <1>3, <1>4 DEF FactorRowsOK
<1>6. \A c : Guessing(c)' = Guessing(c)
  BY <1>3, <1>4, <1>5 DEF Guessing, Running
<1>7. TwoFactorTypeOK'
  BY <1>0, <1>1, <1>2 DEF TwoFactorTypeOK
<1>8. FactorRowsOK'
  BY <1>0, <1>1, <1>2, <1>3, <1>5, <1>7 DEF FactorRowsOK, Running
<1>9. SecretsAreNew'
  <2>1. \A q \in Procs : req'[q] # None /\ HoldsSecret(req'[q]) => req'[q].secret \in drawn'
    BY <1>0, <1>1, <1>3, <1>5 DEF SecretsAreNew
  <2>2. \A x \in accepted : x[1] = "step" => x[2] \in drawn
    BY <1>0 DEF AcceptedIsKept, StepIsKept, CodeIsKept, ChallengeIsKept
  <2>3. factor # None => factor.secret # s
    BY <1>1, FactorFields, TwoFactorAssumption
  <2>4. \A q \in Procs \ {p} : req[q] # None /\ HoldsSecret(req[q]) => req[q].secret # s
    BY <1>0, <1>1 DEF SecretsAreNew
  <2>5. ASSUME NEW q \in Procs, req'[q] # None, req'[q].op = "enroll"
        PROVE  /\ factor' # None => factor'.secret # req'[q].secret
               /\ \A x \in accepted' : x[1] = "step" => x[2] # req'[q].secret
               /\ \A t \in Procs \ {q} :
                    req'[t] # None /\ HoldsSecret(req'[t]) => req'[t].secret # req'[q].secret
    <3>1. CASE q = p
      <4>1. req'[q].secret = s
        BY <1>3, <1>5, <3>1
      <4>2. \A x \in accepted' : x[1] = "step" => x[2] # s
        BY <1>1, <1>2, <2>2
      <4>3. \A t \in Procs \ {q} : req'[t] # None /\ HoldsSecret(req'[t]) => req'[t].secret # s
        BY <1>5, <2>4, <3>1
      <4> QED
        BY <1>2, <2>3, <4>1, <4>2, <4>3
    <3>2. CASE q # p
      <4>1. req'[q] = req[q] /\ Running(q, "enroll") /\ HoldsSecret(req[q])
        BY <1>5, <2>5, <3>2 DEF Running, HoldsSecret
      <4>2. /\ factor # None => factor.secret # req[q].secret
            /\ \A x \in accepted : x[1] = "step" => x[2] # req[q].secret
            /\ \A t \in Procs \ {q} :
                 req[t] # None /\ HoldsSecret(req[t]) => req[t].secret # req[q].secret
        BY <1>0, <4>1 DEF SecretsAreNew
      <4>3. req'[q].secret = req[q].secret /\ req[q].secret # s
        BY <2>4, <3>2, <4>1, <2>5
      <4>4. \A t \in Procs \ {q} :
              req'[t] # None /\ HoldsSecret(req'[t]) => req'[t].secret # req[q].secret
        <5> SUFFICES ASSUME NEW t \in Procs \ {q}, req'[t] # None, HoldsSecret(req'[t])
                     PROVE  req'[t].secret # req[q].secret
          OBVIOUS
        <5>1. CASE t = p
          BY <1>3, <1>5, <4>3, <5>1
        <5>2. CASE t # p
          BY <1>5, <4>2, <5>2
        <5> QED
          BY <5>1, <5>2
      <4> QED
        BY <1>2, <4>2, <4>3, <4>4
    <3> QED
      BY <3>1, <3>2
  <2> QED
    BY <2>1, <2>5 DEF SecretsAreNew, Running
<1>10. AcceptedIsKept'
  BY <1>1, <1>2, AcceptedStays
<1>11. GuessesCounted'
  BY <1>0, <1>2, <1>6 DEF GuessesCounted
<1> QED
  BY <1>8, <1>9, <1>10, <1>11 DEF TwoFactorInv

\* The row takes the secret over from the enrolment, and nothing was accepted for it.
LEMMA SecretMoves ==
  ASSUME TwoFactorInv, NEW p \in Procs, Running(p, "enroll"), Continues(p),
         UNCHANGED <<clock, drawn, accepted, again, challenge, code>>,
         factor' \in TwoFactorRow, factor'.secret = req[p].secret,
         factor'.enabled = FALSE, Done(p)
  PROVE  TwoFactorInv'
<1>0. FactorRowsOK /\ SecretsAreNew /\ TwoFactorTypeOK /\ AcceptedIsKept
  BY DEF TwoFactorInv, FactorRowsOK
<1>1. factor' # None
  BY TwoFactorAssumption
<1>2. req[p].secret \in drawn
  BY <1>0 DEF SecretsAreNew, HoldsSecret, Running
<1>3. FactorRowsOK'
  BY <1>0, <1>1, <1>2, FactorRowsKept DEF TwoFactorTypeOK
<1>4. req'[p] = None /\ \A q \in Procs \ {p} : req'[q] = req[q]
  BY <1>0 DEF Done, FactorRowsOK
<1>5. \A x \in accepted : x[1] = "step" => x[2] # factor'.secret
  BY <1>0 DEF SecretsAreNew
<1>6. SecretsAreNew'
  <2>1. \A q \in Procs : req'[q] # None /\ HoldsSecret(req'[q]) => req'[q].secret \in drawn
    BY <1>0, <1>4 DEF SecretsAreNew
  <2>2. ASSUME NEW q \in Procs, req'[q] # None, req'[q].op = "enroll"
        PROVE  /\ factor'.secret # req'[q].secret
               /\ \A x \in accepted : x[1] = "step" => x[2] # req'[q].secret
               /\ \A t \in Procs \ {q} :
                    req'[t] # None /\ HoldsSecret(req'[t]) => req'[t].secret # req'[q].secret
    <3>1. q # p /\ req'[q] = req[q] /\ Running(q, "enroll")
      BY <1>4, <2>2 DEF Running
    <3>2. /\ \A x \in accepted : x[1] = "step" => x[2] # req[q].secret
          /\ \A t \in Procs \ {q} :
               req[t] # None /\ HoldsSecret(req[t]) => req[t].secret # req[q].secret
      BY <1>0, <3>1 DEF SecretsAreNew
    <3>3. req[p].secret # req[q].secret
      BY <3>1, <3>2 DEF HoldsSecret, Running
    <3> QED
      BY <1>4, <3>1, <3>2, <3>3
  <2> QED
    BY <2>1, <2>2 DEF SecretsAreNew, Running
<1>7. AcceptedIsKept'
  BY <1>5, AcceptedStays
<1>8. GuessesCounted'
  <2>1. \A c \in Challenges : challenge[c] # None => challenge[c].failed \in Nat
    BY <1>0 DEF TwoFactorTypeOK, ChallengeRow
  <2>2. \A c \in Challenges : Guessing(c)' \subseteq Guessing(c)
    BY <1>0, <1>1, ContinuesKeeps
  <2> QED
    BY <1>3, <2>1, <2>2, GuessesStayCounted DEF FactorRowsOK
<1> QED
  BY <1>3, <1>6, <1>7, <1>8 DEF TwoFactorInv

LEMMA KeptByCreatePendingUpdate ==
  ASSUME TwoFactorInv, NEW p \in Procs, CreatePendingUpdate(p)
  PROVE  TwoFactorInv'
<1>0. FactorRowsOK /\ SecretsAreNew
  BY DEF TwoFactorInv
<1>1. req[p] \in TwoFactorRequest /\ req[p] # None /\ req[p].at = "update"
  BY <1>0 DEF CreatePendingUpdate, At, FactorRowsOK
<1>2. req[p].op = "enroll" /\ req[p].secret \in Secrets
  BY <1>1, TwoFactorRequestFields
<1>3. CASE factor # None /\ ~factor.enabled
  <2>1. factor' = [factor EXCEPT !.secret = req[p].secret, !.pending = TRUE,
                                 !.failed = 0, !.locked = 0]
    BY <1>3 DEF CreatePendingUpdate
  <2>2. factor' \in TwoFactorRow /\ factor'.secret = req[p].secret /\ factor'.enabled = FALSE
    BY <1>2, <1>3, <2>1, FactorFields DEF TwoFactorRow
  <2>3. Done(p) /\ Continues(p)
    BY <1>3, TwoFactorDone DEF CreatePendingUpdate
  <2> QED
    BY <1>1, <1>2, <2>2, <2>3, SecretMoves DEF CreatePendingUpdate, Running
<1>4. CASE ~(factor # None /\ ~factor.enabled)
  <2>1. UNCHANGED <<twoFactorVars, clock>>
    BY <1>4 DEF CreatePendingUpdate, twoFactorVars
  <2>2. Continues(p)
    BY <1>0, <1>1, TwoFactorGoto, TwoFactorDone DEF CreatePendingUpdate, Follows
  <2> QED
    BY <2>1, <2>2, OnlyContinues
<1> QED
  BY <1>3, <1>4

LEMMA KeptByCreatePendingInsert ==
  ASSUME TwoFactorInv, NEW p \in Procs, CreatePendingInsert(p)
  PROVE  TwoFactorInv'
<1>0. FactorRowsOK /\ SecretsAreNew
  BY DEF TwoFactorInv
<1>1. req[p] \in TwoFactorRequest /\ req[p] # None /\ req[p].at = "insert"
  BY <1>0 DEF CreatePendingInsert, At, FactorRowsOK
<1>2. req[p].op = "enroll" /\ req[p].secret \in Secrets
  BY <1>1, TwoFactorRequestFields
<1>3. Done(p) /\ Continues(p)
  BY TwoFactorDone DEF CreatePendingInsert
<1>4. CASE factor = None
  <2>1. factor' = [secret |-> req[p].secret, enabled |-> FALSE, pending |-> TRUE,
                   last |-> 0, failed |-> 0, locked |-> 0]
    BY <1>4 DEF CreatePendingInsert
  <2>2. factor' \in TwoFactorRow /\ factor'.secret = req[p].secret /\ factor'.enabled = FALSE
    BY <1>2, <2>1 DEF TwoFactorRow
  <2> QED
    BY <1>1, <1>2, <1>3, <2>2, SecretMoves DEF CreatePendingInsert, Running
<1>5. CASE factor # None
  BY <1>3, <1>5, OnlyContinues DEF CreatePendingInsert, twoFactorVars
<1> QED
  BY <1>4, <1>5

\* What holds when a step accepts one thing.
LEMMA AcceptedGrows ==
  ASSUME TwoFactorInv, drawn' = drawn, NEW x,
         accepted' = accepted \cup {x},
         again' = again \/ again' = again \cup ({x} \cap accepted),
         StepIsKept(x)' \/ CodeIsKept(x)' \/ ChallengeIsKept(x)',
         x \in accepted => again' = again \/ (x[1] = "step" /\ x[2] # factor.secret),
         factor'.secret = factor.secret,
         \/ factor'.enabled = factor.enabled /\ factor'.last = factor.last
         \/ ~factor.enabled
         \/ factor'.enabled /\ factor'.last \in Nat /\ factor.last \in Nat
            /\ factor.last <= factor'.last,
         \A k \in Codes : code[k] \in {"used", "gone"} => code'[k] \in {"used", "gone"},
         \A c \in Challenges : challenge[c] # None /\ challenge[c].consumed =>
           challenge'[c] # None /\ challenge'[c].consumed
  PROVE  AcceptedIsKept'
<1>0. AcceptedIsKept
  BY DEF TwoFactorInv
<1>1. ASSUME NEW y \in accepted
      PROVE  (StepIsKept(y) \/ CodeIsKept(y) \/ ChallengeIsKept(y))'
  <2>1. CASE StepIsKept(y)
    <3>1. y[2] = factor'.secret => factor'.enabled /\ y[3] <= factor'.last
      BY <2>1 DEF StepIsKept
    <3> QED
      BY <2>1, <3>1 DEF StepIsKept
  <2>2. CASE CodeIsKept(y)
    BY <2>2 DEF CodeIsKept
  <2>3. CASE ChallengeIsKept(y)
    BY <2>3 DEF ChallengeIsKept
  <2> QED
    BY <1>0, <1>1, <2>1, <2>2, <2>3 DEF AcceptedIsKept
<1>2. NothingAcceptedTwice'
  <2>1. \A y \in again : y[1] = "step" /\ y[2] # factor'.secret
    BY <1>0 DEF AcceptedIsKept, NothingAcceptedTwice
  <2>2. \A y \in again' : y \in again \/ (y = x /\ x \in accepted /\ again' # again)
    OBVIOUS
  <2> QED
    BY <2>1, <2>2 DEF NothingAcceptedTwice
<1>3. again' \subseteq accepted'
  BY <1>0 DEF AcceptedIsKept
<1> QED
  BY <1>1, <1>2, <1>3 DEF AcceptedIsKept

LEMMA GuessesUntouched ==
  ASSUME TwoFactorInv, NEW p \in Procs, Continues(p), FactorRowsOK',
         factor # None => factor' # None,
         \A c \in Challenges :
           /\ challenge[c] # None => challenge'[c] # None
           /\ challenge'[c] # None =>
                challenge[c] # None /\ challenge'[c].failed = challenge[c].failed
  PROVE  GuessesCounted'
<1>0. FactorRowsOK /\ SecretsAreNew
  BY DEF TwoFactorInv
<1>1. \A c \in Challenges : challenge[c] # None => challenge[c].failed \in Nat
  BY <1>0 DEF FactorRowsOK, TwoFactorTypeOK, ChallengeRow
<1>2. \A c \in Challenges : Guessing(c)' \subseteq Guessing(c)
  BY <1>0, ContinuesKeeps
<1> QED
  BY <1>1, <1>2, GuessesStayCounted DEF FactorRowsOK

LEMMA KeptByEnable ==
  ASSUME TwoFactorInv, NEW p \in Procs, EnableWithRecoveryCodes(p)
  PROVE  TwoFactorInv'
<1>0. FactorRowsOK /\ SecretsAreNew /\ TwoFactorTypeOK
  BY DEF TwoFactorInv, FactorRowsOK
<1>1. req[p] \in TwoFactorRequest /\ req[p] # None /\ req[p].at = "enable"
  BY <1>0 DEF EnableWithRecoveryCodes, At, FactorRowsOK
<1>2. req[p].op # "enroll" /\ req[p].secret \in drawn /\ req[p].now \in Nat /\ factor # None
  <2>1. req[p].op = "verifyEnrollment" /\ req[p].now \in Nat
    BY <1>1, TwoFactorRequestFields
  <2>2. req[p].secret \in drawn
    BY <1>0, <1>1 DEF SecretsAreNew, HoldsSecret
  <2>3. factor # None
    BY <1>0, <1>1, <2>1 DEF FactorRowsOK
  <2> QED
    BY <2>1, <2>2, <2>3
<1>3. Continues(p) /\ UNCHANGED <<challenge, drawn, again, clock>>
  BY TwoFactorDone DEF EnableWithRecoveryCodes
<1>4. CASE ~factor.enabled /\ factor.pending
             /\ factor' = [factor EXCEPT !.enabled = TRUE, !.last = EnrollmentStep(req[p].now),
                                         !.failed = 0, !.locked = 0]
             /\ accepted' = accepted \cup {<<"step", req[p].secret, StepOf(req[p].now)>>}
             /\ \E k \in Codes : code[k] = "fresh" /\ FreshCodes(k)
  <2>0. PICK x : x = <<"step", req[p].secret, StepOf(req[p].now)>>
    OBVIOUS
  <2>1. x[1] = "step" /\ x[2] = req[p].secret /\ x[3] = StepOf(req[p].now)
    BY <2>0
  <2>2. /\ factor' \in TwoFactorRow /\ factor'.secret = factor.secret /\ factor'.enabled = TRUE
        /\ factor'.pending = factor.pending /\ factor'.last = StepOf(req[p].now)
        /\ StepOf(req[p].now) \in Nat
    <3>1. StepOf(req[p].now) \in Nat
      BY <1>2 DEF StepOf
    <3>2. factor' = [factor EXCEPT !.enabled = TRUE, !.last = StepOf(req[p].now),
                                   !.failed = 0, !.locked = 0]
      BY <1>4 DEF EnrollmentStep
    <3> QED
      BY <1>2, <3>1, <3>2, FactorFields DEF TwoFactorRow
  <2>3. accepted' = accepted \cup {x}
    BY <1>4, <2>0
  <2>4. /\ code' \in [Codes -> {"fresh", "unused", "used", "gone"}]
        /\ \A k \in Codes : code[k] \in {"used", "gone"} => code'[k] \in {"used", "gone"}
    BY <1>0, <1>4 DEF FreshCodes, TwoFactorTypeOK
  <2>5. factor' # None
    BY <2>2, TwoFactorAssumption
  <2>6. FactorRowsOK'
    BY <1>0, <1>2, <1>3, <1>4, <2>2, <2>4, <2>5, FactorFields, FactorRowsKept DEF TwoFactorTypeOK
  <2>7. SecretsAreNew'
    BY <1>1, <1>2, <1>3, <2>1, <2>2, <2>3, <2>5, SecretsStayNew
  <2>8. StepIsKept(x)'
    BY <1>2, <1>3, <2>1, <2>2 DEF StepIsKept
  <2>9. AcceptedIsKept'
    BY <1>3, <1>4, <2>2, <2>3, <2>4, <2>8, AcceptedGrows
  <2>10. GuessesCounted'
    BY <1>3, <2>5, <2>6, GuessesUntouched
  <2> QED
    BY <2>6, <2>7, <2>9, <2>10 DEF TwoFactorInv
<1>5. CASE UNCHANGED <<factor, accepted, code>>
  BY <1>3, <1>5, OnlyContinues DEF twoFactorVars
<1> QED
  BY <1>4, <1>5 DEF EnableWithRecoveryCodes

\* Whether it was accepted or not, the request of the code goes on.
LEMMA AfterTheCode ==
  ASSUME FactorRowsOK, NEW p \in Procs, req[p] # None, req[p].at \in {"success", "mark"},
         Verified(p) \/ NotVerified(p)
  PROVE  Continues(p)
<1>1. req[p] \in TwoFactorRequest
  BY DEF FactorRowsOK
<1>2. req[p].op \in {"login", "regenerate", "disable"}
      /\ (req[p].op = "regenerate" => req[p].at = "success")
  BY <1>1, TwoFactorRequestFields
<1>3. CASE Verified(p)
  BY <1>2, <1>3, TwoFactorGoto DEF Verified, Follows
<1>4. CASE NotVerified(p)
  BY <1>2, <1>4, TwoFactorGoto, TwoFactorDone DEF NotVerified, Follows
<1> QED
  BY <1>3, <1>4

LEMMA KeptByRecordSuccess ==
  ASSUME TwoFactorInv, NEW p \in Procs, RecordSuccess(p)
  PROVE  TwoFactorInv'
<1>0. FactorRowsOK /\ SecretsAreNew /\ TwoFactorTypeOK /\ AcceptedIsKept
  BY DEF TwoFactorInv, FactorRowsOK
<1>1. req[p] \in TwoFactorRequest /\ req[p] # None /\ req[p].at = "success"
  BY <1>0 DEF RecordSuccess, At, FactorRowsOK
<1>2. req[p].secret \in drawn /\ req[p].now \in Nat /\ factor # None
  <2>1. req[p].op # "enroll" /\ req[p].now \in Nat
    BY <1>1, TwoFactorRequestFields
  <2>2. req[p].secret \in drawn
    BY <1>0, <1>1 DEF SecretsAreNew, HoldsSecret
  <2>3. factor # None
    BY <1>0, <1>1, <2>1 DEF FactorRowsOK
  <2> QED
    BY <2>1, <2>2, <2>3
<1>3. Continues(p) /\ UNCHANGED <<challenge, code, drawn, clock>>
  BY <1>0, <1>1, AfterTheCode DEF RecordSuccess
<1> DEFINE now == StepOf(req[p].now)
<1>4. CASE /\ factor.enabled /\ StepIsNew(now)
           /\ factor' = [factor EXCEPT !.last = now, !.failed = 0, !.locked = 0]
           /\ Accept(<<"step", req[p].secret, now>>)
  <2>a. PICK x : x = <<"step", req[p].secret, now>>
    OBVIOUS
  <2>b. PICK step : step = now
    OBVIOUS
  <2>1. x[1] = "step" /\ x[2] = req[p].secret /\ x[3] = step /\ step \in Nat
    BY <1>2, <2>a, <2>b DEF StepOf
  <2>2. accepted' = accepted \cup {x} /\ again' = again \cup ({x} \cap accepted)
    BY <1>4, <2>a DEF Accept
  <2>3. /\ factor' \in TwoFactorRow /\ factor'.secret = factor.secret
        /\ factor'.enabled = factor.enabled
        /\ factor'.pending = factor.pending /\ factor'.last = step
        /\ factor.last < step /\ factor.last \in Nat
    BY <1>2, <1>4, <2>b, <2>1, FactorFields DEF TwoFactorRow, StepIsNew
  <2>4. factor' # None
    BY <2>3, TwoFactorAssumption
  <2>5. FactorRowsOK'
    BY <1>0, <1>2, <1>3, <2>3, <2>4, FactorFields, FactorRowsKept DEF TwoFactorTypeOK
  <2>6. SecretsAreNew'
    BY <1>1, <1>2, <1>3, <2>1, <2>2, <2>3, <2>4, SecretsStayNew
  <2>7. StepIsKept(x)'
    BY <1>2, <1>3, <1>4, <2>1, <2>3 DEF StepIsKept
  <2>8. x \in accepted => x[2] # factor.secret
    <3> SUFFICES ASSUME x \in accepted, x[2] = factor.secret PROVE FALSE
      OBVIOUS
    <3>1. StepIsKept(x)
      BY <1>0, <2>1 DEF AcceptedIsKept, CodeIsKept, ChallengeIsKept
    <3> QED
      BY <2>1, <2>3, <3>1 DEF StepIsKept
  <2>9. factor'.enabled /\ factor'.last \in Nat /\ factor.last <= factor'.last
    BY <1>4, <2>1, <2>3
  <2>10. AcceptedIsKept'
    BY <1>3, <2>1, <2>2, <2>3, <2>7, <2>8, <2>9, AcceptedGrows
  <2>11. GuessesCounted'
    BY <1>3, <2>4, <2>5, GuessesUntouched
  <2> QED
    BY <2>5, <2>6, <2>10, <2>11 DEF TwoFactorInv
<1>5. CASE UNCHANGED <<factor, accepted, again>>
  BY <1>3, <1>5, OnlyContinues DEF twoFactorVars
<1> QED
  BY <1>4, <1>5 DEF RecordSuccess

LEMMA KeptByMarkUsed ==
  ASSUME TwoFactorInv, NEW p \in Procs, MarkUsed(p)
  PROVE  TwoFactorInv'
<1>0. FactorRowsOK /\ SecretsAreNew /\ TwoFactorTypeOK /\ AcceptedIsKept
  BY DEF TwoFactorInv, FactorRowsOK
<1>1. req[p] \in TwoFactorRequest /\ req[p] # None /\ req[p].at = "mark"
  BY <1>0 DEF MarkUsed, At, FactorRowsOK
<1>2. req[p].code \in Codes /\ factor # None
  BY <1>0, <1>1, TwoFactorRequestFields DEF FactorRowsOK
<1>3. Continues(p) /\ UNCHANGED <<factor, challenge, drawn, clock>>
  BY <1>0, <1>1, AfterTheCode DEF MarkUsed
<1>4. CASE /\ code[req[p].code] = "unused"
           /\ code' = [code EXCEPT ![req[p].code] = "used"]
           /\ Accept(<<"code", req[p].code>>)
  <2>0. PICK x : x = <<"code", req[p].code>>
    OBVIOUS
  <2>1. x[1] = "code" /\ x[2] = req[p].code
    BY <2>0
  <2>2. accepted' = accepted \cup {x} /\ again' = again \cup ({x} \cap accepted)
    BY <1>4, <2>0 DEF Accept
  <2>3. /\ code' \in [Codes -> {"fresh", "unused", "used", "gone"}]
        /\ code'[req[p].code] = "used"
        /\ \A k \in Codes : code[k] \in {"used", "gone"} => code'[k] \in {"used", "gone"}
    BY <1>0, <1>2, <1>4 DEF TwoFactorTypeOK
  <2>4. FactorRowsOK'
    BY <1>0, <1>2, <1>3, <2>3, FactorFields, FactorRowsKept DEF TwoFactorTypeOK
  <2>5. SecretsAreNew'
    BY <1>2, <1>3, <2>1, <2>2, SecretsStayNew
  <2>6. CodeIsKept(x)'
    BY <1>2, <2>1, <2>3 DEF CodeIsKept
  <2>7. x \notin accepted
    BY <1>0, <1>4, <2>1 DEF AcceptedIsKept, StepIsKept, CodeIsKept, ChallengeIsKept
  <2>8. AcceptedIsKept'
    BY <1>3, <2>1, <2>2, <2>3, <2>6, <2>7, AcceptedGrows
  <2>9. GuessesCounted'
    BY <1>3, <2>4, GuessesUntouched
  <2> QED
    BY <2>4, <2>5, <2>8, <2>9 DEF TwoFactorInv
<1>5. CASE UNCHANGED <<code, accepted, again>>
  BY <1>3, <1>5, OnlyContinues DEF twoFactorVars
<1> QED
  BY <1>4, <1>5 DEF MarkUsed

LEMMA KeptByConsume ==
  ASSUME TwoFactorInv, NEW p \in Procs, ConsumeChallenge(p)
  PROVE  TwoFactorInv'
<1>0. FactorRowsOK /\ SecretsAreNew /\ TwoFactorTypeOK /\ AcceptedIsKept
  BY DEF TwoFactorInv, FactorRowsOK
<1>1. req[p] \in TwoFactorRequest /\ req[p] # None /\ req[p].at = "consume"
  BY <1>0 DEF ConsumeChallenge, At, FactorRowsOK
<1>2. req[p].op = "login" /\ req[p].ch \in Challenges
  BY <1>1, TwoFactorRequestFields
<1>3. factor # None /\ challenge[req[p].ch] # None /\ challenge[req[p].ch] \in ChallengeRow
  BY <1>0, <1>1, <1>2 DEF FactorRowsOK, Running, TwoFactorTypeOK
<1>4. Continues(p) /\ UNCHANGED <<factor, code, drawn, clock>>
  BY TwoFactorDone DEF ConsumeChallenge
<1>5. CASE /\ Consumable(req[p].ch, req[p].now)
           /\ challenge' = [challenge EXCEPT ![req[p].ch].consumed = TRUE]
           /\ Accept(<<"challenge", req[p].ch>>)
  <2>0. PICK x : x = <<"challenge", req[p].ch>>
    OBVIOUS
  <2>1. x[1] = "challenge" /\ x[2] = req[p].ch
    BY <2>0
  <2>2. accepted' = accepted \cup {x} /\ again' = again \cup ({x} \cap accepted)
    BY <1>5, <2>0 DEF Accept
  <2>3. /\ challenge'[req[p].ch] = [challenge[req[p].ch] EXCEPT !.consumed = TRUE]
        /\ \A c \in Challenges \ {req[p].ch} : challenge'[c] = challenge[c]
    BY <1>0, <1>2, <1>5 DEF TwoFactorTypeOK
  <2>4. /\ challenge'[req[p].ch] \in ChallengeRow /\ challenge'[req[p].ch].consumed
        /\ challenge'[req[p].ch].failed = challenge[req[p].ch].failed
    BY <1>3, <2>3 DEF ChallengeRow
  <2>5. challenge'[req[p].ch] # None
    BY <2>4, TwoFactorAssumption
  <2>6. challenge' \in [Challenges -> ChallengeRow \cup {None}]
    BY <1>0, <1>2, <1>5, <2>3, <2>4 DEF TwoFactorTypeOK
  <2>7. FactorRowsOK'
    BY <1>0, <1>3, <1>4, <2>3, <2>5, <2>6, FactorFields, FactorRowsKept DEF TwoFactorTypeOK
  <2>8. SecretsAreNew'
    BY <1>3, <1>4, <2>1, <2>2, <2>3, <2>5, SecretsStayNew
  <2>9. ChallengeIsKept(x)'
    BY <1>2, <2>1, <2>4, <2>5 DEF ChallengeIsKept
  <2>10. x \notin accepted
    BY <1>0, <1>5, <2>1 DEF AcceptedIsKept, StepIsKept, CodeIsKept, ChallengeIsKept, Consumable
  <2>11. AcceptedIsKept'
    BY <1>4, <2>2, <2>3, <2>4, <2>5, <2>9, <2>10, AcceptedGrows
  <2>12. GuessesCounted'
    BY <1>3, <1>4, <2>3, <2>4, <2>5, <2>7, GuessesUntouched
  <2> QED
    BY <2>7, <2>8, <2>11, <2>12 DEF TwoFactorInv
<1>6. CASE UNCHANGED <<challenge, accepted, again>>
  BY <1>4, <1>6, OnlyContinues DEF twoFactorVars
<1> QED
  BY <1>5, <1>6 DEF ConsumeChallenge

\* A failure of a challenge is counted, and its request guesses no more.
LEMMA KeptByFailChallenge ==
  ASSUME TwoFactorInv, NEW p \in Procs, FailChallenge(p)
  PROVE  TwoFactorInv'
<1>0. FactorRowsOK /\ SecretsAreNew /\ TwoFactorTypeOK /\ GuessesCounted
  BY DEF TwoFactorInv, FactorRowsOK
<1>1. req[p] \in TwoFactorRequest /\ req[p] # None /\ req[p].at = "failChallenge"
  BY <1>0 DEF FailChallenge, At, FactorRowsOK
<1>2. req[p].op = "login" /\ req[p].ch \in Challenges /\ req[p].now \in Nat
  BY <1>1, TwoFactorRequestFields
<1>3. factor # None /\ challenge[req[p].ch] # None /\ challenge[req[p].ch] \in ChallengeRow
  BY <1>0, <1>1, <1>2 DEF FactorRowsOK, Running, TwoFactorTypeOK
<1>4. PICK r : r = Failure(req[p].now)
  OBVIOUS
<1>5. r \in TwoFactorRequest /\ r.op = "fail" /\ r.at = "failIncrement"
  BY <1>2, <1>4 DEF Failure, TwoFactorRequest
<1>6. req' = [req EXCEPT ![p] = r]
  BY <1>0, <1>4 DEF FailChallenge, FactorRowsOK
<1>7. Continues(p) /\ UNCHANGED <<factor, code, drawn, accepted, again, clock>>
  BY <1>3, <1>5, <1>6 DEF Continues, FailChallenge
<1>8. /\ challenge'[req[p].ch] \in ChallengeRow
      /\ challenge'[req[p].ch].consumed = challenge[req[p].ch].consumed
      /\ challenge'[req[p].ch].failed <= challenge[req[p].ch].failed + 1
      /\ challenge[req[p].ch].failed \in Nat /\ challenge'[req[p].ch].failed \in Nat
      /\ \A c \in Challenges \ {req[p].ch} : challenge'[c] = challenge[c]
      /\ challenge' \in [Challenges -> ChallengeRow \cup {None}]
  <2>1. PICK n \in Nat : n <= challenge[req[p].ch].failed + 1
                         /\ challenge' = [challenge EXCEPT ![req[p].ch].failed = n]
    <3>1. challenge[req[p].ch].failed \in Nat
      BY <1>3 DEF ChallengeRow
    <3>2. PICK n : n = IF challenge[req[p].ch].consumed THEN challenge[req[p].ch].failed
                       ELSE challenge[req[p].ch].failed + 1
      OBVIOUS
    <3>3. n \in Nat /\ n <= challenge[req[p].ch].failed + 1
      BY <3>1, <3>2
    <3>4. challenge' = [challenge EXCEPT ![req[p].ch].failed = n]
      BY <3>2 DEF FailChallenge
    <3> QED
      BY <3>3, <3>4
  <2>2. /\ challenge'[req[p].ch] = [challenge[req[p].ch] EXCEPT !.failed = n]
        /\ \A c \in Challenges \ {req[p].ch} : challenge'[c] = challenge[c]
    BY <1>0, <1>2, <2>1 DEF TwoFactorTypeOK
  <2>3. /\ challenge'[req[p].ch] \in ChallengeRow
        /\ challenge'[req[p].ch].consumed = challenge[req[p].ch].consumed
        /\ challenge'[req[p].ch].failed = n /\ challenge[req[p].ch].failed \in Nat
    BY <1>3, <2>2 DEF ChallengeRow
  <2>4. challenge' \in [Challenges -> ChallengeRow \cup {None}]
    BY <1>0, <1>2, <2>1, <2>2, <2>3 DEF TwoFactorTypeOK
  <2> QED
    BY <2>1, <2>2, <2>3, <2>4
<1>9. challenge'[req[p].ch] # None
  BY <1>8, TwoFactorAssumption
<1>10. FactorRowsOK'
  BY <1>0, <1>3, <1>7, <1>8, <1>9, FactorFields, FactorRowsKept DEF TwoFactorTypeOK
<1>11. SecretsAreNew'
  BY <1>3, <1>7, <1>8, <1>9, SecretsStayNew
<1>12. AcceptedIsKept'
  BY <1>7, <1>8, <1>9, AcceptedStays
<1>13. GuessesCounted'
  <2> SUFFICES ASSUME NEW c \in Challenges, challenge'[c] # None
               PROVE  challenge'[c].failed + Cardinality(Guessing(c)') + 1
                        <= ChallengeMaxAttempts + Cardinality(Procs)
    BY DEF GuessesCounted
  <2>1. Guessing(c)' \subseteq Guessing(c)
    BY <1>0, <1>7, <1>8, <1>9, ContinuesKeeps
  <2>2. IsFiniteSet(Guessing(c)') /\ Cardinality(Guessing(c)') \in Nat
        /\ Cardinality(Guessing(c)') <= Cardinality(Guessing(c))
    BY <2>1, GuessingFinite, FS_Subset, FS_CardinalityType
  <2>3. CASE c = req[p].ch
    <3>1. p \in Guessing(c) /\ p \notin Guessing(c)'
      BY <1>0, <1>1, <1>2, <1>5, <1>6, <2>3 DEF Guessing, Running, FactorRowsOK
    <3>2. Cardinality(Guessing(c) \ {p}) = Cardinality(Guessing(c)) - 1
          /\ IsFiniteSet(Guessing(c) \ {p})
      BY <3>1, GuessingFinite, FS_RemoveElement
    <3>3. Cardinality(Guessing(c)') <= Cardinality(Guessing(c) \ {p})
      BY <2>1, <3>1, <3>2, FS_Subset
    <3>4. challenge[c].failed + Cardinality(Guessing(c)) + 1
            <= ChallengeMaxAttempts + Cardinality(Procs)
      BY <1>0, <1>3, <2>3 DEF GuessesCounted
    <3> QED
      BY <1>8, <2>2, <2>3, <3>2, <3>3, <3>4, GuessingFinite, TwoFactorAssumption
  <2>4. CASE c # req[p].ch
    <3>1. challenge'[c] = challenge[c]
      BY <1>8, <2>4
    <3>2. challenge[c].failed + Cardinality(Guessing(c)) + 1
            <= ChallengeMaxAttempts + Cardinality(Procs)
      BY <1>0, <3>1 DEF GuessesCounted
    <3>3. challenge[c].failed \in Nat
      BY <1>0, <3>1 DEF TwoFactorTypeOK, ChallengeRow
    <3> QED
      BY <2>2, <3>1, <3>2, <3>3, GuessingFinite, TwoFactorAssumption
  <2> QED
    BY <2>3, <2>4
<1> QED
  BY <1>10, <1>11, <1>12, <1>13 DEF TwoFactorInv

LEMMA KeptByVerifyLoginChallenge ==
  ASSUME TwoFactorInv, NEW p \in Procs, NEW c \in Challenges, VerifyLoginChallenge(p, c)
  PROVE  TwoFactorInv'
<1>0. FactorRowsOK /\ SecretsAreNew /\ TwoFactorTypeOK /\ GuessesCounted
  BY DEF TwoFactorInv, FactorRowsOK
<1>1. PICK r : r = [op |-> "login", at |-> "factor", now |-> clock, ch |-> c]
  OBVIOUS
<1>2. r \in TwoFactorRequest /\ r.op = "login" /\ r.at = "factor" /\ r.ch = c
  BY <1>0, <1>1 DEF TwoFactorRequest, FactorRowsOK
<1>3. req[p] = None /\ req' = [req EXCEPT ![p] = r]
  BY <1>1 DEF VerifyLoginChallenge, Start
<1>4. UNCHANGED <<factor, challenge, code, drawn, accepted, again, clock>>
  BY DEF VerifyLoginChallenge, twoFactorVars
<1>5. challenge[c] # None /\ challenge[c].failed < ChallengeMaxAttempts
  BY DEF VerifyLoginChallenge, AttemptsLeft
<1>6. factor # None
  BY <1>0, <1>5 DEF FactorRowsOK
<1>7. /\ req' \in [Procs -> TwoFactorRequest \cup {None}]
      /\ req'[p] = r /\ \A q \in Procs \ {p} : req'[q] = req[q]
  BY <1>0, <1>2, <1>3 DEF FactorRowsOK
<1>8. TwoFactorTypeOK'
  BY <1>0, <1>4 DEF TwoFactorTypeOK
<1>9. FactorRowsOK'
  BY <1>0, <1>2, <1>4, <1>5, <1>6, <1>7, <1>8 DEF FactorRowsOK, Running
<1>10. SecretsAreNew'
  <2>1. \A q \in Procs : req'[q] # None /\ HoldsSecret(req'[q]) =>
          req[q] # None /\ HoldsSecret(req[q]) /\ req'[q] = req[q]
    BY <1>2, <1>7 DEF HoldsSecret
  <2>2. \A q \in Procs : req'[q] # None /\ req'[q].op = "enroll" =>
          req[q] # None /\ req[q].op = "enroll" /\ req'[q] = req[q]
    BY <1>2, <1>7
  <2> QED
    BY <1>0, <1>4, <2>1, <2>2 DEF SecretsAreNew, Running
<1>11. AcceptedIsKept'
  BY <1>4, AcceptedStays
<1>12. GuessesCounted'
  <2> SUFFICES ASSUME NEW d \in Challenges, challenge'[d] # None
               PROVE  challenge'[d].failed + Cardinality(Guessing(d)') + 1
                        <= ChallengeMaxAttempts + Cardinality(Procs)
    BY DEF GuessesCounted
  <2>1. challenge[d].failed \in Nat
    BY <1>0, <1>4 DEF TwoFactorTypeOK, ChallengeRow
  <2>2. Cardinality(Guessing(d)') \in Nat /\ Cardinality(Guessing(d)') <= Cardinality(Procs)
    BY ProcsAssumption, FS_Subset, FS_CardinalityType DEF Guessing
  <2>3. CASE d = c
    BY <1>4, <1>5, <2>1, <2>2, <2>3, GuessingFinite, TwoFactorAssumption
  <2>4. CASE d # c
    <3>1. Guessing(d)' = Guessing(d)
      BY <1>2, <1>3, <1>7, <2>4 DEF Guessing, Running
    <3> QED
      BY <1>0, <1>4, <3>1 DEF GuessesCounted
  <2> QED
    BY <2>3, <2>4
<1> QED
  BY <1>9, <1>10, <1>11, <1>12 DEF TwoFactorInv

LEMMA KeptByCreateLoginChallenge ==
  ASSUME TwoFactorInv, NEW c \in Challenges, CreateLoginChallenge(c)
  PROVE  TwoFactorInv'
<1>0. FactorRowsOK /\ SecretsAreNew /\ TwoFactorTypeOK /\ GuessesCounted
  BY DEF TwoFactorInv, FactorRowsOK
<1>1. UNCHANGED <<req, clock, factor, code, drawn, accepted, again>> /\ factor # None
  BY DEF CreateLoginChallenge, Enabled
<1>2. PICK row : row = [expires |-> clock + ChallengeTtl, consumed |-> FALSE, failed |-> 0]
  OBVIOUS
<1>3. row \in ChallengeRow /\ row.failed = 0
  BY <1>0, <1>2, TwoFactorAssumption DEF FactorRowsOK, ChallengeRow
<1>4. challenge[c] = None /\ challenge' = [challenge EXCEPT ![c] = row]
  BY <1>2 DEF CreateLoginChallenge
<1>5. /\ challenge' \in [Challenges -> ChallengeRow \cup {None}]
      /\ challenge'[c] = row /\ \A d \in Challenges \ {c} : challenge'[d] = challenge[d]
  BY <1>0, <1>3, <1>4 DEF TwoFactorTypeOK
<1>6. row # None
  BY <1>3, TwoFactorAssumption
<1>7. \A d \in Challenges : challenge[d] # None => challenge'[d] = challenge[d]
  BY <1>4, <1>5
<1>8. TwoFactorTypeOK'
  BY <1>0, <1>1, <1>5 DEF TwoFactorTypeOK
<1>9. \A p \in Procs : Running(p, "login") => challenge'[req[p].ch] # None
  <2> SUFFICES ASSUME NEW p \in Procs, Running(p, "login") PROVE challenge'[req[p].ch] # None
    OBVIOUS
  <2>1. req[p].ch \in Challenges /\ challenge[req[p].ch] # None
    BY <1>0, TwoFactorRequestFields DEF FactorRowsOK, Running
  <2> QED
    BY <1>7, <2>1
<1>10. FactorRowsOK'
  BY <1>0, <1>1, <1>8, <1>9 DEF FactorRowsOK, Running
<1>11. SecretsAreNew'
  BY <1>0, <1>1 DEF SecretsAreNew, Running
<1>12. AcceptedIsKept'
  BY <1>1, <1>7, AcceptedStays
<1>13. GuessesCounted'
  <2> SUFFICES ASSUME NEW d \in Challenges, challenge'[d] # None
               PROVE  challenge'[d].failed + Cardinality(Guessing(d)') + 1
                        <= ChallengeMaxAttempts + Cardinality(Procs)
    BY DEF GuessesCounted
  <2>1. Guessing(d)' = Guessing(d)
    BY <1>1 DEF Guessing, Running
  <2>2. CASE d = c
    BY <1>3, <1>5, <2>1, <2>2, GuessingFinite, TwoFactorAssumption
  <2>3. CASE d # c
    BY <1>0, <1>5, <2>1, <2>3 DEF GuessesCounted
  <2> QED
    BY <2>2, <2>3
<1> QED
  BY <1>10, <1>11, <1>12, <1>13 DEF TwoFactorInv

LEMMA KeptByFailIncrement ==
  ASSUME TwoFactorInv, NEW p \in Procs, FailIncrement(p)
  PROVE  TwoFactorInv'
<1>0. FactorRowsOK /\ TwoFactorTypeOK
  BY DEF TwoFactorInv, FactorRowsOK
<1>1. req[p] \in TwoFactorRequest /\ req[p] # None /\ req[p].at = "failIncrement"
  BY <1>0 DEF FailIncrement, At, FactorRowsOK
<1>2. factor # None
  BY <1>0, <1>1, TwoFactorRequestFields DEF FactorRowsOK
<1>3. UNCHANGED <<challenge, code, drawn, accepted, again, clock>>
  BY DEF FailIncrement
<1>4. CASE factor' = [factor EXCEPT !.failed = @ + 1] /\ Goto(p, "failLatest")
  <2>1. /\ factor' \in TwoFactorRow /\ factor'.secret = factor.secret
        /\ factor'.enabled = factor.enabled /\ factor'.pending = factor.pending
        /\ factor'.last = factor.last
    BY <1>2, <1>4, FactorFields DEF TwoFactorRow
  <2>2. factor' # None
    BY <2>1, TwoFactorAssumption
  <2>3. Continues(p)
    BY <1>0, <1>1, <1>4, TwoFactorGoto DEF Follows
  <2> QED
    BY <1>0, <1>2, <1>3, <2>1, <2>2, <2>3, TwoFactorPlain DEF TwoFactorTypeOK
<1>5. CASE Done(p) /\ UNCHANGED factor
  BY <1>3, <1>5, TwoFactorDone, OnlyContinues DEF twoFactorVars
<1> QED
  BY <1>4, <1>5 DEF FailIncrement

LEMMA KeptByFailLock ==
  ASSUME TwoFactorInv, NEW p \in Procs, FailLock(p)
  PROVE  TwoFactorInv'
<1>0. FactorRowsOK /\ TwoFactorTypeOK
  BY DEF TwoFactorInv, FactorRowsOK
<1>1. req[p] \in TwoFactorRequest /\ req[p] # None /\ req[p].at = "failLock"
  BY <1>0 DEF FailLock, At, FactorRowsOK
<1>2. factor # None /\ req[p].now \in Nat
  BY <1>0, <1>1, TwoFactorRequestFields DEF FactorRowsOK
<1>3. req[p].now + OtpLockDuration \in Nat
  BY <1>2, TwoFactorAssumption
<1>4. /\ factor' \in TwoFactorRow /\ factor'.secret = factor.secret
      /\ factor'.enabled = factor.enabled /\ factor'.pending = factor.pending
      /\ factor'.last = factor.last
  BY <1>2, <1>3, FactorFields DEF TwoFactorRow, FailLock
<1>5. factor' # None
  BY <1>4, TwoFactorAssumption
<1> QED
  BY <1>0, <1>2, <1>4, <1>5, TwoFactorDone, TwoFactorPlain DEF FailLock, TwoFactorTypeOK

LEMMA KeptByDisableWrite ==
  ASSUME TwoFactorInv, NEW p \in Procs, DisableWrite(p)
  PROVE  TwoFactorInv'
<1>0. FactorRowsOK /\ TwoFactorTypeOK
  BY DEF TwoFactorInv, FactorRowsOK
<1>1. req[p] \in TwoFactorRequest /\ req[p] # None /\ req[p].at = "disable"
  BY <1>0 DEF DisableWrite, At, FactorRowsOK
<1>2. factor # None
  BY <1>0, <1>1, TwoFactorRequestFields DEF FactorRowsOK
<1>3. /\ factor' \in TwoFactorRow /\ factor'.secret = None
      /\ factor'.enabled = FALSE /\ factor'.pending = FALSE
  BY <1>2, FactorFields DEF TwoFactorRow, DisableWrite
<1>4. factor' # None
  BY <1>3, TwoFactorAssumption
<1>5. Continues(p) /\ UNCHANGED <<challenge, code, drawn, accepted, again, clock>>
  BY <1>0, <1>1, TwoFactorGoto DEF Follows, DisableWrite
<1>6. FactorRowsOK'
  BY <1>0, <1>3, <1>4, <1>5, FactorRowsKept DEF TwoFactorTypeOK
<1>7. SecretsAreNew'
  BY <1>2, <1>3, <1>4, <1>5, SecretsStayNew
<1>8. AcceptedIsKept'
  BY <1>2, <1>3, <1>5, FactorFields, AcceptedStays
<1>9. GuessesCounted'
  BY <1>4, <1>5, <1>6, GuessesUntouched
<1> QED
  BY <1>6, <1>7, <1>8, <1>9 DEF TwoFactorInv

LEMMA KeptByCodes ==
  ASSUME TwoFactorInv, NEW p \in Procs, DeleteCodes(p) \/ CreateCodes(p)
  PROVE  TwoFactorInv'
<1>0. FactorRowsOK /\ TwoFactorTypeOK
  BY DEF TwoFactorInv, FactorRowsOK
<1>1. req[p] \in TwoFactorRequest /\ req[p] # None /\ req[p].at \in {"delete", "create"}
  BY <1>0 DEF DeleteCodes, CreateCodes, At, FactorRowsOK
<1>2. req[p].op \in {"regenerate", "disable"} /\ factor # None
  BY <1>0, <1>1, TwoFactorRequestFields DEF FactorRowsOK
<1>3. UNCHANGED <<factor, challenge, drawn, accepted, again, clock>>
  BY DEF DeleteCodes, CreateCodes
<1>4. /\ code' \in [Codes -> {"fresh", "unused", "used", "gone"}]
      /\ \A k \in Codes : code[k] \in {"used", "gone"} => code'[k] \in {"used", "gone"}
  BY <1>0 DEF DeleteCodes, CreateCodes, TwoFactorTypeOK
<1>5. Continues(p)
  <2>1. CASE DeleteCodes(p)
    BY <1>0, <1>1, <2>1, TwoFactorGoto, TwoFactorDone DEF DeleteCodes, Follows, At
  <2>2. CASE CreateCodes(p)
    BY <2>2, TwoFactorDone DEF CreateCodes
  <2> QED
    BY <2>1, <2>2
<1> QED
  BY <1>0, <1>2, <1>3, <1>4, <1>5, TwoFactorPlain DEF TwoFactorTypeOK

LEMMA KeptByReads ==
  ASSUME TwoFactorInv, NEW p \in Procs,
         \/ VerifyEnrollment(p) \/ CheckFactor(p) \/ FailLatest(p)
         \/ RegenerateRecoveryCodes(p) \/ DisableFactor(p) \/ TwoFactorAbandon(p)
  PROVE  TwoFactorInv'
<1>0. FactorRowsOK /\ TwoFactorTypeOK /\ clock \in Nat
  BY DEF TwoFactorInv, FactorRowsOK
<1>1. UNCHANGED <<twoFactorVars, clock>>
  BY DEF VerifyEnrollment, CheckFactor, FailLatest, RegenerateRecoveryCodes, DisableFactor,
         TwoFactorAbandon
<1>2. CASE VerifyEnrollment(p)
  <2>1. factor # None /\ factor.secret # None
    BY <1>2 DEF VerifyEnrollment
  <2>2. factor.secret \in drawn /\ factor.secret \in Secrets
    BY <2>1, FactorFields
  <2>3. PICK r : /\ Start(p, r)
                 /\ \/ r = [op |-> "verifyEnrollment", at |-> "enable", now |-> clock,
                            secret |-> factor.secret]
                    \/ r = Failure(clock)
    BY <1>2 DEF VerifyEnrollment
  <2>4. /\ r \in TwoFactorRequest /\ r.op \notin {"enroll", "login"}
        /\ r.at \in {"enable", "success"} => r.secret = factor.secret
    BY <1>0, <2>2, <2>3 DEF TwoFactorRequest, Failure
  <2> QED
    BY <1>1, <2>1, <2>2, <2>3, <2>4, KeptByStart
<1>3. CASE CheckFactor(p)
  <2>1. req[p] \in TwoFactorRequest /\ req[p] # None /\ req[p].at = "factor"
        /\ factor # None /\ factor.enabled
    BY <1>0, <1>3 DEF CheckFactor, At, FactorRowsOK, Enabled
  <2>2. req[p].op = "login" /\ req[p].ch \in Challenges /\ req[p].now \in Nat
        /\ factor.secret \in drawn /\ factor.secret \in Secrets
    BY <2>1, TwoFactorRequestFields, FactorFields
  <2>3. CASE Goto(p, "failChallenge")
    BY <1>0, <1>1, <2>1, <2>3, TwoFactorGoto, OnlyContinues DEF Follows
  <2>4. CASE \E k \in Codes : req' = [req EXCEPT ![p] = [op |-> "login", at |-> "mark",
                                        now |-> @.now, ch |-> @.ch, code |-> k]]
    <3>1. PICK k \in Codes : req' = [req EXCEPT ![p] = [op |-> "login", at |-> "mark",
                                        now |-> @.now, ch |-> @.ch, code |-> k]]
      BY <2>4
    <3>2. PICK r : r = [op |-> "login", at |-> "mark", now |-> req[p].now,
                        ch |-> req[p].ch, code |-> k]
      OBVIOUS
    <3>3. req' = [req EXCEPT ![p] = r]
      BY <1>0, <3>1, <3>2 DEF FactorRowsOK
    <3>4. /\ r \in TwoFactorRequest /\ r.op = "login" /\ r.at = "mark" /\ r.ch = req[p].ch
      BY <2>2, <3>2 DEF TwoFactorRequest
    <3>5. Continues(p)
      BY <2>1, <2>2, <3>2, <3>3, <3>4 DEF Continues, Running
    <3> QED
      BY <1>1, <3>5, OnlyContinues
  <2>5. CASE req' = [req EXCEPT ![p] = [op |-> "login", at |-> "success", now |-> @.now,
                                        ch |-> @.ch, secret |-> factor.secret]]
    <3>1. PICK r : /\ r = [op |-> "login", at |-> "success", now |-> req[p].now,
                           ch |-> req[p].ch, secret |-> factor.secret]
                   /\ req' = [req EXCEPT ![p] = r]
      BY <1>0, <2>5 DEF FactorRowsOK
    <3>2. /\ r \in TwoFactorRequest /\ r.op = "login" /\ r.ch = req[p].ch
          /\ r.secret = factor.secret
      BY <2>2, <3>1 DEF TwoFactorRequest
    <3>3. Continues(p)
      BY <2>1, <2>2, <3>1, <3>2 DEF Continues, Running
    <3> QED
      BY <1>1, <3>3, OnlyContinues
  <2> QED
    BY <1>3, <2>3, <2>4, <2>5 DEF CheckFactor
<1>4. CASE FailLatest(p)
  <2>1. req[p] # None /\ req[p].at = "failLatest"
    BY <1>4 DEF FailLatest, At
  <2>2. Continues(p)
    BY <1>0, <1>4, <2>1, TwoFactorGoto, TwoFactorDone DEF FailLatest, Follows
  <2> QED
    BY <1>1, <2>2, OnlyContinues
<1>5. CASE RegenerateRecoveryCodes(p)
  <2>1. factor # None /\ factor.secret \in drawn /\ factor.secret \in Secrets
    BY <1>5, FactorFields DEF RegenerateRecoveryCodes, Enabled
  <2>2. PICK r : Start(p, r) /\ r = [op |-> "regenerate", at |-> "success", now |-> clock,
                                     secret |-> factor.secret]
    BY <1>5 DEF RegenerateRecoveryCodes
  <2>3. r \in TwoFactorRequest /\ r.op \notin {"enroll", "login"} /\ r.secret = factor.secret
    BY <1>0, <2>1, <2>2 DEF TwoFactorRequest
  <2> QED
    BY <1>1, <2>1, <2>2, <2>3, KeptByStart
<1>6. CASE DisableFactor(p)
  <2>1. CASE Enabled /\ Start(p, [op |-> "disable", at |-> "success", now |-> clock,
                                  secret |-> factor.secret])
    <3>1. factor # None /\ factor.secret \in drawn /\ factor.secret \in Secrets
      BY <2>1, FactorFields DEF Enabled
    <3>2. PICK r : Start(p, r) /\ r = [op |-> "disable", at |-> "success", now |-> clock,
                                       secret |-> factor.secret]
      BY <2>1
    <3>3. r \in TwoFactorRequest /\ r.op \notin {"enroll", "login"} /\ r.secret = factor.secret
      BY <1>0, <3>1, <3>2 DEF TwoFactorRequest
    <3> QED
      BY <1>1, <3>1, <3>2, <3>3, KeptByStart
  <2>2. ASSUME NEW k \in Codes, code[k] = "unused",
               Start(p, [op |-> "disable", at |-> "mark", code |-> k])
        PROVE  TwoFactorInv'
    <3>1. factor # None
      BY <1>0, <2>2 DEF FactorRowsOK
    <3>2. PICK r : Start(p, r) /\ r = [op |-> "disable", at |-> "mark", code |-> k]
      BY <2>2
    <3>3. r \in TwoFactorRequest /\ r.op \notin {"enroll", "login"}
          /\ r.at \notin {"enable", "success"}
      BY <3>2 DEF TwoFactorRequest
    <3> QED
      BY <1>1, <3>1, <3>2, <3>3, KeptByStart
  <2> QED
    BY <1>6, <2>1, <2>2 DEF DisableFactor
<1>7. CASE TwoFactorAbandon(p)
  BY <1>1, <1>7, TwoFactorDone, OnlyContinues DEF TwoFactorAbandon
<1> QED
  BY <1>2, <1>3, <1>4, <1>5, <1>6, <1>7

LEMMA TwoFactorKeeps ==
  ASSUME TwoFactorInv, TwoFactorNext
  PROVE  TwoFactorInv'
<1>1. CASE Tick /\ UNCHANGED twoFactorVars
  <2>1. /\ clock' = clock + 1
        /\ UNCHANGED <<req, factor, challenge, code, drawn, accepted, again>>
    BY <1>1 DEF Tick, twoFactorVars
  <2>2. FactorRowsOK'
    BY <2>1 DEF TwoFactorInv, FactorRowsOK, TwoFactorTypeOK, Running
  <2>3. SecretsAreNew'
    BY <2>1 DEF TwoFactorInv, SecretsAreNew, Running
  <2>4. AcceptedIsKept'
    BY <2>1, AcceptedStays
  <2>5. \A c : Guessing(c)' = Guessing(c)
    BY <2>1 DEF Guessing, Running
  <2>6. GuessesCounted'
    BY <2>1, <2>5 DEF TwoFactorInv, GuessesCounted
  <2> QED
    BY <2>2, <2>3, <2>4, <2>6 DEF TwoFactorInv
<1> QED
  BY <1>1, KeptByStartEnrollment, KeptByCreatePendingUpdate, KeptByCreatePendingInsert,
     KeptByEnable, KeptByRecordSuccess, KeptByMarkUsed, KeptByConsume, KeptByFailChallenge,
     KeptByFailIncrement, KeptByFailLock, KeptByDisableWrite, KeptByCodes, KeptByReads,
     KeptByVerifyLoginChallenge, KeptByCreateLoginChallenge
     DEF TwoFactorNext

\* What recordSuccessfulVerification does to a login that was overtaken.
LEMMA OvertakenRefused ==
  ASSUME TwoFactorInv, TwoFactorNext, NEW p \in Procs,
         Running(p, "login"), At(p, "success"), factor # None,
         NEW t \in StepOf(req[p].now)..StepOf(clock), <<"step", factor.secret, t>> \in accepted
  PROVE  factor' = factor \/ req'[p] = req[p]
<1>0. FactorRowsOK /\ AcceptedIsKept
  BY DEF TwoFactorInv
<1>1. req[p] \in TwoFactorRequest /\ req[p] # None /\ req[p].at = "success"
  BY <1>0 DEF At, FactorRowsOK
<1>2. req[p].now \in Nat /\ clock \in Nat
  BY <1>0, <1>1, TwoFactorRequestFields DEF FactorRowsOK
<1>3. factor.enabled /\ t <= factor.last
  <2>1. PICK x : x = <<"step", factor.secret, t>>
    OBVIOUS
  <2>2. x[1] = "step" /\ x[2] = factor.secret /\ x[3] = t /\ x \in accepted
    BY <2>1
  <2> QED
    BY <1>0, <2>2 DEF AcceptedIsKept, StepIsKept, CodeIsKept, ChallengeIsKept
<1>4. ~StepIsNew(StepOf(req[p].now))
  BY <1>2, <1>3, FactorFields DEF StepIsNew, StepOf
<1>5. CASE factor' # factor
  <2>1. PICK q \in Procs :
          \/ CreatePendingUpdate(q) \/ CreatePendingInsert(q) \/ EnableWithRecoveryCodes(q)
          \/ RecordSuccess(q) \/ FailIncrement(q) \/ FailLock(q) \/ DisableWrite(q)
    BY <1>5 DEF TwoFactorNext, StartEnrollment, VerifyEnrollment, CheckFactor, MarkUsed,
       ConsumeChallenge, FailChallenge, FailLatest, RegenerateRecoveryCodes, DisableFactor,
       DeleteCodes, CreateCodes, TwoFactorAbandon, VerifyLoginChallenge,
       CreateLoginChallenge, twoFactorVars
  <2>2. q # p
    BY <1>1, <1>4, <1>5, <2>1
       DEF CreatePendingUpdate, CreatePendingInsert, EnableWithRecoveryCodes, RecordSuccess,
           FailIncrement, FailLock, DisableWrite, At
  <2>3. \E r : req' = [req EXCEPT ![q] = r]
    BY <1>0, <2>1
       DEF CreatePendingUpdate, CreatePendingInsert, EnableWithRecoveryCodes, RecordSuccess,
           FailIncrement, FailLock, DisableWrite, Goto, Done, Verified, NotVerified, FactorRowsOK
  <2> QED
    BY <1>0, <2>2, <2>3 DEF FactorRowsOK
<1> QED
  BY <1>5

-----------------------------------------------------------------------------
(***************************************************************************)
(* Roles and permissions.                                                  *)
(***************************************************************************)

AccessRequest ==
  [op : {"createRole", "activateRole", "deactivateRole", "deleteRole"}, at : {"read", "write"},
   role : Roles, code : {None}, user : {None}, protected : BOOLEAN]
    \cup [op : {"createPermission", "deletePermission"}, at : {"read", "write"},
          role : {None}, code : Permissions, user : {None}, protected : BOOLEAN]
    \cup [op : {"grantPermission", "revokePermission"}, at : {"read", "write"},
          role : Roles, code : Permissions, user : {None}, protected : BOOLEAN]
    \cup [op : {"assignRole", "removeRole"}, at : {"read", "write"},
          role : Roles, code : {None}, user : Users, protected : BOOLEAN]

AccessInv ==
  /\ req \in [Procs -> AccessRequest \cup {None}]
  /\ AccessControlTypeOK
  /\ NoDanglingAssignment

\* The fields of a request, by its operation.
LEMMA AccessRequestFields ==
  ASSUME NEW r \in AccessRequest
  PROVE  /\ r.op \in {"createRole", "activateRole", "deactivateRole", "deleteRole",
                      "grantPermission", "revokePermission", "assignRole", "removeRole"}
              => r.role \in Roles
         /\ r.op \in {"createPermission", "deletePermission", "grantPermission",
                      "revokePermission"} => r.code \in Permissions
         /\ r.op \in {"assignRole", "removeRole"} => r.user \in Users
         /\ [r EXCEPT !.at = "write"] \in AccessRequest
BY DEF AccessRequest

LEMMA AccessInitial ==
  ASSUME RequestsInit, AccessControlInit
  PROVE  AccessInv
BY AccessControlAssumption
   DEF RequestsInit, AccessControlInit, AccessInv, AccessControlTypeOK, NoDanglingAssignment

LEMMA AccessStarts ==
  ASSUME AccessInv, NEW p \in Procs, NEW u, NEW op, NEW r, NEW c, NEW of,
         Authorized(p, u, op, r, c, of),
         \A b \in BOOLEAN : [op |-> op, at |-> "read", role |-> r, code |-> c, user |-> of,
                             protected |-> b] \in AccessRequest
  PROVE  AccessInv'
<1> DEFINE new == [op |-> op, at |-> "read", role |-> r, code |-> c, user |-> of,
                   protected |-> "manage.protected" \in permissionCodes(u)]
<1>1. ("manage.protected" \in permissionCodes(u)) \in BOOLEAN
  OBVIOUS
<1>2. new \in AccessRequest
  BY <1>1
<1>3. req' = [req EXCEPT ![p] = new] /\ UNCHANGED accessVars
  BY DEF Authorized, Start
<1> HIDE DEF new
<1>4. req' \in [Procs -> AccessRequest \cup {None}]
  BY <1>2, <1>3 DEF AccessInv
<1> QED
  BY <1>3, <1>4 DEF AccessInv, AccessControlTypeOK, NoDanglingAssignment, accessVars

LEMMA AccessKeeps ==
  ASSUME AccessInv, AccessControlNext
  PROVE  AccessInv'
<1>0. /\ req \in [Procs -> AccessRequest \cup {None}]
      /\ role \in [Roles -> BOOLEAN \cup {None}]
      /\ permission \subseteq Permissions /\ grant \subseteq Roles \X Permissions
      /\ userRole \in [Users -> [Roles -> BOOLEAN \cup {None}]]
      /\ \A g \in grant : role[g[1]] # None /\ g[2] \in permission
      /\ \A u \in Users, r \in Roles : userRole[u][r] # None => role[r] # None
  BY DEF AccessInv, AccessControlTypeOK, NoDanglingAssignment
<1>1. ASSUME NEW p \in Procs, NEW u \in Users, NEW r \in Roles,
             \/ \E op \in {"createRole", "activateRole", "deactivateRole", "deleteRole"} :
                  Authorized(p, u, op, r, None, None)
             \/ \E c \in Permissions :
                  \/ \E op \in {"createPermission", "deletePermission"} :
                       Authorized(p, u, op, None, c, None)
                  \/ \E op \in {"grantPermission", "revokePermission"} :
                       Authorized(p, u, op, r, c, None)
             \/ \E of \in Users, op \in {"assignRole", "removeRole"} :
                  Authorized(p, u, op, r, None, of)
      PROVE  AccessInv'
  <2>1. \A op \in {"createRole", "activateRole", "deactivateRole", "deleteRole"}, b \in BOOLEAN :
          [op |-> op, at |-> "read", role |-> r, code |-> None, user |-> None,
           protected |-> b] \in AccessRequest
    BY DEF AccessRequest
  <2>2. \A c \in Permissions :
          \A op \in {"createPermission", "deletePermission"}, b \in BOOLEAN :
            [op |-> op, at |-> "read", role |-> None, code |-> c, user |-> None,
             protected |-> b] \in AccessRequest
    BY DEF AccessRequest
  <2>3. \A c \in Permissions :
          \A op \in {"grantPermission", "revokePermission"}, b \in BOOLEAN :
            [op |-> op, at |-> "read", role |-> r, code |-> c, user |-> None,
             protected |-> b] \in AccessRequest
    BY DEF AccessRequest
  <2>4. \A of \in Users, op \in {"assignRole", "removeRole"}, b \in BOOLEAN :
          [op |-> op, at |-> "read", role |-> r, code |-> None, user |-> of,
           protected |-> b] \in AccessRequest
    BY DEF AccessRequest
  <2> QED
    BY <1>1, <2>1, <2>2, <2>3, <2>4, AccessStarts
<1>2. ASSUME NEW p \in Procs, Goto(p, "write"), req[p] # None, UNCHANGED accessVars
      PROVE  AccessInv'
  <2>1. req[p] \in AccessRequest
    BY <1>0, <1>2
  <2>2. [req[p] EXCEPT !.at = "write"] \in AccessRequest
    BY <2>1, AccessRequestFields
  <2>3. req' = [req EXCEPT ![p] = [req[p] EXCEPT !.at = "write"]]
    BY <1>0, <1>2 DEF Goto
  <2>4. req' \in [Procs -> AccessRequest \cup {None}]
    BY <1>0, <2>2, <2>3
  <2> QED
    BY <1>2, <2>4 DEF AccessInv, AccessControlTypeOK, NoDanglingAssignment, accessVars
<1>3. ASSUME NEW p \in Procs, RoleRead(p) \/ PermissionRead(p) \/ UserRoleRead(p)
      PROVE  AccessInv'
  <2>1. Goto(p, "write") /\ req[p] # None /\ UNCHANGED accessVars
    BY <1>3 DEF RoleRead, PermissionRead, UserRoleRead, AccessRead
  <2> QED
    BY <1>2, <2>1
<1>4. ASSUME NEW p \in Procs, NEW op, AccessWrite(p, op)
      PROVE  /\ req' \in [Procs -> AccessRequest \cup {None}]
             /\ req[p] \in AccessRequest /\ req[p].op = op
  BY <1>0, <1>4 DEF AccessWrite, Running, Done
<1>5. ASSUME NEW p \in Procs, CreateRole(p) PROVE AccessInv'
  <2>1. /\ req' \in [Procs -> AccessRequest \cup {None}] /\ req[p].role \in Roles
        /\ role' = [role EXCEPT ![req[p].role] = TRUE]
        /\ UNCHANGED <<permission, grant, userRole>>
    BY <1>4, <1>5, AccessRequestFields DEF CreateRole
  <2>2. \A r \in Roles : role[r] # None => role'[r] # None
    BY <1>0, <2>1, AccessControlAssumption
  <2> QED
    BY <1>0, <2>1, <2>2 DEF AccessInv, AccessControlTypeOK, NoDanglingAssignment
<1>6. ASSUME NEW p \in Procs, UpdateRole(p) PROVE AccessInv'
  <2>1. /\ req' \in [Procs -> AccessRequest \cup {None}] /\ req[p].role \in Roles
        /\ role' = [role EXCEPT ![req[p].role] = (req[p].op = "activateRole")]
        /\ UNCHANGED <<permission, grant, userRole>>
    BY <1>4, <1>6, AccessRequestFields DEF UpdateRole
  <2>2. \A r \in Roles : role[r] # None => role'[r] # None
    BY <1>0, <2>1, AccessControlAssumption
  <2>3. role' \in [Roles -> BOOLEAN \cup {None}]
    BY <1>0, <2>1
  <2> QED
    BY <1>0, <2>1, <2>2, <2>3 DEF AccessInv, AccessControlTypeOK, NoDanglingAssignment
<1>7. ASSUME NEW p \in Procs, DeleteRole(p) PROVE AccessInv'
  <2>1. /\ req' \in [Procs -> AccessRequest \cup {None}] /\ req[p].role \in Roles
        /\ role' = [role EXCEPT ![req[p].role] = None]
        /\ UNCHANGED <<permission, grant, userRole>>
    BY <1>4, <1>7, AccessRequestFields DEF DeleteRole
  <2>2. /\ \A u \in Users : userRole[u][req[p].role] = None
        /\ \A c \in Permissions : <<req[p].role, c>> \notin grant
    BY <1>7 DEF DeleteRole, RoleReferenced
  <2>3. \A g \in grant : g[1] # req[p].role /\ g[1] \in Roles
    BY <1>0, <2>2
  <2> QED
    BY <1>0, <2>1, <2>2, <2>3 DEF AccessInv, AccessControlTypeOK, NoDanglingAssignment
<1>8. ASSUME NEW p \in Procs, CreatePermission(p) PROVE AccessInv'
  <2>1. /\ req' \in [Procs -> AccessRequest \cup {None}] /\ req[p].code \in Permissions
        /\ permission' = permission \cup {req[p].code}
        /\ UNCHANGED <<role, grant, userRole>>
    BY <1>4, <1>8, AccessRequestFields DEF CreatePermission
  <2> QED
    BY <1>0, <2>1 DEF AccessInv, AccessControlTypeOK, NoDanglingAssignment
<1>9. ASSUME NEW p \in Procs, DeletePermission(p) PROVE AccessInv'
  <2>1. /\ req' \in [Procs -> AccessRequest \cup {None}]
        /\ permission' = permission \ {req[p].code}
        /\ UNCHANGED <<role, grant, userRole>>
        /\ \A r \in Roles : <<r, req[p].code>> \notin grant
    BY <1>4, <1>9 DEF DeletePermission, PermissionReferenced
  <2>2. \A g \in grant : g[2] # req[p].code
    BY <1>0, <2>1
  <2> QED
    BY <1>0, <2>1, <2>2 DEF AccessInv, AccessControlTypeOK, NoDanglingAssignment
<1>10. ASSUME NEW p \in Procs, GrantPermission(p) PROVE AccessInv'
  <2>1. /\ req' \in [Procs -> AccessRequest \cup {None}]
        /\ req[p].role \in Roles /\ req[p].code \in Permissions
        /\ role[req[p].role] # None /\ req[p].code \in permission
        /\ grant' = grant \cup {<<req[p].role, req[p].code>>}
        /\ UNCHANGED <<role, permission, userRole>>
    BY <1>4, <1>10, AccessRequestFields DEF GrantPermission
  <2>2. grant' \subseteq Roles \X Permissions
    BY <1>0, <2>1
  <2>3. \A g \in grant' : role[g[1]] # None /\ g[2] \in permission
    BY <1>0, <2>1
  <2> QED
    BY <1>0, <2>1, <2>2, <2>3 DEF AccessInv, AccessControlTypeOK, NoDanglingAssignment
<1>11. ASSUME NEW p \in Procs, RevokePermission(p) PROVE AccessInv'
  <2>1. /\ req' \in [Procs -> AccessRequest \cup {None}]
        /\ grant' \subseteq grant
        /\ UNCHANGED <<role, permission, userRole>>
    BY <1>4, <1>11 DEF RevokePermission
  <2> QED
    BY <1>0, <2>1 DEF AccessInv, AccessControlTypeOK, NoDanglingAssignment
<1>12. ASSUME NEW p \in Procs, AssignRole(p) PROVE AccessInv'
  <2>1. /\ req' \in [Procs -> AccessRequest \cup {None}]
        /\ req[p].role \in Roles /\ req[p].user \in Users /\ role[req[p].role] # None
        /\ userRole' = [userRole EXCEPT ![req[p].user][req[p].role] = TRUE]
        /\ UNCHANGED <<role, permission, grant>>
    BY <1>4, <1>12, AccessRequestFields DEF AssignRole
  <2> QED
    BY <1>0, <2>1 DEF AccessInv, AccessControlTypeOK, NoDanglingAssignment
<1>13. ASSUME NEW p \in Procs, RemoveRole(p) PROVE AccessInv'
  <2>1. /\ req' \in [Procs -> AccessRequest \cup {None}]
        /\ req[p].role \in Roles /\ req[p].user \in Users
        /\ userRole[req[p].user][req[p].role] = TRUE
        /\ userRole' = [userRole EXCEPT ![req[p].user][req[p].role] = FALSE]
        /\ UNCHANGED <<role, permission, grant>>
    BY <1>4, <1>13, AccessRequestFields DEF RemoveRole
  <2>2. role[req[p].role] # None
    BY <1>0, <2>1, AccessControlAssumption
  <2> QED
    BY <1>0, <2>1, <2>2 DEF AccessInv, AccessControlTypeOK, NoDanglingAssignment
<1>14. ASSUME NEW p \in Procs, AccessAbandon(p) PROVE AccessInv'
  BY <1>0, <1>14
     DEF AccessAbandon, Done, AccessInv, AccessControlTypeOK, NoDanglingAssignment, accessVars
<1> QED
  BY <1>1, <1>3, <1>5, <1>6, <1>7, <1>8, <1>9, <1>10, <1>11, <1>12, <1>13, <1>14
     DEF AccessControlNext

-----------------------------------------------------------------------------
(***************************************************************************)
(* The composition.                                                        *)
(***************************************************************************)

\* A component that the behaviour is not about stays as it began.
PlatformInv ==
  /\ IF focus = "accounts" THEN AccountInv ELSE AccountsInit
  /\ IF focus = "two factor" THEN TwoFactorInv ELSE TwoFactorInit
  /\ IF focus = "access control" THEN AccessInv ELSE AccessControlInit

LEMMA PlatformInitial ==
  ASSUME MCInit
  PROVE  PlatformInv
BY AccountInitial, TwoFactorInitial, AccessInitial DEF MCInit, PlatformInv

\* Which component takes a step.
LEMMA OneComponentSteps ==
  ASSUME MCNext
  PROVE  /\ UNCHANGED focus
         /\ IF focus = "accounts" THEN AccountsNext ELSE UNCHANGED accountVars
         /\ IF focus = "two factor" THEN TwoFactorNext ELSE UNCHANGED twoFactorVars
         /\ IF focus = "access control" THEN AccessControlNext ELSE UNCHANGED accessVars
<1> DEFINE Outside == focus \notin {"accounts", "two factor", "access control"}
<1>1. CASE Outside /\ UNCHANGED <<focus, identityVars>>
  BY <1>1 DEF identityVars
<1>2. \/ /\ \/ /\ focus = "accounts" /\ AccountsNext
              /\ UNCHANGED <<twoFactorVars, accessVars>>
           \/ /\ focus = "two factor" /\ TwoFactorNext
              /\ UNCHANGED <<accountVars, accessVars>>
           \/ /\ focus = "access control" /\ AccessControlNext
              /\ UNCHANGED <<accountVars, twoFactorVars>>
           \/ /\ focus = "http" /\ UNCHANGED <<accountVars, twoFactorVars, accessVars>>
         /\ UNCHANGED focus
      \/ Outside /\ UNCHANGED <<focus, identityVars>>
  BY DEF MCNext, RoadmapControlNext, WorkflowsNext
<1> QED
  BY <1>1, <1>2

LEMMA PlatformKeeps ==
  ASSUME PlatformInv, [MCNext]_vars
  PROVE  PlatformInv'
<1>1. CASE MCNext
  <2>1. IF focus' = "accounts" THEN AccountInv' ELSE AccountsInit'
    <3>1. CASE focus = "accounts"
      BY <1>1, <3>1, OneComponentSteps, AccountKeeps DEF PlatformInv
    <3>2. CASE focus # "accounts"
      BY <1>1, <3>2, OneComponentSteps DEF PlatformInv, AccountsInit, accountVars
    <3> QED
      BY <3>1, <3>2
  <2>2. IF focus' = "two factor" THEN TwoFactorInv' ELSE TwoFactorInit'
    <3>1. CASE focus = "two factor"
      BY <1>1, <3>1, OneComponentSteps, TwoFactorKeeps DEF PlatformInv
    <3>2. CASE focus # "two factor"
      BY <1>1, <3>2, OneComponentSteps DEF PlatformInv, TwoFactorInit, twoFactorVars
    <3> QED
      BY <3>1, <3>2
  <2>3. IF focus' = "access control" THEN AccessInv' ELSE AccessControlInit'
    <3>1. CASE focus = "access control"
      BY <1>1, <3>1, OneComponentSteps, AccessKeeps DEF PlatformInv
    <3>2. CASE focus # "access control"
      BY <1>1, <3>2, OneComponentSteps DEF PlatformInv, AccessControlInit, accessVars
    <3> QED
      BY <3>1, <3>2
  <2> QED
    BY <2>1, <2>2, <2>3 DEF PlatformInv
<1>2. CASE UNCHANGED vars
  <2>1. UNCHANGED <<req, clock, focus, accountVars, twoFactorVars, accessVars>>
    BY <1>2 DEF vars, identityVars
  <2>2. AccountInv => AccountInv'
    BY <2>1 DEF AccountInv, SessionsFollowPassword, accountVars
  <2>3. AccountsInit => AccountsInit'
    BY <2>1 DEF AccountsInit, accountVars
  <2>4. TwoFactorInv => TwoFactorInv'
    BY <2>1 DEF TwoFactorInv, FactorRowsOK, TwoFactorTypeOK, SecretsAreNew, AcceptedIsKept,
       StepIsKept, CodeIsKept, ChallengeIsKept, NothingAcceptedTwice, GuessesCounted, Guessing,
       Running, twoFactorVars
  <2>5. TwoFactorInit => TwoFactorInit'
    BY <2>1 DEF TwoFactorInit, twoFactorVars
  <2>6. AccessInv => AccessInv'
    BY <2>1 DEF AccessInv, AccessControlTypeOK, NoDanglingAssignment, accessVars
  <2>7. AccessControlInit => AccessControlInit'
    BY <2>1 DEF AccessControlInit, accessVars
  <2> QED
    BY <2>1, <2>2, <2>3, <2>4, <2>5, <2>6, <2>7 DEF PlatformInv
<1> QED
  BY <1>1, <1>2

\* The invariant of the run follows.
LEMMA PlatformInvImplies ==
  ASSUME PlatformInv
  PROVE  IdentityInvariant
<1>1. SessionsFollowPassword /\ ThresholdLocks
  <2>1. CASE AccountInv
    BY <2>1, AccountsAssumption DEF AccountInv, ThresholdLocks
  <2>2. CASE AccountsInit
    BY <2>2, AccountsAssumption DEF AccountsInit, SessionsFollowPassword, ThresholdLocks
  <2> QED
    BY <2>1, <2>2 DEF PlatformInv
<1>2. NothingAcceptedTwice /\ ChallengeGuessesBounded
  <2>1. CASE TwoFactorInv
    BY <2>1, GuessesAreBounded DEF TwoFactorInv, AcceptedIsKept
  <2>2. CASE TwoFactorInit
    BY <2>2 DEF TwoFactorInit, NothingAcceptedTwice, ChallengeGuessesBounded
  <2> QED
    BY <2>1, <2>2 DEF PlatformInv
<1>3. NoDanglingAssignment
  <2>1. CASE AccessInv
    BY <2>1 DEF AccessInv
  <2>2. CASE AccessControlInit
    BY <2>2, AccessControlAssumption DEF AccessControlInit, NoDanglingAssignment
  <2> QED
    BY <2>1, <2>2 DEF PlatformInv
<1> QED
  BY <1>1, <1>2, <1>3 DEF IdentityInvariant

\* However many requests overlap: the sessions of an old password end with it, failures
\* at the threshold lock the account, a code or challenge counts once, guesses are
\* bounded, and no assignment is left without its role or permission
\* (prisma-user-security.repository.ts, prisma-two-factor-enrollment.repository.ts).
THEOREM IdentityIsSafe == MCSpec => []IdentityInvariant
<1>1. MCInit => PlatformInv
  BY PlatformInitial
<1>2. PlatformInv /\ [MCNext]_vars => PlatformInv'
  BY PlatformKeeps
<1>3. PlatformInv => IdentityInvariant
  BY PlatformInvImplies
<1> QED
  BY <1>1, <1>2, <1>3, PTL DEF MCSpec

\* No step of any request shortens a lock in force, or lets a login through whose time
\* step, or a later one, was accepted for the secret in force.
THEOREM LoginStepsAreSafe == MCSpec => LoginSteps
<1>1. MCInit => PlatformInv
  BY PlatformInitial
<1>2. PlatformInv /\ [MCNext]_vars => PlatformInv'
  BY PlatformKeeps
<1>3. ASSUME PlatformInv, [MCNext]_vars
      PROVE  [security.locked > clock => security'.locked >= security.locked]_accountVars
  <2>1. CASE MCNext
    <3>1. CASE focus = "accounts"
      BY <1>3, <2>1, <3>1, OneComponentSteps, AccountKeeps DEF PlatformInv
    <3>2. CASE focus # "accounts"
      BY <2>1, <3>2, OneComponentSteps
    <3> QED
      BY <3>1, <3>2
  <2>2. CASE UNCHANGED vars
    BY <2>2 DEF vars, identityVars
  <2> QED
    BY <1>3, <2>1, <2>2
<1>4. ASSUME PlatformInv, [MCNext]_vars
      PROVE  [\A p \in Procs :
                /\ Running(p, "login") /\ At(p, "success") /\ factor # None
                /\ \E t \in StepOf(req[p].now)..StepOf(clock) :
                     <<"step", factor.secret, t>> \in accepted
                => factor' = factor \/ req'[p] = req[p]]_<<req, twoFactorVars>>
  <2>1. CASE MCNext
    <3>1. CASE focus = "two factor"
      BY <1>4, <2>1, <3>1, OneComponentSteps, OvertakenRefused DEF PlatformInv
    <3>2. CASE focus # "two factor"
      BY <2>1, <3>2, OneComponentSteps DEF twoFactorVars
    <3> QED
      BY <3>1, <3>2
  <2>2. CASE UNCHANGED vars
    BY <2>2 DEF vars, identityVars
  <2> QED
    BY <1>4, <2>1, <2>2
<1> QED
  BY <1>1, <1>2, <1>3, <1>4, PTL DEF MCSpec, LoginSteps, LockStays, OvertakenLoginRefused
=============================================================================
