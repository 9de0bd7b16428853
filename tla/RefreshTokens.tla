---------------------------- MODULE RefreshTokens ----------------------------
(***************************************************************************)
(* Authentication sessions and rotating refresh tokens (src/modules/auth). *)
(*                                                                         *)
(* The database holds users, sessions, one refresh-token family per        *)
(* session (only login creates families, right after the session) and the  *)
(* tokens of each family.  Several HTTP requests run concurrently; each is *)
(* a process that executes one operation at a time, statement by statement.*)
(* A statement that must wait for a row lock is an action that is not      *)
(* enabled while another transaction holds the lock.  The writes of a      *)
(* transaction become visible when it commits, so a transaction's last     *)
(* statement and its commit are one action, and earlier statements only    *)
(* take locks.                                                             *)
(***************************************************************************)
EXTENDS Naturals, TLC

CONSTANTS Users, Sessions, Tokens, Procs,
          None,      \* SQL NULL, an absent value
          Ttl,       \* auth.refreshToken.expiresIn
          MaxClock   \* bound: the clock stops here

ASSUME ConstAssumption ==
  /\ None \notin Users \cup Sessions \cup Tokens \cup Procs
  /\ Ttl \in Nat \ {0}
  /\ MaxClock \in Nat

VARIABLES
  clock,
  user,        \* "active": is_active, status 'active' and deleted_at null
  sess,        \* authentication_user_sessions: absent, live or revoked_at set
  sessUser,
  sessExp,     \* expires_at
  fam,         \* the family of each session; "reuse": revoke_reason REUSE_DETECTED
  tok,         \* "consumed": consumed_at and revoked_at set by a rotation
  tokFam,
  tokExp,
  famLock,     \* exclusive row locks held by open transactions
  tokLock,
  pc,
  req          \* the request a process is executing: its local variables

db    == <<user, sess, sessUser, sessExp, fam, tok, tokFam, tokExp>>
locks == <<famLock, tokLock>>
vars  == <<clock, db, locks, pc, req>>

PCs == {"idle", "lock", "readFamily", "readSession", "rotate",
        "reuseFamily", "reuseTokens",
        "revokeAll", "revokeBegin", "revokeFamilies", "revokeTokens",
        "loginSession", "loginCheck", "loginFamily"}

SessStates == {"absent", "live", "revoked"}
FamStates  == {"absent", "live", "revoked", "reuse"}

Request ==
  [tok     : Tokens \cup {None},
   sess    : Sessions \cup {None},
   user    : Users \cup {None},
   now     : Nat,              \* the time captured when the request began
   famRead : FamStates,        \* what the request read of the family
   began   : SessStates,       \* history: the session when the request began
   snapF   : SUBSET Sessions,  \* rows the transaction's snapshot shows
   snapT   : SUBSET Tokens]

NoRequest == [tok |-> None, sess |-> None, user |-> None, now |-> 0,
              famRead |-> "absent", began |-> "absent",
              snapF |-> {}, snapT |-> {}]

Init ==
  /\ clock = 0
  /\ user = [u \in Users |-> "active"]
  /\ sess = [s \in Sessions |-> "absent"]
  /\ sessUser = [s \in Sessions |-> None]
  /\ sessExp = [s \in Sessions |-> 0]
  /\ fam = [s \in Sessions |-> "absent"]
  /\ tok = [t \in Tokens |-> "absent"]
  /\ tokFam = [t \in Tokens |-> None]
  /\ tokExp = [t \in Tokens |-> 0]
  /\ famLock = [s \in Sessions |-> None]
  /\ tokLock = [t \in Tokens |-> None]
  /\ pc = [p \in Procs |-> "idle"]
  /\ req = [p \in Procs |-> NoRequest]

Goto(p, l) == pc' = [pc EXCEPT ![p] = l]

TokensOf(S) == {t \in Tokens : tok[t] # "absent" /\ tokFam[t] \in S}
LiveTokens(S) == {t \in TokensOf(S) : tok[t] = "live"}

\* COMMIT and ROLLBACK give back every lock of the transaction.
ReleaseLocks(p) ==
  /\ famLock' = [s \in Sessions |-> IF famLock[s] = p THEN None ELSE famLock[s]]
  /\ tokLock' = [t \in Tokens |-> IF tokLock[t] = p THEN None ELSE tokLock[t]]

\* The request ends, its transaction with it.
Finish(p) ==
  /\ Goto(p, "idle")
  /\ req' = [req EXCEPT ![p] = NoRequest]
  /\ ReleaseLocks(p)

-----------------------------------------------------------------------------
(***************************************************************************)
(* POST /auth/refresh: RefreshTokenService.refresh and                     *)
(* PrismaRefreshTokenRepository.rotate, one READ COMMITTED transaction.    *)
(***************************************************************************)

\* A client presents a token (one that no row matches is answered INVALID and
\* changes nothing).
BeginRefresh(p) ==
  /\ pc[p] = "idle"
  /\ \E t \in Tokens :
       /\ tok[t] # "absent"
       /\ req' = [req EXCEPT ![p] =
            [NoRequest EXCEPT !.tok = t, !.sess = tokFam[t], !.now = clock,
                              !.began = sess[tokFam[t]]]]
  /\ Goto(p, "lock")
  /\ UNCHANGED <<clock, db, locks>>

\* Mutant: a plain SELECT, which neither waits nor locks.
RotateLockPlainSelect(p) ==
  /\ pc[p] = "lock"
  /\ Goto(p, "readFamily")
  /\ UNCHANGED <<clock, db, locks, req>>

\* SELECT ... FOR UPDATE on the token row.
RotateLock(p) ==
  /\ pc[p] = "lock"
  /\ tokLock[req[p].tok] = None
  /\ tokLock' = [tokLock EXCEPT ![req[p].tok] = p]
  /\ Goto(p, "readFamily")
  /\ UNCHANGED <<clock, db, famLock, req>>

\* findUnique with include: one consistent read per included relation.
RotateReadFamily(p) ==
  /\ pc[p] = "readFamily"
  /\ req' = [req EXCEPT ![p].famRead = fam[req[p].sess]]
  /\ Goto(p, "readSession")
  /\ UNCHANGED <<clock, db, locks>>

\* What the transaction answers from what it read, or the branch it takes.
TokenSpent(p)   == tok[req[p].tok] # "live"
TokenExpired(p) == tokExp[req[p].tok] <= req[p].now

\* Mutant: trusts the family row alone, not the session row.
ChainUsableNoSession(p) ==
  req[p].famRead = "live" /\ user[sessUser[req[p].sess]] = "active"

ChainUsable(p) ==
  /\ req[p].famRead = "live"
  /\ sess[req[p].sess] = "live"
  /\ sessExp[req[p].sess] > req[p].now
  /\ user[sessUser[req[p].sess]] = "active"

RotateReadSession(p) ==
  /\ pc[p] = "readSession"
  /\ \/ /\ TokenSpent(p) /\ req[p].famRead = "live"
        /\ Goto(p, "reuseFamily")
        /\ UNCHANGED <<locks, req>>
     \/ /\ TokenSpent(p) /\ req[p].famRead # "live"           \* REVOKED
        /\ Finish(p)
     \/ /\ ~TokenSpent(p) /\ TokenExpired(p)          \* EXPIRED
        /\ Finish(p)
     \/ /\ ~TokenSpent(p) /\ ~TokenExpired(p)
        /\ ~ChainUsable(p)                            \* REVOKED
        /\ Finish(p)
     \/ /\ ~TokenSpent(p) /\ ~TokenExpired(p)
        /\ ChainUsable(p)
        /\ Goto(p, "rotate")
        /\ UNCHANGED <<locks, req>>
  /\ UNCHANGED <<clock, db>>

\* Mutant: inserts the replacement and forgets to consume the old token.
RotateCommitNoConsume(p) ==
  /\ pc[p] = "rotate"
  /\ famLock[req[p].sess] = None
  /\ \E n \in Tokens :
       /\ tok[n] = "absent"
       /\ tok' = [tok EXCEPT ![n] = "live"]
       /\ tokFam' = [tokFam EXCEPT ![n] = req[p].sess]
       /\ tokExp' = [tokExp EXCEPT ![n] = req[p].now + Ttl]
  /\ Finish(p)
  /\ UNCHANGED <<clock, user, sess, sessUser, sessExp, fam>>

\* Marks the presented token consumed, inserts its replacement (the foreign
\* key check of the insert waits for an exclusive lock on the family row) and
\* commits.
RotateCommit(p) ==
  /\ pc[p] = "rotate"
  /\ famLock[req[p].sess] = None
  /\ \E n \in Tokens :
       /\ tok[n] = "absent"
       /\ tok' = [tok EXCEPT ![req[p].tok] = "consumed", ![n] = "live"]
       /\ tokFam' = [tokFam EXCEPT ![n] = req[p].sess]
       /\ tokExp' = [tokExp EXCEPT ![n] = req[p].now + Ttl]
  /\ Finish(p)                                        \* ROTATED
  /\ UNCHANGED <<clock, user, sess, sessUser, sessExp, fam>>

\* revokeFamilyAndSession, first statement: locks the family row.
ReuseLockFamily(p) ==
  /\ pc[p] = "reuseFamily"
  /\ famLock[req[p].sess] = None
  /\ famLock' = [famLock EXCEPT ![req[p].sess] = p]
  /\ Goto(p, "reuseTokens")
  /\ UNCHANGED <<clock, db, tokLock, req>>

\* Mutant: the family and the session are revoked, the tokens forgotten.
ReuseCommitNoTokens(p) ==
  /\ pc[p] = "reuseTokens"
  /\ fam' = [fam EXCEPT ![req[p].sess] = IF @ = "live" THEN "reuse" ELSE @]
  /\ sess' = [sess EXCEPT ![req[p].sess] = "revoked"]
  /\ Finish(p)
  /\ UNCHANGED <<clock, user, sessUser, sessExp, tok, tokFam, tokExp>>

\* Its other two statements wait for the family's live token rows; then the
\* family, those tokens and the session are revoked together.
ReuseCommit(p) ==
  LET f == req[p].sess IN
  /\ pc[p] = "reuseTokens"
  /\ \A t \in LiveTokens({f}) : tokLock[t] \in {None, p}
  /\ fam' = [fam EXCEPT ![f] = IF @ = "live" THEN "reuse" ELSE @]
  /\ tok' = [t \in Tokens |-> IF t \in LiveTokens({f}) THEN "revoked" ELSE tok[t]]
  /\ sess' = [sess EXCEPT ![f] = "revoked"]
  /\ Finish(p)                                        \* REUSE_DETECTED
  /\ UNCHANGED <<clock, user, sessUser, sessExp, tokFam, tokExp>>

-----------------------------------------------------------------------------
(***************************************************************************)
(* Revocations: the session rows first (one auto-committed UPDATE), then   *)
(* families and tokens in a second transaction.                            *)
(***************************************************************************)

\* sessions.revokeById / revokeAll: only unrevoked, unexpired rows.
Revocable(s) == sess[s] = "live" /\ sessExp[s] > clock
RevokeSessions(S) ==
  sess' = [s \in Sessions |-> IF s \in S /\ Revocable(s) THEN "revoked" ELSE sess[s]]

\* Mutant: the caller passes the session id where the user is expected.
RevokeSessionSwapped(p) ==
  /\ pc[p] = "idle"
  /\ \E s \in Sessions :
       /\ sess[s] # "absent"
       /\ RevokeSessions({s})
       /\ req' = [req EXCEPT ![p] = [NoRequest EXCEPT !.sess = s, !.user = s]]
  /\ Goto(p, "revokeBegin")
  /\ UNCHANGED <<clock, user, sessUser, sessExp, fam, tok, tokFam, tokExp, locks>>

\* logoutCurrent, revokeOwnSession, adminRevoke.
RevokeSession(p) ==
  /\ pc[p] = "idle"
  /\ \E s \in Sessions :
       /\ sess[s] # "absent"
       /\ RevokeSessions({s})
       /\ req' = [req EXCEPT ![p] =
            [NoRequest EXCEPT !.sess = s, !.user = sessUser[s]]]
  /\ Goto(p, "revokeBegin")
  /\ UNCHANGED <<clock, user, sessUser, sessExp, fam, tok, tokFam,
                 tokExp, locks>>

\* logoutAll from "idle"; revokeAllForSecurityEvent from "revokeAll".
RevokeAllSessions(p) ==
  /\ \E u \in Users :
       /\ pc[p] = "idle" \/ (pc[p] = "revokeAll" /\ req[p].user = u)
       /\ RevokeSessions({s \in Sessions : sessUser[s] = u})
       /\ req' = [req EXCEPT ![p] = [NoRequest EXCEPT !.user = u]]
  /\ Goto(p, "revokeBegin")
  /\ UNCHANGED <<clock, user, sessUser, sessExp, fam, tok, tokFam,
                 tokExp, locks>>

\* revokeForSession / revokeAllForUser.  Their updateMany filters on related
\* rows, so the ids to update may come from the transaction's snapshot.
RevokeBegin(p) ==
  LET scope == {s \in Sessions : /\ fam[s] # "absent"
                                 /\ sessUser[s] = req[p].user
                                 /\ req[p].sess \in {None, s}}
  IN
  /\ pc[p] = "revokeBegin"
  /\ req' = [req EXCEPT ![p].snapF = scope, ![p].snapT = TokensOf(scope)]
  /\ Goto(p, "revokeFamilies")
  /\ UNCHANGED <<clock, db, locks>>

\* First updateMany: locks the unrevoked family rows.
RevokeLockFamilies(p) ==
  LET open == {s \in req[p].snapF : fam[s] = "live"} IN
  /\ pc[p] = "revokeFamilies"
  /\ \A s \in open : famLock[s] = None
  /\ famLock' = [s \in Sessions |-> IF s \in open THEN p ELSE famLock[s]]
  /\ Goto(p, "revokeTokens")
  /\ UNCHANGED <<clock, db, tokLock, req>>

\* Mutant: the family update is lost; only the tokens are revoked.
RevokeCommitTokensOnly(p) ==
  /\ pc[p] = "revokeTokens"
  /\ \A t \in LiveTokens(req[p].snapF) : tokLock[t] = None
  /\ tok' = [t \in Tokens |-> IF t \in LiveTokens(req[p].snapF)
                              THEN "revoked" ELSE tok[t]]
  /\ Finish(p)
  /\ UNCHANGED <<clock, user, sess, sessUser, sessExp, fam, tokFam, tokExp>>

\* Second updateMany and COMMIT.  Tokens inserted after the snapshot are
\* revoked or missed, depending on how Prisma issues the UPDATE.
RevokeCommit(p) ==
  /\ pc[p] = "revokeTokens"
  /\ \E T \in {LiveTokens(req[p].snapF), LiveTokens(req[p].snapF) \cap req[p].snapT} :
       /\ \A t \in T : tokLock[t] = None
       /\ tok' = [t \in Tokens |-> IF t \in T THEN "revoked" ELSE tok[t]]
  /\ fam' = [s \in Sessions |-> IF famLock[s] = p THEN "revoked" ELSE fam[s]]
  /\ Finish(p)
  /\ UNCHANGED <<clock, user, sess, sessUser, sessExp, tokFam, tokExp>>

\* UserManagementService.update (disable, suspend) and remove (soft delete):
\* the account row first, then the security event of its sessions.
DisableUser(p) ==
  /\ pc[p] = "idle"
  /\ \E u \in Users :
       /\ \/ user[u] = "active" /\ user' = [user EXCEPT ![u] = "inactive"]
          \/ user[u] # "deleted" /\ user' = [user EXCEPT ![u] = "deleted"]
       /\ req' = [req EXCEPT ![p] = [NoRequest EXCEPT !.user = u]]
  /\ Goto(p, "revokeAll")
  /\ UNCHANGED <<clock, sess, sessUser, sessExp, fam, tok, tokFam, tokExp,
                 locks>>

\* An update that makes the account active again revokes nothing.
EnableUser ==
  /\ \E u \in Users : /\ user[u] = "inactive"
                      /\ user' = [user EXCEPT ![u] = "active"]
  /\ UNCHANGED <<clock, sess, sessUser, sessExp, fam, tok, tokFam, tokExp,
                 locks, pc, req>>

-----------------------------------------------------------------------------
(***************************************************************************)
(* LoginService.issueSession.                                              *)
(***************************************************************************)

\* The account check and the password check passed.
LoginBegin(p) ==
  /\ pc[p] = "idle"
  /\ \E u \in Users :
       /\ user[u] = "active"
       /\ req' = [req EXCEPT ![p] = [NoRequest EXCEPT !.user = u, !.now = clock]]
  /\ Goto(p, "loginSession")
  /\ UNCHANGED <<clock, db, locks>>

\* SessionService.create refuses an expiry that is not in the future.
LoginCreateSession(p) ==
  /\ pc[p] = "loginSession"
  /\ req[p].now + Ttl > clock
  /\ \E s \in Sessions :
       /\ sess[s] = "absent"
       /\ sess' = [sess EXCEPT ![s] = "live"]
       /\ sessUser' = [sessUser EXCEPT ![s] = req[p].user]
       /\ sessExp' = [sessExp EXCEPT ![s] = req[p].now + Ttl]
       /\ req' = [req EXCEPT ![p].sess = s]
  /\ Goto(p, "loginCheck")
  /\ UNCHANGED <<clock, user, fam, tok, tokFam, tokExp, locks>>

\* createWithInitialToken reads the session without a lock ...
LoginCheckSession(p) ==
  /\ pc[p] = "loginCheck"
  /\ sess[req[p].sess] = "live"
  /\ sessExp[req[p].sess] > req[p].now
  /\ Goto(p, "loginFamily")
  /\ UNCHANGED <<clock, db, locks, req>>

\* ... and then inserts the family and its first token.
LoginCreateFamily(p) ==
  /\ pc[p] = "loginFamily"
  /\ fam' = [fam EXCEPT ![req[p].sess] = "live"]
  /\ \E n \in Tokens :
       /\ tok[n] = "absent"
       /\ tok' = [tok EXCEPT ![n] = "live"]
       /\ tokFam' = [tokFam EXCEPT ![n] = req[p].sess]
       /\ tokExp' = [tokExp EXCEPT ![n] = req[p].now + Ttl]
  /\ Finish(p)
  /\ UNCHANGED <<clock, user, sess, sessUser, sessExp>>

-----------------------------------------------------------------------------
\* A request fails: a refused check, a deadlock victim, a lock wait or
\* transaction timeout, a lost connection, a crash of the server process.
\* What it committed before stays.
Abort(p) ==
  /\ pc[p] # "idle"
  /\ Finish(p)
  /\ UNCHANGED <<clock, db>>

Tick ==
  /\ clock < MaxClock
  /\ clock' = clock + 1
  /\ UNCHANGED <<db, locks, pc, req>>

Step(p) ==
  \/ BeginRefresh(p) \/ RotateLock(p) \/ RotateReadFamily(p)
  \/ RotateReadSession(p) \/ RotateCommit(p)
  \/ ReuseLockFamily(p) \/ ReuseCommit(p)
  \/ RevokeSession(p) \/ RevokeAllSessions(p)
  \/ RevokeBegin(p) \/ RevokeLockFamilies(p) \/ RevokeCommit(p)
  \/ DisableUser(p)
  \/ LoginBegin(p) \/ LoginCreateSession(p) \/ LoginCheckSession(p)
  \/ LoginCreateFamily(p)
  \/ Abort(p)

Next == (\E p \in Procs : Step(p)) \/ EnableUser \/ Tick

Spec == Init /\ [][Next]_vars

-----------------------------------------------------------------------------
\* The rows, locks and local variables have the types of the schema and the code.
TypeOK ==
  /\ clock \in 0 .. MaxClock
  /\ user \in [Users -> {"active", "inactive", "deleted"}]
  /\ sess \in [Sessions -> SessStates]
  /\ sessUser \in [Sessions -> Users \cup {None}]
  /\ sessExp \in [Sessions -> Nat]
  /\ fam \in [Sessions -> FamStates]
  /\ tok \in [Tokens -> {"absent", "live", "consumed", "revoked"}]
  /\ tokFam \in [Tokens -> Sessions \cup {None}]
  /\ tokExp \in [Tokens -> Nat]
  /\ famLock \in [Sessions -> Procs \cup {None}]
  /\ tokLock \in [Tokens -> Procs \cup {None}]
  /\ pc \in [Procs -> PCs]
  /\ req \in [Procs -> Request]

\* Two live tokens of one family would let two clients keep a session going
\* side by side.  Rotation (rotate: lock, read, consume, insert) never leaves
\* more than one, whatever else runs.
SingleLiveToken ==
  \A t1, t2 \in Tokens :
    tok[t1] = "live" /\ tok[t2] = "live" /\ tokFam[t1] = tokFam[t2] => t1 = t2

\* Rotation never loses the chain: a family nobody revoked has a live token,
\* even when rotations abort, race a revocation or race each other.
LiveFamilyHasToken ==
  \A s \in Sessions : fam[s] = "live" =>
    \E t \in Tokens : tok[t] = "live" /\ tokFam[t] = s

\* revokeFamilyAndSession: once a reuse is recorded on a family, its session is
\* revoked and no token of it can be rotated, although another rotation of the
\* family may have been under way when the reuse was detected.
ReuseKillsFamily ==
  \A s \in Sessions : fam[s] = "reuse" =>
    /\ sess[s] = "revoked"
    /\ \A t \in Tokens : tokFam[t] = s => tok[t] # "live"

\* A token revoked by a logout or a security event is never mistaken for a
\* replayed one: its family is revoked with it, so rotate answers REVOKED and
\* not REUSE_DETECTED.
RevokedTokenMeansRevokedFamily ==
  \A t \in Tokens : tok[t] = "revoked" => fam[tokFam[t]] \in {"revoked", "reuse"}

\* A refresh that begins after its session was revoked is never answered with
\* new tokens, even in the window before the family is revoked, after the
\* family's revocation failed, or when login created the family too late for
\* the revocation to see it.
RefusedOnceRevoked ==
  [][\A p \in Procs : RotateCommit(p) => req[p].began # "revoked"]_vars

\* The abstract view: each family is a chain with one current credential.
Current(s) == LiveTokens({s})
Chain == INSTANCE TokenChain WITH
           Chains <- Sessions, Credentials <- Tokens,
           current <- [s \in Sessions |-> Current(s)],
           issued <- {t \in Tokens : tok[t] # "absent"}

\* The families behave as chains of one-time credentials (TokenChain).
ChainSpec == Chain!Spec

\* For TLC: what is interchangeable in a small instance.
Symmetry == Permutations(Tokens) \cup Permutations(Procs) \cup Permutations(Sessions)
=============================================================================
