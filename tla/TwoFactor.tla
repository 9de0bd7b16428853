----------------------------- MODULE TwoFactor -----------------------------
(***************************************************************************)
(* Two-factor authentication of one user (src/modules/auth): enrolment,    *)
(* login challenges, recovery codes.  The rows of two users never meet.    *)
(*                                                                         *)
(* Each statement is an action, save where an earlier read can only refuse *)
(* what the statement checks again.  The clock counts TOTP time steps.  A  *)
(* client sends a right or a wrong code; a right one is the code of the    *)
(* secret that the request has read, for the time step of the request.     *)
(***************************************************************************)
EXTENDS Requests

CONSTANTS
  Secrets, Challenges, Codes,
  ChallengeTtl,           \* auth.twoFactor.challengeTtlMs
  ChallengeMaxAttempts,   \* auth.twoFactor.challengeMaxAttempts
  OtpThreshold,           \* auth.twoFactor.otpLockoutThreshold
  OtpLockDuration,        \* auth.twoFactor.otpLockoutDurationMs
  MaxFailed               \* bound: failedVerificationAttempts grows no further

VARIABLES
  factor,      \* authentication_user_two_factor, or None
  challenge,   \* authentication_user_two_factor_challenges
  code,        \* the recovery codes: "fresh" until created, "gone" once deleted
  drawn,       \* secrets that have been generated
  accepted,    \* history: what has been accepted: time steps of secrets,
               \* recovery codes, challenges
  again        \* history: what has been accepted when it had been before

twoFactorVars == <<factor, challenge, code, drawn, accepted, again>>

TwoFactorRow ==
  [secret : Secrets \cup {None},   \* None: the empty string that disable writes
   enabled : BOOLEAN,              \* enabledAt
   pending : BOOLEAN,              \* enrollmentStartedAt
   last : Nat,                     \* lastUsedTimeStep, 0: NULL
   failed : Nat,                   \* failedVerificationAttempts
   locked : Nat]                   \* lockedUntil
ChallengeRow == [expires : Nat, consumed : BOOLEAN, failed : Nat]

ASSUME TwoFactorAssumption ==
  /\ {ChallengeTtl, OtpLockDuration} \subseteq Nat
  /\ ChallengeMaxAttempts \in Nat \ {0}
  /\ None \notin Secrets /\ None \notin TwoFactorRow /\ None \notin ChallengeRow

TwoFactorInit ==
  /\ factor = None
  /\ challenge = [c \in Challenges |-> None]
  /\ code = [k \in Codes |-> "fresh"]
  /\ drawn = {} /\ accepted = {} /\ again = {}

Accept(x) ==
  accepted' = accepted \cup {x} /\ again' = again \cup ({x} \cap accepted)

Enabled == factor # None /\ factor.enabled
StepOf(now) == now + 1

-----------------------------------------------------------------------------
(* Enrolment.                                                              *)

StartEnrollment(p) ==
  /\ ~Enabled
  /\ \E s \in Secrets \ drawn :
       /\ drawn' = drawn \cup {s}
       /\ Start(p, [op |-> "enroll", at |-> "update", secret |-> s])
  /\ UNCHANGED <<factor, challenge, code, accepted, again, clock>>

\* createPending's updateMany, which leaves an enabled row alone.
CreatePendingUpdate(p) ==
  /\ At(p, "update")
  /\ IF factor # None /\ ~factor.enabled
     THEN factor' = [factor EXCEPT !.secret = req[p].secret, !.pending = TRUE,
                                   !.failed = 0, !.locked = 0]
     ELSE UNCHANGED factor
  /\ IF factor = None THEN Goto(p, "insert") ELSE Done(p)
  /\ UNCHANGED <<challenge, code, drawn, accepted, again, clock>>

\* Its insert: a row that has appeared meanwhile is returned, or violates the
\* unique key.
CreatePendingInsert(p) ==
  /\ At(p, "insert")
  /\ factor' = IF factor # None THEN factor
               ELSE [secret |-> req[p].secret, enabled |-> FALSE, pending |-> TRUE,
                     last |-> 0, failed |-> 0, locked |-> 0]
  /\ Done(p)
  /\ UNCHANGED <<challenge, code, drawn, accepted, again, clock>>

\* A request that has only its failure left to record.
Failure(now) == [op |-> "fail", at |-> "failIncrement", now |-> now]

VerifyEnrollment(p) ==
  /\ factor # None /\ ~factor.enabled /\ factor.secret # None
  /\ factor.locked <= clock
  /\ \E right \in BOOLEAN :
       Start(p, IF right THEN [op |-> "verifyEnrollment", at |-> "enable",
                               now |-> clock, secret |-> factor.secret]
                ELSE Failure(clock))
  /\ UNCHANGED <<twoFactorVars, clock>>

\* All recovery codes of the user are replaced by a fresh one.
FreshCodes(k) ==
  code' = [j \in Codes |-> IF j = k THEN "unused"
                           ELSE IF code[j] = "fresh" THEN "fresh" ELSE "gone"]

\* Mutant: the code's time step is not recorded.
EnrollmentStepForgotten(now) == 0

\* The lastUsedTimeStep that the enrolment leaves.
EnrollmentStep(now) == StepOf(now)

EnableWithRecoveryCodes(p) ==
  /\ At(p, "enable")
  /\ \/ /\ ~factor.enabled /\ factor.pending
        /\ factor' = [factor EXCEPT !.enabled = TRUE, !.last = EnrollmentStep(req[p].now),
                                    !.failed = 0, !.locked = 0]
        /\ accepted' = accepted \cup {<<"step", req[p].secret, StepOf(req[p].now)>>}
        /\ \E k \in Codes : code[k] = "fresh" /\ FreshCodes(k)
     \/ /\ factor.enabled \/ ~factor.pending
        /\ UNCHANGED <<factor, accepted, code>>
  /\ Done(p)
  /\ UNCHANGED <<challenge, drawn, again, clock>>

-----------------------------------------------------------------------------
(* Login with a challenge.                                                 *)

\* LoginService.execute, after the password was verified.
CreateLoginChallenge(c) ==
  /\ Enabled
  /\ challenge[c] = None
  /\ challenge' = [challenge EXCEPT ![c] =
       [expires |-> clock + ChallengeTtl, consumed |-> FALSE, failed |-> 0]]
  /\ UNCHANGED <<req, clock, factor, code, drawn, accepted, again>>

\* Mutant: one attempt too many.
AttemptsLeftOffByOne(c) == challenge[c].failed <= ChallengeMaxAttempts

AttemptsLeft(c) == challenge[c].failed < ChallengeMaxAttempts

VerifyLoginChallenge(p, c) ==
  /\ challenge[c] # None
  /\ ~challenge[c].consumed /\ challenge[c].expires > clock
  /\ AttemptsLeft(c)
  /\ Start(p, [op |-> "login", at |-> "factor", now |-> clock, ch |-> c])
  /\ UNCHANGED <<twoFactorVars, clock>>

\* The row is read; the client sent a recovery code, or a code.
CheckFactor(p) ==
  /\ At(p, "factor") /\ Enabled
  /\ \/ \E k \in Codes : code[k] = "unused" /\
          req' = [req EXCEPT ![p] = [op |-> "login", at |-> "mark", now |-> @.now,
                                     ch |-> @.ch, code |-> k]]
     \/ /\ factor.locked <= req[p].now
        /\ req' = [req EXCEPT ![p] = [op |-> "login", at |-> "success", now |-> @.now,
                                      ch |-> @.ch, secret |-> factor.secret]]
     \/ Goto(p, "failChallenge")
  /\ UNCHANGED <<twoFactorVars, clock>>

\* Where a request goes on once its code was accepted.
Verified(p) ==
  Goto(p, CASE req[p].op = "login" -> "consume"
            [] req[p].op = "regenerate" -> "delete"
            [] req[p].op = "disable" -> "disable")
\* Only a login counts its failures.
NotVerified(p) ==
  IF req[p].op = "login" THEN Goto(p, "failChallenge") ELSE Done(p)

\* Mutant: no comparison with lastUsedTimeStep.
StepIsNewAlways(step) == TRUE

StepIsNew(step) == factor.last < step

\* recordSuccessfulVerification.
RecordSuccess(p) ==
  /\ At(p, "success")
  /\ LET step == StepOf(req[p].now)
     IN  \/ /\ factor.enabled /\ StepIsNew(step)
            /\ factor' = [factor EXCEPT !.last = step, !.failed = 0, !.locked = 0]
            /\ Accept(<<"step", req[p].secret, step>>)
            /\ Verified(p)
         \/ /\ ~(factor.enabled /\ StepIsNew(step))
            /\ UNCHANGED <<factor, accepted, again>>
            /\ NotVerified(p)
  /\ UNCHANGED <<challenge, code, drawn, clock>>

\* markUsed of the candidate that matched.
MarkUsed(p) ==
  /\ At(p, "mark")
  /\ \/ /\ code[req[p].code] = "unused"
        /\ code' = [code EXCEPT ![req[p].code] = "used"]
        /\ Accept(<<"code", req[p].code>>)
        /\ Verified(p)
     \/ /\ code[req[p].code] # "unused"
        /\ UNCHANGED <<code, accepted, again>>
        /\ NotVerified(p)
  /\ UNCHANGED <<factor, challenge, drawn, clock>>

Consumable(c, now) == ~challenge[c].consumed /\ challenge[c].expires > now

\* The login is answered with a session if the challenge is still open.
ConsumeChallenge(p) ==
  /\ At(p, "consume")
  /\ \/ /\ Consumable(req[p].ch, req[p].now)
        /\ challenge' = [challenge EXCEPT ![req[p].ch].consumed = TRUE]
        /\ Accept(<<"challenge", req[p].ch>>)
     \/ ~Consumable(req[p].ch, req[p].now) /\ UNCHANGED <<challenge, accepted, again>>
  /\ Done(p)
  /\ UNCHANGED <<factor, code, drawn, clock>>

-----------------------------------------------------------------------------
(* Failures.                                                               *)

FailChallenge(p) ==
  /\ At(p, "failChallenge")
  /\ challenge' = [challenge EXCEPT ![req[p].ch].failed =
                     IF challenge[req[p].ch].consumed THEN @ ELSE @ + 1]
  /\ req' = [req EXCEPT ![p] = Failure(@.now)]
  /\ UNCHANGED <<factor, code, drawn, accepted, again, clock>>

FailIncrement(p) ==
  /\ At(p, "failIncrement")
  /\ \/ /\ factor.locked <= req[p].now
        /\ factor.failed < MaxFailed
        /\ factor' = [factor EXCEPT !.failed = @ + 1]
        /\ Goto(p, "failLatest")
     \/ factor.locked > req[p].now /\ Done(p) /\ UNCHANGED factor
  /\ UNCHANGED <<challenge, code, drawn, accepted, again, clock>>

FailLatest(p) ==
  /\ At(p, "failLatest")
  /\ IF factor.failed >= OtpThreshold THEN Goto(p, "failLock") ELSE Done(p)
  /\ UNCHANGED <<twoFactorVars, clock>>

FailLock(p) ==
  /\ At(p, "failLock")
  /\ factor' = [factor EXCEPT !.locked = req[p].now + OtpLockDuration]
  /\ Done(p)
  /\ UNCHANGED <<challenge, code, drawn, accepted, again, clock>>

-----------------------------------------------------------------------------
(* Recovery codes and disabling; the password was verified before.         *)

RegenerateRecoveryCodes(p) ==
  /\ Enabled /\ factor.locked <= clock
  /\ Start(p, [op |-> "regenerate", at |-> "success", now |-> clock,
               secret |-> factor.secret])
  /\ UNCHANGED <<twoFactorVars, clock>>

\* disable with a code, or with a recovery code whether enabled or not.
DisableFactor(p) ==
  /\ \/ Enabled /\ Start(p, [op |-> "disable", at |-> "success", now |-> clock,
                             secret |-> factor.secret])
     \/ \E k \in Codes : code[k] = "unused" /\
          Start(p, [op |-> "disable", at |-> "mark", code |-> k])
  /\ UNCHANGED <<twoFactorVars, clock>>

DisableWrite(p) ==
  /\ At(p, "disable")
  /\ factor' = [factor EXCEPT !.enabled = FALSE, !.secret = None, !.pending = FALSE,
                              !.last = 0, !.failed = 0, !.locked = 0]
  /\ Goto(p, "delete")
  /\ UNCHANGED <<challenge, code, drawn, accepted, again, clock>>

\* replaceAll: a deleteMany, and a createMany if there is anything to create.
DeleteCodes(p) ==
  /\ At(p, "delete")
  /\ code' = [k \in Codes |-> IF code[k] = "fresh" THEN "fresh" ELSE "gone"]
  /\ IF req[p].op = "regenerate" THEN Goto(p, "create") ELSE Done(p)
  /\ UNCHANGED <<factor, challenge, drawn, accepted, again, clock>>

CreateCodes(p) ==
  /\ At(p, "create")
  /\ \E k \in Codes : code[k] = "fresh" /\ code' = [code EXCEPT ![k] = "unused"]
  /\ Done(p)
  /\ UNCHANGED <<factor, challenge, drawn, accepted, again, clock>>

\* A request that is refused, or that fails before its next statement.
TwoFactorAbandon(p) == req[p] # None /\ Done(p) /\ UNCHANGED <<twoFactorVars, clock>>

TwoFactorNext ==
  \/ \E p \in Procs :
       \/ StartEnrollment(p) \/ CreatePendingUpdate(p) \/ CreatePendingInsert(p)
       \/ VerifyEnrollment(p) \/ EnableWithRecoveryCodes(p)
       \/ CheckFactor(p) \/ RecordSuccess(p) \/ MarkUsed(p) \/ ConsumeChallenge(p)
       \/ FailChallenge(p) \/ FailIncrement(p) \/ FailLatest(p) \/ FailLock(p)
       \/ RegenerateRecoveryCodes(p) \/ DisableFactor(p) \/ DisableWrite(p)
       \/ DeleteCodes(p) \/ CreateCodes(p) \/ TwoFactorAbandon(p)
  \/ \E p \in Procs, c \in Challenges : VerifyLoginChallenge(p, c)
  \/ \E c \in Challenges : CreateLoginChallenge(c)
  \/ Tick /\ UNCHANGED twoFactorVars

-----------------------------------------------------------------------------
\* The rows have the types of the schema.
TwoFactorTypeOK ==
  /\ factor \in TwoFactorRow \cup {None}
  /\ challenge \in [Challenges -> ChallengeRow \cup {None}]
  /\ code \in [Codes -> {"fresh", "unused", "used", "gone"}]
  /\ drawn \subseteq Secrets

\* A recovery code, a challenge, and a time step of the secret in force are each
\* good for one verification of an enabled factor, although every request checks
\* first and writes later (recordSuccessfulVerification, markUsed, consume).  A
\* step of a replaced secret may count again: enableWithRecoveryCodes does not
\* say which secret was verified, so that an enrolment that verified a replaced
\* one may enable the new one with an older step.
NothingAcceptedTwice ==
  \A x \in again : x[1] = "step" /\ x[2] # factor.secret

\* Neither does recordSuccessfulVerification say which secret the code was
\* checked against.  A login whose secret was replaced while it was under way is
\* refused all the same once the new secret was verified for the login's time
\* step or a later one.
OvertakenLoginRefused ==
  [][\A p \in Procs :
       /\ Running(p, "login") /\ At(p, "success") /\ factor # None
       /\ \E t \in StepOf(req[p].now)..StepOf(clock) : <<"step", factor.secret, t>> \in accepted
       => factor' = factor \/ req'[p] = req[p]]_<<req, twoFactorVars>>

\* Attempts are compared in one statement and counted in a later one: requests
\* that overlap pass the limit together, but no further than their number.
ChallengeGuessesBounded ==
  \A c \in Challenges : challenge[c] # None =>
    challenge[c].failed <= ChallengeMaxAttempts + Cardinality(Procs) - 1
=============================================================================
