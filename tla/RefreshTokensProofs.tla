------------------------- MODULE RefreshTokensProofs -------------------------
(***************************************************************************)
(* Proofs about RefreshTokens for any number of users, sessions, tokens    *)
(* and concurrent requests.                                                *)
(***************************************************************************)
EXTENDS RefreshTokens, TLAPS

RefreshPCs == {"lock", "readFamily", "readSession", "rotate",
               "reuseFamily", "reuseTokens"}

\* A refresh works on a token that exists and on that token's family.
RefreshInv ==
  \A p \in Procs : pc[p] \in RefreshPCs =>
    /\ req[p].tok \in Tokens
    /\ tok[req[p].tok] # "absent"
    /\ tokFam[req[p].tok] = req[p].sess
    /\ req[p].sess \in Sessions
    /\ req[p].began = "revoked" => sess[req[p].sess] = "revoked"

\* Past its first statement it holds the token row; a decided rotation holds
\* a live token; a detected reuse holds the family row.
LockInv ==
  \A p \in Procs :
    /\ pc[p] \in RefreshPCs \ {"lock"} => tokLock[req[p].tok] = p
    /\ pc[p] = "rotate" => tok[req[p].tok] = "live" /\ req[p].began # "revoked"
    /\ pc[p] = "reuseTokens" => famLock[req[p].sess] = p

\* Rows refer to rows that exist.
RowInv ==
  /\ \A t \in Tokens : tok[t] # "absent" =>
       tokFam[t] \in Sessions /\ fam[tokFam[t]] # "absent"
  /\ \A s \in Sessions : famLock[s] # None => fam[s] # "absent"

\* A login in progress owns its session, which has no family yet.
LoginInv ==
  \A p \in Procs : pc[p] \in {"loginCheck", "loginFamily"} =>
    /\ req[p].sess \in Sessions
    /\ sess[req[p].sess] # "absent"
    /\ fam[req[p].sess] = "absent"
    /\ \A q \in Procs :
         pc[q] \in {"loginCheck", "loginFamily"} /\ req[q].sess = req[p].sess
           => q = p

\* A family has a session.
SessInv == \A s \in Sessions : fam[s] # "absent" => sess[s] # "absent"

\* A revocation has locked every family it will revoke tokens of, unless the
\* family was revoked before.
RevokeInv ==
  \A p \in Procs :
    /\ pc[p] \in {"revokeFamilies", "revokeTokens"} =>
         \A s \in req[p].snapF : fam[s] # "absent"
    /\ pc[p] = "revokeTokens" =>
         \A s \in req[p].snapF : famLock[s] = p \/ fam[s] # "live"

IInv ==
  /\ TypeOK
  /\ RefreshInv /\ LockInv /\ RowInv /\ LoginInv /\ SessInv /\ RevokeInv
  /\ SingleLiveToken
  /\ LiveFamilyHasToken
  /\ ReuseKillsFamily
  /\ RevokedTokenMeansRevokedFamily

-----------------------------------------------------------------------------
(***************************************************************************)
(* The inductive invariant holds initially and every action keeps it.      *)
(***************************************************************************)

\* The empty request is a request.
LEMMA NoRequestType == NoRequest \in Request
BY ConstAssumption DEF NoRequest, Request, SessStates, FamStates

\* What the type invariant says of the fields of a request.
LEMMA RequestFields ==
  ASSUME TypeOK, NEW q \in Procs
  PROVE  /\ req[q].snapF \subseteq Sessions
         /\ req[q].now \in Nat
         /\ req[q].sess \in Sessions \cup {None}
         /\ req[q].user \in Users \cup {None}
BY DEF TypeOK, Request

\* A step that leaves the rows alone keeps what the invariant says of rows.
LEMMA FrameRows ==
  ASSUME IInv, UNCHANGED <<sess, fam, tok, tokFam>>
  PROVE  /\ SessInv' /\ SingleLiveToken' /\ LiveFamilyHasToken'
         /\ ReuseKillsFamily' /\ RevokedTokenMeansRevokedFamily'
BY DEF IInv, SessInv, SingleLiveToken, LiveFamilyHasToken, ReuseKillsFamily,
   RevokedTokenMeansRevokedFamily

\* Init establishes the invariant.
LEMMA InitIInv == Init => IInv
<1> SUFFICES ASSUME Init PROVE IInv
  OBVIOUS
<1> USE ConstAssumption DEF Init
<1>1. TypeOK
  BY NoRequestType DEF TypeOK, PCs, SessStates, FamStates
<1>2. RefreshInv /\ LockInv /\ RowInv /\ LoginInv /\ SessInv /\ RevokeInv
  BY DEF RefreshInv, LockInv, RowInv, LoginInv, SessInv, RevokeInv, RefreshPCs
<1>3. SingleLiveToken /\ LiveFamilyHasToken /\ ReuseKillsFamily
  BY DEF SingleLiveToken, LiveFamilyHasToken, ReuseKillsFamily
<1>4. RevokedTokenMeansRevokedFamily
  BY DEF RevokedTokenMeansRevokedFamily
<1> QED
  BY <1>1, <1>2, <1>3, <1>4 DEF IInv

\* BeginRefresh keeps the invariant.
LEMMA BeginRefreshIInv ==
  ASSUME IInv, NEW p \in Procs, BeginRefresh(p)
  PROVE  IInv'
<1> USE ConstAssumption DEF Goto, db, locks
<1>1. PICK t \in Tokens :
         /\ tok[t] # "absent"
         /\ req' = [req EXCEPT ![p] =
              [NoRequest EXCEPT !.tok = t, !.sess = tokFam[t], !.now = clock,
                                !.began = sess[tokFam[t]]]]
  BY DEF BeginRefresh
<1>2. /\ req' \in [Procs -> Request]
     /\ req'[p].tok = t /\ req'[p].sess = tokFam[t] /\ req'[p].began = sess[tokFam[t]]
     /\ \A q \in Procs : q # p => req'[q] = req[q]
  <2>1. clock \in Nat /\ tokFam[t] \in Sessions /\ sess[tokFam[t]] \in SessStates
    BY <1>1 DEF IInv, TypeOK, RowInv
  <2>2. [NoRequest EXCEPT !.tok = t, !.sess = tokFam[t], !.now = clock,
                         !.began = sess[tokFam[t]]] \in Request
    BY <2>1, NoRequestType DEF Request
  <2> QED
    BY <1>1, <2>2 DEF IInv, TypeOK, NoRequest
<1>3. TypeOK'
  BY <1>1, <1>2 DEF BeginRefresh, IInv, TypeOK, PCs, SessStates, FamStates
<1>4. RefreshInv'
  BY <1>1, <1>2 DEF BeginRefresh, IInv, TypeOK, RefreshInv, RowInv, RefreshPCs
<1>5. LockInv'
  BY <1>1, <1>2 DEF BeginRefresh, IInv, TypeOK, LockInv, RefreshPCs
<1>6. RowInv'
  BY <1>1, <1>2 DEF BeginRefresh, IInv, TypeOK, RowInv
<1>7. LoginInv'
  BY <1>1, <1>2 DEF BeginRefresh, IInv, TypeOK, LoginInv
<1>8. RevokeInv'
  BY <1>1, <1>2, RequestFields DEF BeginRefresh, IInv, TypeOK, RevokeInv
<1>9. UNCHANGED <<sess, fam, tok, tokFam>>
  BY DEF BeginRefresh
<1> QED
  BY <1>3, <1>4, <1>5, <1>6, <1>7, <1>8, <1>9, FrameRows DEF IInv

\* RotateLock keeps the invariant.
LEMMA RotateLockIInv ==
  ASSUME IInv, NEW p \in Procs, RotateLock(p)
  PROVE  IInv'
<1> USE ConstAssumption DEF Goto, db, locks
<1>1. TypeOK'
  BY DEF RotateLock, IInv, TypeOK, PCs, SessStates, FamStates
<1>2. RefreshInv'
  BY DEF RotateLock, IInv, TypeOK, RefreshInv, RefreshPCs
<1>3. LockInv'
  BY DEF RotateLock, IInv, TypeOK, LockInv, RefreshInv, RefreshPCs
<1>4. RowInv'
  BY DEF RotateLock, IInv, TypeOK, RowInv
<1>5. LoginInv'
  BY DEF RotateLock, IInv, TypeOK, LoginInv
<1>6. RevokeInv'
  BY RequestFields DEF RotateLock, IInv, TypeOK, RevokeInv
<1>7. UNCHANGED <<sess, fam, tok, tokFam>>
  BY DEF RotateLock
<1> QED
  BY <1>1, <1>2, <1>3, <1>4, <1>5, <1>6, <1>7, FrameRows DEF IInv

\* RotateReadFamily keeps the invariant.
LEMMA RotateReadFamilyIInv ==
  ASSUME IInv, NEW p \in Procs, RotateReadFamily(p)
  PROVE  IInv'
<1> USE ConstAssumption DEF Goto, db, locks
<1>1. /\ req' \in [Procs -> Request]
     /\ req'[p].tok = req[p].tok /\ req'[p].sess = req[p].sess
  /\ req'[p].began = req[p].began
     /\ \A q \in Procs : q # p => req'[q] = req[q]
  <2>1. fam[req[p].sess] \in FamStates /\ req[p] \in Request
    BY DEF RotateReadFamily, IInv, TypeOK, RefreshInv, RefreshPCs
  <2>2. [req[p] EXCEPT !.famRead = fam[req[p].sess]] \in Request
    BY <2>1 DEF Request
  <2>3. req' = [req EXCEPT ![p] = [req[p] EXCEPT !.famRead = fam[req[p].sess]]]
    BY DEF RotateReadFamily
  <2>4. req \in [Procs -> Request]
    BY DEF IInv, TypeOK
  <2> QED
    BY <2>1, <2>2, <2>3, <2>4 DEF Request
<1>2. TypeOK'
  BY <1>1 DEF RotateReadFamily, IInv, TypeOK, PCs, SessStates, FamStates
<1>3. RefreshInv'
  BY <1>1 DEF RotateReadFamily, IInv, TypeOK, RefreshInv, RefreshPCs
<1>4. LockInv'
  BY <1>1 DEF RotateReadFamily, IInv, TypeOK, LockInv, RefreshPCs
<1>5. RowInv'
  BY <1>1 DEF RotateReadFamily, IInv, TypeOK, RowInv
<1>6. LoginInv'
  BY <1>1 DEF RotateReadFamily, IInv, TypeOK, LoginInv
<1>7. RevokeInv'
  BY <1>1, RequestFields DEF RotateReadFamily, IInv, TypeOK, RevokeInv
<1>8. UNCHANGED <<sess, fam, tok, tokFam>>
  BY DEF RotateReadFamily
<1> QED
  BY <1>2, <1>3, <1>4, <1>5, <1>6, <1>7, <1>8, FrameRows DEF IInv

\* RotateReadSession keeps the invariant.
LEMMA RotateReadSessionIInv ==
  ASSUME IInv, NEW p \in Procs, RotateReadSession(p)
  PROVE  IInv'
<1> USE ConstAssumption DEF Goto, db, locks
<1>1. /\ req' \in [Procs -> Request]
     /\ TRUE
     /\ \A q \in Procs : q # p => req'[q] = req[q]
  BY NoRequestType DEF RotateReadSession, Finish, ReleaseLocks, TokenSpent, TokenExpired, ChainUsable, IInv, TypeOK, RowInv, RefreshInv, RefreshPCs,
     SessStates, FamStates, Request
<1>2. TypeOK'
  BY <1>1 DEF RotateReadSession, Finish, ReleaseLocks, TokenSpent, TokenExpired, ChainUsable, IInv, TypeOK, PCs, SessStates, FamStates
<1>3. RefreshInv'
  BY <1>1 DEF RotateReadSession, Finish, ReleaseLocks, TokenSpent,
     TokenExpired, ChainUsable, IInv, TypeOK, RefreshInv, RefreshPCs
<1>4. LockInv'
  BY <1>1 DEF RotateReadSession, Finish, ReleaseLocks, TokenSpent,
     TokenExpired, ChainUsable, IInv, TypeOK, LockInv, RefreshInv, RefreshPCs
<1>5. RowInv'
  BY <1>1 DEF RotateReadSession, Finish, ReleaseLocks, TokenSpent,
     TokenExpired, ChainUsable, IInv, TypeOK, RowInv
<1>6. LoginInv'
  BY <1>1 DEF RotateReadSession, Finish, ReleaseLocks, TokenSpent,
     TokenExpired, ChainUsable, IInv, TypeOK, LoginInv
<1>7. RevokeInv'
  BY <1>1, RequestFields DEF RotateReadSession, Finish, ReleaseLocks,
     TokenSpent, TokenExpired, ChainUsable, IInv, TypeOK, RevokeInv
<1>8. UNCHANGED <<sess, fam, tok, tokFam>>
  BY DEF RotateReadSession
<1> QED
  BY <1>2, <1>3, <1>4, <1>5, <1>6, <1>7, <1>8, FrameRows DEF IInv

\* RotateCommit keeps the invariant.
LEMMA RotateCommitIInv ==
  ASSUME IInv, NEW p \in Procs, RotateCommit(p)
  PROVE  IInv'
<1> USE ConstAssumption DEF Goto, db, locks
<1>1. /\ req' \in [Procs -> Request]
     /\ TRUE
     /\ \A q \in Procs : q # p => req'[q] = req[q]
  BY NoRequestType DEF RotateCommit, Finish, ReleaseLocks, IInv, TypeOK, RowInv, RefreshInv, RefreshPCs,
     SessStates, FamStates, Request
<1>2. TypeOK'
  BY <1>1, RequestFields DEF RotateCommit, Finish, ReleaseLocks, IInv, TypeOK, PCs, SessStates, FamStates
<1>3. RefreshInv'
  BY <1>1 DEF RotateCommit, Finish, ReleaseLocks, IInv, TypeOK, RefreshInv,
     RefreshPCs
<1>4. LockInv'
  BY <1>1 DEF RotateCommit, Finish, ReleaseLocks, IInv, TypeOK, LockInv,
     RefreshInv, RefreshPCs
<1>5. RowInv'
  BY <1>1 DEF RotateCommit, Finish, ReleaseLocks, IInv, TypeOK, RowInv,
     RefreshInv, RefreshPCs
<1>6. LoginInv'
  BY <1>1 DEF RotateCommit, Finish, ReleaseLocks, IInv, TypeOK, LoginInv
<1>7. SessInv'
  BY <1>1 DEF RotateCommit, Finish, ReleaseLocks, IInv, TypeOK, SessInv
<1>8. RevokeInv'
  BY <1>1, RequestFields DEF RotateCommit, Finish, ReleaseLocks, IInv, TypeOK,
     RevokeInv
<1>9. SingleLiveToken'
  BY <1>1 DEF RotateCommit, Finish, ReleaseLocks, IInv, TypeOK,
     SingleLiveToken, RefreshInv, LockInv, RefreshPCs
<1>10. LiveFamilyHasToken'
  BY <1>1 DEF RotateCommit, Finish, ReleaseLocks, IInv, TypeOK,
     LiveFamilyHasToken, RefreshInv, LockInv, RefreshPCs
<1>11. ReuseKillsFamily'
  BY <1>1 DEF RotateCommit, Finish, ReleaseLocks, IInv, TypeOK,
     ReuseKillsFamily, RefreshInv, LockInv, RefreshPCs
<1>12. RevokedTokenMeansRevokedFamily'
  BY <1>1 DEF RotateCommit, Finish, ReleaseLocks, IInv, TypeOK,
     RevokedTokenMeansRevokedFamily
<1> QED
  BY <1>2, <1>3, <1>4, <1>5, <1>6, <1>7, <1>8, <1>9, <1>10, <1>11, <1>12 DEF IInv

\* ReuseLockFamily keeps the invariant.
LEMMA ReuseLockFamilyIInv ==
  ASSUME IInv, NEW p \in Procs, ReuseLockFamily(p)
  PROVE  IInv'
<1> USE ConstAssumption DEF Goto, db, locks
<1>1. TypeOK'
  BY DEF ReuseLockFamily, IInv, TypeOK, PCs, SessStates, FamStates
<1>2. RefreshInv'
  BY DEF ReuseLockFamily, IInv, TypeOK, RefreshInv, RefreshPCs
<1>3. LockInv'
  BY DEF ReuseLockFamily, IInv, TypeOK, LockInv, RefreshInv, RefreshPCs
<1>4. RowInv'
  BY DEF ReuseLockFamily, IInv, TypeOK, RowInv, RefreshInv, RefreshPCs
<1>5. LoginInv'
  BY DEF ReuseLockFamily, IInv, TypeOK, LoginInv
<1>6. RevokeInv'
  BY RequestFields DEF ReuseLockFamily, IInv, TypeOK, RevokeInv
<1>7. UNCHANGED <<sess, fam, tok, tokFam>>
  BY DEF ReuseLockFamily
<1> QED
  BY <1>1, <1>2, <1>3, <1>4, <1>5, <1>6, <1>7, FrameRows DEF IInv

\* ReuseCommit keeps the invariant.
LEMMA ReuseCommitIInv ==
  ASSUME IInv, NEW p \in Procs, ReuseCommit(p)
  PROVE  IInv'
<1> USE ConstAssumption DEF Goto, db, locks
<1>1. /\ req' \in [Procs -> Request]
     /\ TRUE
     /\ \A q \in Procs : q # p => req'[q] = req[q]
  BY NoRequestType DEF ReuseCommit, Finish, ReleaseLocks, LiveTokens, TokensOf, IInv, TypeOK, RowInv, RefreshInv, RefreshPCs,
     SessStates, FamStates, Request
<1>2. TypeOK'
  BY <1>1 DEF ReuseCommit, Finish, ReleaseLocks, LiveTokens, TokensOf, IInv, TypeOK, PCs, SessStates, FamStates
<1>3. RefreshInv'
  BY <1>1 DEF ReuseCommit, Finish, ReleaseLocks, LiveTokens, TokensOf, IInv,
     TypeOK, RefreshInv, RefreshPCs
<1>4. LockInv'
  BY <1>1 DEF ReuseCommit, Finish, ReleaseLocks, LiveTokens, TokensOf, IInv,
     TypeOK, LockInv, RefreshInv, RowInv, RefreshPCs
<1>5. RowInv'
  BY <1>1 DEF ReuseCommit, Finish, ReleaseLocks, LiveTokens, TokensOf, IInv,
     TypeOK, RowInv
<1>6. LoginInv'
  BY <1>1 DEF ReuseCommit, Finish, ReleaseLocks, LiveTokens, TokensOf, IInv,
     TypeOK, LoginInv
<1>7. SessInv'
  BY <1>1 DEF ReuseCommit, Finish, ReleaseLocks, LiveTokens, TokensOf, IInv,
     TypeOK, SessInv
<1>8. RevokeInv'
  BY <1>1, RequestFields DEF ReuseCommit, Finish, ReleaseLocks, LiveTokens,
     TokensOf, IInv, TypeOK, RevokeInv
<1>9. SingleLiveToken'
  BY <1>1 DEF ReuseCommit, Finish, ReleaseLocks, LiveTokens, TokensOf, IInv,
     TypeOK, SingleLiveToken
<1>10. LiveFamilyHasToken'
  BY <1>1 DEF ReuseCommit, Finish, ReleaseLocks, LiveTokens, TokensOf, IInv,
     TypeOK, LiveFamilyHasToken
<1>11. ReuseKillsFamily'
  BY <1>1 DEF ReuseCommit, Finish, ReleaseLocks, LiveTokens, TokensOf, IInv,
     TypeOK, ReuseKillsFamily
<1>12. RevokedTokenMeansRevokedFamily'
  <2> DEFINE f == req[p].sess
  <2>1. /\ f \in Sessions /\ fam[f] \in FamStates /\ fam[f] # "absent"
        /\ tok \in [Tokens -> {"absent", "live", "consumed", "revoked"}]
    BY DEF ReuseCommit, IInv, TypeOK, RefreshInv, RefreshPCs, RowInv
  <2>2. fam' = [fam EXCEPT ![f] = IF @ = "live" THEN "reuse" ELSE @]
    BY DEF ReuseCommit
  <2>3. fam'[f] \in {"revoked", "reuse"}
    BY <2>1, <2>2 DEF IInv, TypeOK, FamStates
  <2>4. \A s \in Sessions : fam[s] \in {"revoked", "reuse"} => fam'[s] = fam[s]
    BY <2>1, <2>2 DEF IInv, TypeOK
  <2>5. \A t \in Tokens : tok'[t] = "revoked" => tokFam[t] = f \/ tok[t] = "revoked"
    BY DEF ReuseCommit, LiveTokens, TokensOf
  <2>6. \A t \in Tokens : tok[t] = "revoked" => tokFam[t] \in Sessions
    BY DEF IInv, RowInv
  <2>7. tokFam' = tokFam
    BY DEF ReuseCommit
  <2> QED
    BY <2>3, <2>4, <2>5, <2>6, <2>7 DEF IInv, RevokedTokenMeansRevokedFamily
<1> QED
  BY <1>2, <1>3, <1>4, <1>5, <1>6, <1>7, <1>8, <1>9, <1>10, <1>11, <1>12 DEF IInv

\* RevokeSession keeps the invariant.
LEMMA RevokeSessionIInv ==
  ASSUME IInv, NEW p \in Procs, RevokeSession(p)
  PROVE  IInv'
<1> USE ConstAssumption DEF Goto, db, locks
<1>1. PICK s \in Sessions :
         /\ sess[s] # "absent"
         /\ RevokeSessions({s})
         /\ req' = [req EXCEPT ![p] =
              [NoRequest EXCEPT !.sess = s, !.user = sessUser[s]]]
  BY DEF RevokeSession
<1>2. /\ req' \in [Procs -> Request]
     /\ TRUE
     /\ \A q \in Procs : q # p => req'[q] = req[q]
  BY <1>1, NoRequestType DEF RevokeSession, RevokeSessions, Revocable, IInv, TypeOK, RowInv, RefreshInv, RefreshPCs,
     SessStates, FamStates, Request
<1>3. TypeOK'
  BY <1>1, <1>2 DEF RevokeSession, RevokeSessions, Revocable, IInv, TypeOK, PCs, SessStates, FamStates
<1>4. RefreshInv'
  BY <1>1, <1>2 DEF RevokeSession, RevokeSessions, Revocable, IInv, TypeOK,
     RefreshInv, RefreshPCs
<1>5. LockInv'
  BY <1>1, <1>2 DEF RevokeSession, RevokeSessions, Revocable, IInv, TypeOK,
     LockInv, RefreshPCs
<1>6. RowInv'
  BY <1>1, <1>2 DEF RevokeSession, RevokeSessions, Revocable, IInv, TypeOK,
     RowInv
<1>7. LoginInv'
  BY <1>1, <1>2 DEF RevokeSession, RevokeSessions, Revocable, IInv, TypeOK,
     LoginInv
<1>8. SessInv'
  BY <1>1, <1>2 DEF RevokeSession, RevokeSessions, Revocable, IInv, TypeOK,
     SessInv
<1>9. RevokeInv'
  BY <1>1, <1>2, RequestFields DEF RevokeSession, RevokeSessions, Revocable,
     IInv, TypeOK, RevokeInv
<1>10. SingleLiveToken'
  BY <1>1, <1>2 DEF RevokeSession, RevokeSessions, Revocable, IInv, TypeOK,
     SingleLiveToken
<1>11. LiveFamilyHasToken'
  BY <1>1, <1>2 DEF RevokeSession, RevokeSessions, Revocable, IInv, TypeOK,
     LiveFamilyHasToken
<1>12. ReuseKillsFamily'
  BY <1>1, <1>2 DEF RevokeSession, RevokeSessions, Revocable, IInv, TypeOK,
     ReuseKillsFamily
<1>13. RevokedTokenMeansRevokedFamily'
  BY <1>1, <1>2 DEF RevokeSession, RevokeSessions, Revocable, IInv, TypeOK,
     RevokedTokenMeansRevokedFamily
<1> QED
  BY <1>3, <1>4, <1>5, <1>6, <1>7, <1>8, <1>9, <1>10, <1>11, <1>12, <1>13 DEF IInv

\* RevokeAllSessions keeps the invariant.
LEMMA RevokeAllSessionsIInv ==
  ASSUME IInv, NEW p \in Procs, RevokeAllSessions(p)
  PROVE  IInv'
<1> USE ConstAssumption DEF Goto, db, locks
<1>1. PICK u \in Users :
         /\ RevokeSessions({s \in Sessions : sessUser[s] = u})
         /\ req' = [req EXCEPT ![p] = [NoRequest EXCEPT !.user = u]]
  BY DEF RevokeAllSessions
<1>2. /\ req' \in [Procs -> Request]
     /\ TRUE
     /\ \A q \in Procs : q # p => req'[q] = req[q]
  BY <1>1, NoRequestType DEF RevokeAllSessions, RevokeSessions, Revocable, IInv, TypeOK, RowInv, RefreshInv, RefreshPCs,
     SessStates, FamStates, Request
<1>3. TypeOK'
  BY <1>1, <1>2 DEF RevokeAllSessions, RevokeSessions, Revocable, IInv, TypeOK, PCs, SessStates, FamStates
<1>4. RefreshInv'
  BY <1>1, <1>2 DEF RevokeAllSessions, RevokeSessions, Revocable, IInv, TypeOK,
     RefreshInv, RefreshPCs
<1>5. LockInv'
  BY <1>1, <1>2 DEF RevokeAllSessions, RevokeSessions, Revocable, IInv, TypeOK,
     LockInv, RefreshPCs
<1>6. RowInv'
  BY <1>1, <1>2 DEF RevokeAllSessions, RevokeSessions, Revocable, IInv, TypeOK,
     RowInv
<1>7. LoginInv'
  BY <1>1, <1>2 DEF RevokeAllSessions, RevokeSessions, Revocable, IInv, TypeOK,
     LoginInv
<1>8. SessInv'
  BY <1>1, <1>2 DEF RevokeAllSessions, RevokeSessions, Revocable, IInv, TypeOK,
     SessInv
<1>9. RevokeInv'
  BY <1>1, <1>2, RequestFields DEF RevokeAllSessions, RevokeSessions,
     Revocable, IInv, TypeOK, RevokeInv
<1>10. SingleLiveToken'
  BY <1>1, <1>2 DEF RevokeAllSessions, RevokeSessions, Revocable, IInv, TypeOK,
     SingleLiveToken
<1>11. LiveFamilyHasToken'
  BY <1>1, <1>2 DEF RevokeAllSessions, RevokeSessions, Revocable, IInv, TypeOK,
     LiveFamilyHasToken
<1>12. ReuseKillsFamily'
  BY <1>1, <1>2 DEF RevokeAllSessions, RevokeSessions, Revocable, IInv, TypeOK,
     ReuseKillsFamily
<1>13. RevokedTokenMeansRevokedFamily'
  BY <1>1, <1>2 DEF RevokeAllSessions, RevokeSessions, Revocable, IInv, TypeOK,
     RevokedTokenMeansRevokedFamily
<1> QED
  BY <1>3, <1>4, <1>5, <1>6, <1>7, <1>8, <1>9, <1>10, <1>11, <1>12, <1>13 DEF IInv

\* RevokeBegin keeps the invariant.
LEMMA RevokeBeginIInv ==
  ASSUME IInv, NEW p \in Procs, RevokeBegin(p)
  PROVE  IInv'
<1> USE ConstAssumption DEF Goto, db, locks
<1>1. /\ req' \in [Procs -> Request]
     /\ req'[p].snapF = {s \in Sessions : /\ fam[s] # "absent"
                                 /\ sessUser[s] = req[p].user
                                 /\ req[p].sess \in {None, s}}
     /\ \A q \in Procs : q # p => req'[q] = req[q]
  <2> DEFINE scope == {s \in Sessions : /\ fam[s] # "absent"
                                       /\ sessUser[s] = req[p].user
                                       /\ req[p].sess \in {None, s}}
             r == [req[p] EXCEPT !.snapF = scope, !.snapT = TokensOf(scope)]
  <2>1. req' = [req EXCEPT ![p] = r]
    BY DEF RevokeBegin
  <2>2. TokensOf(scope) \subseteq Tokens /\ scope \subseteq Sessions
    BY DEF TokensOf
  <2>3. req \in [Procs -> Request] /\ req[p] \in Request
    BY DEF IInv, TypeOK
  <2> HIDE DEF scope
  <2>4. r \in Request /\ r.snapF = scope
    BY <2>2, <2>3 DEF Request
  <2> HIDE DEF r
  <2>5. req' \in [Procs -> Request] /\ req'[p] = r
    BY <2>1, <2>3, <2>4
  <2> QED
    BY <2>1, <2>3, <2>4, <2>5 DEF scope
<1>2. TypeOK'
  BY <1>1 DEF RevokeBegin, TokensOf, IInv, TypeOK, PCs, SessStates, FamStates
<1>3. RefreshInv'
  BY <1>1 DEF RevokeBegin, TokensOf, IInv, TypeOK, RefreshInv, RefreshPCs
<1>4. LockInv'
  BY <1>1 DEF RevokeBegin, TokensOf, IInv, TypeOK, LockInv, RefreshPCs
<1>5. RowInv'
  BY <1>1 DEF RevokeBegin, TokensOf, IInv, TypeOK, RowInv
<1>6. LoginInv'
  BY <1>1 DEF RevokeBegin, TokensOf, IInv, TypeOK, LoginInv
<1>7. RevokeInv'
  BY <1>1, RequestFields DEF RevokeBegin, TokensOf, IInv, TypeOK, RevokeInv
<1>8. UNCHANGED <<sess, fam, tok, tokFam>>
  BY DEF RevokeBegin
<1> QED
  BY <1>2, <1>3, <1>4, <1>5, <1>6, <1>7, <1>8, FrameRows DEF IInv

\* RevokeLockFamilies keeps the invariant.
LEMMA RevokeLockFamiliesIInv ==
  ASSUME IInv, NEW p \in Procs, RevokeLockFamilies(p)
  PROVE  IInv'
<1> USE ConstAssumption DEF Goto, db, locks
<1>1. TypeOK'
  BY DEF RevokeLockFamilies, IInv, TypeOK, PCs, SessStates, FamStates
<1>2. RefreshInv'
  BY DEF RevokeLockFamilies, IInv, TypeOK, RefreshInv, RefreshPCs
<1>3. LockInv'
  BY DEF RevokeLockFamilies, IInv, TypeOK, LockInv, RefreshInv, RefreshPCs
<1>4. RowInv'
  BY DEF RevokeLockFamilies, IInv, TypeOK, RowInv
<1>5. LoginInv'
  BY DEF RevokeLockFamilies, IInv, TypeOK, LoginInv
<1>6. RevokeInv'
  BY RequestFields DEF RevokeLockFamilies, IInv, TypeOK, RevokeInv
<1>7. UNCHANGED <<sess, fam, tok, tokFam>>
  BY DEF RevokeLockFamilies
<1> QED
  BY <1>1, <1>2, <1>3, <1>4, <1>5, <1>6, <1>7, FrameRows DEF IInv

\* RevokeCommit keeps the invariant.
LEMMA RevokeCommitIInv ==
  ASSUME IInv, NEW p \in Procs, RevokeCommit(p)
  PROVE  IInv'
<1> USE ConstAssumption DEF Goto, db, locks
<1>1. /\ req' \in [Procs -> Request]
     /\ TRUE
     /\ \A q \in Procs : q # p => req'[q] = req[q]
  BY NoRequestType DEF RevokeCommit, Finish, ReleaseLocks, LiveTokens, TokensOf, IInv, TypeOK, RowInv, RefreshInv, RefreshPCs,
     SessStates, FamStates, Request
<1>2. TypeOK'
  BY <1>1 DEF RevokeCommit, Finish, ReleaseLocks, LiveTokens, TokensOf, IInv, TypeOK, PCs, SessStates, FamStates
<1>3. RefreshInv'
  BY <1>1 DEF RevokeCommit, Finish, ReleaseLocks, LiveTokens, TokensOf, IInv,
     TypeOK, RefreshInv, RefreshPCs
<1>4. LockInv'
  BY <1>1 DEF RevokeCommit, Finish, ReleaseLocks, LiveTokens, TokensOf, IInv,
     TypeOK, LockInv, RefreshInv, RefreshPCs
<1>5. RowInv'
  BY <1>1 DEF RevokeCommit, Finish, ReleaseLocks, LiveTokens, TokensOf, IInv,
     TypeOK, RowInv
<1>6. LoginInv'
  BY <1>1 DEF RevokeCommit, Finish, ReleaseLocks, LiveTokens, TokensOf, IInv,
     TypeOK, LoginInv, RowInv
<1>7. SessInv'
  BY <1>1 DEF RevokeCommit, Finish, ReleaseLocks, LiveTokens, TokensOf, IInv,
     TypeOK, SessInv, RowInv
<1>8. RevokeInv'
  BY <1>1, RequestFields DEF RevokeCommit, Finish, ReleaseLocks, LiveTokens,
     TokensOf, IInv, TypeOK, RevokeInv
<1>9. SingleLiveToken'
  BY <1>1 DEF RevokeCommit, Finish, ReleaseLocks, LiveTokens, TokensOf, IInv,
     TypeOK, SingleLiveToken
<1>10. LiveFamilyHasToken'
  BY <1>1 DEF RevokeCommit, Finish, ReleaseLocks, LiveTokens, TokensOf, IInv,
     TypeOK, LiveFamilyHasToken, RevokeInv
<1>11. ReuseKillsFamily'
  BY <1>1 DEF RevokeCommit, Finish, ReleaseLocks, LiveTokens, TokensOf, IInv,
     TypeOK, ReuseKillsFamily
<1>12. RevokedTokenMeansRevokedFamily'
  <2>1. /\ \A s \in Sessions : fam[s] \in FamStates
        /\ req[p].snapF \subseteq Sessions
    BY RequestFields DEF IInv, TypeOK
  <2>2. \A s \in Sessions : fam'[s] = IF famLock[s] = p THEN "revoked" ELSE fam[s]
    BY DEF RevokeCommit
  <2>3. \A s \in req[p].snapF : fam'[s] \in {"revoked", "reuse"}
    BY <2>1, <2>2 DEF RevokeCommit, IInv, RevokeInv, FamStates
  <2>4. \A t \in Tokens :
          tok'[t] = "revoked" => tok[t] = "revoked" \/ tokFam[t] \in req[p].snapF
    BY DEF RevokeCommit, LiveTokens, TokensOf
  <2>5. \A t \in Tokens : tok[t] = "revoked" => tokFam[t] \in Sessions
    BY DEF IInv, RowInv
  <2>6. tokFam' = tokFam
    BY DEF RevokeCommit
  <2> QED
    BY <2>2, <2>3, <2>4, <2>5, <2>6 DEF IInv, RevokedTokenMeansRevokedFamily
<1> QED
  BY <1>2, <1>3, <1>4, <1>5, <1>6, <1>7, <1>8, <1>9, <1>10, <1>11, <1>12 DEF IInv

\* DisableUser keeps the invariant.
LEMMA DisableUserIInv ==
  ASSUME IInv, NEW p \in Procs, DisableUser(p)
  PROVE  IInv'
<1> USE ConstAssumption DEF Goto, db, locks
<1>1. PICK u \in Users :
         req' = [req EXCEPT ![p] = [NoRequest EXCEPT !.user = u]]
  BY DEF DisableUser
<1>2. /\ req' \in [Procs -> Request]
     /\ TRUE
     /\ \A q \in Procs : q # p => req'[q] = req[q]
  <2>1. [NoRequest EXCEPT !.user = u] \in Request
    BY <1>1 DEF IInv, TypeOK, RowInv, NoRequest, Request, SessStates, FamStates
  <2> QED
    BY <1>1, <2>1 DEF IInv, TypeOK, NoRequest
<1>3. TypeOK'
  BY <1>1, <1>2 DEF DisableUser, IInv, TypeOK, PCs, SessStates, FamStates
<1>4. RefreshInv'
  BY <1>1, <1>2 DEF DisableUser, IInv, TypeOK, RefreshInv, RefreshPCs
<1>5. LockInv'
  BY <1>1, <1>2 DEF DisableUser, IInv, TypeOK, LockInv, RefreshPCs
<1>6. RowInv'
  BY <1>1, <1>2 DEF DisableUser, IInv, TypeOK, RowInv
<1>7. LoginInv'
  BY <1>1, <1>2 DEF DisableUser, IInv, TypeOK, LoginInv
<1>8. RevokeInv'
  BY <1>1, <1>2, RequestFields DEF DisableUser, IInv, TypeOK, RevokeInv
<1>9. UNCHANGED <<sess, fam, tok, tokFam>>
  BY DEF DisableUser
<1> QED
  BY <1>3, <1>4, <1>5, <1>6, <1>7, <1>8, <1>9, FrameRows DEF IInv

\* LoginBegin keeps the invariant.
LEMMA LoginBeginIInv ==
  ASSUME IInv, NEW p \in Procs, LoginBegin(p)
  PROVE  IInv'
<1> USE ConstAssumption DEF Goto, db, locks
<1>1. PICK u \in Users :
         req' = [req EXCEPT ![p] = [NoRequest EXCEPT !.user = u, !.now = clock]]
  BY DEF LoginBegin
<1>2. /\ req' \in [Procs -> Request]
     /\ TRUE
     /\ \A q \in Procs : q # p => req'[q] = req[q]
  <2>1. clock \in Nat
    BY DEF IInv, TypeOK
  <2>2. [NoRequest EXCEPT !.user = u, !.now = clock] \in Request
    BY <2>1, NoRequestType DEF Request
  <2> QED
    BY <1>1, <2>2 DEF IInv, TypeOK
<1>3. TypeOK'
  BY <1>1, <1>2 DEF LoginBegin, IInv, TypeOK, PCs, SessStates, FamStates
<1>4. RefreshInv'
  BY <1>1, <1>2 DEF LoginBegin, IInv, TypeOK, RefreshInv, RefreshPCs
<1>5. LockInv'
  BY <1>1, <1>2 DEF LoginBegin, IInv, TypeOK, LockInv, RefreshPCs
<1>6. RowInv'
  BY <1>1, <1>2 DEF LoginBegin, IInv, TypeOK, RowInv
<1>7. LoginInv'
  BY <1>1, <1>2 DEF LoginBegin, IInv, TypeOK, LoginInv
<1>8. RevokeInv'
  BY <1>1, <1>2, RequestFields DEF LoginBegin, IInv, TypeOK, RevokeInv
<1>9. UNCHANGED <<sess, fam, tok, tokFam>>
  BY DEF LoginBegin
<1> QED
  BY <1>3, <1>4, <1>5, <1>6, <1>7, <1>8, <1>9, FrameRows DEF IInv

\* LoginCreateSession keeps the invariant.
LEMMA LoginCreateSessionIInv ==
  ASSUME IInv, NEW p \in Procs, LoginCreateSession(p)
  PROVE  IInv'
<1> USE ConstAssumption DEF Goto, db, locks
<1>1. PICK s \in Sessions :
         /\ sess[s] = "absent"
         /\ sess' = [sess EXCEPT ![s] = "live"]
         /\ sessUser' = [sessUser EXCEPT ![s] = req[p].user]
         /\ sessExp' = [sessExp EXCEPT ![s] = req[p].now + Ttl]
         /\ req' = [req EXCEPT ![p].sess = s]
  BY DEF LoginCreateSession
<1>2. /\ req' \in [Procs -> Request]
     /\ req'[p].sess = s
     /\ \A q \in Procs : q # p => req'[q] = req[q]
  <2>1. req \in [Procs -> Request] /\ req[p] \in Request
    BY DEF IInv, TypeOK
  <2>2. [req[p] EXCEPT !.sess = s] \in Request
    BY <2>1 DEF Request
  <2>3. req' = [req EXCEPT ![p] = [req[p] EXCEPT !.sess = s]]
    BY <1>1
  <2> QED
    BY <2>1, <2>2, <2>3 DEF Request
<1>3. TypeOK'
  BY <1>1, <1>2, RequestFields DEF LoginCreateSession, IInv, TypeOK, PCs, SessStates, FamStates
<1>4. RefreshInv'
  BY <1>1, <1>2 DEF LoginCreateSession, IInv, TypeOK, RefreshInv, RefreshPCs
<1>5. LockInv'
  BY <1>1, <1>2 DEF LoginCreateSession, IInv, TypeOK, LockInv, RefreshPCs
<1>6. RowInv'
  BY <1>1, <1>2 DEF LoginCreateSession, IInv, TypeOK, RowInv
<1>7. LoginInv'
  BY <1>1, <1>2 DEF LoginCreateSession, IInv, TypeOK, LoginInv, SessInv
<1>8. SessInv'
  BY <1>1, <1>2 DEF LoginCreateSession, IInv, TypeOK, SessInv
<1>9. RevokeInv'
  BY <1>1, <1>2, RequestFields DEF LoginCreateSession, IInv, TypeOK, RevokeInv
<1>10. SingleLiveToken'
  BY <1>1, <1>2 DEF LoginCreateSession, IInv, TypeOK, SingleLiveToken
<1>11. LiveFamilyHasToken'
  BY <1>1, <1>2 DEF LoginCreateSession, IInv, TypeOK, LiveFamilyHasToken
<1>12. ReuseKillsFamily'
  BY <1>1, <1>2 DEF LoginCreateSession, IInv, TypeOK, ReuseKillsFamily
<1>13. RevokedTokenMeansRevokedFamily'
  BY <1>1, <1>2 DEF LoginCreateSession, IInv, TypeOK,
     RevokedTokenMeansRevokedFamily
<1> QED
  BY <1>3, <1>4, <1>5, <1>6, <1>7, <1>8, <1>9, <1>10, <1>11, <1>12, <1>13 DEF IInv

\* LoginCheckSession keeps the invariant.
LEMMA LoginCheckSessionIInv ==
  ASSUME IInv, NEW p \in Procs, LoginCheckSession(p)
  PROVE  IInv'
<1> USE ConstAssumption DEF Goto, db, locks
<1>1. TypeOK'
  BY DEF LoginCheckSession, IInv, TypeOK, PCs, SessStates, FamStates
<1>2. RefreshInv'
  BY DEF LoginCheckSession, IInv, TypeOK, RefreshInv, RefreshPCs
<1>3. LockInv'
  BY DEF LoginCheckSession, IInv, TypeOK, LockInv, RefreshPCs
<1>4. RowInv'
  BY DEF LoginCheckSession, IInv, TypeOK, RowInv
<1>5. LoginInv'
  BY DEF LoginCheckSession, IInv, TypeOK, LoginInv
<1>6. RevokeInv'
  BY RequestFields DEF LoginCheckSession, IInv, TypeOK, RevokeInv
<1>7. UNCHANGED <<sess, fam, tok, tokFam>>
  BY DEF LoginCheckSession
<1> QED
  BY <1>1, <1>2, <1>3, <1>4, <1>5, <1>6, <1>7, FrameRows DEF IInv

\* LoginCreateFamily keeps the invariant.
LEMMA LoginCreateFamilyIInv ==
  ASSUME IInv, NEW p \in Procs, LoginCreateFamily(p)
  PROVE  IInv'
<1> USE ConstAssumption DEF Goto, db, locks
<1>1. /\ req' \in [Procs -> Request]
     /\ TRUE
     /\ \A q \in Procs : q # p => req'[q] = req[q]
  BY NoRequestType DEF LoginCreateFamily, Finish, ReleaseLocks, IInv, TypeOK, RowInv, RefreshInv, RefreshPCs,
     SessStates, FamStates, Request
<1>2. TypeOK'
  <2>1. req[p].sess \in Sessions /\ req[p].now + Ttl \in Nat
    BY RequestFields DEF LoginCreateFamily, IInv, LoginInv
  <2> QED
    BY <1>1, <2>1 DEF LoginCreateFamily, Finish, ReleaseLocks, IInv, TypeOK, PCs,
       FamStates
<1>3. RefreshInv'
  BY <1>1 DEF LoginCreateFamily, Finish, ReleaseLocks, IInv, TypeOK,
     RefreshInv, RefreshPCs
<1>4. LockInv'
  BY <1>1 DEF LoginCreateFamily, Finish, ReleaseLocks, IInv, TypeOK, LockInv,
     RefreshInv, RefreshPCs
<1>5. RowInv'
  BY <1>1 DEF LoginCreateFamily, Finish, ReleaseLocks, IInv, TypeOK, RowInv,
     LoginInv
<1>6. LoginInv'
  BY <1>1 DEF LoginCreateFamily, Finish, ReleaseLocks, IInv, TypeOK, LoginInv
<1>7. SessInv'
  BY <1>1 DEF LoginCreateFamily, Finish, ReleaseLocks, IInv, TypeOK, SessInv,
     LoginInv
<1>8. RevokeInv'
  BY <1>1, RequestFields DEF LoginCreateFamily, Finish, ReleaseLocks, IInv,
     TypeOK, RevokeInv, LoginInv
<1>9. SingleLiveToken'
  BY <1>1 DEF LoginCreateFamily, Finish, ReleaseLocks, IInv, TypeOK,
     SingleLiveToken, LoginInv, RowInv
<1>10. LiveFamilyHasToken'
  BY <1>1 DEF LoginCreateFamily, Finish, ReleaseLocks, IInv, TypeOK,
     LiveFamilyHasToken
<1>11. ReuseKillsFamily'
  BY <1>1 DEF LoginCreateFamily, Finish, ReleaseLocks, IInv, TypeOK,
     ReuseKillsFamily
<1>12. RevokedTokenMeansRevokedFamily'
  BY <1>1 DEF LoginCreateFamily, Finish, ReleaseLocks, IInv, TypeOK,
     RevokedTokenMeansRevokedFamily, LoginInv, RowInv
<1> QED
  BY <1>2, <1>3, <1>4, <1>5, <1>6, <1>7, <1>8, <1>9, <1>10, <1>11, <1>12 DEF IInv

\* Abort keeps the invariant.
LEMMA AbortIInv ==
  ASSUME IInv, NEW p \in Procs, Abort(p)
  PROVE  IInv'
<1> USE ConstAssumption DEF Goto, db, locks
<1>1. /\ req' \in [Procs -> Request]
     /\ TRUE
     /\ \A q \in Procs : q # p => req'[q] = req[q]
  BY NoRequestType DEF Abort, Finish, ReleaseLocks, IInv, TypeOK, RowInv, RefreshInv, RefreshPCs,
     SessStates, FamStates, Request
<1>2. TypeOK'
  BY <1>1 DEF Abort, Finish, ReleaseLocks, IInv, TypeOK, PCs, SessStates, FamStates
<1>3. RefreshInv'
  BY <1>1 DEF Abort, Finish, ReleaseLocks, IInv, TypeOK, RefreshInv, RefreshPCs
<1>4. LockInv'
  BY <1>1 DEF Abort, Finish, ReleaseLocks, IInv, TypeOK, LockInv, RefreshInv,
     RefreshPCs
<1>5. RowInv'
  BY <1>1 DEF Abort, Finish, ReleaseLocks, IInv, TypeOK, RowInv
<1>6. LoginInv'
  BY <1>1 DEF Abort, Finish, ReleaseLocks, IInv, TypeOK, LoginInv
<1>7. RevokeInv'
  BY <1>1, RequestFields DEF Abort, Finish, ReleaseLocks, IInv, TypeOK,
     RevokeInv
<1>8. UNCHANGED <<sess, fam, tok, tokFam>>
  BY DEF Abort
<1> QED
  BY <1>2, <1>3, <1>4, <1>5, <1>6, <1>7, <1>8, FrameRows DEF IInv

\* Every step of the system keeps the invariant.
LEMMA NextIInv == IInv /\ [Next]_vars => IInv'
<1> SUFFICES ASSUME IInv, [Next]_vars PROVE IInv'
  OBVIOUS
<1>1. ASSUME NEW p \in Procs, Step(p) PROVE IInv'
  BY <1>1, BeginRefreshIInv, RotateLockIInv, RotateReadFamilyIInv,
     RotateReadSessionIInv, RotateCommitIInv, ReuseLockFamilyIInv,
     ReuseCommitIInv, RevokeSessionIInv, RevokeAllSessionsIInv,
     RevokeBeginIInv, RevokeLockFamiliesIInv, RevokeCommitIInv,
     DisableUserIInv, LoginBeginIInv, LoginCreateSessionIInv,
     LoginCheckSessionIInv, LoginCreateFamilyIInv, AbortIInv
     DEF Step
<1>2. CASE UNCHANGED <<sess, sessUser, sessExp, fam, tok, tokFam, tokExp, locks, pc, req>>
           /\ TypeOK'
  BY <1>2 DEF IInv, locks, RefreshInv, LockInv, RowInv, LoginInv, SessInv, RevokeInv,
     SingleLiveToken, LiveFamilyHasToken, ReuseKillsFamily,
     RevokedTokenMeansRevokedFamily
<1>3. CASE EnableUser
  BY <1>2, <1>3 DEF EnableUser, IInv, TypeOK, locks
<1>4. CASE Tick
  BY <1>2, <1>4, ConstAssumption DEF Tick, IInv, TypeOK, db, locks
<1>5. CASE UNCHANGED vars
  BY <1>2, <1>5 DEF vars, db, locks, IInv, TypeOK
<1> QED
  BY <1>1, <1>3, <1>4, <1>5 DEF Next

\* The invariant holds in every reachable state.
THEOREM Invariance == Spec => []IInv
BY InitIInv, NextIInv, PTL DEF Spec

-----------------------------------------------------------------------------
(***************************************************************************)
(* The results.                                                            *)
(***************************************************************************)

\* No operation of the auth services leaves the state space.
THEOREM TypeCorrect == Spec => []TypeOK
<1>1. IInv => TypeOK
  BY DEF IInv
<1> QED
  BY Invariance, <1>1, PTL

\* However many requests race, a family never has two live refresh tokens.
THEOREM OneLiveToken == Spec => []SingleLiveToken
<1>1. IInv => SingleLiveToken
  BY DEF IInv
<1> QED
  BY Invariance, <1>1, PTL

\* Neither does it lose its last one while nobody has revoked it: a rotation
\* that aborts or races takes no token away without putting one in its place.
THEOREM ChainUnbroken == Spec => []LiveFamilyHasToken
<1>1. IInv => LiveFamilyHasToken
  BY DEF IInv
<1> QED
  BY Invariance, <1>1, PTL

\* A family on which reuse was recorded has a revoked session and no live
\* token, whatever rotations were under way.
THEOREM ReuseIsFinal == Spec => []ReuseKillsFamily
<1>1. IInv => ReuseKillsFamily
  BY DEF IInv
<1> QED
  BY Invariance, <1>1, PTL

\* A token revoked by a logout or a security event belongs to a revoked family,
\* so presenting it is never reported as reuse.
THEOREM NoFalseReuse == Spec => []RevokedTokenMeansRevokedFamily
<1>1. IInv => RevokedTokenMeansRevokedFamily
  BY DEF IInv
<1> QED
  BY Invariance, <1>1, PTL

\* A refresh that begins after its session was revoked never rotates.
THEOREM RevocationSticks == Spec => RefusedOnceRevoked
<1>1. IInv /\ [Next]_vars => [\A p \in Procs : RotateCommit(p) => req[p].began # "revoked"]_vars
  BY DEF IInv, LockInv, RotateCommit
<1> QED
  BY Invariance, <1>1, PTL DEF Spec, RefusedOnceRevoked

-----------------------------------------------------------------------------
(***************************************************************************)
(* RefreshTokens implements TokenChain.                                    *)
(***************************************************************************)

\* The abstract state of a chain is the set of live tokens of the family.
LEMMA CurrentIs ==
  \A s \in Sessions : Current(s) = {t \in Tokens : tok[t] = "live" /\ tokFam[t] = s}
BY DEF Current, LiveTokens, TokensOf

\* The same in the next state.
LEMMA CurrentNext ==
  \A s \in Sessions : Current(s)' = {t \in Tokens : tok'[t] = "live" /\ tokFam'[t] = s}
BY DEF Current, LiveTokens, TokensOf

\* A step that only revokes tokens closes chains: a family has at most one
\* live token, so it keeps it or has none.
LEMMA RevokingCloses ==
  ASSUME IInv, NEW T \in SUBSET Tokens, tokFam' = tokFam,
         tok' = [t \in Tokens |-> IF t \in T THEN "revoked" ELSE tok[t]],
         \A t \in T : tok[t] = "live"
  PROVE  Chain!Close
<1> DEFINE C == {s \in Sessions : Current(s)' = {}}
<1>1. ASSUME NEW s \in Sessions, s \notin C PROVE Current(s)' = Current(s)
  <2>1. Current(s)' = {t \in Tokens : t \notin T /\ tok[t] = "live" /\ tokFam[t] = s}
    BY CurrentNext
  <2>2. PICK u \in Current(s)' : TRUE
    BY <1>1
  <2>3. \A t \in Current(s) : t = u
    BY <2>1, <2>2, CurrentIs DEF IInv, SingleLiveToken
  <2> QED
    BY <2>1, <2>2, <2>3, CurrentIs
<1>2. [s \in Sessions |-> Current(s)]' = [s \in Sessions |-> IF s \in C THEN {} ELSE Current(s)]
  BY <1>1
<1>3. {t \in Tokens : tok[t] # "absent"}' = {t \in Tokens : tok[t] # "absent"}
  BY DEF IInv, TypeOK
<1> HIDE DEF C
<1>4. C \in SUBSET Sessions
  BY DEF C
<1> QED
  BY <1>2, <1>3, <1>4 DEF Chain!Close

\* A step that leaves the token rows alone is a stuttering step of the chains.
LEMMA SameChains ==
  ASSUME UNCHANGED <<tok, tokFam>>
  PROVE  UNCHANGED <<[s \in Sessions |-> Current(s)], {t \in Tokens : tok[t] # "absent"}>>
BY CurrentIs, CurrentNext

\* A rotation exchanges the current credential of the chain.
LEMMA RotationExchanges ==
  ASSUME IInv, NEW p \in Procs, RotateCommit(p)
  PROVE  \E c \in Sessions : Chain!Exchange(c)
<1>0. PICK f \in Sessions, old \in Tokens :
        /\ f = req[p].sess /\ old = req[p].tok
        /\ tok[old] = "live" /\ tokFam[old] = f
  BY DEF RotateCommit, IInv, RefreshInv, LockInv, RefreshPCs
<1>1. PICK n \in Tokens :
        /\ tok[n] = "absent"
        /\ tok' = [tok EXCEPT ![old] = "consumed", ![n] = "live"]
        /\ tokFam' = [tokFam EXCEPT ![n] = f]
  BY <1>0 DEF RotateCommit
<1>2. tok[old] = "live" /\ tokFam[old] = f
  BY <1>0
<1>3. Current(f) = {old}
  BY <1>2, CurrentIs DEF IInv, SingleLiveToken
<1>4. /\ Current(f)' = {n}
      /\ \A s \in Sessions : s # f => Current(s)' = Current(s)
  <2>1. \A t \in Tokens : tok'[t] = "live" <=> t = n \/ (t # old /\ tok[t] = "live")
    BY <1>1, <1>2 DEF IInv, TypeOK
  <2>2. \A t \in Tokens : tokFam'[t] = IF t = n THEN f ELSE tokFam[t]
    BY <1>1 DEF IInv, TypeOK
  <2>3. Current(f)' = {n}
    BY <1>2, <2>1, <2>2, CurrentNext DEF IInv, SingleLiveToken
  <2>4. \A s \in Sessions : s # f => Current(s)' = Current(s)
    <3> SUFFICES ASSUME NEW s \in Sessions, s # f PROVE Current(s)' = Current(s)
      OBVIOUS
    <3>1. \A t \in Tokens : tok'[t] = "live" /\ tokFam'[t] = s
                             <=> tok[t] = "live" /\ tokFam[t] = s
      BY <1>1, <1>2, <2>1, <2>2
    <3> QED
      BY <3>1, CurrentIs, CurrentNext
  <2> QED
    BY <2>3, <2>4
<1>5. [s \in Sessions |-> Current(s)]'
        = [[s \in Sessions |-> Current(s)] EXCEPT ![f] = {n}]
  BY <1>2, <1>4
<1>6. {t \in Tokens : tok[t] # "absent"}' = {t \in Tokens : tok[t] # "absent"} \cup {n}
  BY <1>1, <1>2 DEF IInv, TypeOK
<1>7. n \in Tokens \ {t \in Tokens : tok[t] # "absent"}
  BY <1>1
<1>8. Chain!Exchange(f)
  BY <1>2, <1>3, <1>5, <1>6, <1>7 DEF Chain!Exchange
<1> QED
  BY <1>2, <1>8

\* A login opens a chain.
LEMMA LoginOpens ==
  ASSUME IInv, NEW p \in Procs, LoginCreateFamily(p)
  PROVE  \E c \in Sessions : Chain!Open(c)
<1>2. PICK f \in Sessions : f = req[p].sess /\ fam[f] = "absent"
  BY DEF LoginCreateFamily, IInv, LoginInv
<1>1. PICK n \in Tokens :
        /\ tok[n] = "absent"
        /\ tok' = [tok EXCEPT ![n] = "live"]
        /\ tokFam' = [tokFam EXCEPT ![n] = f]
  BY <1>2 DEF LoginCreateFamily
<1>3. Current(f) = {}
  BY <1>2, CurrentIs DEF IInv, RowInv
<1>4. /\ Current(f)' = {n}
      /\ \A s \in Sessions : s # f => Current(s)' = Current(s)
  <2>1. \A t \in Tokens : tok'[t] = "live" <=> t = n \/ tok[t] = "live"
    BY <1>1 DEF IInv, TypeOK
  <2>2. \A t \in Tokens : tokFam'[t] = IF t = n THEN f ELSE tokFam[t]
    BY <1>1 DEF IInv, TypeOK
  <2>3. Current(f)' = {n}
    BY <1>3, <2>1, <2>2, CurrentIs, CurrentNext
  <2>4. \A s \in Sessions : s # f => Current(s)' = Current(s)
    BY <1>1, <2>1, <2>2, CurrentIs, CurrentNext
  <2> QED
    BY <2>3, <2>4
<1>5. [s \in Sessions |-> Current(s)]'
        = [[s \in Sessions |-> Current(s)] EXCEPT ![f] = {n}]
  BY <1>2, <1>4
<1>6. {t \in Tokens : tok[t] # "absent"}' = {t \in Tokens : tok[t] # "absent"} \cup {n}
  BY <1>1 DEF IInv, TypeOK
<1>7. n \in Tokens \ {t \in Tokens : tok[t] # "absent"}
  BY <1>1
<1>8. Chain!Open(f)
  BY <1>2, <1>3, <1>5, <1>6, <1>7 DEF Chain!Open
<1> QED
  BY <1>2, <1>8

\* Every step of the database is a step of the chains, or changes no chain.
LEMMA ChainStep ==
  IInv /\ [Next]_vars =>
    [Chain!Next]_<<[s \in Sessions |-> Current(s)], {t \in Tokens : tok[t] # "absent"}>>
<1> SUFFICES ASSUME IInv, [Next]_vars
             PROVE  \/ Chain!Next
                    \/ UNCHANGED <<[s \in Sessions |-> Current(s)],
                                   {t \in Tokens : tok[t] # "absent"}>>
  OBVIOUS
<1>1. CASE UNCHANGED <<tok, tokFam>>
  BY <1>1, SameChains
<1>2. ASSUME NEW p \in Procs, RotateCommit(p) PROVE Chain!Next
  BY <1>2, RotationExchanges DEF Chain!Next
<1>3. ASSUME NEW p \in Procs, LoginCreateFamily(p) PROVE Chain!Next
  BY <1>3, LoginOpens DEF Chain!Next
<1>4. ASSUME NEW p \in Procs, ReuseCommit(p) PROVE Chain!Next
  <2>1. LiveTokens({req[p].sess}) \in SUBSET Tokens
    BY DEF LiveTokens, TokensOf
  <2>2. \A t \in LiveTokens({req[p].sess}) : tok[t] = "live"
    BY DEF LiveTokens
  <2> QED
    BY <1>4, <2>1, <2>2, RevokingCloses DEF ReuseCommit, Chain!Next
<1>5. ASSUME NEW p \in Procs, RevokeCommit(p) PROVE Chain!Next
  <2> DEFINE L == LiveTokens(req[p].snapF)
  <2>1. PICK T \in {L, L \cap req[p].snapT} :
          tok' = [t \in Tokens |-> IF t \in T THEN "revoked" ELSE tok[t]]
    BY <1>5 DEF RevokeCommit
  <2>2. T \in SUBSET Tokens /\ \A t \in T : tok[t] = "live"
    BY DEF LiveTokens, TokensOf
  <2> QED
    BY <1>5, <2>1, <2>2, RevokingCloses DEF RevokeCommit, Chain!Next
<1>6. ASSUME NEW p \in Procs, Step(p), ~RotateCommit(p), ~LoginCreateFamily(p),
             ~ReuseCommit(p), ~RevokeCommit(p)
      PROVE  UNCHANGED <<tok, tokFam>>
  BY <1>6 DEF Step, db, BeginRefresh, RotateLock, RotateReadFamily,
     RotateReadSession, ReuseLockFamily, RevokeSession, RevokeAllSessions,
     RevokeBegin, RevokeLockFamilies, DisableUser, LoginBegin,
     LoginCreateSession, LoginCheckSession, Abort
<1>7. CASE EnableUser \/ Tick \/ UNCHANGED vars
  BY <1>1, <1>7 DEF EnableUser, Tick, vars, db
<1> QED
  BY <1>1, <1>2, <1>3, <1>4, <1>5, <1>6, <1>7 DEF Next

\* The families of refresh tokens, under every interleaving of the operations
\* of the auth services, are chains of one-time credentials.
THEOREM Refinement == Spec => ChainSpec
<1>1. Init => Chain!Init
  BY DEF Init, Chain!Init, Current, LiveTokens, TokensOf
<1> QED
  BY Invariance, ChainStep, <1>1, PTL DEF Spec, ChainSpec, Chain!Spec
=============================================================================
