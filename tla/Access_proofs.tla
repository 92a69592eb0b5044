---------------------------- MODULE Access_proofs ----------------------------
(***************************************************************************)
(* Proofs about Access, for any sessions, requests and endpoints used: the *)
(* lock after failed logins, and what the account counts whatever else     *)
(* goes on beside them; the types of all that is stored and in progress;   *)
(* the sessions that end with account, password and tenant; the secrets    *)
(* that were shown to work; the contexts of a session.                     *)
(***************************************************************************)
EXTENDS Access, FiniteSetTheorems, TLAPS

Accounts == [password : Nat, activated : BOOLEAN, suspended : BOOLEAN,
             attempts : Nat, locked : BOOLEAN, unlocks : Nat]

(* The logins with a wrong password that passed the check of the lock.     *)
Fails(q) == q.op = "login" /\ q.at = "fail"
Failing == {r \in Requests : Fails(req[r])}

(* Every request has an operation and a step.                              *)
Shaped(q) == "op" \in DOMAIN q /\ "at" \in DOMAIN q
ReqShape ==
  /\ req = [r \in Requests |-> req[r]]
  /\ \A r \in Requests : Shaped(req[r])

(* As many failures as lock, and those let through before each lock.       *)
Most(k) == MaxFailedLogins - 1 + Cardinality(Requests) * k

LockInv ==
  /\ ReqShape
  /\ account \in Accounts
  /\ account.locked => account.attempts + Cardinality(Failing) <= Most(account.unlocks + 1)
  /\ ~account.locked => account.attempts <= Most(account.unlocks)

-----------------------------------------------------------------------------
(* Requests that do not begin to fail.                                     *)

Quiet(r) == \E q : req' = [req EXCEPT ![r] = q] /\ Shaped(q) /\ ~Fails(q)

AllQuiet == UNCHANGED req \/ \E r \in Requests : Quiet(r)

LEMMA QuietKeeps ==
  ASSUME ReqShape, AllQuiet
  PROVE  ReqShape' /\ Failing' \subseteq Failing
  <1>1. CASE UNCHANGED req
    BY <1>1 DEF ReqShape, Failing
  <1>2. ASSUME NEW r \in Requests, Quiet(r)
        PROVE  ReqShape' /\ Failing' \subseteq Failing
    <2>1. PICK q : req' = [req EXCEPT ![r] = q] /\ Shaped(q) /\ ~Fails(q)
      BY <1>2 DEF Quiet
    <2>2. DOMAIN req = Requests
      BY DEF ReqShape
    <2>3. /\ req' = [x \in Requests |-> IF x = r THEN q ELSE req[x]]
      BY <2>1, <2>2
    <2>4. req'[r] = q /\ \A x \in Requests \ {r} : req'[x] = req[x]
      BY <2>3
    <2>5. \A x \in Requests : Shaped(req'[x])
      BY <2>1, <2>4 DEF ReqShape
    <2>6. req' = [x \in Requests |-> req'[x]]
      BY <2>3
    <2>7. ReqShape'
      BY <2>5, <2>6 DEF ReqShape
    <2>8. Failing' \subseteq Failing
      BY <2>1, <2>4 DEF Failing
    <2> QED BY <2>7, <2>8
  <1> QED BY <1>1, <1>2 DEF AllQuiet

LEMMA Begins ==
  ASSUME NEW r \in Requests, NEW q, Begin(r, q), Shaped(q), ~Fails(q)
  PROVE  AllQuiet
  BY DEF Begin, Quiet, AllQuiet

LEMMA Ends ==
  ASSUME NEW r \in Requests, Done(r)
  PROVE  AllQuiet
  <1>1. Shaped(Idle) /\ ~Fails(Idle)
    BY DEF Idle, Shaped, Fails
  <1> QED BY <1>1 DEF Done, Quiet, AllQuiet

LEMMA GoesOn ==
  ASSUME ReqShape, NEW r \in Requests, NEW step, step # "fail", GoTo(r, step)
  PROVE  AllQuiet
  <1> DEFINE q == [req[r] EXCEPT !.at = step]
  <1>1. Shaped(req[r])
    BY DEF ReqShape
  <1>2. Shaped(q) /\ q.at = step
    BY <1>1 DEF Shaped
  <1>3. req' = [req EXCEPT ![r] = q]
    BY DEF GoTo
  <1>4. ~Fails(q)
    BY <1>2 DEF Fails
  <1> QED BY <1>2, <1>3, <1>4 DEF Quiet, AllQuiet

(* The same when another field is set besides.                             *)
LEMMA GoesOnWith ==
  ASSUME ReqShape, NEW r \in Requests, NEW step, step # "fail", NEW field, NEW value,
         field \notin {"op", "at"},
         req' = [req EXCEPT ![r] = [[req[r] EXCEPT !.at = step] EXCEPT ![field] = value]]
  PROVE  AllQuiet
  <1> DEFINE p == [req[r] EXCEPT !.at = step]
             q == [p EXCEPT ![field] = value]
  <1>1. Shaped(req[r])
    BY DEF ReqShape
  <1>2. Shaped(p) /\ p.at = step
    BY <1>1 DEF Shaped
  <1> HIDE DEF p
  <1>3. Shaped(q) /\ q.at = step
    BY <1>2 DEF Shaped
  <1>4. req' = [req EXCEPT ![r] = q]
    BY DEF p
  <1>5. ~Fails(q)
    BY <1>3 DEF Fails
  <1> QED BY <1>3, <1>4, <1>5 DEF Quiet, AllQuiet

LEMMA SessionsQuiet ==
  ASSUME ReqShape, SessionsNext
  PROVE  AllQuiet
  BY Ends DEF SessionsNext, Abandon, Expire, IdleTimeout, CleanupExpired, AllQuiet

-----------------------------------------------------------------------------
LEMMA ContextQuiet ==
  ASSUME ReqShape, ContextNext
  PROVE  AllQuiet
  <1>1. ASSUME NEW r \in Requests, IsTenantSuspended(r) \/ SetTenant(r) \/ SetSuperAdmin(r)
                 \/ ResetContext(r) \/ RevokeThese(r) \/ RevokeByTenant(r)
        PROVE  AllQuiet
    BY <1>1, Ends, GoesOn
    DEF IsTenantSuspended, SetTenant, SetSuperAdmin, ResetContext, RevokeThese, RevokeByTenant
  <1>2. ASSUME NEW r \in Requests, NEW t \in Tenants, SuspendTenant(r, t)
        PROVE  AllQuiet
    BY <1>2, Begins DEF SuspendTenant, Shaped, Fails
  <1>3. ASSUME NEW r \in Requests, NEW s \in Sessions, NEW t \in Tenants, SelectTenant(r, s, t)
        PROVE  AllQuiet
    BY <1>3, Begins DEF SelectTenant, Shaped, Fails
  <1>4. ASSUME NEW r \in Requests, NEW s \in Sessions, SelectAdmin(r, s) \/ SwitchContext(r, s)
        PROVE  AllQuiet
    BY <1>4, Begins DEF SelectAdmin, SwitchContext, Shaped, Fails
  <1>5. ASSUME NEW r \in Requests, NEW op, NEW S, EndSessions(r, op, S)
        PROVE  AllQuiet
    BY <1>5, Begins DEF EndSessions, Shaped, Fails
  <1>6. ASSUME NEW r \in Requests, NEW s \in Sessions,
               \/ AdminRevokeSession(r, s) \/ Logout(r, s) \/ RevokeAllOtherSessions(r, s)
               \/ \E u \in Sessions : RevokeSession(r, s, u)
        PROVE  AllQuiet
    BY <1>5, <1>6 DEF AdminRevokeSession, Logout, RevokeAllOtherSessions, RevokeSession
  <1>7. ASSUME \/ \E t \in Tenants : UnsuspendTenant(t) \/ DeleteTenant(t) \/ RemoveFromTenant(t)
               \/ SetIdentitySuperAdmin
        PROVE  AllQuiet
    BY <1>7 DEF UnsuspendTenant, DeleteTenant, RemoveFromTenant, SetIdentitySuperAdmin, AllQuiet
  <1> QED BY <1>1, <1>2, <1>3, <1>4, <1>6, <1>7 DEF ContextNext

LEMMA FactorQuiet ==
  ASSUME ReqShape, FactorNext
  PROVE  AllQuiet
  <1>1. ASSUME NEW r \in Requests, HasVerifiedTOTP(r)
        PROVE  AllQuiet
    <2>1. CASE GoTo(r, "count")
      BY <2>1, GoesOn
    <2>2. CASE req' = [req EXCEPT ![r].at = "count",
                         ![r].state = IF totp.verified THEN "pre_auth" ELSE @]
      <3> DEFINE p == [req[r] EXCEPT !.at = "count"]
                 v == IF totp.verified THEN "pre_auth" ELSE p.state
      <3>1. req' = [req EXCEPT ![r] = [p EXCEPT !.state = v]]
        BY <2>2
      <3> HIDE DEF v
      <3> QED BY <3>1, GoesOnWith
    <2> QED BY <1>1, <2>1, <2>2 DEF HasVerifiedTOTP
  <1>2. ASSUME NEW r \in Requests, CountPasskeys(r)
        PROVE  AllQuiet
    <2>1. CASE GoTo(r, "create")
      BY <2>1, GoesOn
    <2>2. CASE req' = [req EXCEPT ![r].at = "create",
                         ![r].state = IF passkey THEN "pre_auth" ELSE @]
      <3> DEFINE p == [req[r] EXCEPT !.at = "create"]
                 v == IF passkey THEN "pre_auth" ELSE p.state
      <3>1. req' = [req EXCEPT ![r] = [p EXCEPT !.state = v]]
        BY <2>2
      <3> HIDE DEF v
      <3> QED BY <3>1, GoesOnWith
    <2> QED BY <1>2, <2>1, <2>2 DEF CountPasskeys
  <1>3. ASSUME NEW r \in Requests, StoreSecret(r) \/ MarkVerified(r) \/ AddPasskey(r)
                 \/ MarkCodeUsed(r) \/ SetSecondFactor(r)
        PROVE  AllQuiet
    BY <1>3, Ends, GoesOn
    DEF StoreSecret, MarkVerified, AddPasskey, MarkCodeUsed, SetSecondFactor
  <1>4. ASSUME NEW r \in Requests, NEW s \in Sessions, Enroll(r, s) \/ VerifyCode(r, s)
        PROVE  AllQuiet
    BY <1>4, Begins DEF Enroll, VerifyCode, Shaped, Fails
  <1>5. ASSUME NEW r \in Requests, NEW s \in Sessions, NEW op \in mix,
               EnterTOTP(r, s, op) \/ FinishCeremony(r, s, op)
        PROVE  AllQuiet
    BY <1>5, Begins DEF EnterTOTP, FinishCeremony, Shaped, Fails
  <1>6. ASSUME \/ \E r \in Requests, s \in Sessions : RemoveTOTP(r, s)
               \/ \E s \in Sessions : BeginRegistration(s) \/ Begin2FA(s) \/ RemovePasskey(s)
               \/ AdminDeletePasskey \/ GenerateCode
        PROVE  AllQuiet
    BY <1>6 DEF RemoveTOTP, BeginRegistration, Begin2FA, RemovePasskey, AdminDeletePasskey,
                DeletePasskey, SaveWebAuthnSession, GenerateCode, AllQuiet
  <1> QED BY <1>1, <1>2, <1>3, <1>4, <1>5, <1>6 DEF FactorNext

-----------------------------------------------------------------------------
(* Sign-in, apart from the counting of failures.                           *)

SameCount ==
  /\ account' \in Accounts
  /\ account'.attempts = account.attempts /\ account'.locked = account.locked
  /\ account'.unlocks = account.unlocks

LEMMA SignInQuiet ==
  ASSUME ReqShape, account \in Accounts, SignInNext
  PROVE  \/ AllQuiet /\ SameCount
         \/ \E r \in Requests, p \in Passwords : Login(r, p)
         \/ \E r \in Requests : RecordFailedLogin(r) \/ ClearFailedLogin(r)
         \/ LockExpires
  <1>1. UNCHANGED account => SameCount
    BY DEF SameCount
  <1>2. ASSUME NEW r \in Requests, FinishLogin(r) \/ OIDCCallback(r)
        PROVE  AllQuiet /\ SameCount
    BY <1>1, <1>2, Begins DEF FinishLogin, OIDCCallback, ExternalSignIn, Shaped, Fails
  <1>3. ASSUME NEW r \in Requests, \/ CreateSession(r) \/ InsertToken(r) \/ InvalidateTokens(r)
                                   \/ AcceptLookup(r) \/ RevokeByIdentity(r)
        PROVE  AllQuiet /\ SameCount
    BY <1>1, <1>3, Ends, GoesOn
    DEF CreateSession, InsertToken, InvalidateTokens, AcceptLookup, RevokeByIdentity
  <1>4. ASSUME NEW r \in Requests, \/ RequestPasswordReset(r) \/ AdminResendInvite(r)
                                   \/ AdminResetPassword(r) \/ AdminSuspendIdentity(r)
        PROVE  AllQuiet /\ SameCount
    BY <1>1, <1>4, Begins
    DEF RequestPasswordReset, AdminResendInvite, IssueToken, AdminResetPassword,
        AdminSuspendIdentity, Shaped, Fails
  <1>5. ASSUME NEW r \in Requests, NEW n \in Numbers, ConfirmPasswordReset(r, n) \/ AcceptInvite(r, n)
        PROVE  AllQuiet /\ SameCount
    BY <1>1, <1>5, Begins DEF ConfirmPasswordReset, AcceptInvite, Shaped, Fails
  <1>6. ASSUME NEW r \in Requests, NEW s \in Sessions, ChangePassword(r, s)
        PROVE  AllQuiet /\ SameCount
    BY <1>1, <1>6, Begins DEF ChangePassword, Shaped, Fails
  <1>7. ASSUME NEW r \in Requests, UpdatePassword(r)
        PROVE  AllQuiet /\ SameCount
    <2>1. SameCount
      BY <1>7 DEF UpdatePassword, SameCount, Accounts
    <2>2. AllQuiet
      <3>1. CASE req' = [req EXCEPT ![r].at = "activate", ![r].password = account.password + 1]
        <4> DEFINE p == [req[r] EXCEPT !.at = "activate"]
        <4>1. req' = [req EXCEPT ![r] = [p EXCEPT !.password = account.password + 1]]
          BY <3>1
        <4> QED BY <4>1, GoesOnWith
      <3> QED BY <1>7, <3>1, Ends, GoesOn DEF UpdatePassword
    <2> QED BY <2>1, <2>2
  <1>8. ASSUME NEW r \in Requests, Activate(r) \/ MarkUsed(r) \/ Suspend(r)
        PROVE  AllQuiet /\ SameCount
    <2>1. SameCount
      BY <1>1, <1>8 DEF Activate, MarkUsed, Suspend, SameCount, Accounts
    <2>2. AllQuiet
      BY <1>8, Ends, GoesOn DEF Activate, MarkUsed, Suspend
    <2> QED BY <2>1, <2>2
  <1>9. ASSUME Unsuspend
        PROVE  AllQuiet /\ SameCount
    BY <1>9 DEF Unsuspend, AllQuiet, SameCount, Accounts
  <1> QED BY <1>2, <1>3, <1>4, <1>5, <1>6, <1>7, <1>8, <1>9 DEF SignInNext

-----------------------------------------------------------------------------
(* The counting.                                                           *)

LEMMA Bounds ==
  ASSUME NEW k \in Nat
  PROVE  /\ Cardinality(Requests) \in Nat
         /\ Most(k) \in Nat /\ Most(k) >= MaxFailedLogins - 1
         /\ Most(k + 1) = Most(k) + Cardinality(Requests)
         /\ MaxFailedLogins + Cardinality(Requests) * (k + 1) = Most(k + 1) + 1
  <1>1. Cardinality(Requests) \in Nat /\ MaxFailedLogins \in Nat \ {0}
    BY SignInAssumption, FS_CardinalityType
  <1>2. ASSUME NEW n \in Nat
        PROVE  n * k \in Nat /\ n * (k + 1) = n * k + n
    OBVIOUS
  <1>3. /\ Cardinality(Requests) * k \in Nat
        /\ Cardinality(Requests) * (k + 1) = Cardinality(Requests) * k + Cardinality(Requests)
    BY <1>1, <1>2
  <1> QED BY <1>1, <1>3 DEF Most

LEMMA FewFail ==
  /\ IsFiniteSet(Failing) /\ Cardinality(Failing) \in Nat
  /\ Cardinality(Failing) <= Cardinality(Requests)
  BY SignInAssumption, FS_Subset, FS_CardinalityType DEF Failing

LEMMA InitLock == ASSUME Init PROVE LockInv
  <1>1. ReqShape
    BY DEF Init, HandlersInit, ReqShape, Shaped, Idle
  <1>2. account \in Accounts /\ ~account.locked /\ account.attempts = 0 /\ account.unlocks = 0
    BY DEF Init, SignInInit, Accounts
  <1>3. Most(0) \in Nat
    BY Bounds
  <1> QED BY <1>1, <1>2, <1>3 DEF LockInv

LEMMA QuietStep ==
  ASSUME LockInv, AllQuiet, SameCount
  PROVE  LockInv'
  <1>1. ReqShape' /\ Failing' \subseteq Failing
    BY QuietKeeps DEF LockInv
  <1>2. Cardinality(Failing') \in Nat /\ Cardinality(Failing') <= Cardinality(Failing)
    BY <1>1, FewFail, FS_Subset, FS_CardinalityType
  <1>3. /\ account.attempts \in Nat /\ account.unlocks \in Nat
        /\ Most(account.unlocks + 1) \in Nat
    BY Bounds DEF LockInv, Accounts
  <1>4. account'.locked =>
          account'.attempts + Cardinality(Failing') <= Most(account'.unlocks + 1)
    BY <1>2, <1>3, FewFail DEF LockInv, SameCount
  <1>5. ~account'.locked => account'.attempts <= Most(account'.unlocks)
    BY DEF LockInv, SameCount
  <1> QED BY <1>1, <1>4, <1>5 DEF LockInv, SameCount, Most

LEMMA LoginStep ==
  ASSUME LockInv, NEW r \in Requests, NEW p \in Passwords, Login(r, p)
  PROVE  LockInv'
  <1> DEFINE q == [op |-> "login", password |-> p,
                   at |-> IF p = account.password THEN "clear" ELSE "fail",
                   suspended |-> account.suspended, state |-> "setup_2fa"]
  <1>1. Shaped(q)
    BY DEF Shaped
  <1>2. req' = [req EXCEPT ![r] = q] /\ UNCHANGED account /\ ~account.locked
    BY DEF Login, Begin, MayTry
  <1> HIDE DEF q
  <1>3. ReqShape'
    <2>1. DOMAIN req = Requests
      BY DEF LockInv, ReqShape
    <2>2. req' = [x \in Requests |-> IF x = r THEN q ELSE req[x]]
      BY <1>2, <2>1
    <2>3. req' = [x \in Requests |-> req'[x]]
      BY <2>2
    <2> QED BY <1>1, <2>2, <2>3 DEF LockInv, ReqShape
  <1> QED BY <1>2, <1>3 DEF LockInv, Most

LEMMA FailStep ==
  ASSUME LockInv, NEW r \in Requests, RecordFailedLogin(r)
  PROVE  LockInv'
  <1>1. r \in Failing /\ Done(r)
    BY DEF RecordFailedLogin, At, Failing, Fails
  <1>2. AllQuiet
    BY <1>1, Ends
  <1>3. ReqShape' /\ Failing' \subseteq Failing
    BY <1>2, QuietKeeps DEF LockInv
  <1>4. CASE UNCHANGED account
    BY <1>2, <1>4, QuietStep DEF SameCount, LockInv
  <1>5. CASE account' = [account EXCEPT !.attempts = @ + 1,
                           !.locked = @ \/ account.attempts + 1 >= MaxFailedLogins]
    <2>1. /\ account' \in Accounts /\ account'.attempts = account.attempts + 1
          /\ account'.locked <=> account.locked \/ account.attempts + 1 >= MaxFailedLogins
          /\ account'.unlocks = account.unlocks
      <3> DEFINE more == [account EXCEPT !.attempts = account.attempts + 1]
                 lock == more.locked \/ account.attempts + 1 >= MaxFailedLogins
      <3>1. /\ more \in Accounts /\ more.attempts = account.attempts + 1
            /\ more.locked = account.locked /\ more.unlocks = account.unlocks
        BY DEF LockInv, Accounts
      <3>2. account' = [more EXCEPT !.locked = lock]
        BY <1>5
      <3>3. lock \in BOOLEAN
        OBVIOUS
      <3>4. lock <=> account.locked \/ account.attempts + 1 >= MaxFailedLogins
        BY <3>1
      <3> HIDE DEF more, lock
      <3>5. account' \in Accounts /\ account'.attempts = more.attempts
            /\ account'.locked = lock /\ account'.unlocks = more.unlocks
        BY <3>1, <3>2, <3>3 DEF Accounts
      <3> QED BY <3>1, <3>4, <3>5
    <2>2. Cardinality(Failing') \in Nat /\ Cardinality(Failing') <= Cardinality(Failing) - 1
      <3>1. r \notin Failing'
        <4>1. req'[r] = Idle
          BY <1>1 DEF Done, LockInv, ReqShape
        <4> QED BY <4>1 DEF Failing, Fails, Idle
      <3>2. Failing' \subseteq Failing \ {r}
        BY <1>3, <3>1
      <3>3. /\ IsFiniteSet(Failing \ {r})
            /\ Cardinality(Failing \ {r}) = Cardinality(Failing) - 1
        BY <1>1, FewFail, FS_RemoveElement
      <3> QED BY <3>2, <3>3, FS_Subset, FS_CardinalityType
    <2>3. /\ account.attempts \in Nat /\ account.unlocks \in Nat
          /\ MaxFailedLogins \in Nat
          /\ Most(account.unlocks) \in Nat /\ Most(account.unlocks) >= MaxFailedLogins - 1
          /\ Most(account.unlocks + 1) = Most(account.unlocks) + Cardinality(Requests)
          /\ Cardinality(Requests) \in Nat
      BY Bounds, SignInAssumption DEF LockInv, Accounts
    <2>4. account'.locked =>
            account'.attempts + Cardinality(Failing') <= Most(account'.unlocks + 1)
      <3>1. CASE account.locked
        BY <2>1, <2>2, <2>3, <3>1, FewFail DEF LockInv
      <3>2. CASE ~account.locked
        BY <2>1, <2>2, <2>3, <3>2, FewFail DEF LockInv
      <3> QED BY <3>1, <3>2
    <2>5. ~account'.locked => account'.attempts <= Most(account'.unlocks)
      BY <2>1, <2>3
    <2> QED BY <1>3, <2>1, <2>4, <2>5 DEF LockInv, Most
  <1> QED BY <1>4, <1>5 DEF RecordFailedLogin

LEMMA ClearStep ==
  ASSUME LockInv, NEW r \in Requests, ClearFailedLogin(r)
  PROVE  LockInv'
  <1>1. AllQuiet
    BY Ends, GoesOn DEF ClearFailedLogin, LockInv
  <1>2. CASE UNCHANGED account
    BY <1>1, <1>2, QuietStep DEF SameCount, LockInv
  <1>3. CASE account' = [account EXCEPT !.attempts = 0, !.locked = FALSE, !.unlocks = 0]
    <2>1. /\ account' \in Accounts /\ ~account'.locked /\ account'.attempts = 0
          /\ account'.unlocks = 0
      BY <1>3 DEF LockInv, Accounts
    <2>2. ReqShape' /\ Most(0) \in Nat
      BY <1>1, QuietKeeps, Bounds DEF LockInv
    <2> QED BY <2>1, <2>2 DEF LockInv, Most
  <1> QED BY <1>2, <1>3 DEF ClearFailedLogin

LEMMA UnlockStep ==
  ASSUME LockInv, LockExpires
  PROVE  LockInv'
  <1>1. /\ UNCHANGED req /\ account.locked
        /\ account' = [account EXCEPT !.locked = FALSE, !.unlocks = @ + 1]
    BY DEF LockExpires
  <1>2. /\ account' \in Accounts /\ ~account'.locked /\ account'.attempts = account.attempts
        /\ account'.unlocks = account.unlocks + 1
    <2> DEFINE open == [account EXCEPT !.locked = FALSE]
    <2>1. /\ open \in Accounts /\ ~open.locked /\ open.attempts = account.attempts
          /\ open.unlocks = account.unlocks
      BY DEF LockInv, Accounts
    <2>2. account' = [open EXCEPT !.unlocks = open.unlocks + 1]
      BY <1>1
    <2> HIDE DEF open
    <2> QED BY <2>1, <2>2 DEF Accounts
  <1>3. account.attempts <= Most(account.unlocks + 1)
    BY <1>1, FewFail, Bounds DEF LockInv, Accounts
  <1>4. ReqShape'
    BY <1>1 DEF LockInv, ReqShape
  <1> QED BY <1>2, <1>3, <1>4 DEF LockInv, Most

LEMMA LockNext ==
  ASSUME LockInv, [Next]_vars
  PROVE  LockInv'
  <1>1. ReqShape /\ account \in Accounts /\ (UNCHANGED account => SameCount)
    BY DEF LockInv, SameCount
  <1>2. CASE UNCHANGED vars
    BY <1>1, <1>2, QuietStep DEF vars, signInVars, AllQuiet
  <1>3. CASE SessionsNext /\ UNCHANGED signInVars
    BY <1>1, <1>3, SessionsQuiet, QuietStep DEF signInVars
  <1>4. CASE FactorNext /\ UNCHANGED signInVars
    BY <1>1, <1>4, FactorQuiet, QuietStep DEF signInVars
  <1>5. CASE ContextNext /\ UNCHANGED signInVars
    BY <1>1, <1>5, ContextQuiet, QuietStep DEF signInVars
  <1>6. CASE SignInNext
    BY <1>1, <1>6, SignInQuiet, QuietStep, LoginStep, FailStep, ClearStep, UnlockStep
  <1> QED BY <1>2, <1>3, <1>4, <1>5, <1>6 DEF Next, Steps

(* However many logins run at once and however the rest of the account is  *)
(* used meanwhile, failures are counted up to the lock and then once for   *)
(* each request that passed the check before it (identity/store.go:207).   *)
THEOREM FailuresBounded == Spec => []LockBoundsFailures
  <1>1. Init => LockInv
    BY InitLock
  <1>2. LockInv /\ [Next]_vars => LockInv'
    BY LockNext
  <1>3. LockInv => LockBoundsFailures
    <2>1. SUFFICES ASSUME LockInv PROVE LockBoundsFailures
      OBVIOUS
    <2>2. account.attempts \in Nat /\ account.unlocks \in Nat
      BY <2>1 DEF LockInv, Accounts
    <2>3. account.attempts <= Most(account.unlocks + 1)
      BY <2>1, <2>2, FewFail, Bounds DEF LockInv
    <2> QED BY <2>2, <2>3, Bounds DEF LockBoundsFailures
  <1> QED BY <1>1, <1>2, <1>3, PTL DEF Spec

-----------------------------------------------------------------------------
(* Types: what a request of each kind holds.                               *)

LoginRecords ==
  [op : {"login"}, at : {"clear", "fail", "totp", "count", "create"},
   password : Passwords, suspended : BOOLEAN, state : {"setup_2fa", "pre_auth"}]
ExternalRecords ==
  [op : {"passkey", "sso"}, at : {"create"}, password : {0}, state : {"pre_tenant"}]
AcceptRecords ==
  [op : {"accept"}, at : {"identity", "password", "activate", "mark", "create"},
   token : Numbers, password : 0..MaxPasswords, state : {"pre_tenant"}]
IssueRecords == [op : {"issue"}, at : {"invalidate", "insert"}, kind : Kinds]
ResetRecords == [op : {"reset"}, at : {"password", "mark", "revoke"}, token : Numbers]
AccountRecords ==
  [op : {"change", "set"}, at : {"password"}]
    \cup [op : {"suspend"}, at : {"suspend", "revoke"}]
ChallengeRecords ==
  [op : {"verify", "confirm", "register", "assert", "code"},
   at : {"mark", "promote", "add", "used"}, sess : Sessions, state : SessionStates]
SelectRecords ==
  [op : {"select"}, at : {"check", "bind"}, sess : Sessions, tenant : Tenants]
ContextRecords == [op : {"admin", "switch"}, at : {"elevate", "reset"}, sess : Sessions]
EndRecords ==
  [op : {"logout", "revoke", "others", "expel"}, at : {"end"}, all : SUBSET Sessions]
CloseRecords == [op : {"close"}, at : {"revoke"}, tenant : Tenants]

SessionRequests == LoginRecords \cup ExternalRecords \cup AcceptRecords
AccountRequests == IssueRecords \cup ResetRecords \cup AccountRecords
FactorRequests == ChallengeRecords \cup [op : {"enroll"}, at : {"store"}]
ContextRequests ==
  SelectRecords \cup ContextRecords \cup EndRecords \cup CloseRecords
AllRequests ==
  {Idle} \cup SessionRequests \cup AccountRequests \cup FactorRequests \cup ContextRequests

TypeInv ==
  /\ TypeOK
  /\ req \in [Requests -> AllRequests]
  /\ totp.secret = 0 => ~totp.verified

LEMMA ReqTyped ==
  ASSUME req \in [Requests -> AllRequests], NEW r \in Requests, NEW q \in AllRequests,
         req' = [req EXCEPT ![r] = q]
  PROVE  req' \in [Requests -> AllRequests]
  OBVIOUS

LEMMA DoneTyped ==
  ASSUME req \in [Requests -> AllRequests], NEW r \in Requests, Done(r)
  PROVE  req' \in [Requests -> AllRequests]
  BY DEF Done, AllRequests

(* What a request holds, by what it is about.                              *)
LEMMA Kept ==
  ASSUME NEW q \in AllRequests
  PROVE  /\ q.op = "login" => q \in LoginRecords
         /\ q.op \in {"passkey", "sso"} => q \in ExternalRecords
         /\ q.op = "accept" => q \in AcceptRecords
         /\ q.op = "issue" => q \in IssueRecords
         /\ q.op = "reset" => q \in ResetRecords
         /\ q.op \in {"change", "set", "suspend"} => q \in AccountRecords
         /\ q.op \in {"verify", "confirm", "register", "assert", "code"} =>
              q \in ChallengeRecords
         /\ q.op = "select" => q \in SelectRecords
         /\ q.op \in {"admin", "switch"} => q \in ContextRecords
         /\ q.op \in {"logout", "revoke", "others", "expel"} => q \in EndRecords
         /\ q.op = "close" => q \in CloseRecords
  BY DEF AllRequests, SessionRequests, AccountRequests, FactorRequests, ContextRequests,
         LoginRecords, ExternalRecords, AcceptRecords, IssueRecords, ResetRecords,
         AccountRecords, ChallengeRecords, SelectRecords, ContextRecords, EndRecords,
         CloseRecords, Idle

(* What each statement makes of a row, and that it leaves the others.      *)
Rows == [Sessions -> SessionRecords]
Differs(g, s) == g \in Rows /\ \A u \in Sessions \ {s} : g[u] = sess[u]

LEMMA TenantSetRow ==
  ASSUME sess \in Rows, NEW s \in Sessions, NEW t \in Tenants
  PROVE  /\ Differs(TenantSet(s, t), s)
         /\ TenantSet(s, t)[s] =
              [state |-> "authenticated", tenant |-> t, super |-> FALSE, expired |-> FALSE,
               revoked |-> sess[s].revoked, password |-> sess[s].password]
  <1> DEFINE row == sess[s]
             set == [row EXCEPT !.tenant = t, !.super = FALSE,
                                !.state = "authenticated", !.expired = FALSE]
             new == [state |-> "authenticated", tenant |-> t, super |-> FALSE, expired |-> FALSE,
                     revoked |-> row.revoked, password |-> row.password]
  <1>1. row \in SessionRecords
    BY DEF Rows
  <1>2. TenantSet(s, t) = [sess EXCEPT ![s] = set]
    BY DEF TenantSet
  <1> HIDE DEF row
  <1>3. set = new /\ new \in SessionRecords
    <2> DEFINE a == [row EXCEPT !.tenant = t]
               b == [a EXCEPT !.super = FALSE]
               c == [b EXCEPT !.state = "authenticated"]
               d == [c EXCEPT !.expired = FALSE]
    <2>1. a \in SessionRecords /\ a.tenant = t /\ a.revoked = row.revoked
          /\ a.password = row.password
      BY <1>1 DEF SessionRecords
    <2> HIDE DEF a
    <2>2. b \in SessionRecords /\ b.tenant = a.tenant /\ b.super = FALSE
          /\ b.revoked = a.revoked /\ b.password = a.password
      BY <2>1 DEF SessionRecords
    <2> HIDE DEF b
    <2>3. c \in SessionRecords /\ c.tenant = b.tenant /\ c.super = b.super
          /\ c.state = "authenticated" /\ c.revoked = b.revoked /\ c.password = b.password
      BY <2>2 DEF SessionRecords, SessionStates
    <2> HIDE DEF c
    <2>4. d \in SessionRecords /\ d.tenant = c.tenant /\ d.super = c.super /\ d.state = c.state
          /\ d.revoked = c.revoked /\ d.password = c.password /\ d.expired = FALSE
      BY <2>3 DEF SessionRecords
    <2>5. set = d
      BY DEF a, b, c
    <2> HIDE DEF d
    <2>6. d = new
      BY <2>1, <2>2, <2>3, <2>4 DEF SessionRecords
    <2> QED BY <2>4, <2>5, <2>6
  <1> HIDE DEF set, new
  <1>4. Differs(TenantSet(s, t), s) /\ TenantSet(s, t)[s] = new
    BY <1>2, <1>3 DEF Rows, Differs
  <1> QED BY <1>4 DEF new, row

LEMMA SuperAdminSetRow ==
  ASSUME sess \in Rows, NEW s \in Sessions
  PROVE  /\ Differs(SuperAdminSet(s), s)
         /\ SuperAdminSet(s)[s] = [sess[s] EXCEPT !.super = TRUE,
                                     !.state = "authenticated", !.expired = FALSE]
  BY DEF SuperAdminSet, Rows, Differs, SessionRecords, SessionStates

LEMMA SecondFactorSetRow ==
  ASSUME sess \in Rows, NEW s \in Sessions
  PROVE  /\ Differs(SecondFactorSet(s), s)
         /\ SecondFactorSet(s)[s] = [sess[s] EXCEPT !.state = "pre_tenant",
                                       !.expired = FALSE]
  BY DEF SecondFactorSet, Rows, Differs, SessionRecords, SessionStates

LEMMA ContextResetRow ==
  ASSUME sess \in Rows, NEW s \in Sessions
  PROVE  /\ Differs(ContextReset(s), s)
         /\ ContextReset(s)[s] = [sess[s] EXCEPT !.tenant = NoTenant, !.super = FALSE,
                                    !.state = "pre_tenant"]
  BY DEF ContextReset, Rows, Differs, SessionRecords, SessionStates

LEMMA CreatedRow ==
  ASSUME sess \in Rows, NEW s \in Sessions, NEW st \in SessionStates, NEW pw \in Nat
  PROVE  /\ Differs(Created(s, st, pw), s)
         /\ Created(s, st, pw)[s] = [NoSession EXCEPT !.state = st, !.password = pw]
  BY DEF Created, NoSession, Rows, Differs, SessionRecords, SessionStates

LEMMA RevokedRows ==
  ASSUME sess \in Rows, NEW S
  PROVE  /\ Revoked(S) \in Rows /\ Deleted(S) \in Rows
         /\ \A s \in Sessions : 
              /\ Revoked(S)[s] \in {sess[s], [sess[s] EXCEPT !.revoked = TRUE]}
              /\ Deleted(S)[s] \in {sess[s], [sess[s] EXCEPT !.revoked = TRUE]}
  BY DEF Revoked, Deleted, Rows, SessionRecords

-----------------------------------------------------------------------------
LEMMA SessionsTyped ==
  ASSUME TypeInv, SessionsNext
  PROVE  /\ sess' \in [Sessions -> SessionRecords] /\ mix' \in Mixes
         /\ req' \in [Requests -> AllRequests]
  <1>1. ASSUME NEW r \in Requests, Abandon(r), UNCHANGED sess
        PROVE  /\ sess' \in [Sessions -> SessionRecords] /\ mix' \in Mixes
               /\ req' \in [Requests -> AllRequests]
    BY <1>1, DoneTyped DEF Abandon, TypeInv, TypeOK
  <1>2. ASSUME NEW s \in Sessions, Expire(s)
        PROVE  /\ sess' \in [Sessions -> SessionRecords] /\ mix' \in Mixes
               /\ req' \in [Requests -> AllRequests]
    BY <1>2 DEF Expire, TypeInv, TypeOK, SessionRecords
  <1>3. ASSUME \/ \E s \in Sessions : IdleTimeout(s)
               \/ CleanupExpired
        PROVE  /\ sess' \in [Sessions -> SessionRecords] /\ mix' \in Mixes
               /\ req' \in [Requests -> AllRequests]
    BY <1>3, RevokedRows DEF Rows, IdleTimeout, CleanupExpired, TypeInv, TypeOK
  <1> QED BY <1>1, <1>2, <1>3 DEF SessionsNext


(* A request begins, and goes on.                                          *)
LEMMA BeginTyped ==
  ASSUME req \in [Requests -> AllRequests], NEW r \in Requests, NEW q \in AllRequests,
         Begin(r, q)
  PROVE  req' \in [Requests -> AllRequests]
  BY ReqTyped DEF Begin

ReqOK == req' \in [Requests -> AllRequests]

(* Where a statement leads to, for the operations that have it.            *)
LEMMA LoginGoes ==
  ASSUME TypeInv, NEW r \in Requests, req[r].op = "login",
         NEW step \in {"totp", "count", "create"}, GoTo(r, step)
  PROVE  ReqOK
  <1>1. req[r] \in LoginRecords
    BY Kept DEF TypeInv
  <1>2. [req[r] EXCEPT !.at = step] \in LoginRecords
    BY <1>1 DEF LoginRecords
  <1> QED BY <1>2, ReqTyped DEF ReqOK, GoTo, TypeInv, AllRequests, SessionRequests

LEMMA AcceptGoes ==
  ASSUME TypeInv, NEW r \in Requests, req[r].op = "accept",
         NEW step \in {"password", "mark", "create"}, GoTo(r, step)
  PROVE  ReqOK
  <1>1. req[r] \in AcceptRecords
    BY Kept DEF TypeInv
  <1>2. [req[r] EXCEPT !.at = step] \in AcceptRecords
    BY <1>1 DEF AcceptRecords
  <1> QED BY <1>2, ReqTyped DEF ReqOK, GoTo, TypeInv, AllRequests, SessionRequests

LEMMA IssueGoes ==
  ASSUME TypeInv, NEW r \in Requests, req[r].op = "issue", GoTo(r, "insert")
  PROVE  ReqOK
  <1>1. req[r] \in IssueRecords
    BY Kept DEF TypeInv
  <1>2. [req[r] EXCEPT !.at = "insert"] \in IssueRecords
    BY <1>1 DEF IssueRecords
  <1> QED BY <1>2, ReqTyped DEF ReqOK, GoTo, TypeInv, AllRequests, AccountRequests

LEMMA ResetGoes ==
  ASSUME TypeInv, NEW r \in Requests, req[r].op = "reset",
         NEW step \in {"mark", "revoke"}, GoTo(r, step)
  PROVE  ReqOK
  <1>1. req[r] \in ResetRecords
    BY Kept DEF TypeInv
  <1>2. [req[r] EXCEPT !.at = step] \in ResetRecords
    BY <1>1 DEF ResetRecords
  <1> QED BY <1>2, ReqTyped DEF ReqOK, GoTo, TypeInv, AllRequests, AccountRequests

LEMMA SuspendGoes ==
  ASSUME TypeInv, NEW r \in Requests, req[r].op = "suspend", GoTo(r, "revoke")
  PROVE  ReqOK
  <1>1. req[r] \in AccountRecords
    BY Kept DEF TypeInv
  <1>2. [req[r] EXCEPT !.at = "revoke"] \in AccountRecords
    BY <1>1 DEF AccountRecords
  <1> QED BY <1>2, ReqTyped DEF ReqOK, GoTo, TypeInv, AllRequests, AccountRequests

LEMMA ChallengeGoes ==
  ASSUME TypeInv, NEW r \in Requests, req[r].op \in {"verify", "confirm", "assert", "code"},
         GoTo(r, "promote")
  PROVE  ReqOK
  <1>1. req[r] \in ChallengeRecords
    BY Kept DEF TypeInv
  <1>2. [req[r] EXCEPT !.at = "promote"] \in ChallengeRecords
    BY <1>1 DEF ChallengeRecords
  <1> QED BY <1>2, ReqTyped DEF ReqOK, GoTo, TypeInv, AllRequests, FactorRequests

LEMMA SelectGoes ==
  ASSUME TypeInv, NEW r \in Requests, req[r].op = "select", GoTo(r, "bind")
  PROVE  ReqOK
  <1>1. req[r] \in SelectRecords
    BY Kept DEF TypeInv
  <1>2. [req[r] EXCEPT !.at = "bind"] \in SelectRecords
    BY <1>1 DEF SelectRecords
  <1> QED BY <1>2, ReqTyped DEF ReqOK, GoTo, TypeInv, AllRequests, ContextRequests

-----------------------------------------------------------------------------
(* What sign-in keeps of the types.                                        *)

AccountTypes ==
  [password : 0..MaxPasswords, activated : BOOLEAN, suspended : BOOLEAN,
   attempts : Nat, locked : BOOLEAN, unlocks : 0..MaxUnlocks]
TokenTypes == [Kinds -> [Numbers -> {"none", "unused", "used"}]]

SignInStays == ReqOK /\ sess' \in Rows /\ AccountOK' /\ mix' \in Mixes

LEMMA SignInBegins ==
  ASSUME TypeInv, NEW r \in Requests,
         \/ \E p \in Passwords : Login(r, p)
         \/ FinishLogin(r) \/ OIDCCallback(r)
         \/ RequestPasswordReset(r) \/ AdminResendInvite(r)
         \/ \E n \in Numbers : ConfirmPasswordReset(r, n) \/ AcceptInvite(r, n)
         \/ \E s \in Sessions : ChangePassword(r, s)
         \/ AdminResetPassword(r) \/ AdminSuspendIdentity(r)
  PROVE  SignInStays
  <1>1. TypeInv /\ AccountOK /\ mix \in Mixes /\ sess \in Rows
    BY DEF TypeInv, TypeOK, Rows
  <1>2. SUFFICES ReqOK /\ UNCHANGED <<mix, sess, account, token>>
    BY <1>1 DEF SignInStays, AccountOK
  <1>3. ASSUME NEW p \in Passwords, Login(r, p) PROVE ReqOK
    <2> DEFINE q == [op |-> "login", password |-> p,
                     at |-> IF p = account.password THEN "clear" ELSE "fail",
                     suspended |-> account.suspended, state |-> "setup_2fa"]
    <2>1. q \in LoginRecords
      BY <1>1 DEF LoginRecords, AccountOK
    <2>2. q \in AllRequests
      BY <2>1 DEF AllRequests, SessionRequests
    <2>3. Begin(r, q)
      BY <1>3 DEF Login
    <2> HIDE DEF q
    <2> QED BY <2>2, <2>3, BeginTyped DEF ReqOK, TypeInv
  <1>4. ASSUME NEW op \in {"passkey", "sso"}, ExternalSignIn(r, op) PROVE ReqOK
    <2> DEFINE q == [op |-> op, at |-> "create", password |-> 0, state |-> "pre_tenant"]
    <2>1. q \in AllRequests
      BY DEF AllRequests, SessionRequests, ExternalRecords
    <2>2. Begin(r, q)
      BY <1>4 DEF ExternalSignIn
    <2> HIDE DEF q
    <2> QED BY <2>1, <2>2, BeginTyped DEF ReqOK, TypeInv
  <1>5. ASSUME NEW k \in Kinds, IssueToken(r, k) PROVE ReqOK
    <2> DEFINE q == [op |-> "issue", at |-> "invalidate", kind |-> k]
    <2>1. q \in AllRequests
      BY DEF AllRequests, AccountRequests, IssueRecords
    <2>2. Begin(r, q)
      BY <1>5 DEF IssueToken
    <2> HIDE DEF q
    <2> QED BY <2>1, <2>2, BeginTyped DEF ReqOK, TypeInv
  <1>6. ASSUME NEW n \in Numbers, ConfirmPasswordReset(r, n) PROVE ReqOK
    <2> DEFINE q == [op |-> "reset", at |-> "password", token |-> n]
    <2>1. q \in AllRequests
      BY DEF AllRequests, AccountRequests, ResetRecords
    <2>2. Begin(r, q)
      BY <1>6 DEF ConfirmPasswordReset
    <2> HIDE DEF q
    <2> QED BY <2>1, <2>2, BeginTyped DEF ReqOK, TypeInv
  <1>7. ASSUME NEW n \in Numbers, AcceptInvite(r, n) PROVE ReqOK
    <2> DEFINE q == [op |-> "accept", at |-> "identity", token |-> n,
                     password |-> 0, state |-> "pre_tenant"]
    <2>1. q \in AcceptRecords
      BY SignInAssumption DEF AcceptRecords
    <2>2. q \in AllRequests
      BY <2>1 DEF AllRequests, SessionRequests
    <2>3. Begin(r, q)
      BY <1>7 DEF AcceptInvite
    <2> HIDE DEF q
    <2> QED BY <2>2, <2>3, BeginTyped DEF ReqOK, TypeInv
  <1>8. ASSUME \/ \E s \in Sessions : ChangePassword(r, s)
               \/ AdminResetPassword(r) \/ AdminSuspendIdentity(r)
        PROVE  ReqOK
    <2>1. \A op \in {"change", "set"} : [op |-> op, at |-> "password"] \in AllRequests
      BY DEF AllRequests, AccountRequests, AccountRecords
    <2>2. [op |-> "suspend", at |-> "suspend"] \in AllRequests
      BY DEF AllRequests, AccountRequests, AccountRecords
    <2> QED BY <1>8, <2>1, <2>2, BeginTyped
            DEF ReqOK, TypeInv, ChangePassword, AdminResetPassword, AdminSuspendIdentity
  <1>9. UNCHANGED <<mix, sess, account, token>>
    BY DEF Login, FinishLogin, OIDCCallback, ExternalSignIn, RequestPasswordReset,
           AdminResendInvite, IssueToken, ConfirmPasswordReset, AcceptInvite, ChangePassword,
           AdminResetPassword, AdminSuspendIdentity
  <1>10. ReqOK
    BY <1>3, <1>4, <1>5, <1>6, <1>7, <1>8
    DEF FinishLogin, OIDCCallback, RequestPasswordReset, AdminResendInvite, Kinds
  <1> QED BY <1>9, <1>10

LEMMA DoneOK ==
  ASSUME TypeInv, NEW r \in Requests, Done(r)
  PROVE  ReqOK
  BY DoneTyped DEF ReqOK, TypeInv

LEMMA SignInGoesOn ==
  ASSUME TypeInv, NEW r \in Requests,
         \/ RecordFailedLogin(r) \/ ClearFailedLogin(r) \/ CreateSession(r)
         \/ InvalidateTokens(r) \/ InsertToken(r) \/ AcceptLookup(r)
         \/ UpdatePassword(r) \/ Activate(r) \/ MarkUsed(r)
         \/ Suspend(r) \/ RevokeByIdentity(r)
  PROVE  SignInStays
  <1> USE DEF SignInStays
  <1>1. /\ AccountOK /\ mix \in Mixes /\ sess \in Rows /\ req[r] \in AllRequests
        /\ account \in AccountTypes /\ token \in TokenTypes
    BY DEF TypeInv, TypeOK, Rows, AccountOK, AccountTypes, TokenTypes
  <1>2. AccountOK' <=> account' \in AccountTypes /\ token' \in TokenTypes
    BY DEF AccountOK, AccountTypes, TokenTypes
  <1>3. CASE RecordFailedLogin(r)
    <2>1. CASE UNCHANGED account
      BY <1>1, <1>2, <1>3, <2>1, DoneOK DEF RecordFailedLogin
    <2>2. CASE account' = [account EXCEPT !.attempts = @ + 1,
                      !.locked = @ \/ account.attempts + 1 >= MaxFailedLogins]
      <3> DEFINE more == [account EXCEPT !.attempts = account.attempts + 1]
                 lock == more.locked \/ account.attempts + 1 >= MaxFailedLogins
      <3>1. more \in AccountTypes /\ lock \in BOOLEAN
        BY <1>1 DEF AccountTypes
      <3>2. account' = [more EXCEPT !.locked = lock]
        BY <2>2
      <3> HIDE DEF more, lock
      <3>3. account' \in AccountTypes
        BY <3>1, <3>2 DEF AccountTypes
      <3> QED BY <1>1, <1>2, <1>3, <3>3, DoneOK DEF RecordFailedLogin
    <2> QED BY <1>3, <2>1, <2>2 DEF RecordFailedLogin
  <1>4. CASE ClearFailedLogin(r)
    <2>1. account' \in AccountTypes
      <3> DEFINE a == [account EXCEPT !.attempts = 0]
                 b == [a EXCEPT !.locked = FALSE]
      <3>1. a \in AccountTypes /\ 0 \in 0..MaxUnlocks
        BY <1>1, SignInAssumption DEF AccountTypes
      <3>2. account' = account \/ account' = [b EXCEPT !.unlocks = 0]
        BY <1>4 DEF ClearFailedLogin
      <3> HIDE DEF a
      <3>3. b \in AccountTypes
        BY <3>1 DEF AccountTypes
      <3> HIDE DEF b
      <3> QED BY <1>1, <3>1, <3>2, <3>3 DEF AccountTypes
    <2>2. ReqOK
      BY <1>4, DoneOK, LoginGoes DEF ClearFailedLogin, At
    <2> QED BY <1>1, <1>2, <1>4, <2>1, <2>2 DEF ClearFailedLogin
  <1>5. CASE CreateSession(r)
    <2>1. PICK s \in Sessions : sess' = Created(s, req[r].state, req[r].password)
      BY <1>5 DEF CreateSession
    <2>2. req[r].state \in SessionStates /\ req[r].password \in Nat
      <3>1. req[r] \in LoginRecords \cup ExternalRecords \cup AcceptRecords
        BY <1>1, <1>5, Kept DEF CreateSession
      <3>2. /\ req[r].state \in {"setup_2fa", "pre_auth", "pre_tenant"}
            /\ req[r].password \in Passwords \cup 0..MaxPasswords \cup {0}
        BY <3>1 DEF LoginRecords, ExternalRecords, AcceptRecords
      <3> QED BY <3>2, SignInAssumption DEF SessionStates, Passwords
    <2>3. sess' \in Rows
      BY <1>1, <2>1, <2>2, CreatedRow DEF Differs
    <2> QED BY <1>1, <1>2, <1>5, <2>3, DoneOK DEF CreateSession
  <1>6. CASE InvalidateTokens(r)
    <2>1. req[r].kind \in Kinds
      BY <1>1, <1>6, Kept DEF InvalidateTokens, At, IssueRecords
    <2>2. token' \in TokenTypes
      BY <1>1, <1>6, <2>1 DEF InvalidateTokens, TokenTypes
    <2>3. ReqOK
      BY <1>6, IssueGoes DEF InvalidateTokens, At
    <2> QED BY <1>1, <1>2, <1>6, <2>2, <2>3 DEF InvalidateTokens
  <1>7. CASE InsertToken(r)
    <2>1. req[r].kind \in Kinds
      BY <1>1, <1>7, Kept DEF InsertToken, At, IssueRecords
    <2>2. token' \in TokenTypes
      BY <1>1, <1>7, <2>1 DEF InsertToken, TokenTypes
    <2> QED BY <1>1, <1>2, <1>7, <2>2, DoneOK DEF InsertToken
  <1>8. CASE AcceptLookup(r)
    BY <1>1, <1>8, DoneOK, AcceptGoes DEF AcceptLookup, At, AccountOK
  <1>9. CASE UpdatePassword(r)
    <2>1. account' \in AccountTypes /\ account.password + 1 \in 0..MaxPasswords
      BY <1>1, <1>9, SignInAssumption DEF UpdatePassword, AccountTypes
    <2>2. CASE Done(r)
      BY <1>1, <1>2, <1>9, <2>1, <2>2, DoneOK DEF UpdatePassword
    <2>3. CASE req[r].op = "reset" /\ GoTo(r, "mark")
      BY <1>1, <1>2, <1>9, <2>1, <2>3, ResetGoes DEF UpdatePassword
    <2>4. CASE /\ req[r].op = "accept"
               /\ req' = [req EXCEPT ![r].at = "activate", ![r].password = account.password + 1]
      <3> DEFINE p == [req[r] EXCEPT !.at = "activate"]
                 q == [p EXCEPT !.password = account.password + 1]
      <3>1. p \in AcceptRecords
        BY <1>1, <2>4, Kept DEF AcceptRecords
      <3>2. req' = [req EXCEPT ![r] = q]
        BY <2>4
      <3> HIDE DEF p
      <3>3. q \in AcceptRecords
        BY <2>1, <3>1 DEF AcceptRecords
      <3>4. q \in AllRequests
        BY <3>3 DEF AllRequests, SessionRequests
      <3> HIDE DEF q
      <3>5. ReqOK
        BY <3>2, <3>4, ReqTyped DEF ReqOK, TypeInv
      <3> QED BY <1>1, <1>2, <1>9, <2>1, <3>5 DEF UpdatePassword
    <2> QED BY <1>9, <2>2, <2>3, <2>4 DEF UpdatePassword
  <1>10. CASE Activate(r)
    <2>1. account' \in AccountTypes
      BY <1>1, <1>10 DEF Activate, AccountTypes
    <2> QED BY <1>1, <1>2, <1>10, <2>1, AcceptGoes DEF Activate, At
  <1>11. CASE MarkUsed(r)
    <2>1. CASE req[r].op = "accept"
      <3>1. req[r].token \in Numbers
        BY <1>1, <2>1, Kept DEF AcceptRecords
      <3>2. token' \in TokenTypes
        BY <1>1, <1>11, <2>1, <3>1 DEF MarkUsed, TokenTypes, Kinds
      <3> QED BY <1>1, <1>2, <1>11, <2>1, <3>2, AcceptGoes DEF MarkUsed
    <2>2. CASE req[r].op = "reset"
      <3>1. req[r].token \in Numbers
        BY <1>1, <2>2, Kept DEF ResetRecords
      <3>2. token' \in TokenTypes
        BY <1>1, <1>11, <2>2, <3>1 DEF MarkUsed, TokenTypes, Kinds
      <3> QED BY <1>1, <1>2, <1>11, <2>2, <3>2, ResetGoes DEF MarkUsed
    <2> QED BY <1>11, <2>1, <2>2 DEF MarkUsed
  <1>12. CASE Suspend(r)
    <2>1. account' \in AccountTypes
      BY <1>1, <1>12 DEF Suspend, AccountTypes
    <2> QED BY <1>1, <1>2, <1>12, <2>1, DoneOK, SuspendGoes DEF Suspend, At
  <1>13. CASE RevokeByIdentity(r)
    BY <1>1, <1>2, <1>13, DoneOK, RevokedRows DEF RevokeByIdentity
  <1> QED BY <1>3, <1>4, <1>5, <1>6, <1>7, <1>8, <1>9, <1>10, <1>11, <1>12, <1>13

LEMMA SignInTyped ==
  ASSUME TypeInv, SignInNext
  PROVE  SignInStays
  <1>1. CASE Unsuspend \/ LockExpires
    <2>1. /\ mix \in Mixes /\ sess \in Rows /\ req \in [Requests -> AllRequests]
          /\ account \in AccountTypes /\ token \in TokenTypes
      BY DEF TypeInv, TypeOK, Rows, AccountOK, AccountTypes, TokenTypes
    <2>2. account' \in AccountTypes
      <3>1. CASE Unsuspend
        BY <2>1, <3>1 DEF Unsuspend, AccountTypes
      <3>2. CASE LockExpires
        <4> DEFINE open == [account EXCEPT !.locked = FALSE]
        <4>1. open \in AccountTypes
          BY <2>1 DEF AccountTypes
        <4>3. account.unlocks \in 0..MaxUnlocks /\ account.unlocks < MaxUnlocks
          BY <2>1, <3>2 DEF LockExpires, AccountTypes
        <4>4. account.unlocks + 1 \in 0..MaxUnlocks
          BY <4>3, SignInAssumption
        <4>2. account' = [open EXCEPT !.unlocks = account.unlocks + 1]
          BY <3>2 DEF LockExpires
        <4> HIDE DEF open
        <4> QED BY <4>1, <4>2, <4>4 DEF AccountTypes
      <3> QED BY <1>1, <3>1, <3>2
    <2> QED BY <1>1, <2>1, <2>2
            DEF SignInStays, ReqOK, AccountOK, AccountTypes, TokenTypes, Unsuspend, LockExpires
  <1> QED BY <1>1, SignInBegins, SignInGoesOn DEF SignInNext

-----------------------------------------------------------------------------
(* What the second factor keeps.                                           *)

SecretOK == totp.secret = 0 => ~totp.verified
TotpTypes == [secret : 0..MaxSecrets, verified : BOOLEAN]

FactorStays == ReqOK /\ sess' \in Rows /\ FactorOK' /\ SecretOK' /\ mix' \in Mixes

LEMMA FactorNow ==
  ASSUME TypeInv
  PROVE  /\ req \in [Requests -> AllRequests] /\ sess \in Rows /\ FactorOK /\ SecretOK
         /\ mix \in Mixes
         /\ HasSecret => totp.secret \in Secrets
  <1>1. FactorOK /\ SecretOK
    BY DEF TypeInv, TypeOK, SecretOK
  <1>2. totp = [secret |-> totp.secret, verified |-> totp.verified]
        /\ totp.secret \in 0..MaxSecrets /\ totp.verified \in BOOLEAN
    BY <1>1 DEF FactorOK
  <1>3. HasSecret => totp.secret # 0
    <2>1. ASSUME totp.secret = 0 PROVE totp = NoSecret
      BY <1>1, <1>2, <2>1 DEF SecretOK, NoSecret
    <2> QED BY <2>1 DEF HasSecret
  <1>4. HasSecret => totp.secret \in Secrets
    BY <1>2, <1>3, SecretsAssumption DEF Secrets
  <1> QED BY <1>1, <1>4 DEF TypeInv, TypeOK, Rows

LEMMA FactorBegins ==
  ASSUME TypeInv, NEW r \in Requests, NEW s \in Sessions,
         \/ Enroll(r, s) \/ RemoveTOTP(r, s) \/ VerifyCode(r, s)
         \/ \E op \in mix : EnterTOTP(r, s, op) \/ FinishCeremony(r, s, op)
  PROVE  FactorStays
  <1> USE FactorNow DEF FactorStays
  <1>1. Admitted(s, "code") => sess[s].state \in SessionStates
    BY DEF Admitted, RequireState, AdmittedStates, SessionStates
  <1>2. \A op \in {"verify", "confirm", "register", "assert"} :
          Admitted(s, op) => sess[s].state \in SessionStates
    BY DEF Admitted, RequireState, AdmittedStates, SessionStates
  <1>3. CASE Enroll(r, s)
    <2>1. [op |-> "enroll", at |-> "store"] \in AllRequests
      BY DEF AllRequests, FactorRequests
    <2> QED BY <1>3, <2>1, BeginTyped DEF Enroll, factorVars, FactorOK, SecretOK, ReqOK
  <1>4. CASE RemoveTOTP(r, s)
    BY <1>4, SecretsAssumption DEF RemoveTOTP, NoSecret, FactorOK, SecretOK, ReqOK
  <1>5. CASE VerifyCode(r, s)
    <2> DEFINE q == [op |-> "code", sess |-> s, state |-> sess[s].state, at |-> "used"]
    <2>1. q \in ChallengeRecords
      BY <1>1, <1>5 DEF VerifyCode, ChallengeRecords
    <2>2. q \in AllRequests
      BY <2>1 DEF AllRequests, FactorRequests
    <2>3. Begin(r, q) /\ UNCHANGED <<mix, sess, factorVars>>
      BY <1>5 DEF VerifyCode
    <2> HIDE DEF q
    <2> QED BY <2>2, <2>3, BeginTyped DEF factorVars, FactorOK, SecretOK, ReqOK
  <1>6. ASSUME NEW op \in mix, EnterTOTP(r, s, op)
        PROVE  FactorStays
    <2> DEFINE q == [op |-> op, sess |-> s, state |-> sess[s].state,
                     at |-> IF op = "verify" /\ totp.verified THEN "promote" ELSE "mark"]
    <2>1. q \in ChallengeRecords
      BY <1>2, <1>6 DEF EnterTOTP, ChallengeRecords
    <2>2. q \in AllRequests
      BY <2>1 DEF AllRequests, FactorRequests
    <2>3. /\ Begin(r, q) /\ confirmed' = confirmed \cup {totp.secret} /\ HasSecret
          /\ UNCHANGED <<mix, sess, totp, passkey, ceremony, code>>
      BY <1>6 DEF EnterTOTP
    <2> HIDE DEF q
    <2> QED BY <2>2, <2>3, BeginTyped DEF FactorOK, SecretOK, ReqOK
  <1>7. ASSUME NEW op \in mix, FinishCeremony(r, s, op)
        PROVE  FactorStays
    <2> DEFINE q == [op |-> op, sess |-> s, state |-> sess[s].state,
                     at |-> IF op = "register" THEN "add" ELSE "promote"]
    <2>1. q \in ChallengeRecords
      BY <1>2, <1>7 DEF FinishCeremony, ChallengeRecords
    <2>2. q \in AllRequests
      BY <2>1 DEF AllRequests, FactorRequests
    <2>3. /\ Begin(r, q) /\ ceremony' \subseteq ceremony
          /\ UNCHANGED <<mix, sess, totp, confirmed, passkey, code>>
      BY <1>7 DEF FinishCeremony
    <2> HIDE DEF q
    <2> QED BY <2>2, <2>3, BeginTyped DEF FactorOK, SecretOK, ReqOK
  <1> QED BY <1>3, <1>4, <1>5, <1>6, <1>7

LEMMA FactorGoesOn ==
  ASSUME TypeInv, NEW r \in Requests,
         \/ HasVerifiedTOTP(r) \/ CountPasskeys(r) \/ StoreSecret(r) \/ MarkVerified(r)
         \/ AddPasskey(r) \/ MarkCodeUsed(r) \/ SetSecondFactor(r)
  PROVE  FactorStays
  <1> USE FactorNow DEF FactorStays
  <1>1. ASSUME NEW step \in {"count", "create"}, NEW v \in {"pre_auth", req[r].state},
               req[r].op = "login", req' = [req EXCEPT ![r].at = step, ![r].state = v]
        PROVE  ReqOK
    <2> DEFINE p == [req[r] EXCEPT !.at = step]
               q == [p EXCEPT !.state = v]
    <2>1. req[r] \in LoginRecords
      BY <1>1, Kept
    <2>2. p \in LoginRecords /\ v \in {"setup_2fa", "pre_auth"}
      BY <2>1 DEF LoginRecords
    <2>3. req' = [req EXCEPT ![r] = q]
      BY <1>1
    <2> HIDE DEF p
    <2>4. q \in LoginRecords
      BY <2>2 DEF LoginRecords
    <2> HIDE DEF q
    <2> QED BY <2>3, <2>4, ReqTyped DEF ReqOK, AllRequests, SessionRequests
  <1>2. CASE HasVerifiedTOTP(r)
    <2>1. req[r].op = "login" /\ UNCHANGED <<mix, sess, factorVars>>
      BY <1>2 DEF HasVerifiedTOTP, At
    <2>2. CASE GoTo(r, "count")
      BY <2>1, <2>2, LoginGoes DEF factorVars, FactorOK, SecretOK
    <2>3. CASE req' = [req EXCEPT ![r].at = "count",
                         ![r].state = IF totp.verified THEN "pre_auth" ELSE @]
      BY <1>1, <2>1, <2>3 DEF factorVars, FactorOK, SecretOK
    <2> QED BY <1>2, <2>2, <2>3 DEF HasVerifiedTOTP
  <1>3. CASE CountPasskeys(r)
    <2>1. req[r].op = "login" /\ UNCHANGED <<mix, sess, factorVars>>
      BY <1>3 DEF CountPasskeys, At
    <2>2. CASE GoTo(r, "create")
      BY <2>1, <2>2, LoginGoes DEF factorVars, FactorOK, SecretOK
    <2>3. CASE req' = [req EXCEPT ![r].at = "create",
                         ![r].state = IF passkey THEN "pre_auth" ELSE @]
      BY <1>1, <2>1, <2>3 DEF factorVars, FactorOK, SecretOK
    <2> QED BY <1>3, <2>2, <2>3 DEF CountPasskeys
  <1>4. CASE StoreSecret(r)
    <2>1. PICK n \in Secrets : totp' = [secret |-> n, verified |-> FALSE]
      BY <1>4 DEF StoreSecret
    <2>2. totp' \in TotpTypes
      BY <2>1, SecretsAssumption DEF Secrets, TotpTypes
    <2> QED BY <1>4, <2>1, <2>2, DoneOK DEF StoreSecret, FactorOK, SecretOK, TotpTypes
  <1>5. CASE MarkVerified(r)
    <2>1. ReqOK
      BY <1>5, DoneOK, ChallengeGoes DEF MarkVerified
    <2>2. (totp' = [totp EXCEPT !.verified = TRUE] /\ HasSecret) \/ UNCHANGED totp
      BY <1>5 DEF MarkVerified
    <2>3. totp' \in TotpTypes /\ SecretOK'
      <3>1. totp \in TotpTypes
        BY DEF FactorOK, TotpTypes
      <3>2. CASE totp' = [totp EXCEPT !.verified = TRUE] /\ HasSecret
        <4>1. totp' \in TotpTypes /\ totp'.secret = totp.secret
          BY <3>1, <3>2 DEF TotpTypes
        <4>2. totp'.secret # 0
          BY <3>2, <4>1, SecretsAssumption DEF Secrets
        <4> QED BY <4>1, <4>2 DEF SecretOK
      <3> QED BY <2>2, <3>1, <3>2 DEF SecretOK
    <2> QED BY <1>5, <2>1, <2>3 DEF MarkVerified, FactorOK, TotpTypes
  <1>6. CASE AddPasskey(r)
    BY <1>6, DoneOK DEF AddPasskey, FactorOK, SecretOK
  <1>7. CASE MarkCodeUsed(r)
    BY <1>7, ChallengeGoes DEF MarkCodeUsed, At, FactorOK, SecretOK
  <1>8. CASE SetSecondFactor(r)
    <2>1. req[r].sess \in Sessions
      BY <1>8, Kept DEF SetSecondFactor, ChallengeRecords
    <2>2. sess' \in Rows
      BY <1>8, <2>1, SecondFactorSetRow DEF SetSecondFactor, Differs
    <2> QED BY <1>8, <2>2, DoneOK DEF SetSecondFactor, factorVars, FactorOK, SecretOK
  <1> QED BY <1>2, <1>3, <1>4, <1>5, <1>6, <1>7, <1>8

LEMMA FactorTyped ==
  ASSUME TypeInv, FactorNext
  PROVE  FactorStays
  <1>1. CASE \/ \E s \in Sessions : BeginRegistration(s) \/ Begin2FA(s) \/ RemovePasskey(s)
             \/ AdminDeletePasskey \/ GenerateCode
    BY <1>1, FactorNow
    DEF FactorStays, BeginRegistration, Begin2FA, RemovePasskey, AdminDeletePasskey,
        DeletePasskey, SaveWebAuthnSession, GenerateCode, FactorOK, SecretOK, ReqOK
  <1> QED BY <1>1, FactorBegins, FactorGoesOn DEF FactorNext

-----------------------------------------------------------------------------
(* What tenant selection and administration keep.                          *)

ContextStays == ReqOK /\ sess' \in Rows /\ ContextOK' /\ mix' \in Mixes

LEMMA ContextTyped ==
  ASSUME TypeInv, ContextNext
  PROVE  ContextStays
  <1> USE DEF ContextStays
  <1>1. req \in [Requests -> AllRequests] /\ sess \in Rows /\ ContextOK /\ mix \in Mixes
    BY DEF TypeInv, TypeOK, Rows
  <1>2. ASSUME NEW r \in Requests, IsTenantSuspended(r)
        PROVE  ContextStays
    BY <1>1, <1>2, DoneOK, SelectGoes DEF IsTenantSuspended, At, contextVars, ContextOK
  <1>3. ASSUME NEW r \in Requests, SetTenant(r)
        PROVE  ContextStays
    <2>1. req[r].sess \in Sessions /\ req[r].tenant \in Tenants
      BY <1>1, <1>3, Kept DEF SetTenant, At, SelectRecords
    <2>2. sess' \in Rows
      BY <1>1, <1>3, <2>1, TenantSetRow DEF SetTenant, Differs
    <2> QED BY <1>1, <1>3, <2>2, DoneOK DEF SetTenant, contextVars, ContextOK
  <1>4. ASSUME NEW r \in Requests, SetSuperAdmin(r) \/ ResetContext(r)
        PROVE  ContextStays
    <2>1. req[r].sess \in Sessions
      BY <1>1, <1>4, Kept DEF SetSuperAdmin, ResetContext, At, ContextRecords
    <2>2. sess' \in Rows
      BY <1>1, <1>4, <2>1, SuperAdminSetRow, ContextResetRow
      DEF SetSuperAdmin, ResetContext, Differs
    <2> QED BY <1>1, <1>4, <2>2, DoneOK
            DEF SetSuperAdmin, ResetContext, contextVars, ContextOK
  <1>5. ASSUME NEW r \in Requests, RevokeThese(r) \/ RevokeByTenant(r)
        PROVE  ContextStays
    BY <1>1, <1>5, DoneOK, RevokedRows
    DEF RevokeThese, RevokeByTenant, contextVars, ContextOK
  <1>6. ASSUME NEW r \in Requests, NEW t \in Tenants, SuspendTenant(r, t)
        PROVE  ContextStays
    <2>1. [op |-> "close", at |-> "revoke", tenant |-> t] \in AllRequests
      BY DEF AllRequests, ContextRequests, CloseRecords
    <2> QED BY <1>1, <1>6, <2>1, BeginTyped DEF SuspendTenant, ContextOK, ReqOK
  <1>7. ASSUME NEW r \in Requests, NEW s \in Sessions, NEW t \in Tenants,
               SelectTenant(r, s, t)
        PROVE  ContextStays
    <2>1. [op |-> "select", at |-> "check", sess |-> s, tenant |-> t] \in AllRequests
      BY DEF AllRequests, ContextRequests, SelectRecords
    <2> QED BY <1>1, <1>7, <2>1, BeginTyped DEF SelectTenant, contextVars, ContextOK, ReqOK
  <1>8. ASSUME NEW r \in Requests, NEW s \in Sessions, SelectAdmin(r, s) \/ SwitchContext(r, s)
        PROVE  ContextStays
    <2>1. /\ [op |-> "admin", at |-> "elevate", sess |-> s] \in AllRequests
          /\ [op |-> "switch", at |-> "reset", sess |-> s] \in AllRequests
      BY DEF AllRequests, ContextRequests, ContextRecords
    <2> QED BY <1>1, <1>8, <2>1, BeginTyped
            DEF SelectAdmin, SwitchContext, contextVars, ContextOK, ReqOK
  <1>9. ASSUME NEW r \in Requests, NEW op \in {"logout", "revoke", "others", "expel"},
               NEW S \in SUBSET Sessions, EndSessions(r, op, S)
        PROVE  ContextStays
    <2>1. [op |-> op, at |-> "end", all |-> S] \in AllRequests
      BY DEF AllRequests, ContextRequests, EndRecords
    <2> QED BY <1>1, <1>9, <2>1, BeginTyped DEF EndSessions, contextVars, ContextOK, ReqOK
  <1>10. ASSUME NEW r \in Requests, NEW s \in Sessions,
                \/ AdminRevokeSession(r, s) \/ Logout(r, s) \/ RevokeAllOtherSessions(r, s)
                \/ \E u \in Sessions : RevokeSession(r, s, u)
         PROVE  ContextStays
    BY <1>9, <1>10 DEF AdminRevokeSession, Logout, RevokeAllOtherSessions, RevokeSession
  <1>11. ASSUME \/ \E t \in Tenants : UnsuspendTenant(t) \/ DeleteTenant(t) \/ RemoveFromTenant(t)
                \/ SetIdentitySuperAdmin
         PROVE  ContextStays
    <2>1. CASE \E t \in Tenants : UnsuspendTenant(t) \/ DeleteTenant(t)
      BY <1>1, <2>1 DEF UnsuspendTenant, DeleteTenant, ContextOK, ReqOK
    <2>2. CASE \E t \in Tenants : RemoveFromTenant(t)
      BY <1>1, <2>2, RevokedRows DEF RemoveFromTenant, ContextOK, ReqOK
    <2>3. CASE SetIdentitySuperAdmin
      BY <1>1, <2>3 DEF SetIdentitySuperAdmin, ContextOK, ReqOK
    <2> QED BY <1>11, <2>1, <2>2, <2>3
  <1> QED BY <1>2, <1>3, <1>4, <1>5, <1>6, <1>7, <1>8, <1>10, <1>11 DEF ContextNext

LEMMA TypesInit == Init => TypeInv
  <1> SUFFICES ASSUME Init PROVE TypeInv
    OBVIOUS
  <1>1. req \in [Requests -> AllRequests] /\ mix \in Mixes
    BY DEF Init, HandlersInit, AllRequests
  <1>2. AccountOK
    <2>1. 0 \in 0..MaxPasswords /\ 1 \in 0..MaxPasswords /\ 0 \in 0..MaxUnlocks
      BY SignInAssumption
    <2>2. PICK active \in BOOLEAN :
            /\ account = [password |-> IF active THEN 1 ELSE 0, activated |-> active,
                          suspended |-> FALSE, attempts |-> 0, locked |-> FALSE,
                          unlocks |-> 0]
            /\ token = [k \in Kinds |-> [n \in Numbers |->
                          IF k = "invite" /\ n = 1 /\ ~active THEN "unused" ELSE "none"]]
      BY DEF Init, SignInInit
    <2>3. account \in AccountTypes
      BY <2>1, <2>2 DEF AccountTypes
    <2>4. token \in TokenTypes
      BY <2>2 DEF TokenTypes
    <2> QED BY <2>3, <2>4 DEF AccountOK, AccountTypes, TokenTypes
  <1>3. FactorOK /\ SecretOK
    <2>1. 0 \in 0..MaxSecrets /\ 1 \in 0..MaxSecrets /\ 1 \in Secrets
      BY SecretsAssumption DEF Secrets
    <2>2. totp \in TotpTypes /\ confirmed \subseteq Secrets /\ SecretOK
      BY <2>1 DEF Init, FactorInit, NoSecret, TotpTypes, SecretOK
    <2> QED BY <2>2 DEF Init, FactorInit, FactorOK, TotpTypes
  <1>4. ContextOK
    BY DEF Init, ContextInit, ContextOK
  <1>5. sess \in Rows
    <2>1. NoSession \in SessionRecords /\ FirstSessions \subseteq SessionRecords
      <3>1. NoSession \in SessionRecords
        BY DEF NoSession, SessionRecords
      <3>2. \A st \in SessionStates, t \in Tenants \cup {NoTenant} :
              [NoSession EXCEPT !.state = st, !.password = 1, !.tenant = t] \in SessionRecords
        BY <3>1 DEF SessionRecords
      <3>3. \A st \in SessionStates :
              [NoSession EXCEPT !.state = st, !.password = 1] \in SessionRecords
        BY <3>1 DEF SessionRecords
      <3> QED BY <3>1, <3>2, <3>3 DEF FirstSessions, SessionStates
    <2> QED BY <2>1 DEF Init, Rows
  <1> QED BY <1>1, <1>2, <1>3, <1>4, <1>5 DEF TypeInv, TypeOK, Init, Rows, SecretOK

LEMMA TypesNext == ASSUME TypeInv, [Next]_vars PROVE TypeInv'
  <1>1. /\ AccountOK /\ FactorOK /\ ContextOK /\ SecretOK /\ sess \in Rows /\ mix \in Mixes
        /\ req \in [Requests -> AllRequests] /\ excused \subseteq Sessions
    BY DEF TypeInv, TypeOK, SecretOK, Rows
  <1>2. TypeInv' <=> /\ ReqOK /\ sess' \in Rows /\ AccountOK' /\ FactorOK' /\ SecretOK'
                     /\ ContextOK' /\ mix' \in Mixes /\ excused' \subseteq Sessions
    BY DEF TypeInv, TypeOK, SecretOK, Rows, ReqOK
  <1>3. /\ UNCHANGED signInVars => AccountOK'
        /\ UNCHANGED factorVars => FactorOK' /\ SecretOK'
        /\ UNCHANGED contextVars => ContextOK'
    BY <1>1 DEF signInVars, factorVars, contextVars, AccountOK, FactorOK, ContextOK, SecretOK
  <1>4. CASE UNCHANGED vars
    BY <1>1, <1>2, <1>3, <1>4 DEF vars, ReqOK
  <1>5. CASE Next
    <2>1. excused' \subseteq Sessions
      BY <1>5 DEF Next
    <2>2. CASE SessionsNext /\ UNCHANGED <<signInVars, factorVars, contextVars>>
      BY <1>2, <1>3, <2>1, <2>2, SessionsTyped DEF Rows, ReqOK
    <2>3. CASE SignInNext /\ UNCHANGED <<factorVars, contextVars>>
      BY <1>2, <1>3, <2>1, <2>3, SignInTyped DEF SignInStays
    <2>4. CASE FactorNext /\ UNCHANGED <<signInVars, contextVars>>
      BY <1>2, <1>3, <2>1, <2>4, FactorTyped DEF FactorStays
    <2>5. CASE ContextNext /\ UNCHANGED <<signInVars, factorVars>>
      BY <1>2, <1>3, <2>1, <2>5, ContextTyped DEF ContextStays
    <2> QED BY <1>5, <2>2, <2>3, <2>4, <2>5 DEF Next, Steps
  <1> QED BY <1>4, <1>5

(* Every reachable state of account, tokens, factors, sessions and tenants *)
(* is well typed, whatever endpoints run at once; no session is in a state *)
(* or bound to a tenant the middleware does not know (session/store.go).   *)
THEOREM AccessTypes == Spec => []TypeOK
  <1>1. TypeInv => TypeOK
    BY DEF TypeInv
  <1> QED BY <1>1, TypesInit, TypesNext, PTL DEF Spec

-----------------------------------------------------------------------------
(* Sessions that outlive.  A session due with its account is excused or a  *)
(* revocation that reaches all sessions is on its way; for one due with    *)
(* its tenant, also one that reaches the tenant's.  A context is reset     *)
(* only of a session there is.                                             *)
AccountOut(s) ==
  Valid(s) /\ AccountDue(s) => s \in excused \/ \E r \in Requests : RevokesAll(r)
TenantOut(s) ==
  Valid(s) /\ TenantDue(s) => s \in excused \/ \E r \in Requests : Covers(r, s)
NoneOut == \A s \in Sessions : AccountOut(s) /\ TenantOut(s)
Switches == \A r \in Requests : req[r].op = "switch" => sess[req[r].sess].state # "none"

OutInv == TypeInv /\ NoneOut /\ Switches

(* How one request moves.                                                  *)
Only(r) == \A x \in Requests \ {r} : req'[x] = req[x]

LEMMA Request ==
  ASSUME TypeInv, NEW r \in Requests
  PROVE  /\ DOMAIN req = Requests /\ req[r] \in AllRequests
         /\ "op" \in DOMAIN req[r] /\ "at" \in DOMAIN req[r]
  BY DEF TypeInv, AllRequests, SessionRequests, AccountRequests, FactorRequests,
         ContextRequests, LoginRecords, ExternalRecords, AcceptRecords, IssueRecords,
         ResetRecords, AccountRecords, ChallengeRecords, SelectRecords, ContextRecords,
         EndRecords, CloseRecords, Idle

LEMMA Going ==
  ASSUME TypeInv, NEW r \in Requests, NEW step, GoTo(r, step)
  PROVE  Only(r) /\ req'[r].op = req[r].op /\ req'[r].at = step
  <1>1. req' = [req EXCEPT ![r] = [req[r] EXCEPT !.at = step]]
    BY DEF GoTo
  <1>2. Only(r) /\ req'[r] = [req[r] EXCEPT !.at = step]
    BY <1>1, Request DEF Only
  <1> QED BY <1>2, Request

LEMMA Ending ==
  ASSUME TypeInv, NEW r \in Requests, Done(r)
  PROVE  Only(r) /\ req'[r] = Idle
  BY Request DEF Done, Only

LEMMA Beginning ==
  ASSUME TypeInv, NEW r \in Requests, NEW q, Begin(r, q)
  PROVE  Only(r) /\ req'[r] = q /\ req[r] = Idle
  BY Request DEF Begin, Only

(* Revocations that go on their way.                                       *)
Revokes(r) == RevokesAll(r) \/ At(r, "close", "revoke")

LEMMA OthersGoOn ==
  ASSUME NEW r \in Requests, Only(r), ~Revokes(r), NEW s \in Sessions, sess'[s] = sess[s]
  PROVE  \A x \in Requests : /\ RevokesAll(x) => RevokesAll(x)'
                             /\ Covers(x, s) => Covers(x, s)'
  BY DEF Only, Revokes, RevokesAll, Covers, At

(* A session that is as it was, of an account and tenants no worse.        *)
SameAccount ==
  account'.password = account.password /\ (account'.suspended => account.suspended)
SameTenants == \A t \in Tenants : tenant'[t] # "active" => tenant[t] # "active"

Remembered(s) == s \in excused \/ Overtaken(s) \/ WithoutRevocation(s) \/ RevocationFails(s)

LEMMA Excused ==
  ASSUME Next, NEW s \in Sessions, Remembered(s)
  PROVE  AccountOut(s)' /\ TenantOut(s)'
  BY DEF Next, Remembered, AccountOut, TenantOut, Due

LEMMA StillOut ==
  ASSUME OutInv, Next, NEW s \in Sessions, sess'[s] = sess[s]
  PROVE  /\ SameAccount /\ (\A r \in Requests : RevokesAll(r) => RevokesAll(r)') => AccountOut(s)'
         /\ SameTenants /\ (\A r \in Requests : Covers(r, s) => Covers(r, s)') => TenantOut(s)'
  <1>1. CASE s \in excused
    BY <1>1, Excused DEF Remembered
  <1>2. CASE s \notin excused
    <2>1. AccountOut(s) /\ TenantOut(s) /\ sess[s] \in SessionRecords
      BY DEF OutInv, NoneOut, TypeInv, TypeOK
    <2>2. Valid(s)' => Valid(s)
      BY DEF Valid
    <2>3. SameAccount /\ AccountDue(s)' => AccountDue(s)
      BY DEF SameAccount, AccountDue
    <2>4. SameTenants /\ TenantDue(s)' => TenantDue(s)
      BY <2>1 DEF SameTenants, TenantDue, SessionRecords
    <2> QED BY <1>2, <2>1, <2>2, <2>3, <2>4 DEF AccountOut, TenantOut
  <1> QED BY <1>1, <1>2

(* Steps that change account and tenants no further, whatever request that *)
(* is not about a revocation makes them.                                   *)
Ends1(s) == Valid(s)' => sess'[s] = sess[s]
NoRevocation == UNCHANGED req \/ \E r \in Requests : Only(r) /\ ~Revokes(r)

LEMMA CalmStep ==
  ASSUME OutInv, Next, SameAccount, SameTenants, NoRevocation,
         \A s \in Sessions : Ends1(s) \/ Overtaken(s)
  PROVE  NoneOut'
  <1> SUFFICES ASSUME NEW s \in Sessions PROVE AccountOut(s)' /\ TenantOut(s)'
    BY DEF NoneOut
  <1>1. CASE Overtaken(s)
    BY <1>1, Excused DEF Remembered
  <1>2. CASE ~Valid(s)'
    BY <1>2 DEF AccountOut, TenantOut
  <1>3. CASE sess'[s] = sess[s]
    <2>1. \A x \in Requests : /\ RevokesAll(x) => RevokesAll(x)'
                              /\ Covers(x, s) => Covers(x, s)'
      BY <1>3, OthersGoOn DEF NoRevocation, RevokesAll, Covers, At
    <2> QED BY <1>3, <2>1, StillOut
  <1> QED BY <1>1, <1>2, <1>3 DEF Ends1

(* A reset of context is always of a session that was there.               *)
LEMMA SwitchesStay ==
  ASSUME OutInv, \A r \in Requests : req'[r] = req[r] \/ req'[r].op # "switch",
         \A s \in Sessions : sess'[s].state = "none" => sess[s].state = "none"
  PROVE  Switches'
  <1> SUFFICES ASSUME NEW r \in Requests, req'[r].op = "switch"
               PROVE  sess'[req'[r].sess].state # "none"
    BY DEF Switches
  <1>1. req[r].op = "switch" /\ req[r].sess \in Sessions /\ req'[r].sess = req[r].sess
    BY Request, Kept DEF ContextRecords, OutInv
  <1> QED BY <1>1 DEF OutInv, Switches

(* A revocation that reaches its sessions, fails or stops.                 *)
LEMMA RevocationEnds ==
  ASSUME OutInv, Next, NEW r \in Requests, Only(r), SameAccount, SameTenants,
         \A s \in Sessions : \/ ~Valid(s)'
                             \/ sess'[s] = sess[s] /\ (Covers(r, s) => RevocationFails(s))
  PROVE  NoneOut'
  <1> SUFFICES ASSUME NEW s \in Sessions PROVE AccountOut(s)' /\ TenantOut(s)'
    BY DEF NoneOut
  <1>1. CASE ~Valid(s)'
    BY <1>1 DEF AccountOut, TenantOut
  <1>2. CASE RevocationFails(s)
    BY <1>2, Excused DEF Remembered
  <1>3. CASE sess'[s] = sess[s] /\ ~Covers(r, s)
    <2>1. \A x \in Requests : /\ RevokesAll(x) => RevokesAll(x)'
                              /\ Covers(x, s) => Covers(x, s)'
      BY <1>3 DEF Only, RevokesAll, Covers, At
    <2> QED BY <1>3, <2>1, StillOut
  <1> QED BY <1>1, <1>2, <1>3

(* What a request that is not about sessions or accounts does.             *)
Plain(r) == Only(r) /\ ~Revokes(r) /\ req'[r].op # "switch"
NoneBegin == \A s \in Sessions : sess'[s].state = "none" => sess[s].state = "none"
Prolongs(r) ==
  /\ Moves(r) /\ req[r].at \in {"create", "bind", "promote", "elevate"}
  /\ NoneBegin

LEMMA PlainStep ==
  ASSUME OutInv, Next, NEW r \in Requests, Plain(r), SameAccount, SameTenants,
         UNCHANGED sess \/ Prolongs(r)
  PROVE  NoneOut' /\ Switches'
  <1>1. \A s \in Sessions : Ends1(s) \/ Overtaken(s)
    BY DEF Ends1, Overtaken, Prolongs
  <1>2. NoneOut'
    BY <1>1, CalmStep DEF Plain, NoRevocation
  <1>3. NoneBegin
    BY DEF Prolongs, NoneBegin
  <1> QED BY <1>2, <1>3, SwitchesStay DEF Plain, Only, NoneBegin

LEMMA SessionsOut ==
  ASSUME OutInv, Next, SessionsNext, UNCHANGED <<account, tenant>>
  PROVE  NoneOut' /\ Switches'
  <1>1. sess \in Rows /\ TypeInv /\ SameAccount /\ SameTenants
    BY DEF OutInv, TypeInv, TypeOK, Rows, SameAccount, SameTenants
  <1>2. ASSUME NEW r \in Requests, Abandon(r), UNCHANGED sess
        PROVE  NoneOut' /\ Switches'
    <2>1. Only(r) /\ req'[r] = Idle /\ Faults
      BY <1>1, <1>2, Ending DEF Abandon
    <2>2. \A s \in Sessions : Covers(r, s) => RevocationFails(s)
      BY <1>2, <2>1 DEF RevocationFails
    <2>3. NoneOut'
      BY <1>1, <1>2, <2>1, <2>2, RevocationEnds
    <2> QED BY <1>2, <2>1, <2>3, SwitchesStay DEF Only, Idle
  <1>3. ASSUME UNCHANGED req, \A s \in Sessions : Ends1(s), NoneBegin
        PROVE  NoneOut' /\ Switches'
    BY <1>1, <1>3, CalmStep, SwitchesStay DEF NoRevocation, NoneBegin
  <1>4. ASSUME NEW s \in Sessions, Expire(s)
        PROVE  UNCHANGED req /\ (\A u \in Sessions : Ends1(u)) /\ NoneBegin
    BY <1>1, <1>4 DEF Expire, Ends1, Valid, NoneBegin, Rows, SessionRecords
  <1>5. ASSUME NEW S, sess' = Revoked(S) \/ sess' = Deleted(S)
        PROVE  (\A u \in Sessions : Ends1(u)) /\ NoneBegin
    BY <1>1, <1>5 DEF Revoked, Deleted, Ends1, Valid, NoneBegin, Rows, SessionRecords
  <1> QED BY <1>2, <1>3, <1>4, <1>5 DEF SessionsNext, IdleTimeout, CleanupExpired

LEMMA PlainBegins ==
  ASSUME TypeInv, NEW r \in Requests, NEW q, Begin(r, q), q.op # "switch"
  PROVE  Plain(r)
  BY Beginning DEF Plain, Revokes, RevokesAll, At, Idle

LEMMA SignInBeginsOut ==
  ASSUME OutInv, NEW r \in Requests,
         \/ \E p \in Passwords : Login(r, p)
         \/ FinishLogin(r) \/ OIDCCallback(r)
         \/ RequestPasswordReset(r) \/ AdminResendInvite(r)
         \/ \E n \in Numbers : ConfirmPasswordReset(r, n) \/ AcceptInvite(r, n)
         \/ \E s \in Sessions : ChangePassword(r, s)
         \/ AdminResetPassword(r) \/ AdminSuspendIdentity(r)
  PROVE  Plain(r) /\ UNCHANGED <<sess, account>>
  <1>1. UNCHANGED <<sess, account>>
    BY DEF Login, FinishLogin, OIDCCallback, ExternalSignIn, RequestPasswordReset,
           AdminResendInvite, IssueToken, ConfirmPasswordReset, AcceptInvite, ChangePassword,
           AdminResetPassword, AdminSuspendIdentity
  <1>2. Plain(r)
    BY PlainBegins
    DEF OutInv, Login, FinishLogin, OIDCCallback, ExternalSignIn, RequestPasswordReset,
           AdminResendInvite, IssueToken, ConfirmPasswordReset, AcceptInvite, ChangePassword,
           AdminResetPassword, AdminSuspendIdentity
  <1> QED BY <1>1, <1>2

LEMMA SignInGoesOnOut ==
  ASSUME OutInv, NEW r \in Requests,
         \/ RecordFailedLogin(r) \/ ClearFailedLogin(r) \/ CreateSession(r)
         \/ InvalidateTokens(r) \/ InsertToken(r) \/ AcceptLookup(r)
         \/ Activate(r) \/ (MarkUsed(r) /\ req[r].op = "accept")
  PROVE  Plain(r) /\ SameAccount /\ (UNCHANGED sess \/ Prolongs(r))
  <1>1. TypeInv /\ account \in AccountTypes /\ sess \in Rows
    BY DEF OutInv, TypeInv, TypeOK, AccountOK, AccountTypes, Rows
  <1>2. SameAccount
    <2>1. CASE RecordFailedLogin(r)
      BY <1>1, <2>1 DEF RecordFailedLogin, SameAccount, AccountTypes
    <2>2. CASE ClearFailedLogin(r)
      BY <1>1, <2>2 DEF ClearFailedLogin, SameAccount, AccountTypes
    <2>3. CASE Activate(r)
      BY <1>1, <2>3 DEF Activate, SameAccount, AccountTypes
    <2> QED BY <2>1, <2>2, <2>3
            DEF CreateSession, InvalidateTokens, InsertToken, AcceptLookup, MarkUsed, SameAccount
  <1>3. /\ req[r].op \in {"login", "passkey", "sso", "accept", "issue"}
        /\ Done(r) \/ \E step : GoTo(r, step)
    BY DEF RecordFailedLogin, ClearFailedLogin, CreateSession, InvalidateTokens, InsertToken,
           AcceptLookup, Activate, MarkUsed, At
  <1>4. Plain(r) /\ (Done(r) => req'[r] = Idle)
    BY <1>1, <1>3, Going, Ending DEF Plain, Revokes, RevokesAll, At, Idle
  <1>5. CASE CreateSession(r)
    <2>1. Moves(r) /\ req[r].at = "create"
      BY <1>3, <1>4, <1>5 DEF CreateSession, Moves, Idle
    <2>2. PICK s \in Sessions :
            sess[s] = NoSession /\ sess' = Created(s, req[r].state, req[r].password)
      BY <1>5 DEF CreateSession
    <2>3. NoneBegin
      BY <1>1, <2>2 DEF NoneBegin, Created, NoSession, Rows
    <2> QED BY <1>2, <1>4, <2>1, <2>3 DEF Prolongs
  <1>6. CASE UNCHANGED sess
    BY <1>2, <1>4, <1>6
  <1> QED BY <1>5, <1>6
          DEF RecordFailedLogin, ClearFailedLogin, InvalidateTokens, InsertToken, AcceptLookup,
              Activate, MarkUsed

(* A new password makes sessions due: of those a reset revokes, the others *)
(* are the ones the endpoint leaves.                                       *)
LEMMA UpdatePasswordOut ==
  ASSUME OutInv, Next, NEW r \in Requests, UpdatePassword(r), UNCHANGED tenant
  PROVE  NoneOut' /\ Switches'
  <1>1. TypeInv /\ account \in AccountTypes /\ req[r].at = "password" /\ UNCHANGED sess
    BY DEF OutInv, TypeInv, TypeOK, AccountOK, AccountTypes, UpdatePassword
  <1>2. ~Revokes(r) /\ SameTenants
    BY <1>1 DEF Revokes, RevokesAll, At, SameTenants
  <1>3. Only(r) /\ Moves(r)
        /\ \/ req[r].op \in {"change", "set"} /\ req'[r] = Idle
           \/ req[r].op = "accept" /\ req'[r].op = "accept"
           \/ req[r].op = "reset" /\ RevokesAll(r)' /\ req'[r].op = "reset"
    <2>1. req[r] # Idle /\ "op" \in DOMAIN req[r] /\ DOMAIN req = Requests
      BY <1>1, Request DEF Idle
    <2>2. CASE req[r].op \in {"change", "set"} /\ Done(r)
      BY <1>1, <2>1, <2>2, Ending DEF Moves
    <2>3. CASE req[r].op = "reset" /\ GoTo(r, "mark")
      BY <1>1, <2>1, <2>3, Going DEF Moves, RevokesAll
    <2>4. CASE /\ req[r].op = "accept"
               /\ req' = [req EXCEPT ![r].at = "activate", ![r].password = account.password + 1]
      <3> DEFINE p == [req[r] EXCEPT !.at = "activate"]
                 q == [p EXCEPT !.password = account.password + 1]
      <3>1. p \in AcceptRecords /\ p.op = "accept" /\ p.at = "activate"
        BY <1>1, <2>4, Request, Kept DEF AcceptRecords
      <3>2. req' = [req EXCEPT ![r] = q]
        BY <2>4
      <3> HIDE DEF p
      <3>3. q.op = "accept" /\ q.at = "activate"
        BY <3>1 DEF AcceptRecords
      <3> HIDE DEF q
      <3>4. Only(r) /\ req'[r] = q
        BY <2>1, <3>2 DEF Only
      <3> QED BY <1>1, <2>1, <2>4, <3>3, <3>4 DEF Moves
    <2> QED BY <2>2, <2>3, <2>4 DEF UpdatePassword
  <1>4. Switches'
    BY <1>1, <1>3, SwitchesStay DEF Only, Idle
  <1>5. account'.suspended = account.suspended
    BY <1>1 DEF UpdatePassword, AccountTypes
  <1>6. SUFFICES ASSUME NEW s \in Sessions PROVE AccountOut(s)' /\ TenantOut(s)'
    BY <1>4 DEF NoneOut
  <1>7. sess'[s] = sess[s]
    BY <1>1
  <1>8. \A x \in Requests : /\ RevokesAll(x) => RevokesAll(x)'
                            /\ Covers(x, s) => Covers(x, s)'
    BY <1>2, <1>3, <1>7, OthersGoOn
  <1>9. TenantOut(s)'
    BY <1>2, <1>7, <1>8, StillOut
  <1>10. AccountOut(s)'
    <2>1. CASE RevokesAll(r)'
      BY <2>1 DEF AccountOut
    <2>2. CASE ~AccountDue(s) /\ req[r].op \in {"change", "set", "accept"}
      <3>1. WithoutRevocation(s)
        BY <1>1, <1>3, <2>2 DEF WithoutRevocation
      <3> QED BY <3>1, Excused DEF Remembered
    <2>3. CASE AccountDue(s)
      <3>1. CASE s \in excused
        BY <3>1, Excused DEF Remembered
      <3>2. CASE s \notin excused
        BY <1>7, <1>8, <2>3, <3>2 DEF OutInv, NoneOut, AccountOut, Valid
      <3> QED BY <3>1, <3>2
    <2> QED BY <1>3, <2>1, <2>2, <2>3
  <1> QED BY <1>9, <1>10

LEMMA RevokersOut ==
  ASSUME OutInv, Next, UNCHANGED tenant, NEW r \in Requests,
         \/ MarkUsed(r) /\ req[r].op = "reset"
         \/ Suspend(r) \/ RevokeByIdentity(r)
  PROVE  NoneOut' /\ Switches'
  <1>1. /\ TypeInv /\ account \in AccountTypes /\ sess \in Rows /\ SameTenants
        /\ req[r].op \in {"reset", "suspend"}
    BY DEF OutInv, TypeInv, TypeOK, AccountOK, AccountTypes, Rows, SameTenants, MarkUsed,
           Suspend, RevokeByIdentity, At
  <1>2. CASE MarkUsed(r) /\ req[r].op = "reset"
    <2>1. Only(r) /\ RevokesAll(r)' /\ req'[r].op = "reset" /\ UNCHANGED <<sess, account>>
      BY <1>1, <1>2, Going DEF MarkUsed, RevokesAll
    <2>2. \A x \in Requests, s \in Sessions :
            /\ RevokesAll(x) => RevokesAll(x)'
            /\ Covers(x, s) => Covers(x, s)'
      BY <1>1, <2>1 DEF Only, RevokesAll, Covers, At
    <2>3. NoneOut'
      BY <1>1, <2>1, <2>2, StillOut DEF NoneOut, SameAccount
    <2> QED BY <2>1, <2>3, SwitchesStay DEF Only
  <1>3. CASE Suspend(r)
    <2>1. UNCHANGED sess /\ account'.password = account.password /\ req[r].at = "suspend"
      BY <1>1, <1>3 DEF Suspend, AccountTypes, At
    <2>2. Only(r) /\ req'[r].op \in {"none", "suspend"}
      BY <1>1, <1>3, Going, Ending DEF Suspend, Idle, At
    <2>3. Switches'
      BY <2>1, <2>2, SwitchesStay DEF Only
    <2>4. CASE account.suspended
      <3>1. SameAccount
        BY <2>1, <2>4 DEF SameAccount
      <3>2. NoRevocation
        BY <1>1, <2>1, <2>2 DEF NoRevocation, Revokes, RevokesAll, At
      <3> QED BY <1>1, <2>1, <2>3, <3>1, <3>2, CalmStep DEF Ends1
    <2>5. CASE ~account.suspended
      <3>1. RevokesAll(r)' /\ ~Revokes(r)
        BY <1>1, <1>3, <2>5, Going DEF Suspend, RevokesAll, Revokes, At
      <3>2. \A s \in Sessions : AccountOut(s)'
        BY <3>1 DEF AccountOut
      <3>3. \A s \in Sessions : TenantOut(s)'
        BY <1>1, <2>1, <2>2, <3>1, OthersGoOn, StillOut
      <3> QED BY <2>3, <3>2, <3>3 DEF NoneOut
    <2> QED BY <2>4, <2>5
  <1>4. CASE RevokeByIdentity(r)
    <2>1. Only(r) /\ req'[r] = Idle /\ SameAccount
      BY <1>1, <1>4, Ending DEF RevokeByIdentity, SameAccount
    <2>2. CASE sess' = Revoked(Sessions)
      <3>1. \A s \in Sessions : ~Valid(s)'
        BY <1>1, <2>2 DEF Revoked, Valid, Rows, SessionRecords
      <3>2. NoneBegin
        BY <1>1, <2>2 DEF Revoked, NoneBegin, Rows, SessionRecords
      <3>3. NoneOut'
        BY <1>1, <2>1, <3>1, RevocationEnds
      <3> QED BY <2>1, <3>2, <3>3, SwitchesStay DEF Only, Idle, NoneBegin
    <2>3. CASE Faults /\ UNCHANGED sess
      <3>1. \A s \in Sessions : Covers(r, s) => RevocationFails(s)
        BY <2>1, <2>3 DEF RevocationFails
      <3>2. NoneOut'
        BY <1>1, <2>1, <2>3, <3>1, RevocationEnds
      <3> QED BY <2>1, <2>3, <3>2, SwitchesStay DEF Only, Idle
    <2> QED BY <1>4, <2>2, <2>3 DEF RevokeByIdentity
  <1> QED BY <1>2, <1>3, <1>4

LEMMA SignInOut ==
  ASSUME OutInv, Next, SignInNext, UNCHANGED tenant
  PROVE  NoneOut' /\ Switches'
  <1>1. SameTenants /\ account \in AccountTypes
    BY DEF SameTenants, OutInv, TypeInv, TypeOK, AccountOK, AccountTypes
  <1>2. CASE Unsuspend \/ LockExpires
    <2>1. UNCHANGED <<req, sess>> /\ SameAccount
      BY <1>1, <1>2 DEF Unsuspend, LockExpires, SameAccount, AccountTypes
    <2>2. NoneOut'
      BY <1>1, <2>1, CalmStep DEF NoRevocation, Ends1
    <2> QED BY <2>1, <2>2, SwitchesStay
  <1>3. ASSUME NEW r \in Requests, Plain(r), SameAccount, UNCHANGED sess \/ Prolongs(r)
        PROVE  NoneOut' /\ Switches'
    BY <1>1, <1>3, PlainStep
  <1>4. ASSUME NEW r \in Requests, Plain(r), UNCHANGED <<sess, account>>
        PROVE  NoneOut' /\ Switches'
    BY <1>1, <1>4, PlainStep DEF SameAccount
  <1>5. \A r \in Requests : MarkUsed(r) => req[r].op \in {"accept", "reset"}
    BY DEF MarkUsed
  <1>6. SUFFICES ASSUME NEW r \in Requests,
                        \/ \E p \in Passwords : Login(r, p)
                        \/ RecordFailedLogin(r) \/ ClearFailedLogin(r)
                        \/ FinishLogin(r) \/ OIDCCallback(r) \/ CreateSession(r)
                        \/ RequestPasswordReset(r) \/ AdminResendInvite(r)
                        \/ InvalidateTokens(r) \/ InsertToken(r)
                        \/ \E n \in Numbers : ConfirmPasswordReset(r, n) \/ AcceptInvite(r, n)
                        \/ AcceptLookup(r)
                        \/ \E s \in Sessions : ChangePassword(r, s)
                        \/ AdminResetPassword(r)
                        \/ UpdatePassword(r) \/ Activate(r) \/ MarkUsed(r)
                        \/ AdminSuspendIdentity(r) \/ Suspend(r) \/ RevokeByIdentity(r)
               PROVE  NoneOut' /\ Switches'
    BY <1>2 DEF SignInNext
  <1>7. CASE UpdatePassword(r)
    BY <1>7, UpdatePasswordOut
  <1>8. CASE (MarkUsed(r) /\ req[r].op = "reset") \/ Suspend(r) \/ RevokeByIdentity(r)
    BY <1>8, RevokersOut
  <1>9. CASE \/ RecordFailedLogin(r) \/ ClearFailedLogin(r) \/ CreateSession(r)
             \/ InvalidateTokens(r) \/ InsertToken(r) \/ AcceptLookup(r)
             \/ Activate(r) \/ (MarkUsed(r) /\ req[r].op = "accept")
    BY <1>3, <1>9, SignInGoesOnOut
  <1>10. CASE \/ \E p \in Passwords : Login(r, p)
              \/ FinishLogin(r) \/ OIDCCallback(r)
              \/ RequestPasswordReset(r) \/ AdminResendInvite(r)
              \/ \E n \in Numbers : ConfirmPasswordReset(r, n) \/ AcceptInvite(r, n)
              \/ \E s \in Sessions : ChangePassword(r, s)
              \/ AdminResetPassword(r) \/ AdminSuspendIdentity(r)
    BY <1>4, <1>10, SignInBeginsOut
  <1>11. CASE MarkUsed(r)
    BY <1>5, <1>8, <1>9, <1>11
  <1> QED BY <1>6, <1>7, <1>8, <1>9, <1>10, <1>11

LEMMA FactorOut ==
  ASSUME OutInv, Next, FactorNext, UNCHANGED <<account, tenant>>
  PROVE  NoneOut' /\ Switches'
  <1>1. TypeInv /\ SameAccount /\ SameTenants /\ sess \in Rows
    BY DEF OutInv, TypeInv, TypeOK, Rows, SameAccount, SameTenants
  <1>2. ASSUME NEW r \in Requests, Plain(r), UNCHANGED sess \/ Prolongs(r)
        PROVE  NoneOut' /\ Switches'
    BY <1>1, <1>2, PlainStep
  <1>3. ASSUME UNCHANGED <<req, sess>>
        PROVE  NoneOut' /\ Switches'
    <2>1. NoneOut'
      BY <1>1, <1>3, CalmStep DEF NoRevocation, Ends1
    <2> QED BY <1>3, <2>1, SwitchesStay
  <1>4. ASSUME NEW r \in Requests, NEW s \in Sessions,
               \/ Enroll(r, s) \/ VerifyCode(r, s)
               \/ \E op \in mix : EnterTOTP(r, s, op) \/ FinishCeremony(r, s, op)
        PROVE  Plain(r) /\ UNCHANGED sess
    BY <1>1, <1>4, PlainBegins DEF Enroll, VerifyCode, EnterTOTP, FinishCeremony
  <1>5. ASSUME NEW r \in Requests, HasVerifiedTOTP(r) \/ CountPasskeys(r)
        PROVE  Plain(r) /\ UNCHANGED sess
    <2>1. req[r].op = "login" /\ UNCHANGED sess
      BY <1>5 DEF HasVerifiedTOTP, CountPasskeys, At
    <2>2. ASSUME NEW step, NEW v, req' = [req EXCEPT ![r].at = step, ![r].state = v]
          PROVE  Only(r) /\ req'[r].op = "login"
      <3> DEFINE p == [req[r] EXCEPT !.at = step]
                 q == [p EXCEPT !.state = v]
      <3>1. "op" \in DOMAIN req[r] /\ DOMAIN req = Requests
        BY <1>1, Request
      <3>2. p.op = "login" /\ "op" \in DOMAIN p
        BY <2>1, <3>1
      <3>3. req' = [req EXCEPT ![r] = q]
        BY <2>2
      <3> HIDE DEF p
      <3>4. q.op = "login"
        BY <3>2
      <3> HIDE DEF q
      <3> QED BY <3>1, <3>3, <3>4 DEF Only
    <2>3. Only(r) /\ req'[r].op = "login"
      BY <1>1, <1>5, <2>1, <2>2, Going DEF HasVerifiedTOTP, CountPasskeys
    <2> QED BY <2>1, <2>3 DEF Plain, Revokes, RevokesAll, At
  <1>6. ASSUME NEW r \in Requests, \/ StoreSecret(r) \/ MarkVerified(r) \/ AddPasskey(r)
                                   \/ MarkCodeUsed(r) \/ SetSecondFactor(r)
        PROVE  Plain(r)
    <2>1. /\ req[r].op \in {"enroll", "verify", "confirm", "register", "assert", "code"}
          /\ Done(r) \/ GoTo(r, "promote")
      BY <1>6 DEF StoreSecret, MarkVerified, AddPasskey, MarkCodeUsed, SetSecondFactor, At
    <2> QED BY <1>1, <2>1, Going, Ending DEF Plain, Revokes, RevokesAll, At, Idle
  <1>7. ASSUME NEW r \in Requests, SetSecondFactor(r)
        PROVE  Prolongs(r)
    <2>1. Moves(r) /\ req[r].at = "promote"
      BY <1>1, <1>7, Ending DEF SetSecondFactor, Moves, Idle
    <2>2. req[r].sess \in Sessions
      BY <1>1, <1>7, Request, Kept DEF SetSecondFactor, ChallengeRecords
    <2>3. NoneBegin
      BY <1>1, <1>7, <2>2, SecondFactorSetRow DEF SetSecondFactor, NoneBegin, Differs, Rows,
           SessionRecords
    <2> QED BY <2>1, <2>3 DEF Prolongs
  <1>8. CASE \/ \E r \in Requests, s \in Sessions : RemoveTOTP(r, s)
             \/ \E s \in Sessions : BeginRegistration(s) \/ Begin2FA(s) \/ RemovePasskey(s)
             \/ AdminDeletePasskey \/ GenerateCode
    <2>1. UNCHANGED <<req, sess>>
      BY <1>8 DEF RemoveTOTP, BeginRegistration, Begin2FA, RemovePasskey, AdminDeletePasskey,
                  DeletePasskey, SaveWebAuthnSession, GenerateCode
    <2> QED BY <1>3, <2>1
  <1>9. CASE \E r \in Requests : \/ StoreSecret(r) \/ MarkVerified(r) \/ AddPasskey(r)
                                 \/ MarkCodeUsed(r) \/ SetSecondFactor(r)
    BY <1>2, <1>6, <1>7, <1>9 DEF StoreSecret, MarkVerified, AddPasskey, MarkCodeUsed
  <1> QED BY <1>2, <1>4, <1>5, <1>8, <1>9 DEF FactorNext

LEMMA ContextOut ==
  ASSUME OutInv, Next, ContextNext, UNCHANGED account
  PROVE  NoneOut' /\ Switches'
  <1>1. TypeInv /\ SameAccount /\ sess \in Rows /\ ContextOK
    BY DEF OutInv, TypeInv, TypeOK, Rows, SameAccount
  <1>2. UNCHANGED tenant => SameTenants
    BY DEF SameTenants
  <1>3. ASSUME NEW r \in Requests, Plain(r), UNCHANGED tenant, UNCHANGED sess \/ Prolongs(r)
        PROVE  NoneOut' /\ Switches'
    BY <1>1, <1>2, <1>3, PlainStep
  (* Requests begin. *)
  <1>4. ASSUME NEW r \in Requests, NEW s \in Sessions,
               \/ \E t \in Tenants : SelectTenant(r, s, t)
               \/ SelectAdmin(r, s) \/ AdminRevokeSession(r, s)
               \/ Logout(r, s) \/ RevokeAllOtherSessions(r, s)
               \/ \E u \in Sessions : RevokeSession(r, s, u)
        PROVE  Plain(r) /\ UNCHANGED <<sess, tenant>>
    <2>1. ASSUME NEW op \in {"logout", "revoke", "others", "expel"}, NEW S,
                 EndSessions(r, op, S)
          PROVE  Plain(r) /\ UNCHANGED <<sess, tenant>>
      BY <1>1, <2>1, PlainBegins DEF EndSessions, contextVars
    <2>2. CASE (\E t \in Tenants : SelectTenant(r, s, t)) \/ SelectAdmin(r, s)
      BY <1>1, <2>2, PlainBegins DEF SelectTenant, SelectAdmin, contextVars
    <2> QED BY <1>4, <2>1, <2>2
            DEF AdminRevokeSession, Logout, RevokeAllOtherSessions, RevokeSession
  <1>5. ASSUME NEW r \in Requests, NEW s \in Sessions, SwitchContext(r, s)
        PROVE  NoneOut' /\ Switches'
    <2>1. /\ Only(r) /\ req'[r] = [op |-> "switch", at |-> "reset", sess |-> s]
          /\ req[r] = Idle /\ UNCHANGED <<sess, tenant>> /\ sess[s].state # "none"
      BY <1>1, <1>5, Beginning DEF SwitchContext, contextVars, Admitted, Valid
    <2>2. NoneOut'
      BY <1>1, <1>2, <2>1, CalmStep DEF NoRevocation, Revokes, RevokesAll, At, Idle, Ends1
    <2>3. Switches'
      BY <2>1 DEF OutInv, Switches, Only
    <2> QED BY <2>2, <2>3
  (* Requests go on. *)
  <1>6. ASSUME NEW r \in Requests, \/ IsTenantSuspended(r) \/ SetTenant(r)
                                   \/ SetSuperAdmin(r) \/ ResetContext(r) \/ RevokeThese(r)
        PROVE  Plain(r) /\ Moves(r) /\ UNCHANGED tenant
    <2>1. /\ req[r].op \in {"select", "admin", "switch", "logout", "revoke", "others", "expel"}
          /\ Done(r) \/ (At(r, "select", "check") /\ GoTo(r, "bind"))
          /\ UNCHANGED tenant
      BY <1>6 DEF IsTenantSuspended, SetTenant, SetSuperAdmin, ResetContext, RevokeThese, At,
                  contextVars
    <2> QED BY <1>1, <2>1, Going, Ending DEF Plain, Moves, Revokes, RevokesAll, At, Idle
  <1>7. ASSUME NEW r \in Requests, SetTenant(r) \/ SetSuperAdmin(r)
        PROVE  UNCHANGED sess \/ Prolongs(r)
    <2>1. req[r].sess \in Sessions /\ (SetTenant(r) => req[r].tenant \in Tenants)
      BY <1>1, <1>7, Request, Kept DEF SetTenant, SetSuperAdmin, At, SelectRecords, ContextRecords
    <2>2. UNCHANGED sess \/ NoneBegin
      <3>1. \/ UNCHANGED sess
            \/ Differs(sess', req[r].sess) /\ sess'[req[r].sess].state = "authenticated"
        <4>1. CASE SetTenant(r)
          <5> DEFINE s == req[r].sess
                     t == req[r].tenant
          <5>1. UNCHANGED sess \/ sess' = TenantSet(s, t)
            BY <4>1 DEF SetTenant
          <5>2. s \in Sessions /\ t \in Tenants
            BY <2>1, <4>1
          <5> HIDE DEF s, t
          <5>3. /\ Differs(TenantSet(s, t), s)
                /\ TenantSet(s, t)[s] =
                     [state |-> "authenticated", tenant |-> t, super |-> FALSE, expired |-> FALSE,
                      revoked |-> sess[s].revoked, password |-> sess[s].password]
            BY <1>1, <5>2, TenantSetRow, Zenon
          <5>4. TenantSet(s, t)[s].state = "authenticated"
            BY <5>3
          <5> QED BY <5>1, <5>3, <5>4 DEF s
        <4>2. CASE SetSuperAdmin(r)
          BY <1>1, <2>1, <4>2, SuperAdminSetRow DEF SetSuperAdmin, Rows, SessionRecords
        <4> QED BY <1>7, <4>1, <4>2
      <3> QED BY <3>1 DEF NoneBegin, Differs
    <2> QED BY <1>6, <1>7, <2>2 DEF Prolongs, SetTenant, SetSuperAdmin, At
  <1>8. ASSUME NEW r \in Requests, ResetContext(r)
        PROVE  NoneOut' /\ Switches'
    <2> DEFINE s == req[r].sess
    <2>1. s \in Sessions /\ sess[s].state # "none"
      BY <1>1, <1>8, Request, Kept DEF ResetContext, At, ContextRecords, OutInv, Switches
    <2>2. /\ Plain(r) /\ UNCHANGED tenant /\ Differs(sess', s)
          /\ sess'[s] = [sess[s] EXCEPT !.tenant = NoTenant, !.super = FALSE,
                           !.state = "pre_tenant"]
      BY <1>1, <1>6, <1>8, <2>1, ContextResetRow DEF ResetContext
    <2> HIDE DEF s
    <2>3. Switches'
      <3>1. sess'[s].state = "pre_tenant"
        BY <1>1, <2>1, <2>2 DEF Rows, SessionRecords
      <3>2. \A u \in Sessions : sess'[u].state = "none" => sess[u].state = "none"
        BY <2>2, <3>1 DEF Differs
      <3> QED BY <2>2, <3>2, SwitchesStay DEF Plain, Only
    <2>4. SUFFICES ASSUME NEW u \in Sessions PROVE AccountOut(u)' /\ TenantOut(u)'
      BY <2>3 DEF NoneOut
    <2>5. \A x \in Requests : RevokesAll(x) => RevokesAll(x)'
      BY <2>2 DEF Plain, Only, Revokes, RevokesAll, At
    <2>6. CASE u # s
      <3>1. sess'[u] = sess[u]
        BY <2>2, <2>6 DEF Differs
      <3>2. \A x \in Requests : Covers(x, u) => Covers(x, u)'
        BY <2>2, <3>1, OthersGoOn DEF Plain
      <3> QED BY <1>1, <1>2, <2>2, <2>5, <3>1, <3>2, StillOut
    <2>7. CASE u = s
      <3>1. /\ sess'[u].tenant = NoTenant /\ sess'[u].password = sess[u].password
            /\ sess'[u].revoked = sess[u].revoked /\ sess'[u].expired = sess[u].expired
        BY <1>1, <2>1, <2>2, <2>7 DEF Rows, SessionRecords
      <3>2. TenantOut(u)'
        BY <3>1 DEF TenantOut, TenantDue
      <3>3. CASE u \in excused
        BY <3>2, <3>3, Excused DEF Remembered
      <3>4. CASE u \notin excused
        <4>1. (Valid(u) /\ AccountDue(u))' => Valid(u) /\ AccountDue(u)
          BY <1>1, <2>1, <2>7, <3>1 DEF Valid, AccountDue, SameAccount
        <4> QED BY <2>5, <3>2, <3>4, <4>1 DEF OutInv, NoneOut, AccountOut
      <3> QED BY <3>3, <3>4
    <2> QED BY <2>6, <2>7
  <1>9. ASSUME NEW S, sess' = Revoked(S) \/ sess' = Deleted(S)
        PROVE  (\A u \in Sessions : Ends1(u)) /\ NoneBegin
    BY <1>1, <1>9 DEF Revoked, Deleted, Ends1, Valid, NoneBegin, Rows, SessionRecords
  <1>10. ASSUME NEW r \in Requests, RevokeThese(r)
         PROVE  NoneOut' /\ Switches'
    <2>1. Plain(r) /\ UNCHANGED tenant
      BY <1>6, <1>10
    <2>2. CASE UNCHANGED sess
      BY <1>3, <2>1, <2>2
    <2>3. CASE sess' = Revoked(req[r].all)
      <3>1. (\A u \in Sessions : Ends1(u)) /\ NoneBegin
        BY <1>9, <2>3
      <3>2. NoneOut'
        BY <1>1, <1>2, <2>1, <3>1, CalmStep DEF Plain, NoRevocation
      <3> QED BY <2>1, <3>1, <3>2, SwitchesStay DEF Plain, Only, NoneBegin
    <2> QED BY <1>10, <2>2, <2>3 DEF RevokeThese
  (* Tenants. *)
  <1>11. ASSUME NEW r \in Requests, RevokeByTenant(r)
         PROVE  NoneOut' /\ Switches'
    <2>1. /\ Only(r) /\ req'[r] = Idle /\ UNCHANGED tenant /\ At(r, "close", "revoke")
      BY <1>1, <1>11, Ending DEF RevokeByTenant, contextVars
    <2>2. CASE Faults /\ UNCHANGED sess
      <3>1. \A s \in Sessions : Covers(r, s) => RevocationFails(s)
        BY <2>1, <2>2 DEF RevocationFails
      <3>2. NoneOut'
        BY <1>1, <1>2, <2>1, <2>2, <3>1, RevocationEnds
      <3> QED BY <2>1, <2>2, <3>2, SwitchesStay DEF Only, Idle
    <2>3. CASE sess' = Revoked(InTenant(req[r].tenant))
      <3>1. \A s \in Sessions : ~Valid(s)' \/ (sess'[s] = sess[s] /\ ~Covers(r, s))
        BY <1>1, <2>1, <2>3
        DEF Revoked, InTenant, Valid, Covers, RevokesAll, At, Rows, SessionRecords
      <3>2. NoneOut'
        BY <1>1, <1>2, <2>1, <3>1, RevocationEnds
      <3>3. NoneBegin
        BY <1>9, <2>3
      <3> QED BY <2>1, <3>2, <3>3, SwitchesStay DEF Only, Idle, NoneBegin
    <2> QED BY <1>11, <2>2, <2>3 DEF RevokeByTenant
  <1>12. ASSUME NEW r \in Requests, NEW t \in Tenants, SuspendTenant(r, t)
         PROVE  NoneOut' /\ Switches'
    <2>1. /\ Only(r) /\ req'[r] = [op |-> "close", at |-> "revoke", tenant |-> t]
          /\ req[r] = Idle /\ UNCHANGED sess
          /\ \A x \in Tenants \ {t} : tenant'[x] = tenant[x]
      BY <1>1, <1>12, Beginning DEF SuspendTenant, ContextOK
    <2>2. Switches'
      BY <2>1, SwitchesStay DEF Only
    <2>3. SUFFICES ASSUME NEW s \in Sessions PROVE AccountOut(s)' /\ TenantOut(s)'
      BY <2>2 DEF NoneOut
    <2>4. /\ sess'[s] = sess[s] /\ sess[s] \in SessionRecords
          /\ \A x \in Requests : /\ RevokesAll(x) => RevokesAll(x)'
                                 /\ Covers(x, s) => Covers(x, s)'
      BY <1>1, <2>1, OthersGoOn DEF Revokes, RevokesAll, At, Idle, Rows
    <2>5. AccountOut(s)'
      BY <1>1, <2>4, StillOut
    <2>6. CASE sess[s].tenant = t
      <3>1. Covers(r, s)'
        BY <2>1, <2>6 DEF Covers, At
      <3> QED BY <2>5, <3>1 DEF TenantOut
    <2>7. CASE sess[s].tenant # t
      <3>1. (Valid(s) /\ TenantDue(s))' => Valid(s) /\ TenantDue(s)
        BY <2>1, <2>4, <2>7 DEF Valid, TenantDue, SessionRecords
      <3>2. CASE s \in excused
        BY <3>2, Excused DEF Remembered
      <3>3. CASE s \notin excused
        BY <2>4, <2>5, <3>1, <3>3 DEF OutInv, NoneOut, TenantOut
      <3> QED BY <3>2, <3>3
    <2> QED BY <2>6, <2>7
  <1>13. ASSUME NEW t \in Tenants, UnsuspendTenant(t)
         PROVE  NoneOut' /\ Switches'
    <2>1. UNCHANGED <<req, sess>> /\ SameTenants
      BY <1>1, <1>13 DEF UnsuspendTenant, SameTenants, ContextOK
    <2>2. NoneOut'
      BY <1>1, <2>1, CalmStep DEF NoRevocation, Ends1
    <2> QED BY <2>1, <2>2, SwitchesStay
  <1>14. ASSUME NEW t \in Tenants, DeleteTenant(t)
         PROVE  NoneOut' /\ Switches'
    <2>1. /\ UNCHANGED <<req, sess>> /\ tenant'[t] = "deleted"
          /\ \A x \in Tenants \ {t} : tenant'[x] = tenant[x]
      BY <1>1, <1>14 DEF DeleteTenant, ContextOK
    <2>2. Switches'
      BY <2>1, SwitchesStay
    <2>3. SUFFICES ASSUME NEW s \in Sessions PROVE AccountOut(s)' /\ TenantOut(s)'
      BY <2>2 DEF NoneOut
    <2>4. /\ sess'[s] = sess[s] /\ sess[s] \in SessionRecords
          /\ \A x \in Requests : /\ RevokesAll(x) => RevokesAll(x)'
                                 /\ Covers(x, s) => Covers(x, s)'
      BY <1>1, <2>1 DEF RevokesAll, Covers, At, Rows
    <2>5. AccountOut(s)'
      BY <1>1, <2>4, StillOut
    <2>6. CASE sess[s].tenant = t /\ tenant[t] = "active"
      <3>1. WithoutRevocation(s)
        BY <2>1, <2>6 DEF WithoutRevocation
      <3> QED BY <3>1, Excused DEF Remembered
    <2>7. CASE ~(sess[s].tenant = t /\ tenant[t] = "active")
      <3>1. (Valid(s) /\ TenantDue(s))' => Valid(s) /\ TenantDue(s)
        BY <2>1, <2>4, <2>7 DEF Valid, TenantDue, SessionRecords
      <3>2. CASE s \in excused
        BY <3>2, Excused DEF Remembered
      <3>3. CASE s \notin excused
        BY <2>4, <2>5, <3>1, <3>3 DEF OutInv, NoneOut, TenantOut
      <3> QED BY <3>2, <3>3
    <2> QED BY <2>6, <2>7
  <1>15. ASSUME NEW t \in Tenants, RemoveFromTenant(t)
         PROVE  NoneOut' /\ Switches'
    <2>1. UNCHANGED <<req, tenant>> /\ sess' = Deleted(InTenant(t))
      BY <1>15 DEF RemoveFromTenant
    <2>2. (\A u \in Sessions : Ends1(u)) /\ NoneBegin
      BY <1>9, <2>1
    <2>3. NoneOut'
      BY <1>1, <1>2, <2>1, <2>2, CalmStep DEF NoRevocation
    <2> QED BY <2>1, <2>2, <2>3, SwitchesStay DEF NoneBegin
  <1>16. CASE SetIdentitySuperAdmin
    <2>1. UNCHANGED <<req, sess, tenant>>
      BY <1>16 DEF SetIdentitySuperAdmin
    <2>2. NoneOut'
      BY <1>1, <1>2, <2>1, CalmStep DEF NoRevocation, Ends1
    <2> QED BY <2>1, <2>2, SwitchesStay
  <1>17. ASSUME NEW r \in Requests, IsTenantSuspended(r) \/ SetTenant(r) \/ SetSuperAdmin(r)
         PROVE  NoneOut' /\ Switches'
    <2>1. IsTenantSuspended(r) => UNCHANGED sess
      BY DEF IsTenantSuspended
    <2> QED BY <1>3, <1>6, <1>7, <1>17, <2>1
  <1> QED BY <1>3, <1>4, <1>5, <1>8, <1>10, <1>11, <1>12, <1>13, <1>14, <1>15, <1>16, <1>17
          DEF ContextNext

LEMMA OutInit == Init => OutInv
  <1> SUFFICES ASSUME Init PROVE OutInv
    OBVIOUS
  <1>1. TypeInv
    BY TypesInit
  <1>2. Switches
    BY DEF Init, HandlersInit, Idle, Switches
  <1>3. /\ account.suspended = FALSE /\ tenant = [t \in Tenants |-> "active"]
        /\ sess \in [Sessions -> FirstSessions \cup {NoSession}]
    BY DEF Init, SignInInit, ContextInit
  <1>4. \A s \in Sessions : ~TenantDue(s)
    <2>1. \A s \in Sessions : sess[s].tenant \in Tenants \cup {NoTenant}
      BY <1>1 DEF TypeInv, TypeOK, SessionRecords
    <2> QED BY <1>3, <2>1 DEF TenantDue
  <1>5. \A s \in Sessions : Valid(s) => sess[s].password \in {0, account.password}
    <2>1. CASE mix \cap SignIns # {}
      BY <2>1 DEF Init, NoSession, Valid
    <2>2. CASE mix \cap SignIns = {}
      <3>1. account.password = 1
        BY <2>2 DEF Init, SignInInit, SignIns
      <3>2. \A f \in FirstSessions : f.password = 1
        BY DEF FirstSessions, NoSession
      <3>3. \A s \in Sessions : sess[s].password \in {0, 1}
        BY <1>3, <3>2 DEF NoSession
      <3> QED BY <3>1, <3>3
    <2> QED BY <2>1, <2>2
  <1>6. NoneOut
    BY <1>3, <1>4, <1>5 DEF NoneOut, AccountOut, TenantOut, AccountDue
  <1> QED BY <1>1, <1>2, <1>6 DEF OutInv

LEMMA OutNext == ASSUME OutInv, [Next]_vars PROVE OutInv'
  <1>1. TypeInv'
    BY TypesNext DEF OutInv
  <1>2. CASE UNCHANGED vars
    BY <1>1, <1>2
    DEF OutInv, vars, signInVars, factorVars, contextVars, NoneOut, AccountOut, TenantOut,
        Valid, AccountDue, TenantDue, RevokesAll, Covers, At, Switches
  <1>3. CASE Next
    <2>1. CASE SessionsNext /\ UNCHANGED <<signInVars, factorVars, contextVars>>
      BY <1>1, <1>3, <2>1, SessionsOut DEF OutInv, signInVars, contextVars
    <2>2. CASE SignInNext /\ UNCHANGED <<factorVars, contextVars>>
      BY <1>1, <1>3, <2>2, SignInOut DEF OutInv, contextVars
    <2>3. CASE FactorNext /\ UNCHANGED <<signInVars, contextVars>>
      BY <1>1, <1>3, <2>3, FactorOut DEF OutInv, signInVars, contextVars
    <2>4. CASE ContextNext /\ UNCHANGED <<signInVars, factorVars>>
      BY <1>1, <1>3, <2>4, ContextOut DEF OutInv, signInVars
    <2> QED BY <1>3, <2>1, <2>2, <2>3, <2>4 DEF Next, Steps
  <1> QED BY <1>2, <1>3

(* However many requests run at once: a session that is valid although its *)
(* account is suspended, its password was reset or its tenant closed is    *)
(* one of the named exceptions, or the revocation is still on its way      *)
(* (auth/reset.go:134, auth/admin.go, session/store.go).                   *)
THEOREM SessionsEnd == Spec => []NoSessionOutlives
  <1>1. OutInv => NoSessionOutlives
    BY DEF OutInv, NoneOut, AccountOut, TenantOut, NoSessionOutlives, Due, Covers
  <1> QED BY <1>1, OutInit, OutNext, PTL DEF Spec

-----------------------------------------------------------------------------
(* The secret a login asks for.                                            *)

LEMMA StaysConfirmed ==
  ASSUME Confirmed, UNCHANGED totp, confirmed \subseteq confirmed'
  PROVE  Confirmed'
  BY DEF Confirmed

LEMMA VerifiedStep ==
  ASSUME TypeInv, Next, Confirmed, ~Confirmed'
  PROVE  \E r \in Requests : Moves(r) /\ req[r].at = "mark"
                             /\ req[r].op \in {"verify", "confirm"}
  <1>1. CASE UNCHANGED factorVars
    BY <1>1, StaysConfirmed DEF factorVars
  <1>2. CASE FactorNext
    <2>1. ASSUME NEW r \in Requests, StoreSecret(r) PROVE FALSE
      <3>1. totp'.verified = FALSE
        BY <2>1 DEF StoreSecret
      <3> QED BY <3>1 DEF Confirmed
    <2>2. ASSUME NEW r \in Requests, NEW s \in Sessions, RemoveTOTP(r, s) PROVE FALSE
      BY <2>2 DEF RemoveTOTP, NoSecret, Confirmed
    <2>3. ASSUME NEW r \in Requests, MarkVerified(r)
          PROVE  Moves(r) /\ req[r].at = "mark" /\ req[r].op \in {"verify", "confirm"}
      <3>1. /\ req[r].at = "mark" /\ req[r].op \in {"verify", "confirm"}
            /\ GoTo(r, "promote") \/ Done(r)
        BY <2>3 DEF MarkVerified
      <3> QED BY <3>1, Going, Ending DEF Moves, Idle
    <2>4. ASSUME NEW r \in Requests,
                 \/ HasVerifiedTOTP(r) \/ CountPasskeys(r) \/ AddPasskey(r)
                 \/ MarkCodeUsed(r) \/ SetSecondFactor(r)
          PROVE  FALSE
      BY <2>4, StaysConfirmed
      DEF HasVerifiedTOTP, CountPasskeys, AddPasskey, MarkCodeUsed, SetSecondFactor, factorVars
    <2>5. ASSUME NEW r \in Requests, NEW s \in Sessions,
                 \/ Enroll(r, s) \/ VerifyCode(r, s)
                 \/ \E op \in mix : EnterTOTP(r, s, op) \/ FinishCeremony(r, s, op)
          PROVE  FALSE
      BY <2>5, StaysConfirmed DEF Enroll, VerifyCode, EnterTOTP, FinishCeremony, factorVars
    <2>6. ASSUME \/ \E s \in Sessions : BeginRegistration(s) \/ Begin2FA(s) \/ RemovePasskey(s)
                 \/ AdminDeletePasskey \/ GenerateCode
          PROVE  FALSE
      BY <2>6, StaysConfirmed DEF BeginRegistration, Begin2FA, RemovePasskey, AdminDeletePasskey,
         DeletePasskey, SaveWebAuthnSession, GenerateCode
    <2> QED BY <1>2, <2>1, <2>2, <2>3, <2>4, <2>5, <2>6 DEF FactorNext
  <1> QED BY <1>1, <1>2 DEF Next, Steps

(* A secret nobody entered a code for becomes the one logins ask for only  *)
(* while a code for the secret before is being marked (totp/store.go).     *)
THEOREM OnlyConfirmedSecrets == Spec => VerifiedUnless
  <1>1. TypeInv /\ [Next]_vars =>
          [Confirmed /\ ~Confirmed' =>
             \E r \in Requests : Moves(r) /\ req[r].at = "mark"
                                 /\ req[r].op \in {"verify", "confirm"}]_vars
    BY VerifiedStep
  <1> QED BY <1>1, TypesInit, TypesNext, PTL DEF Spec, VerifiedUnless

-----------------------------------------------------------------------------
(* One context at a time.                                                  *)

Escapes(r, s) == Moves(r) /\ req[r].at \in {"promote", "elevate"} /\ req[r].sess = s

LEMMA ContextStep ==
  ASSUME TypeInv, Next, NEW s \in Sessions, InOrder(s), ~InOrder(s)'
  PROVE  \E r \in Requests : Escapes(r, s)
  <1>1. sess \in Rows
    BY DEF TypeInv, TypeOK, Rows
  <1>2. Valid(s)' /\ sess'[s] # sess[s]
    BY DEF InOrder, Valid
  <1>3. ~\E S : sess' = Revoked(S) \/ sess' = Deleted(S)
    BY <1>1, <1>2 DEF Revoked, Deleted, Valid, Rows, SessionRecords
  <1>4. CASE SessionsNext
    <2>1. ~\E u \in Sessions : Expire(u)
      BY <1>1, <1>2 DEF Expire, Valid, Rows, SessionRecords
    <2> QED BY <1>2, <1>3, <1>4, <2>1 DEF SessionsNext, Abandon, IdleTimeout, CleanupExpired
  <1>5. CASE SignInNext
    <2>1. PICK r \in Requests : CreateSession(r)
      BY <1>2, <1>3, <1>5
      DEF SignInNext, Login, RecordFailedLogin, ClearFailedLogin, FinishLogin, OIDCCallback,
          ExternalSignIn, RequestPasswordReset, AdminResendInvite, IssueToken, InvalidateTokens,
          InsertToken, ConfirmPasswordReset, AcceptInvite, AcceptLookup, ChangePassword,
          AdminResetPassword, UpdatePassword, Activate, MarkUsed, AdminSuspendIdentity, Suspend,
          RevokeByIdentity, Unsuspend, LockExpires
    <2>2. PICK u \in Sessions : sess' = Created(u, req[r].state, req[r].password)
      BY <2>1 DEF CreateSession
    <2>3. req[r].state \in SessionStates \ {"authenticated"}
      <3>1. req[r] \in LoginRecords \cup ExternalRecords \cup AcceptRecords
        BY <2>1, Request, Kept DEF CreateSession
      <3>2. req[r].state \in {"setup_2fa", "pre_auth", "pre_tenant"}
        BY <3>1 DEF LoginRecords, ExternalRecords, AcceptRecords
      <3> QED BY <3>2 DEF SessionStates
    <2>4. u = s
      BY <1>1, <1>2, <2>2 DEF Created, Rows
    <2>5. sess'[s] = [NoSession EXCEPT !.state = req[r].state, !.password = req[r].password]
      BY <1>1, <2>2, <2>4 DEF Created, Rows
    <2>6. sess'[s].state = req[r].state /\ sess'[s].tenant = NoTenant /\ ~sess'[s].super
      BY <2>5 DEF NoSession
    <2> QED BY <2>3, <2>6 DEF InOrder
  <1>6. CASE FactorNext
    <2>1. PICK r \in Requests : SetSecondFactor(r)
      BY <1>2, <1>6
      DEF FactorNext, HasVerifiedTOTP, CountPasskeys, StoreSecret, MarkVerified, AddPasskey,
          MarkCodeUsed, Enroll, RemoveTOTP, VerifyCode, EnterTOTP, FinishCeremony,
          BeginRegistration, Begin2FA, RemovePasskey, AdminDeletePasskey, DeletePasskey,
          SaveWebAuthnSession, GenerateCode
    <2>2. Moves(r) /\ req[r].at = "promote"
      BY <2>1, Ending DEF SetSecondFactor, Moves, Idle
    <2>3. req[r].sess = s
      BY <1>1, <1>2, <2>1 DEF SetSecondFactor, SecondFactorSet, Rows
    <2> QED BY <2>2, <2>3 DEF Escapes
  <1>7. CASE ContextNext
    <2>1. PICK r \in Requests : SetTenant(r) \/ SetSuperAdmin(r) \/ ResetContext(r)
      BY <1>2, <1>3, <1>7
      DEF ContextNext, IsTenantSuspended, RevokeThese, RevokeByTenant, SuspendTenant,
          SelectTenant, SelectAdmin, SwitchContext, AdminRevokeSession, Logout,
          RevokeAllOtherSessions, RevokeSession, EndSessions, UnsuspendTenant, DeleteTenant,
          RemoveFromTenant, SetIdentitySuperAdmin
    <2>2. CASE SetSuperAdmin(r)
      <3>1. Moves(r) /\ req[r].at = "elevate"
        BY <2>2, Ending DEF SetSuperAdmin, Moves, Idle, At
      <3>2. req[r].sess = s
        BY <1>1, <1>2, <2>2 DEF SetSuperAdmin, SuperAdminSet, Rows
      <3> QED BY <3>1, <3>2 DEF Escapes
    <2>3. CASE SetTenant(r)
      <3> DEFINE u == req[r].sess
                 t == req[r].tenant
      <3>1. u \in Sessions /\ t \in Tenants
        BY <2>3, Request, Kept DEF SetTenant, At, SelectRecords
      <3>2. sess' = TenantSet(u, t)
        BY <1>2, <2>3 DEF SetTenant
      <3> HIDE DEF u, t
      <3>3. /\ Differs(sess', u)
            /\ sess'[u] =
                 [state |-> "authenticated", tenant |-> t, super |-> FALSE, expired |-> FALSE,
                  revoked |-> sess[u].revoked, password |-> sess[u].password]
        BY <1>1, <3>1, <3>2, TenantSetRow
      <3>4. u = s
        BY <1>2, <3>3 DEF Differs
      <3>5. /\ sess'[s].state = "authenticated" /\ sess'[s].tenant = t /\ ~sess'[s].super
        BY <3>3, <3>4
      <3> QED BY <3>1, <3>5, TenantsAssumption DEF InOrder
    <2>4. CASE ResetContext(r)
      <3> DEFINE u == req[r].sess
      <3>1. u \in Sessions
        BY <2>4, Request, Kept DEF ResetContext, At, ContextRecords
      <3>2. sess' = ContextReset(u)
        BY <2>4 DEF ResetContext
      <3> HIDE DEF u
      <3>3. /\ Differs(sess', u)
            /\ sess'[u] = [sess[u] EXCEPT !.tenant = NoTenant, !.super = FALSE,
                             !.state = "pre_tenant"]
        BY <1>1, <3>1, <3>2, ContextResetRow
      <3>4. u = s
        BY <1>2, <3>3 DEF Differs
      <3>5. sess[s] \in SessionRecords
        BY <1>1 DEF Rows
      <3>6. /\ sess'[s].state = "pre_tenant" /\ sess'[s].tenant = NoTenant /\ ~sess'[s].super
        BY <3>3, <3>4, <3>5 DEF SessionRecords
      <3> QED BY <3>6 DEF InOrder
    <2> QED BY <2>1, <2>2, <2>3, <2>4
  <1> QED BY <1>4, <1>5, <1>6, <1>7 DEF Next, Steps

(* A session in order gets out of order only by a second factor completed, *)
(* or the administration selected, by a request that found it as it was    *)
(* before (session/store.go: updates by id alone).                         *)
THEOREM ContextsApart == Spec => OneContextUnless
  <1>1. TypeInv /\ [Next]_vars =>
          [\A s \in Sessions : InOrder(s) /\ ~InOrder(s)' =>
             \E r \in Requests : /\ Moves(r) /\ req[r].at \in {"promote", "elevate"}
                                 /\ req[r].sess = s]_vars
    BY ContextStep DEF Escapes
  <1> QED BY <1>1, TypesInit, TypesNext, PTL DEF Spec, OneContextUnless

=============================================================================
