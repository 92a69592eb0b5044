------------------------------- MODULE Access -------------------------------
(***************************************************************************)
(* Sign-in, second factor and tenant context of one person composed: they  *)
(* act on the same sessions, and requests of all three interleave.         *)
(*                                                                         *)
(* excused, a history variable, holds the sessions that ought to be over   *)
(* and live on for one of the known reasons (see NoSessionOutlives).       *)
(***************************************************************************)
EXTENDS SignIn, SecondFactor, TenantContext

VARIABLE excused

vars == <<mix, req, sess, signInVars, factorVars, contextVars, excused>>

(* The account as the middleware may find it: a session can be there.      *)
FirstSessions ==
  {[NoSession EXCEPT !.state = st, !.password = 1] :
     st \in {"pre_auth", "setup_2fa", "pre_tenant"}} \cup
  {[NoSession EXCEPT !.state = "authenticated", !.password = 1, !.tenant = t] :
     t \in Tenants}

SignIns == {"login", "passkey", "sso", "accept"}
Factors == {"verify", "enroll", "confirm", "remove", "assert", "register"}

(* The sessions are made by the sign-ins of the mix, or there is one.      *)
Init ==
  /\ HandlersInit /\ SignInInit /\ FactorInit /\ ContextInit
  /\ \E s \in Sessions, f \in FirstSessions :
       sess = [x \in Sessions |->
                 IF x = s /\ mix \cap SignIns = {} THEN f ELSE NoSession]
  /\ mix \cap Factors = {} => totp = NoSecret /\ ~passkey
  /\ excused = {}

Steps ==
  \/ SessionsNext /\ UNCHANGED <<signInVars, factorVars, contextVars>>
  \/ SignInNext /\ UNCHANGED <<factorVars, contextVars>>
  \/ FactorNext /\ UNCHANGED <<signInVars, contextVars>>
  \/ ContextNext /\ UNCHANGED <<signInVars, factorVars>>

-----------------------------------------------------------------------------
(* Sessions that ought to be over.                                         *)

AccountDue(s) ==
  account.suspended \/ sess[s].password \notin {0, account.password}

TenantDue(s) == sess[s].tenant # NoTenant /\ tenant[sess[s].tenant] # "active"

Due(s) == Valid(s) /\ (AccountDue(s) \/ TenantDue(s))

(* Requests on their way to a revocation, and whom it is to reach.         *)
RevokesAll(r) == req[r].op \in {"reset", "suspend"} /\ req[r].at \in {"mark", "revoke"}

Covers(r, s) ==
  \/ RevokesAll(r)
  \/ At(r, "close", "revoke") /\ req[r].tenant = sess[s].tenant

(* A request that looked earlier creates, binds or prolongs the session.   *)
Overtaken(s) ==
  /\ sess'[s] # sess[s]
  /\ \E r \in Requests :
       Moves(r) /\ req[r].at \in {"create", "bind", "promote", "elevate"}

(* A password is set, or the tenant deleted, without a revocation.         *)
WithoutRevocation(s) ==
  \/ /\ ~AccountDue(s)
     /\ \E r \in Requests : /\ Moves(r) /\ req[r].at = "password"
                            /\ req[r].op \in {"change", "set", "accept"}
  \/ \E t \in Tenants : /\ sess[s].tenant = t
                        /\ tenant[t] = "active" /\ tenant'[t] = "deleted"

(* The revocation fails, or its request stops before it.                   *)
RevocationFails(s) ==
  Faults /\ sess' = sess /\ \E r \in Requests : Covers(r, s) /\ req'[r] = Idle

Next ==
  /\ Steps
  /\ excused' = {s \in Sessions : Due(s)' /\
                   \/ s \in excused
                   \/ Overtaken(s) \/ WithoutRevocation(s) \/ RevocationFails(s)}

Spec == Init /\ [][Next]_vars

-----------------------------------------------------------------------------
(* Correctness.                                                            *)

TypeOK ==
  /\ mix \in Mixes
  /\ sess \in [Sessions -> SessionRecords]
  /\ AccountOK /\ FactorOK /\ ContextOK
  /\ excused \subseteq Sessions

(* No session survives the suspension of its account, a reset of the       *)
(* password it was signed in with (reset.go:134) or the suspension of its  *)
(* tenant, once the revocation that follows has run.  The exceptions are   *)
(* sessions created, bound or prolonged by a request that looked at the    *)
(* account or tenant earlier, passwords set and tenants deleted by the     *)
(* endpoints that revoke nothing, and revocations that failed.             *)
NoSessionOutlives ==
  \A s \in Sessions :
    Due(s) => s \in excused \/ \E r \in Requests : Covers(r, s)

(* A session is authenticated exactly for one tenant or for administration. *)
InOrder(s) ==
  Valid(s) => /\ sess[s].state = "authenticated" <=>
                   sess[s].tenant # NoTenant \/ sess[s].super
              /\ ~(sess[s].tenant # NoTenant /\ sess[s].super)

(* Two requests of one session can mix contexts in two ways only: a second *)
(* challenge is completed after the session has moved on, and a selection  *)
(* of the administration overtakes, or is overtaken by, one of a tenant.   *)
OneContextUnless ==
  [][\A s \in Sessions : InOrder(s) /\ ~InOrder(s)' =>
       \E r \in Requests : /\ Moves(r) /\ req[r].at \in {"promote", "elevate"}
                           /\ req[r].sess = s]_vars

(* The TOTP secret a login will ask for was shown to work, unless it was   *)
(* replaced while the code for the one before was being checked.           *)
Confirmed == totp.verified => totp.secret \in confirmed

VerifiedUnless ==
  [][Confirmed /\ ~Confirmed' =>
       \E r \in Requests : Moves(r) /\ req[r].at = "mark"
                           /\ req[r].op \in {"verify", "confirm"}]_vars

(* However many logins run at once, wrong passwords are counted up to the  *)
(* lock and then at most once for each request that had passed the check   *)
(* (identity.go:10, identity/store.go:207).  The counter is not reset when *)
(* a lock runs out, so that the next failure locks again.                  *)
LockBoundsFailures ==
  account.attempts < MaxFailedLogins + Cardinality(Requests) * (account.unlocks + 1)
=============================================================================
