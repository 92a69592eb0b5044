------------------------------ MODULE Sessions ------------------------------
(***************************************************************************)
(* The sessions table and the middleware in front of the handlers: the     *)
(* part that SignIn, SecondFactor and TenantContext share.  The sessions   *)
(* are those of one person.  Every update of a session is one statement    *)
(* that names the session by id only, and no handler opens a transaction,  *)
(* so requests interleave between any two of their statements.             *)
(*                                                                         *)
(* A deleted session is one that is revoked for ever.  password, a history *)
(* variable, is the number of the password the session was signed in with, *)
(* 0 for a passkey or single sign-on.                                      *)
(***************************************************************************)
EXTENDS Handlers

CONSTANTS
  Sessions,  \* rows of the sessions table
  Tenants

VARIABLE sess

NoTenant == "none"

ASSUME TenantsAssumption == NoTenant \notin Tenants

SessionStates == {"pre_auth", "setup_2fa", "pre_tenant", "authenticated"}

NoSession ==
  [state |-> "none", tenant |-> NoTenant, super |-> FALSE,
   revoked |-> FALSE, expired |-> FALSE, password |-> 0]

SessionRecords ==
  [state : SessionStates \cup {"none"}, tenant : Tenants \cup {NoTenant},
   super : BOOLEAN, revoked : BOOLEAN, expired : BOOLEAN, password : Nat]

(* What GetValid finds, and RequireSession lets through.                   *)
Valid(s) == sess[s].state # "none" /\ ~sess[s].revoked /\ ~sess[s].expired

-----------------------------------------------------------------------------
(* Requests.                                                               *)

(* The session states from which the router admits an endpoint.            *)
AdmittedStates ==
  [verify |-> {"pre_auth"}, assert |-> {"pre_auth"}, code |-> {"pre_auth"},
   enroll |-> {"setup_2fa", "authenticated"},
   confirm |-> {"setup_2fa", "authenticated"},
   select |-> {"pre_tenant"}, admin |-> {"pre_tenant"},
   switch |-> {"authenticated"}, logout |-> {"authenticated"},
   revoke |-> {"authenticated"}, others |-> {"authenticated"},
   change |-> {"authenticated"}, remove |-> {"authenticated"},
   register |-> {"authenticated"}]

RequireState(s, states) == sess[s].state \in states

Admitted(s, op) == Valid(s) /\ RequireState(s, AdmittedStates[op])

-----------------------------------------------------------------------------
(* The statements of the session store: the table after each.              *)

Created(s, st, pw) ==
  [sess EXCEPT ![s] = [NoSession EXCEPT !.state = st, !.password = pw]]

TenantSet(s, t) ==
  [sess EXCEPT ![s] = [@ EXCEPT !.tenant = t, !.super = FALSE,
                                !.state = "authenticated", !.expired = FALSE]]

(* A tenant the session is still bound to is left there.                   *)
SuperAdminSet(s) ==
  [sess EXCEPT ![s] = [@ EXCEPT !.super = TRUE, !.state = "authenticated",
                                !.expired = FALSE]]

(* Mutant: the name the front end has for the state.                       *)
SecondFactorSetOther(s) ==
  [sess EXCEPT ![s] = [@ EXCEPT !.state = "select_tenant", !.expired = FALSE]]

SecondFactorSet(s) ==
  [sess EXCEPT ![s] = [@ EXCEPT !.state = "pre_tenant", !.expired = FALSE]]

(* Mutant: only the state is reset.                                        *)
ContextResetState(s) == [sess EXCEPT ![s].state = "pre_tenant"]

ContextReset(s) ==
  [sess EXCEPT ![s] = [@ EXCEPT !.tenant = NoTenant, !.super = FALSE,
                                !.state = "pre_tenant"]]

(* Expired sessions are not touched: an update that is under way may       *)
(* prolong one afterwards.                                                 *)
Revoked(S) ==
  [s \in Sessions |->
     IF s \in S /\ Valid(s) THEN [sess[s] EXCEPT !.revoked = TRUE] ELSE sess[s]]

InTenant(t) == {s \in Sessions : sess[s].tenant = t}

(* Rows deleted with the user or tenant they refer to, or with old age.    *)
Deleted(S) ==
  [s \in Sessions |->
     IF s \in S THEN [sess[s] EXCEPT !.revoked = TRUE] ELSE sess[s]]

-----------------------------------------------------------------------------
(* Time.                                                                   *)

Expire(s) ==
  /\ "expire" \in mix
  /\ Valid(s)
  /\ sess' = [sess EXCEPT ![s].expired = TRUE]
  /\ UNCHANGED <<mix, req>>

(* A request comes after a long pause and RequireSession revokes.          *)
IdleTimeout(s) ==
  /\ "expire" \in mix
  /\ Valid(s)
  /\ sess' = Revoked({s})
  /\ UNCHANGED <<mix, req>>

(* The nightly clean-up revokes what has expired and deletes what is old.  *)
CleanupExpired ==
  /\ \E s \in Sessions : sess[s].expired /\ ~sess[s].revoked
  /\ sess' = Deleted({s \in Sessions : sess[s].expired})
  /\ UNCHANGED <<mix, req>>

SessionsNext ==
  \/ \E r \in Requests : Abandon(r) /\ UNCHANGED sess
  \/ \E s \in Sessions : Expire(s) \/ IdleTimeout(s)
  \/ CleanupExpired
=============================================================================
