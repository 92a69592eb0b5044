--------------------------- MODULE TenantContext ---------------------------
(***************************************************************************)
(* What a session is for: one of the tenants the person is a member of, or *)
(* the administration of all of them.  The person selects, switches and    *)
(* signs out; meanwhile super admins suspend and delete tenants, end       *)
(* memberships and take or give the super admin flag.                      *)
(***************************************************************************)
EXTENDS Sessions

VARIABLES tenant, member, superAdmin

contextVars == <<tenant, member, superAdmin>>

ContextOK ==
  /\ tenant \in [Tenants -> {"active", "suspended", "deleted"}]
  /\ member \in [Tenants -> BOOLEAN]
  /\ superAdmin \in BOOLEAN

ContextInit ==
  /\ tenant = [t \in Tenants |-> "active"]
  /\ member = [t \in Tenants |-> TRUE]
  /\ superAdmin = TRUE

-----------------------------------------------------------------------------
(* The person's requests.                                                  *)

SelectTenant(r, s, t) ==
  /\ Admitted(s, "select")
  /\ member[t]
  /\ Begin(r, [op |-> "select", at |-> "check", sess |-> s, tenant |-> t])
  /\ UNCHANGED <<mix, sess, contextVars>>

(* A deleted tenant is not found.                                          *)
IsTenantSuspended(r) ==
  /\ At(r, "select", "check")
  /\ IF tenant[req[r].tenant] = "active" THEN GoTo(r, "bind") ELSE Done(r)
  /\ UNCHANGED <<mix, sess, contextVars>>

(* The session refers to the membership, which must still be there.        *)
SetTenant(r) ==
  /\ At(r, "select", "bind")
  /\ sess' = IF member[req[r].tenant]
               THEN TenantSet(req[r].sess, req[r].tenant) ELSE sess
  /\ Done(r)
  /\ UNCHANGED <<mix, contextVars>>

SelectAdmin(r, s) ==
  /\ Admitted(s, "admin")
  /\ superAdmin
  /\ Begin(r, [op |-> "admin", at |-> "elevate", sess |-> s])
  /\ UNCHANGED <<mix, sess, contextVars>>

SetSuperAdmin(r) ==
  /\ At(r, "admin", "elevate")
  /\ sess' = SuperAdminSet(req[r].sess)
  /\ Done(r)
  /\ UNCHANGED <<mix, contextVars>>

SwitchContext(r, s) ==
  /\ Admitted(s, "switch")
  /\ Begin(r, [op |-> "switch", at |-> "reset", sess |-> s])
  /\ UNCHANGED <<mix, sess, contextVars>>

ResetContext(r) ==
  /\ At(r, "switch", "reset")
  /\ sess' = ContextReset(req[r].sess)
  /\ Done(r)
  /\ UNCHANGED <<mix, contextVars>>

(* Requests that end sessions: all of those in S.                          *)
EndSessions(r, op, S) ==
  /\ Begin(r, [op |-> op, at |-> "end", all |-> S])
  /\ UNCHANGED <<mix, sess, contextVars>>

Logout(r, s) == Admitted(s, "logout") /\ EndSessions(r, "logout", {s})

RevokeSession(r, s, u) ==
  /\ Admitted(s, "revoke") /\ Valid(u)
  /\ EndSessions(r, "revoke", {u})

RevokeAllOtherSessions(r, s) ==
  Admitted(s, "others") /\ EndSessions(r, "others", Sessions \ {s})

AdminRevokeSession(r, s) == EndSessions(r, "expel", {s})

RevokeThese(r) ==
  /\ req[r].op \in {"logout", "revoke", "others", "expel"} /\ req[r].at = "end"
  /\ \/ sess' = Revoked(req[r].all)
     \/ Faults /\ UNCHANGED sess
  /\ Done(r)
  /\ UNCHANGED <<mix, contextVars>>

-----------------------------------------------------------------------------
(* The administrators'.                                                    *)

SuspendTenant(r, t) ==
  /\ tenant[t] = "active"
  /\ tenant' = [tenant EXCEPT ![t] = "suspended"]
  /\ Begin(r, [op |-> "close", at |-> "revoke", tenant |-> t])
  /\ UNCHANGED <<mix, sess, member, superAdmin>>

(* An error is logged, and the request succeeds all the same.              *)
RevokeByTenant(r) ==
  /\ At(r, "close", "revoke")
  /\ \/ sess' = Revoked(InTenant(req[r].tenant))
     \/ Faults /\ UNCHANGED sess
  /\ Done(r)
  /\ UNCHANGED <<mix, contextVars>>

UnsuspendTenant(t) ==
  /\ "close" \in mix /\ tenant[t] = "suspended"
  /\ tenant' = [tenant EXCEPT ![t] = "active"]
  /\ UNCHANGED <<mix, req, sess, member, superAdmin>>

(* The row stays; no session is touched.                                   *)
DeleteTenant(t) ==
  /\ "close" \in mix /\ tenant[t] # "deleted"
  /\ tenant' = [tenant EXCEPT ![t] = "deleted"]
  /\ UNCHANGED <<mix, req, sess, member, superAdmin>>

(* The sessions of the membership go with its row.                         *)
RemoveFromTenant(t) ==
  /\ "leave" \in mix /\ member[t]
  /\ member' = [member EXCEPT ![t] = FALSE]
  /\ sess' = Deleted(InTenant(t))
  /\ UNCHANGED <<mix, req, tenant, superAdmin>>

(* The flag of the identity; the flags of sessions stay as they are.       *)
SetIdentitySuperAdmin ==
  /\ "promote" \in mix
  /\ superAdmin' = ~superAdmin
  /\ UNCHANGED <<mix, req, sess, tenant, member>>

ContextNext ==
  \/ \E r \in Requests :
       \/ IsTenantSuspended(r) \/ SetTenant(r) \/ SetSuperAdmin(r)
       \/ ResetContext(r) \/ RevokeThese(r) \/ RevokeByTenant(r)
       \/ \E t \in Tenants : SuspendTenant(r, t)
       \/ \E s \in Sessions :
            \/ \E t \in Tenants : SelectTenant(r, s, t)
            \/ SelectAdmin(r, s) \/ SwitchContext(r, s) \/ AdminRevokeSession(r, s)
            \/ Logout(r, s) \/ RevokeAllOtherSessions(r, s)
            \/ \E u \in Sessions : RevokeSession(r, s, u)
  \/ \E t \in Tenants : UnsuspendTenant(t) \/ DeleteTenant(t) \/ RemoveFromTenant(t)
  \/ SetIdentitySuperAdmin
=============================================================================
