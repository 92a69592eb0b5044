----------------------------- MODULE SuperAdmins -----------------------------
(***************************************************************************)
(* The super admins of the installation, who suspend, delete, promote and  *)
(* demote one another.  A request is admitted by the flag its session got  *)
(* when the administration was selected, not by the identity's own flag.   *)
(***************************************************************************)
EXTENDS Handlers

CONSTANT Admins

VARIABLES
  super,      \* identities with the flag
  suspended,  \* identities that are suspended
  deleted,    \* identities that are no more
  elevated    \* identities with a session that has the flag

adminVars == <<super, suspended, deleted, elevated>>

AdminsOK ==
  /\ super \subseteq Admins \ deleted
  /\ suspended \subseteq Admins \ deleted
  /\ deleted \subseteq Admins
  /\ elevated \subseteq Admins \ deleted

AdminsInit ==
  /\ super \in SUBSET Admins \ {{}}
  /\ suspended = {} /\ deleted = {} /\ elevated = super

(* CountActiveSuperAdmins counts these.                                    *)
Active == super \ suspended

AdminSelects(a) ==
  /\ "admin" \in mix
  /\ a \in Active
  /\ elevated' = elevated \cup {a}
  /\ UNCHANGED <<mix, req, super, suspended, deleted>>

(* The flag of the session is what counts.                                 *)
RequireSuperAdmin(a) == a \in elevated

(* The one thing AdminSetSuperAdmin refuses is one's own demotion.         *)
AdminSetSuperAdmin(r, a, b, flag) ==
  /\ RequireSuperAdmin(a) /\ b \notin deleted
  /\ a # b \/ flag
  /\ Begin(r, [op |-> "flag", at |-> "set", admin |-> b, flag |-> flag])
  /\ UNCHANGED <<mix, adminVars>>

SetFlag(r) ==
  /\ At(r, "flag", "set")
  /\ super' = IF req[r].flag THEN super \cup ({req[r].admin} \ deleted)
                             ELSE super \ {req[r].admin}
  /\ Done(r)
  /\ UNCHANGED <<mix, suspended, deleted, elevated>>

(* AdminSuspendIdentity and AdminDeleteIdentity: the identity is looked up *)
(* and, when it is a super admin, the active ones are counted.             *)
RemoveAdmin(r, a, b, op) ==
  /\ op \in {"suspend", "delete"}
  /\ RequireSuperAdmin(a) /\ a # b /\ b \notin deleted
  /\ Begin(r, [op |-> op, at |-> IF b \in super THEN "count" ELSE "act",
               admin |-> b, seen |-> {}])
  /\ UNCHANGED <<mix, adminVars>>

(* Mutant: the one to be removed is taken for one of those who stay.       *)
EnoughWithTarget(n) == n >= 1

Enough(n) == n > 1

CountActive(r) ==
  /\ req[r].op \in {"suspend", "delete"} /\ req[r].at = "count"
  /\ IF Enough(Cardinality(Active))
       THEN req' = [req EXCEPT ![r].at = "act", ![r].seen = Active]
       ELSE Done(r)
  /\ UNCHANGED <<mix, adminVars>>

SuspendAdmin(r) ==
  LET b == req[r].admin IN
  /\ At(r, "suspend", "act")
  /\ IF b \in suspended \cup deleted
       THEN Done(r) /\ UNCHANGED suspended
       ELSE GoTo(r, "revoke") /\ suspended' = suspended \cup {b}
  /\ UNCHANGED <<mix, super, deleted, elevated>>

RevokeAdmin(r) ==
  /\ At(r, "suspend", "revoke")
  /\ elevated' = elevated \ {req[r].admin}
  /\ Done(r)
  /\ UNCHANGED <<mix, super, suspended, deleted>>

(* The sessions go with the identity.                                      *)
DeleteAdmin(r) ==
  LET b == req[r].admin IN
  /\ At(r, "delete", "act")
  /\ deleted' = deleted \cup {b}
  /\ super' = super \ {b}
  /\ suspended' = suspended \ {b}
  /\ elevated' = elevated \ {b}
  /\ Done(r)
  /\ UNCHANGED mix

UnsuspendAdmin(b) ==
  /\ "suspend" \in mix
  /\ elevated # {}
  /\ suspended' = suspended \ {b} /\ b \in suspended
  /\ UNCHANGED <<mix, req, super, deleted, elevated>>

AdminsNext ==
  \/ \E r \in Requests :
       \/ \E a, b \in Admins :
            \/ \E flag \in BOOLEAN : AdminSetSuperAdmin(r, a, b, flag)
            \/ \E op \in mix : RemoveAdmin(r, a, b, op)
       \/ SetFlag(r) \/ CountActive(r) \/ SuspendAdmin(r) \/ RevokeAdmin(r)
       \/ DeleteAdmin(r)
       \/ Abandon(r) /\ UNCHANGED adminVars
  \/ \E a \in Admins : AdminSelects(a) \/ UnsuspendAdmin(a)

(* The administrators alone.                                               *)
AdminsSpec ==
  /\ HandlersInit /\ AdminsInit
  /\ [][AdminsNext]_<<mix, req, adminVars>>

-----------------------------------------------------------------------------
(* The installation loses its last active super admin in three ways only:  *)
(* by a demotion, which counts nobody, by a removal that counted before    *)
(* others were removed, and by the removal of an identity that was not yet *)
(* a super admin when it was looked up (admin.go:533, :631).               *)
LastAdminLostOnlyBy ==
  [][Active # {} /\ Active' = {} =>
       \E r \in Requests :
         /\ Moves(r)
         /\ \/ req[r].op = "flag"
            \/ req[r].at = "act" /\ req[r].seen # Active]_<<mix, req, adminVars>>
=============================================================================
