------------------------------- MODULE People -------------------------------
(***************************************************************************)
(* One person, known by an email address, as a member of tenants: invited, *)
(* added, provisioned by single sign-on, removed and deleted, by several   *)
(* administrators at once.  The identity with that address may be deleted  *)
(* and made anew; identities and memberships are numbered, 0 is none.      *)
(*                                                                         *)
(* joined, a history variable, holds the tenants joined since a removal    *)
(* last looked at the memberships.                                         *)
(***************************************************************************)
EXTENDS Handlers

CONSTANTS
  Tenants,
  MaxIds    \* bound on the identities made, and on the memberships

ASSUME PeopleAssumption == MaxIds \in Nat

VARIABLES ident, users, made, joined

peopleVars == <<ident, users, made, joined>>

Ids == 1..MaxIds

PeopleOK ==
  /\ ident \in [id : 0..MaxIds, super : BOOLEAN]
  /\ users \in [Tenants -> 0..MaxIds]
  /\ made \in [idents : 0..MaxIds, users : 0..MaxIds]
  /\ joined \in [Requests -> SUBSET Tenants]
  /\ ident.id = 0 => users = [t \in Tenants |-> 0]

PeopleInit ==
  /\ ident = [id |-> 0, super |-> FALSE]
  /\ users = [t \in Tenants |-> 0]
  /\ made = [idents |-> 0, users |-> 0]
  /\ joined = [r \in Requests |-> {}]

(* One statement each.                                                     *)
InsertIdentity ==
  /\ ident' = [id |-> made.idents + 1, super |-> FALSE]
  /\ made' = [made EXCEPT !.idents = @ + 1]

(* Mutant: the memberships table has no foreign key.                       *)
MayInsertUserFor(id, t) == users[t] = 0

(* The identity must still be there, and no member of the tenant.          *)
MayInsertUser(id, t) == id = ident.id /\ users[t] = 0

InsertUser(t) ==
  /\ users' = [users EXCEPT ![t] = made.users + 1]
  /\ made' = [made EXCEPT !.users = @ + 1]
  /\ joined' = [r \in Requests |-> joined[r] \cup {t}]

(* The memberships go with the identity.                                   *)
DeleteIdentity(id) ==
  IF id = ident.id
    THEN /\ ident' = [id |-> 0, super |-> FALSE]
         /\ users' = [t \in Tenants |-> 0]
    ELSE UNCHANGED <<ident, users>>

-----------------------------------------------------------------------------
(* inviteOneMember, which AdminBulkInvite calls row by row; placing says   *)
(* whether a sub-organisation was asked for.                               *)
Invite(r, t, placing) ==
  /\ Begin(r, [op |-> "invite", at |-> IF ident.id = 0 THEN "create" ELSE "add",
               id |-> ident.id, tenant |-> t, user |-> 0, placing |-> placing])
  /\ UNCHANGED <<mix, peopleVars>>

(* The sign-in of somebody unknown, where the tenant provisions such.      *)
CompleteSSO(r, t) ==
  /\ ident.id = 0
  /\ Begin(r, [op |-> "sso", at |-> "create", id |-> 0, tenant |-> t,
               user |-> 0, placing |-> FALSE])
  /\ UNCHANGED <<mix, peopleVars>>

(* The address is unique.                                                  *)
CreateIdentity(r) ==
  /\ req[r].op \in {"invite", "sso"} /\ req[r].at = "create"
  /\ IF ident.id # 0
       THEN Done(r) /\ UNCHANGED <<ident, made>>
       ELSE /\ made.idents < MaxIds
            /\ InsertIdentity
            /\ req' = [req EXCEPT ![r].at = "add", ![r].id = made.idents + 1]
  /\ UNCHANGED <<mix, users, joined>>

AdminAddIdentityToTenant(r, t) ==
  /\ ident.id # 0
  /\ Begin(r, [op |-> "member", at |-> "add", id |-> ident.id, tenant |-> t,
               user |-> 0, placing |-> FALSE])
  /\ UNCHANGED <<mix, peopleVars>>

(* AddIdentityToTenant, or ProvisionUser, whose error is only logged.      *)
AddIdentityToTenant(r) ==
  LET t == req[r].tenant IN
  /\ req[r].op \in {"invite", "sso", "member"} /\ req[r].at = "add"
  /\ IF MayInsertUser(req[r].id, t)
       THEN /\ made.users < MaxIds
            /\ InsertUser(t)
            /\ IF req[r].placing
                 THEN req' = [req EXCEPT ![r].at = "place",
                                ![r].user = made.users + 1]
                 ELSE Done(r)
       ELSE Done(r) /\ UNCHANGED <<users, made, joined>>
  /\ UNCHANGED <<mix, ident>>

(* SetUserSubOrg succeeds, or the membership is removed again.             *)
PlaceMember(r) ==
  /\ At(r, "invite", "place")
  /\ Done(r) \/ GoTo(r, "find")
  /\ UNCHANGED <<mix, peopleVars>>

-----------------------------------------------------------------------------
(* RemoveMember, for TenantRemoveMember and for the invitation that failed. *)

TenantRemoveMember(r, t) ==
  /\ users[t] # 0
  /\ Begin(r, [op |-> "remove", at |-> "find", id |-> 0, tenant |-> t,
               user |-> users[t], placing |-> FALSE])
  /\ UNCHANGED <<mix, peopleVars>>

Present(r) == users[req[r].tenant] = req[r].user

FindIdentity(r) ==
  /\ req[r].op \in {"remove", "invite"} /\ req[r].at = "find"
  /\ IF Present(r)
       THEN req' = [req EXCEPT ![r].at = "unlink", ![r].id = ident.id]
       ELSE Done(r)
  /\ UNCHANGED <<mix, peopleVars>>

(* Mutant: the memberships are counted first, with the one to go.          *)
UnlinkCounted(r) ==
  /\ req[r].op \in {"remove", "invite"} /\ req[r].at = "unlink"
  /\ users' = IF Present(r) THEN [users EXCEPT ![req[r].tenant] = 0] ELSE users
  /\ Done(r)
  /\ UNCHANGED <<mix, ident, made, joined>>

Unlink(r) ==
  /\ req[r].op \in {"remove", "invite"} /\ req[r].at = "unlink"
  /\ IF Present(r)
       THEN users' = [users EXCEPT ![req[r].tenant] = 0] /\ GoTo(r, "count")
       ELSE Done(r) /\ UNCHANGED users
  /\ UNCHANGED <<mix, ident, made, joined>>

(* Mutant: other memberships are no reason to keep the identity.           *)
OrphanedUnlessSuper == ~ident.super

Orphaned == users = [t \in Tenants |-> 0] /\ ~ident.super

CountRemaining(r) ==
  /\ req[r].op \in {"remove", "invite"} /\ req[r].at = "count"
  /\ IF ident.id = req[r].id /\ Orphaned THEN GoTo(r, "purge") ELSE Done(r)
  /\ joined' = [joined EXCEPT ![r] = {}]
  /\ UNCHANGED <<mix, ident, users, made>>

PurgeIdentity(r) ==
  /\ req[r].op \in {"remove", "invite"} /\ req[r].at = "purge"
  /\ DeleteIdentity(req[r].id)
  /\ Done(r)
  /\ UNCHANGED <<mix, made, joined>>

-----------------------------------------------------------------------------
(* Super admins.                                                           *)

AdminCreateIdentity ==
  /\ "create" \in mix
  /\ ident.id = 0 /\ made.idents < MaxIds
  /\ InsertIdentity
  /\ UNCHANGED <<mix, req, users, joined>>

SetPersonSuperAdmin ==
  /\ "flag" \in mix
  /\ ident.id # 0
  /\ ident' = [ident EXCEPT !.super = ~@]
  /\ UNCHANGED <<mix, req, users, made, joined>>

(* The guard for the last super admin is in module SuperAdmins.            *)
AdminDeleteIdentity ==
  /\ "erase" \in mix
  /\ ident.id # 0
  /\ DeleteIdentity(ident.id)
  /\ UNCHANGED <<mix, req, made, joined>>

PeopleNext ==
  \/ \E r \in Requests :
       \/ \E t \in Tenants : \/ \E placing \in BOOLEAN : Invite(r, t, placing)
                             \/ CompleteSSO(r, t)
                             \/ AdminAddIdentityToTenant(r, t)
                             \/ TenantRemoveMember(r, t)
       \/ CreateIdentity(r) \/ AddIdentityToTenant(r) \/ PlaceMember(r)
       \/ FindIdentity(r) \/ Unlink(r) \/ CountRemaining(r) \/ PurgeIdentity(r)
       \/ Abandon(r) /\ UNCHANGED peopleVars
  \/ AdminCreateIdentity \/ SetPersonSuperAdmin \/ AdminDeleteIdentity

(* The person alone.                                                       *)
PeopleSpec ==
  /\ HandlersInit /\ PeopleInit
  /\ [][PeopleNext]_<<mix, req, peopleVars>>

-----------------------------------------------------------------------------
(* A membership ends by its own removal, with the identity a super admin   *)
(* deletes, or with an identity that another removal found orphaned before *)
(* this membership was added (auth/store.go:559).                          *)
MembershipLostOnlyBy ==
  [][\A t \in Tenants :
       users[t] # 0 /\ users'[t] # users[t] =>
         \/ "erase" \in mix /\ UNCHANGED req
         \/ \E r \in Requests :
              /\ Moves(r)
              /\ \/ req[r].at = "unlink" /\ req[r].tenant = t
                 \/ req[r].at = "purge" /\ t \in joined[r]]_<<mix, req, peopleVars>>

(* "A phantom identity that could still log in but belong to no tenant"    *)
(* (auth/store.go:520), with no request left that would see to it.         *)
Phantom ==
  /\ ident.id # 0 /\ ~ident.super
  /\ users = [t \in Tenants |-> 0]
  /\ \A r \in Requests : req[r] # Idle => req[r].id # ident.id

(* Phantoms come from identities created without a tenant, from demotions  *)
(* and from requests that stopped or failed half way, never from a removal *)
(* or an invitation that went through.                                     *)
PhantomLeftOnlyBy ==
  [][~Phantom /\ Phantom' =>
       \/ mix \cap {"create", "flag"} # {} /\ UNCHANGED req
       \/ \E r \in Requests : /\ Moves(r) /\ req'[r] = Idle
                              /\ UNCHANGED <<ident, users>>]_<<mix, req, peopleVars>>
=============================================================================
