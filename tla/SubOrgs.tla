------------------------------- MODULE SubOrgs -------------------------------
(***************************************************************************)
(* The sub-organisations of one tenant, the members in them, and the sub-  *)
(* organisation that a member's session caches as its scope.               *)
(*                                                                         *)
(* mixed, a history variable, holds the members two requests concerned at  *)
(* once, or whose request stopped half way.                                *)
(***************************************************************************)
EXTENDS Handlers

CONSTANTS
  Orgs,     \* rows of the suborganizations table
  Members   \* users of the tenant

VARIABLES name, rows, scope, mixed

orgVars == <<name, rows, scope>>

Unscoped == "null"
Names == {"Default", "Other"}
Existing == {o \in Orgs : name[o] \in Names}

(* The foreign keys of the memberships and of the sessions' scopes.        *)
OrgsOK ==
  /\ name \in [Orgs -> Names \cup {"none", "deleted"}]
  /\ rows \in [Members -> SUBSET Existing]
  /\ scope \in [Members -> Existing \cup {Unscoped}]

(* The trigger on tenants makes the default, the one on users joins it.    *)
OrgsInit ==
  \E d \in Orgs :
    /\ name = [o \in Orgs |-> IF o = d THEN "Default" ELSE "none"]
    /\ rows = [u \in Members |-> {d}]
    /\ scope = [u \in Members |-> d]
    /\ mixed = {}

(* Nothing makes names distinct.                                           *)
CreateOrg(o, n) ==
  /\ "orgs" \in mix
  /\ name[o] = "none"
  /\ name' = [name EXCEPT ![o] = n]
  /\ UNCHANGED <<mix, req, rows, scope>>

RenameOrg(o, n) ==
  /\ "rename" \in mix
  /\ o \in Existing /\ name[o] # n
  /\ name' = [name EXCEPT ![o] = n]
  /\ UNCHANGED <<mix, req, rows, scope>>

-----------------------------------------------------------------------------
(* Delete.  to, for UnplacedOnlyBy, are the other defaults moved to.       *)

DeleteOrg(r, o) ==
  /\ o \in Existing /\ name[o] # "Default"
  /\ Begin(r, [op |-> "drop", at |-> "move", org |-> o, user |-> "none",
               to |-> {}])
  /\ UNCHANGED <<mix, orgVars>>

Defaults == {o \in Existing : name[o] = "Default"}

(* Mutant: those in the default already are moved, the others not.         *)
MoveMembersThere(r) ==
  /\ At(r, "drop", "move")
  /\ req' = [req EXCEPT ![r].at = "cascade", ![r].to = Defaults \ {req[r].org}]
  /\ UNCHANGED <<mix, orgVars>>

MoveMembers(r) ==
  /\ At(r, "drop", "move")
  /\ rows' = [u \in Members |->
                IF req[r].org \in rows[u] THEN rows[u] \cup Defaults ELSE rows[u]]
  /\ req' = [req EXCEPT ![r].at = "cascade", ![r].to = Defaults \ {req[r].org}]
  /\ UNCHANGED <<mix, name, scope>>

(* By the foreign keys memberships go along, and scopes become null.       *)
DropOrg(r) ==
  LET o == req[r].org IN
  /\ At(r, "drop", "cascade")
  /\ name' = [name EXCEPT ![o] = "deleted"]
  /\ rows' = [u \in Members |-> rows[u] \ {o}]
  /\ scope' = [u \in Members |-> IF scope[u] = o THEN Unscoped ELSE scope[u]]
  /\ Done(r)
  /\ UNCHANGED mix

-----------------------------------------------------------------------------
(* SetUserSubOrg of the store and, after it, of the handler.               *)

SetUserSubOrg(r, u, o) ==
  /\ o \in Existing
  /\ Begin(r, [op |-> "assign", at |-> "remove", org |-> o, user |-> u])
  /\ UNCHANGED <<mix, orgVars>>

RemoveFromOrgs(r) ==
  /\ At(r, "assign", "remove")
  /\ rows' = [rows EXCEPT ![req[r].user] = {}]
  /\ GoTo(r, "add")
  /\ UNCHANGED <<mix, name, scope>>

AddToOrg(r) ==
  /\ At(r, "assign", "add")
  /\ IF req[r].org \in Existing
       THEN /\ rows' = [rows EXCEPT ![req[r].user] = @ \cup {req[r].org}]
            /\ GoTo(r, "scope")
       ELSE Done(r) /\ UNCHANGED rows
  /\ UNCHANGED <<mix, name, scope>>

(* Mutant: sessions keep the scope they have.                              *)
UpdateSubOrgKept(r) ==
  /\ At(r, "assign", "scope")
  /\ Done(r)
  /\ UNCHANGED <<mix, name, rows, scope>>

(* An error is logged only, as when the sub-organisation is gone by now.   *)
UpdateSubOrg(r) ==
  /\ At(r, "assign", "scope")
  /\ scope' = IF req[r].org \in Existing
                THEN [scope EXCEPT ![req[r].user] = req[r].org] ELSE scope
  /\ Done(r)
  /\ UNCHANGED <<mix, name, rows>>

(* A sign-in reads the sub-organisation, one of them if there are several, *)
(* and binds the session to it later.                                      *)
ReadScope(r, u) ==
  /\ \E o \in IF rows[u] = {} THEN {Unscoped} ELSE rows[u] :
       Begin(r, [op |-> "bind", at |-> "bind", user |-> u, org |-> o])
  /\ UNCHANGED <<mix, orgVars>>

BindScope(r) ==
  /\ At(r, "bind", "bind")
  /\ scope' = IF req[r].org \in Existing \cup {Unscoped}
                THEN [scope EXCEPT ![req[r].user] = req[r].org] ELSE scope
  /\ Done(r)
  /\ UNCHANGED <<mix, name, rows>>

(* A deletion concerns every member.                                       *)
Busy(u) ==
  \E r \in Requests : req[r].op \in {"assign", "bind"} /\ req[r].user = u

Overlap(u) ==
  \E r, q \in Requests :
    r # q /\ req[r] # Idle /\ req[q] # Idle
    /\ {req[r].user, req[q].user} \subseteq {u, "none"}

OrgsStep ==
  \/ \E o \in Orgs, n \in Names : CreateOrg(o, n) \/ RenameOrg(o, n)
  \/ \E r \in Requests :
       \/ \E o \in Orgs : DeleteOrg(r, o) \/ \E u \in Members : SetUserSubOrg(r, u, o)
       \/ MoveMembers(r) \/ DropOrg(r)
       \/ RemoveFromOrgs(r) \/ AddToOrg(r) \/ UpdateSubOrg(r)
       \/ \E u \in Members : ReadScope(r, u)
       \/ BindScope(r)

OrgsNext ==
  \/ OrgsStep /\ mixed' = mixed \cup {u \in Members : Overlap(u)'}
  \/ \E r \in Requests :
       /\ Abandon(r) /\ UNCHANGED orgVars
       /\ mixed' = mixed \cup (Members \cap {req[r].user})

(* The sub-organisations alone.                                            *)
OrgsSpec ==
  /\ HandlersInit /\ OrgsInit
  /\ [][OrgsNext]_<<mix, req, orgVars, mixed>>

-----------------------------------------------------------------------------
(* "Members are moved to the tenant's Default sub-org before deletion"     *)
(* (suborg/store.go:140).  A member ends in none when an assignment stops  *)
(* half way or its target is gone, when a deletion overlaps an assignment  *)
(* or another deletion, or when there was no default to move to.           *)
Unplaced(u) == rows[u] = {} /\ ~Busy(u)

UnplacedOnlyBy ==
  [][\A u \in Members : ~Unplaced(u) /\ Unplaced(u)' =>
       \E r \in Requests :
         /\ Moves(r)
         /\ \/ req[r].at # "cascade" /\ req[r].user = u /\ UNCHANGED rows
            \/ req[r].at = "cascade" /\ (u \in mixed \/ req[r].to = {})]_<<mix, req, orgVars>>

(* "The cached scope takes effect immediately without requiring a          *)
(* re-login" (session/store.go:228): whatever is assigned, renamed or      *)
(* deleted, a session is not scoped to a sub-organisation its member has   *)
(* left, unless requests for the member overlapped or stopped half way.    *)
ScopeFollows ==
  \A u \in Members :
    scope[u] # Unscoped /\ rows[u] # {} /\ ~Busy(u) =>
      scope[u] \in rows[u] \/ u \in mixed

(* suborg.go:13: "a sub-organization with that name already exists".       *)
NamesDistinct ==
  \A o, p \in Existing : o # p => name[o] # name[p]
=============================================================================
