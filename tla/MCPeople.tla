------------------------------ MODULE MCPeople ------------------------------
(* People, super admins and sub-organisations on small instances.  They    *)
(* share no table here: a behaviour uses one of the three, so that a run   *)
(* explores the sum of their states and not the product.                   *)
EXTENDS People, SuperAdmins, SubOrgs, TLC

PeopleOps == {"invite", "sso", "member", "remove"}

Operations ==
  {PeopleOps \cup {"create"}, PeopleOps \cup {"flag"}, PeopleOps \cup {"erase"},
   {"suspend", "delete", "admin", "flag"},
   {"orgs", "rename", "drop", "assign"}, {"orgs", "assign", "drop", "bind"}}

InPeople == mix \cap PeopleOps # {}
InAdmins == mix \cap {"suspend"} # {}
InOrgs == mix \cap {"orgs"} # {}

vars == <<mix, req, peopleVars, adminVars, orgVars, mixed>>

Init ==
  HandlersInit /\ PeopleInit /\ OrgsInit
  /\ AdminsInit /\ (~InAdmins => super = Admins)

Next ==
  \/ InPeople /\ PeopleNext /\ UNCHANGED <<adminVars, orgVars, mixed>>
  \/ InAdmins /\ AdminsNext /\ UNCHANGED <<peopleVars, orgVars, mixed>>
  \/ InOrgs /\ OrgsNext /\ UNCHANGED <<peopleVars, adminVars>>

Spec == Init /\ [][Next]_vars

(* Every variable has its type, and every reference the row it refers to.  *)
TypeOK == mix \in Mixes /\ PeopleOK /\ AdminsOK /\ OrgsOK

Symmetry == Permutations(Requests) \cup Permutations(Tenants)
              \cup Permutations(Admins) \cup Permutations(Orgs)
=============================================================================
