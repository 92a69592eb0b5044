----------------------------- MODULE Assignments -----------------------------
(***************************************************************************)
(* How one task comes to its assignees: its row, its requirements and its  *)
(* assignment rules are inserted one after the other, then the assignees   *)
(* the rules make are listed and told.  Who they are is a view: rules name *)
(* a person, the whole tenant, or a sub-organisation with whoever belongs  *)
(* to it at the time.                                                      *)
(*                                                                         *)
(* An administrator creates the task in the behaviours with "admin" in     *)
(* mix, an FSO in those with "fso".                                        *)
(***************************************************************************)
EXTENDS Handlers

CONSTANTS
  Staff,        \* individual contributors of the tenant
  Requirements   \* what the task asks for

VARIABLES state, asked, rules, members, told

assignmentVars == <<state, asked, rules, members, told>>

Rules == {"org", "sub_org"} \cup Staff

AssignmentsOK ==
  /\ state \in {"none", "active", "draft", "archived"}
  /\ asked \subseteq Requirements /\ rules \subseteq Rules
  /\ members \subseteq Staff /\ told \subseteq Staff
  /\ state = "none" => asked = {} /\ rules = {} /\ told = {}

AssignmentsInit ==
  /\ state = "none" /\ asked = {} /\ rules = {} /\ told = {}
  /\ members \in SUBSET Staff

(* The view task_assigned_users.                                           *)
Assigned(u) == u \in rules \/ "org" \in rules \/ ("sub_org" \in rules /\ u \in members)

-----------------------------------------------------------------------------
(* validateRulesForFSO: only the own sub-organisation and its members.     *)
MayAssign(wanted) == "fso" \in mix => wanted \subseteq {"sub_org"} \cup members

(* Mutant: the rules first.                                                *)
StepsRulesFirst == <<"rule", "requirement", "list">>

Steps == <<"requirement", "rule", "list">>

(* The next step that has anything to do.                                  *)
Onward(q) ==
  LET idle(s) == IF s = "requirement" THEN q.asks = {}
                 ELSE s = "rule" /\ q.wanted = {}
      n == CHOOSE i \in 1..3 : ~idle(Steps[i]) /\ \A j \in 1..(i - 1) : idle(Steps[j])
  IN [q EXCEPT !.at = Steps[n]]

CreateTask(r, s, wanted) ==
  /\ state = "none" /\ s \in {"active", "draft"} /\ MayAssign(wanted)
  /\ Begin(r, Onward([op |-> "assign", at |-> "task", asks |-> Requirements,
                      wanted |-> wanted, todo |-> {}, mail |-> s = "active"]))
  /\ state' = s
  /\ UNCHANGED <<mix, asked, rules, members, told>>

InsertRequirement(r) ==
  /\ At(r, "assign", "requirement")
  /\ \E a \in req[r].asks :
       /\ asked' = asked \cup {a}
       /\ req' = [req EXCEPT ![r] = Onward([req[r] EXCEPT !.asks = @ \ {a}])]
  /\ UNCHANGED <<mix, state, rules, members, told>>

InsertRule(r) ==
  /\ At(r, "assign", "rule")
  /\ \E w \in req[r].wanted :
       /\ rules' = rules \cup {w}
       /\ req' = [req EXCEPT ![r] = Onward([req[r] EXCEPT !.wanted = @ \ {w}])]
  /\ UNCHANGED <<mix, state, asked, members, told>>

(* ListAssigneeContacts, for a task created active.                        *)
ListContacts(r) ==
  LET contacts == {u \in Staff : Assigned(u)} IN
  /\ At(r, "assign", "list")
  /\ IF ~req[r].mail \/ contacts = {} THEN Done(r)
     ELSE req' = [req EXCEPT ![r].at = "notify", ![r].todo = contacts]
  /\ UNCHANGED <<mix, assignmentVars>>

NotifyTaskAssigned(r) ==
  /\ At(r, "assign", "notify")
  /\ \E u \in req[r].todo :
       /\ told' = told \cup {u}
       /\ IF req[r].todo = {u} THEN Done(r)
          ELSE req' = [req EXCEPT ![r].todo = @ \ {u}]
  /\ UNCHANGED <<mix, state, asked, rules, members>>

Archive ==
  /\ state \in {"active", "draft"}
  /\ state' = "archived"
  /\ UNCHANGED <<mix, req, asked, rules, members, told>>

Unarchive ==
  /\ state = "archived"
  /\ state' = "active"
  /\ UNCHANGED <<mix, req, asked, rules, members, told>>

(* Somebody is moved into the sub-organisation or out of it.               *)
Move(u) ==
  /\ members' = (members \ {u}) \cup ({u} \ members)
  /\ UNCHANGED <<mix, req, state, asked, rules, told>>

AssignmentsNext ==
  \/ \E r \in Requests :
       \/ \E s \in {"active", "draft"}, w \in SUBSET Rules : CreateTask(r, s, w)
       \/ InsertRequirement(r) \/ InsertRule(r)
       \/ ListContacts(r) \/ NotifyTaskAssigned(r)
       \/ Abandon(r) /\ UNCHANGED assignmentVars
  \/ Archive \/ Unarchive
  \/ \E u \in Staff : Move(u)

(* The task alone.                                                         *)
AssignmentsSpec ==
  /\ HandlersInit /\ AssignmentsInit
  /\ [][AssignmentsNext]_<<mix, req, assignmentVars>>

-----------------------------------------------------------------------------
Tells(r, u) ==
  \/ req[r].at \in {"requirement", "rule", "list"} /\ req[r].mail
  \/ req[r].at = "notify" /\ u \in req[r].todo

(* An assignee finds a task on their list before all its requirements are  *)
(* there, or without having been told of it and nobody about to.           *)
Unready(u) ==
  /\ state = "active" /\ Assigned(u)
  /\ \/ asked # Requirements
     \/ u \notin told /\ \A r \in Requests : ~Tells(r, u)

(* Only if they were moved into the sub-organisation later, if the task    *)
(* was created as a draft, whose assignees are never told, if it comes out *)
(* of the archive, or if the request that created it stopped half way      *)
(* (task/store.go:53).                                                     *)
UnreadyOnlyBy ==
  [][\A u \in Staff :
       ~Unready(u) /\ Unready(u)' =>
         \/ u \notin members /\ u \in members'
         \/ state # "active"
         \/ \E r \in Requests :
              /\ Moves(r)
              /\ ~req[r].mail \/ (req'[r] = Idle /\ u \notin told')]_<<mix, req, assignmentVars>>
=============================================================================
