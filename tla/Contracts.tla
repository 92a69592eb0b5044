------------------------------ MODULE Contracts ------------------------------
(***************************************************************************)
(* The contract one visit is made under: its author names a DD254 form     *)
(* they are read on to, and the FSO who reviews the visit links a form in  *)
(* its place, or none.  The panel offers the FSO the forms that authorise  *)
(* the visit; the endpoint behind it takes any form of the tenant.  Forms  *)
(* are superseded and people read on, debriefed and struck off at any      *)
(* time, and the visit keeps its form whatever happens to it.              *)
(*                                                                         *)
(* lost, a history variable, holds the forms that stopped to authorise the *)
(* author while a request or a panel of the FSO was under way.             *)
(***************************************************************************)
EXTENDS Handlers

CONSTANT Forms  \* DD254 forms of the tenant

ASSUME ContractsAssumption == "unmade" \notin Forms /\ "none" \notin Forms

VARIABLES form, reading, contract, terms, lost

contractVars == <<form, reading, contract, terms, lost>>

(* What a form may be classified as, and what a visit may ask for.         *)
ClassOrder ==
  [none |-> 0, confidential |-> 1, secret |-> 2, top_secret |-> 3, ts_sci |-> 4]
AccessLevels == {"confidential", "secret", "top_secret", "top_secret_sci"}

(* What nothing changes: the level of the visit, the classification of     *)
(* each form, and the forms whose period spans the visit.                  *)
VisitTerms ==
  [level : AccessLevels, class : [Forms -> DOMAIN ClassOrder],
   spans : SUBSET Forms]

(* reading is the author's row in dd254_user_access.                       *)
ContractsOK ==
  /\ form \in [Forms -> {"none", "active", "superseded"}]
  /\ reading \in [Forms -> {"none", "on", "debriefed"}]
  /\ contract \in Forms \cup {"unmade", "none"}
  /\ terms \in VisitTerms
  /\ lost \subseteq Forms
  /\ \A f \in Forms : f = contract \/ reading[f] # "none" => form[f] # "none"

ContractsInit ==
  /\ form = [f \in Forms |-> "none"]
  /\ reading = [f \in Forms |-> "none"]
  /\ contract = "unmade" /\ lost = {}
  /\ terms \in VisitTerms

-----------------------------------------------------------------------------
UploadDD254(f) ==
  /\ form[f] = "none"
  /\ form' = [form EXCEPT ![f] = "active"]
  /\ UNCHANGED <<mix, req, reading, contract, terms, lost>>

Underway == \E r \in Requests : req[r] # Idle
Lose(fs) == lost' = (IF Underway THEN lost \cup fs ELSE {})

(* The row stays for the visits made under it.                             *)
DeleteForm(f) ==
  /\ form[f] # "none"
  /\ form' = [form EXCEPT ![f] = "superseded"]
  /\ Lose({f})
  /\ UNCHANGED <<mix, req, reading, contract, terms>>

(* The row, new or replaced, is all the request's.                         *)
Granted(f, debriefed) ==
  [reading EXCEPT ![f] = IF debriefed THEN "debriefed" ELSE "on"]

(* To a form of any status.                                                *)
GrantAccess(f, debriefed) ==
  /\ form[f] # "none"
  /\ reading' = Granted(f, debriefed)
  /\ Lose(IF debriefed THEN {f} ELSE {})
  /\ UNCHANGED <<mix, req, form, contract, terms>>

RevokeAccess(f) ==
  /\ reading[f] # "none"
  /\ reading' = [reading EXCEPT ![f] = "none"]
  /\ Lose({f})
  /\ UNCHANGED <<mix, req, form, contract, terms>>

-----------------------------------------------------------------------------
(* Mutant: a debriefed author passes.                                      *)
UserHasAccessOnce(f) == form[f] = "active" /\ reading[f] # "none"

UserHasAccess(f) == form[f] = "active" /\ reading[f] = "on"

(* The visit is created with a form its author is read on to, or none.     *)
Declare(r, f) ==
  /\ contract = "unmade"
  /\ f # "none" => UserHasAccess(f)
  /\ Begin(r, [op |-> "declare", at |-> "insert", forms |-> {f}])
  /\ UNCHANGED <<mix, contractVars>>

InsertVisit(r) ==
  /\ At(r, "declare", "insert")
  /\ contract' = IF contract = "unmade" THEN CHOOSE f \in req[r].forms : TRUE
                 ELSE contract
  /\ Done(r)
  /\ UNCHANGED <<mix, form, reading, terms, lost>>

(* A level that is none of the classifications requires nothing.           *)
Required(level) == IF level \in DOMAIN ClassOrder THEN ClassOrder[level] ELSE 0

Suggested ==
  {f \in terms.spans : /\ form[f] = "active" /\ reading[f] = "on"
                       /\ ClassOrder[terms.class[f]] >= Required(terms.level)}

(* The FSO's panel loads the forms that authorise the visit, and shows     *)
(* them until it is closed.                                                *)
SuggestForVisit(r) ==
  /\ contract # "unmade"
  /\ Begin(r, [op |-> "panel", at |-> "offer", forms |-> Suggested])
  /\ UNCHANGED <<mix, contractVars>>

ClosePanel(r) ==
  /\ At(r, "panel", "offer")
  /\ Done(r)
  /\ UNCHANGED <<mix, contractVars>>

(* Any form there is, or none; no panel need have offered it.  The look    *)
(* for the form and the UPDATE are one step: no form's row ever goes.      *)
SetVisitRequestDD254(f) ==
  /\ f # "none" => form[f] # "none"
  /\ contract' = f

LinkVisitRequest(f) ==
  /\ contract # "unmade"
  /\ SetVisitRequestDD254(f)
  /\ UNCHANGED <<mix, req, form, reading, terms, lost>>

ContractsNext ==
  \/ \E f \in Forms :
       \/ UploadDD254(f) \/ DeleteForm(f) \/ RevokeAccess(f)
       \/ \E debriefed \in BOOLEAN : GrantAccess(f, debriefed)
  \/ \E f \in Forms \cup {"none"} : LinkVisitRequest(f)
  \/ \E r \in Requests :
       \/ \E f \in Forms \cup {"none"} : Declare(r, f)
       \/ InsertVisit(r) \/ SuggestForVisit(r) \/ ClosePanel(r)
       \/ Abandon(r) /\ UNCHANGED contractVars

(* The contract alone.                                                     *)
ContractsSpec ==
  /\ HandlersInit /\ ContractsInit
  /\ [][ContractsNext]_<<mix, req, contractVars>>

-----------------------------------------------------------------------------
Unauthorised ==
  contract \in Forms /\ (form[contract] # "active" \/ reading[contract] # "on")

Offered(f) == \E r \in Requests : At(r, "panel", "offer") /\ f \in req[r].forms

(* A visit is made to name, or comes to name, a form that does not         *)
(* authorise its author only when the form or the reading ended while the  *)
(* author's request or the panel it is picked from was under way, or when  *)
(* it is linked past the panel, which nothing in the endpoint stops        *)
(* (visitrequest/handler.go:83, dd254/store.go:447).  Otherwise a form     *)
(* stops to authorise a visit that names it already.                       *)
UnauthorisedOnlyBy ==
  [][contract' # contract /\ Unauthorised' =>
       \/ contract' \in lost
       \/ contract # "unmade" /\ ~Offered(contract')]_<<mix, req, contractVars>>

(* "the classification_max must meet or exceed the visit's access_level"   *)
(* (dd254/store.go:361): so does every form a panel offers.                *)
Highest(level) == IF level = "top_secret_sci" THEN 4 ELSE ClassOrder[level]

OfferedReachLevel ==
  \A r \in Requests : At(r, "panel", "offer") =>
    \A f \in req[r].forms :
      ClassOrder[terms.class[f]] >= Highest(terms.level)
=============================================================================
