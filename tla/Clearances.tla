---------------------------- MODULE Clearances -----------------------------
(***************************************************************************)
(* The clearance history of one member: numbered records, each current     *)
(* until superseded, and users.current_clearance_id, which the team list   *)
(* reads while the reminders read the current records.  SetClearance       *)
(* changes them in three statements.                                       *)
(*                                                                         *)
(* lone and doubt are history variables: the change that has had the       *)
(* history to itself so far, and whether changes have overlapped or        *)
(* stopped half way since the last one that had it until its end.          *)
(***************************************************************************)
EXTENDS Handlers

CONSTANT MaxRecords  \* bound on the records of the member

ASSUME ClearancesAssumption == MaxRecords \in Nat /\ "nobody" \notin Requests

VARIABLES record, pointer, member, lone, doubt

clearanceVars == <<record, pointer, member, lone, doubt>>

Records == 1..MaxRecords
Current == {n \in Records : record[n] = "current"}
Setting == {r \in Requests : req[r].op = "clear"}

ClearancesOK ==
  /\ record \in [Records -> {"none", "current", "superseded"}]
  /\ pointer \in {0} \cup {n \in Records : record[n] # "none"}
  /\ member \in BOOLEAN /\ doubt \in BOOLEAN
  /\ lone \in Requests \cup {"nobody"}

ClearancesInit ==
  /\ record = [n \in Records |-> "none"]
  /\ pointer = 0
  /\ member = TRUE
  /\ lone = "nobody" /\ doubt = FALSE

-----------------------------------------------------------------------------
MemberExists == member

(* The member is there, and within the scope of the FSO who asks.          *)
SetClearance(r) ==
  /\ MemberExists
  /\ Begin(r, [op |-> "clear", at |-> "supersede", id |-> 0])
  /\ lone' = IF Setting = {} THEN r ELSE "nobody"
  /\ doubt' = (doubt \/ Setting # {})
  /\ UNCHANGED <<mix, record, pointer, member>>

(* Mutant: only the record the user points to.                             *)
SupersededPointed == Current \cap {pointer}

Superseded == Current

Supersede(r) ==
  /\ At(r, "clear", "supersede")
  /\ record' = [n \in Records |-> IF n \in Superseded THEN "superseded" ELSE record[n]]
  /\ GoTo(r, "insert")
  /\ UNCHANGED <<mix, pointer, member, lone, doubt>>

(* A removed member's record fails its foreign key.                        *)
InsertRecord(r) ==
  LET free == {n \in Records : record[n] = "none"} IN
  /\ At(r, "clear", "insert")
  /\ \/ ~member /\ Done(r) /\ UNCHANGED record
     \/ \E n \in free :
          /\ member /\ \A k \in free : n <= k
          /\ record' = [record EXCEPT ![n] = "current"]
          /\ req' = [req EXCEPT ![r].at = "repoint", ![r].id = n]
  /\ UNCHANGED <<mix, pointer, member, lone, doubt>>

(* Finds no row if the member was removed.                                 *)
Repoint(r) ==
  /\ At(r, "clear", "repoint")
  /\ pointer' = IF member THEN req[r].id ELSE pointer
  /\ doubt' = (doubt /\ lone # r)
  /\ Done(r)
  /\ UNCHANGED <<mix, record, member, lone>>

(* The records go with the member.                                         *)
RemoveMember ==
  /\ "leave" \in mix /\ member
  /\ member' = FALSE
  /\ record' = [n \in Records |-> "none"]
  /\ pointer' = 0
  /\ UNCHANGED <<mix, req, lone, doubt>>

ClearancesNext ==
  \/ \E r \in Requests :
       \/ SetClearance(r) \/ Supersede(r) \/ InsertRecord(r) \/ Repoint(r)
       \/ /\ Abandon(r)
          /\ doubt' = TRUE
          /\ UNCHANGED <<record, pointer, member, lone>>
  \/ RemoveMember

(* The clearances alone.                                                   *)
ClearancesSpec ==
  /\ HandlersInit /\ ClearancesInit
  /\ [][ClearancesNext]_<<mix, req, clearanceVars>>

-----------------------------------------------------------------------------
CurrentAgrees == Current = {pointer} \ {0}

(* Whatever overlapping and interrupted changes left behind, one change    *)
(* that has the history to itself until its end puts it right: one record  *)
(* is current and the member points to it (team/store.go:348).             *)
OneCurrentUnlessDoubt == Setting = {} /\ ~doubt => CurrentAgrees

(* "in a single tx: insert the new row, mark any prior current row         *)
(* superseded, and repoint" (team/store.go:311): with no change in         *)
(* progress one record is current and the member points to it.             *)
OneCurrent == Setting = {} => CurrentAgrees
=============================================================================
