------------------------------- MODULE Board --------------------------------
(***************************************************************************)
(* A visit request, a report or a travel report, the review item its       *)
(* filing leaves on the FSO's board, and the two ways to decide it: at its *)
(* own endpoint, which then closes the item, and on the board, whose       *)
(* endpoint then hands the item's status on.  matter is the status of the  *)
(* source and entry that of the item, "none" before they exist.  A         *)
(* behaviour is about one source; its kind is in mix.                      *)
(*                                                                         *)
(* since, a history variable, holds what has happened since the two last   *)
(* agreed with no request in progress and could have parted them.          *)
(***************************************************************************)
EXTENDS Handlers

VARIABLES matter, entry, since

boardVars == <<matter, entry, since>>

Kinds == {"visit", "report", "travel"}
Kind == CHOOSE k \in Kinds : k \in mix

(* What the CHECKs of the three tables and of action_items allow.          *)
Statuses ==
  [visit  |-> {"submitted", "under_review", "approved", "rejected", "cancelled"},
   report |-> {"unreviewed", "under_review", "processed"},
   travel |-> {"draft", "submitted", "under_review", "approved", "rejected"}]
EntryStatuses == {"pending", "under_review", "processed", "rejected"}

Waiting == matter \in {"submitted", "unreviewed", "under_review"}
Open == entry \in {"pending", "under_review"}
Agree == Waiting <=> Open
Quiet == \A r \in Requests : req[r] = Idle

BoardOK ==
  /\ matter \in {"none"} \cup UNION {Statuses[k] : k \in Kinds \cap mix}
  /\ entry \in EntryStatuses \cup {"none"}
  /\ entry # "none" => matter \notin {"none", "draft"}
  /\ since \subseteq {"early", "conflict", "stopped", "withdrawn", "refused",
                      "reopened"}

BoardInit == matter = "none" /\ entry = "none" /\ since = {}

Note(causes) == since' = (IF Quiet /\ Agree THEN {} ELSE since) \cup causes
If(p, cause) == IF p THEN {cause} ELSE {}

(* A reviewer acts while another gives a different verdict, or before the  *)
(* item the filing request is about to create.                             *)
Crossing(want) ==
  If(\E q \in Requests : req[q].op = "file", "early")
    \cup If(\E q \in Requests : req[q].op \in {"review", "item"}
                                  /\ req[q].want # want, "conflict")

-----------------------------------------------------------------------------
DraftReport ==
  /\ Kind = "travel" /\ matter = "none"
  /\ matter' = "draft"
  /\ UNCHANGED <<mix, req, entry, since>>

File(r, s) ==
  /\ Begin(r, [op |-> "file", at |-> "create", want |-> "none"])
  /\ matter' = s
  /\ Note({})
  /\ UNCHANGED <<mix, entry>>

CreateVisit(r) == Kind = "visit" /\ matter = "none" /\ File(r, "submitted")
CreateReport(r) == Kind = "report" /\ matter = "none" /\ File(r, "unreviewed")
SubmitReport(r) == Kind = "travel" /\ matter = "draft" /\ File(r, "submitted")

CreateEntry(r) ==
  /\ At(r, "file", "create")
  /\ entry' = "pending"
  /\ Done(r)
  /\ UNCHANGED <<mix, matter, since>>

(* The requester withdraws a visit nobody looks at yet; its item stays.    *)
Cancel ==
  /\ Kind = "visit" /\ matter = "submitted"
  /\ matter' = "cancelled"
  /\ Note({"withdrawn"})
  /\ UNCHANGED <<mix, req, entry>>

(* AdminGetReport marks the travel report somebody opens.                  *)
MarkUnderReview ==
  /\ Kind = "travel" /\ matter = "submitted"
  /\ matter' = "under_review"
  /\ UNCHANGED <<mix, req, entry, since>>

-----------------------------------------------------------------------------
(* The source whatever its status, then the item if the source is decided. *)
Decisions == {"approved", "rejected", "processed"}

Review(r, s) ==
  /\ matter # "none"
  /\ Begin(r, [op |-> "review", at |-> "resolve", want |-> s])
  /\ matter' = s
  /\ Note(Crossing(s) \cup If(s = "cancelled", "withdrawn")
            \cup If(s \notin Decisions /\ ~Open, "reopened"))
  /\ UNCHANGED <<mix, entry>>

AdminUpdateVisit(r, s) == Kind = "visit" /\ s \in Statuses.visit /\ Review(r, s)
AdminUpdateReport(r, s) == Kind = "report" /\ s \in Statuses.report /\ Review(r, s)
ApproveReport(r) == Kind = "travel" /\ Review(r, "approved")
RejectReport(r) == Kind = "travel" /\ Review(r, "rejected")

(* Mutant: items somebody has begun to look at are left alone.             *)
ClosesPending == entry = "pending"

Closes == Open

(* ResolveBySource, or no further statement.                               *)
ResolveBySource(r) ==
  /\ At(r, "review", "resolve")
  /\ entry' = IF req[r].want \in Decisions /\ Closes THEN "processed" ELSE entry
  /\ Done(r)
  /\ UNCHANGED <<mix, matter, since>>

-----------------------------------------------------------------------------
(* The board's UpdateStatus: the item whatever its status, then the source *)
(* through the updater of its kind.                                        *)
Handed(w) ==
  CASE w = "processed" -> IF Kind = "report" THEN "processed" ELSE "approved"
    [] w = "pending" -> "none"
    [] OTHER -> w

UpdateEntry(r, w) ==
  /\ entry # "none"
  /\ Begin(r, [op |-> "item", at |-> "cascade", want |-> Handed(w)])
  /\ entry' = w
  /\ Note(Crossing(Handed(w)) \cup If(w = "pending", "reopened"))
  /\ UNCHANGED <<mix, matter>>

(* Mutant: the table takes what the other tables do.                       *)
AllowedAnywhere(s) == \E k \in Kinds : s \in Statuses[k]

Allowed(s) == s \in Statuses[Kind]

(* A status the table does not allow is an error that is only logged.      *)
Cascade(r) ==
  LET s == req[r].want IN
  /\ At(r, "item", "cascade")
  /\ matter' = IF Allowed(s) THEN s ELSE matter
  /\ since' = since \cup If(~Allowed(s) /\ s # "none", "refused")
  /\ Done(r)
  /\ UNCHANGED <<mix, entry>>

BoardNext ==
  \/ DraftReport \/ Cancel \/ MarkUnderReview
  \/ \E r \in Requests :
       \/ CreateVisit(r) \/ CreateReport(r) \/ SubmitReport(r)
       \/ CreateEntry(r)
       \/ \E s \in Statuses[Kind] : AdminUpdateVisit(r, s) \/ AdminUpdateReport(r, s)
       \/ ApproveReport(r) \/ RejectReport(r)
       \/ ResolveBySource(r)
       \/ \E w \in EntryStatuses : UpdateEntry(r, w)
       \/ Cascade(r)
       \/ /\ Abandon(r)
          /\ since' = since \cup {"stopped"}
          /\ UNCHANGED <<matter, entry>>

(* The source alone.                                                       *)
BoardSpec ==
  /\ HandlersInit /\ BoardInit
  /\ [][BoardNext]_<<mix, req, boardVars>>

-----------------------------------------------------------------------------
(* With no request in progress a source waits for review exactly if its    *)
(* item is open, unless since they last agreed a visit was withdrawn, a    *)
(* rejection was refused by the table, an item or a source was opened      *)
(* again, a verdict came before the item or crossed another one, or a      *)
(* request stopped half way (visitrequest/store.go:192,                    *)
(* report/store.go:159, travel/store.go:373).                              *)
PartedOnlySince == Quiet /\ ~Agree => since # {}
=============================================================================
