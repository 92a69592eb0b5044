----------------------------- MODULE TaskReview -----------------------------
(***************************************************************************)
(* Submission and review of assigned tasks: the rows of task_completions,  *)
(* the review items the submissions leave on the FSO's board (rows of      *)
(* action_items with source_type "task_submission"), and the HTTP requests *)
(* that move them.                                                         *)
(*                                                                         *)
(* Every store method is one SQL statement and no handler opens a          *)
(* transaction, so a request is a little process whose steps interleave    *)
(* with those of the others between two statements.  A request can also    *)
(* stop between two of them (Abandon): its client went away and cancelled  *)
(* the context, a statement failed, or the server instance was replaced.   *)
(*                                                                         *)
(* filed and verdict are history variables: the program does not store     *)
(* them.  They number the successful submissions and keep the verdict each *)
(* one got.  The item created for submission n of c is item[c][n].         *)
(***************************************************************************)
EXTENDS Naturals

CONSTANTS
  Completions,     \* task completions: pairs of a task and an assignee
  Requests,        \* slots for concurrently running HTTP requests
  MaxSubmissions,  \* bound on the submissions of one completion
  Operations,      \* the endpoints clients call, a subset of OperationNames
  Faults           \* whether a request may stop half way

OperationNames == {"view", "save", "submit", "approve", "reject", "item"}

ASSUME ReviewAssumption ==
  /\ MaxSubmissions \in Nat
  /\ Operations \subseteq OperationNames
  /\ Faults \in BOOLEAN

VARIABLES status, item, req, filed, verdict

vars == <<status, item, req, filed, verdict>>

CompletionStatuses ==
  {"none", "to_do", "in_progress", "submitted", "approved", "rejected"}
ItemStatuses == {"pending", "under_review", "processed", "rejected"}
OpenItemStatuses == {"pending", "under_review"}
Verdicts == {"none", "approved", "rejected"}
Steps == {"ensure", "save", "submit", "create", "decide", "resolve",
          "update", "cascade"}

Submissions == 1..MaxSubmissions
Idle == [op |-> "none"]

(* The statements a handler can be in front of.                            *)
StepsOf ==
  [view    |-> {"ensure"},
   save    |-> {"ensure", "save"},
   submit  |-> {"ensure", "submit", "create"},
   approve |-> {"ensure", "decide", "resolve"},
   reject  |-> {"ensure", "decide", "resolve"},
   item    |-> {"update", "cascade"}]

(* round: the submission the request made, decided or found on the board;  *)
(* want: the status an item is being given.                                *)
RequestRecords ==
  {q \in [op : OperationNames, at : Steps, comp : Completions,
          round : 0..MaxSubmissions, want : ItemStatuses \cup {"none"}] :
     q.at \in StepsOf[q.op] /\ (q.op = "item" => q.want # "none")}

TypeOK ==
  /\ status \in [Completions -> CompletionStatuses]
  /\ item \in [Completions -> [Submissions -> ItemStatuses \cup {"none"}]]
  /\ req \in [Requests -> RequestRecords \cup {Idle}]
  /\ filed \in [Completions -> 0..MaxSubmissions]
  /\ verdict \in [Completions -> [Submissions -> Verdicts]]

Init ==
  /\ status = [c \in Completions |-> "none"]
  /\ item = [c \in Completions |-> [n \in Submissions |-> "none"]]
  /\ req = [r \in Requests |-> Idle]
  /\ filed = [c \in Completions |-> 0]
  /\ verdict = [c \in Completions |-> [n \in Submissions |-> "none"]]

-----------------------------------------------------------------------------
(* Requests: where one is, how it moves on, how it ends.                   *)

At(r, step) == req[r] # Idle /\ req[r].at = step
GoTo(r, step) == req' = [req EXCEPT ![r].at = step]
Done(r) == req' = [req EXCEPT ![r] = Idle]

(* A task endpoint is called for a completion; all begin with the upsert.  *)
Begin(r, op, c) ==
  /\ req[r] = Idle
  /\ op \in Operations \ {"item"}
  /\ req' = [req EXCEPT ![r] = [op |-> op, at |-> "ensure", comp |-> c,
                                round |-> 0, want |-> "none"]]
  /\ UNCHANGED <<status, item, filed, verdict>>

(* An FSO sets the status of an item that is on the board.                 *)
BeginItem(r, c, n, w) ==
  /\ req[r] = Idle
  /\ "item" \in Operations
  /\ item[c][n] # "none"
  /\ req' = [req EXCEPT ![r] = [op |-> "item", at |-> "update", comp |-> c,
                                round |-> n, want |-> w]]
  /\ UNCHANGED <<status, item, filed, verdict>>

(* The request stops between two statements; what it wrote stays.          *)
Abandon(r) ==
  /\ Faults
  /\ req[r] # Idle
  /\ Done(r)
  /\ UNCHANGED <<status, item, filed, verdict>>

-----------------------------------------------------------------------------
(* The statements of the task handlers.                                    *)

StepAfterEnsure ==
  [save |-> "save", submit |-> "submit", approve |-> "decide",
   reject |-> "decide"]

(* Creates the completion row if the assignee has none yet.                *)
EnsureCompletion(r) ==
  /\ At(r, "ensure")
  /\ status' = [status EXCEPT ![req[r].comp] = IF @ = "none" THEN "to_do" ELSE @]
  /\ IF req[r].op = "view" THEN Done(r) ELSE GoTo(r, StepAfterEnsure[req[r].op])
  /\ UNCHANGED <<item, filed, verdict>>

(* Draft answers are upserted, then the status moves if the task was not   *)
(* begun or came back rejected.  The answers themselves are not modelled.  *)
SaveResponses(r) ==
  LET c == req[r].comp IN
  /\ At(r, "save")
  /\ status' = [status EXCEPT ![c] =
                  IF @ \in {"to_do", "rejected"} THEN "in_progress" ELSE @]
  /\ Done(r)
  /\ UNCHANGED <<item, filed, verdict>>

(* Mutant: the UPDATE loses its WHERE on the status.                       *)
SubmittableAlways(c) == status[c] # "none"

Submittable(c) == status[c] \in {"to_do", "in_progress", "rejected"}

Submit(r) ==
  LET c == req[r].comp IN
  /\ At(r, "submit")
  /\ Submittable(c)
  /\ filed[c] < MaxSubmissions
  /\ status' = [status EXCEPT ![c] = "submitted"]
  /\ filed' = [filed EXCEPT ![c] = @ + 1]
  /\ req' = [req EXCEPT ![r].at = "create", ![r].round = filed[c] + 1]
  /\ UNCHANGED <<item, verdict>>

(* No row was updated: 400.  At the bound the statement counts as failed.  *)
SubmitRefused(r) ==
  /\ At(r, "submit")
  /\ ~Submittable(req[r].comp) \/ filed[req[r].comp] = MaxSubmissions
  /\ Done(r)
  /\ UNCHANGED <<status, item, filed, verdict>>

(* Mutant: no second item while the completion has an open one.            *)
CreateItemOnce(r) ==
  LET c == req[r].comp IN
  /\ At(r, "create")
  /\ item' = IF \E n \in Submissions : item[c][n] \in OpenItemStatuses THEN item
             ELSE [item EXCEPT ![c][req[r].round] = "pending"]
  /\ Done(r)
  /\ UNCHANGED <<status, filed, verdict>>

(* The submission's review item appears on the FSO's board.                *)
CreateItem(r) ==
  /\ At(r, "create")
  /\ item' = [item EXCEPT ![req[r].comp][req[r].round] = "pending"]
  /\ Done(r)
  /\ UNCHANGED <<status, filed, verdict>>

(* Mutant: Approve and Reject lose their WHERE on the status.              *)
ReviewableAlways(c) == status[c] # "none"

(* The conditional UPDATE that store.Approve and store.Reject share.       *)
Reviewable(c) == status[c] = "submitted"

Record(c, v) ==
  /\ status' = [status EXCEPT ![c] = v]
  /\ verdict' = [verdict EXCEPT ![c][filed[c]] = v]

(* Mutant: the word of the feature description instead of the column's.    *)
VerdictDenied == [approve |-> "approved", reject |-> "denied"]

VerdictOf == [approve |-> "approved", reject |-> "rejected"]

ReviewSubmission(r) ==
  LET c == req[r].comp IN
  /\ At(r, "decide")
  /\ Reviewable(c)
  /\ Record(c, VerdictOf[req[r].op])
  /\ req' = [req EXCEPT ![r].at = "resolve", ![r].round = filed[c]]
  /\ UNCHANGED <<item, filed>>

(* Mutant: the handler does not return when Approve or Reject fails.       *)
ReviewRefusedContinues(r) ==
  /\ At(r, "decide")
  /\ ~Reviewable(req[r].comp)
  /\ GoTo(r, "resolve")
  /\ UNCHANGED <<status, item, filed, verdict>>

ReviewRefused(r) ==
  /\ At(r, "decide")
  /\ ~Reviewable(req[r].comp)
  /\ Done(r)
  /\ UNCHANGED <<status, item, filed, verdict>>

(* Mutant: under_review is forgotten in the statement's list.              *)
ResolvePendingOnly(r) ==
  LET c == req[r].comp IN
  /\ At(r, "resolve")
  /\ item' = [item EXCEPT ![c] = [n \in Submissions |->
                IF item[c][n] = "pending" THEN "processed" ELSE item[c][n]]]
  /\ Done(r)
  /\ UNCHANGED <<status, filed, verdict>>

(* Mutant: the statement selects by source type and not by source.         *)
ResolveEverySource(r) ==
  /\ At(r, "resolve")
  /\ item' = [c \in Completions |-> [n \in Submissions |->
                IF item[c][n] \in OpenItemStatuses THEN "processed"
                                                   ELSE item[c][n]]]
  /\ Done(r)
  /\ UNCHANGED <<status, filed, verdict>>

(* Every open item of the completion is closed, whichever submission it    *)
(* was created for: the statement selects by source, not by submission.    *)
ResolveBySource(r) ==
  LET c == req[r].comp IN
  /\ At(r, "resolve")
  /\ item' = [item EXCEPT ![c] = [n \in Submissions |->
                IF item[c][n] \in OpenItemStatuses THEN "processed"
                                                   ELSE item[c][n]]]
  /\ Done(r)
  /\ UNCHANGED <<status, filed, verdict>>

-----------------------------------------------------------------------------
(* Setting an item's status on the board, and the cascade to its source.   *)

(* The status the board hands to the source ("" when there is no cascade). *)
SourceStatus(w) ==
  CASE w = "under_review" -> "under_review"
    [] w = "processed"    -> "approved"
    [] w = "rejected"     -> "rejected"
    [] OTHER              -> ""

(* What the router's task_submission updater makes of that status.         *)
UpdaterVerdict(s) ==
  CASE s = "processed" -> "approved"
    [] s = "rejected"  -> "rejected"
    [] OTHER           -> "none"

UpdateItem(r) ==
  /\ At(r, "update")
  /\ item' = [item EXCEPT ![req[r].comp][req[r].round] = req[r].want]
  /\ IF SourceStatus(req[r].want) = "" THEN Done(r) ELSE GoTo(r, "cascade")
  /\ UNCHANGED <<status, filed, verdict>>

(* A refusal of the source is logged and the request still succeeds.       *)
Cascade(r) ==
  LET c == req[r].comp
      v == UpdaterVerdict(SourceStatus(req[r].want))
  IN
  /\ At(r, "cascade")
  /\ IF v # "none" /\ Reviewable(c) THEN Record(c, v)
                                    ELSE UNCHANGED <<status, verdict>>
  /\ Done(r)
  /\ UNCHANGED <<item, filed>>

-----------------------------------------------------------------------------
Statement(r) ==
  \/ EnsureCompletion(r) \/ SaveResponses(r)
  \/ Submit(r) \/ SubmitRefused(r) \/ CreateItem(r)
  \/ ReviewSubmission(r) \/ ReviewRefused(r) \/ ResolveBySource(r)
  \/ UpdateItem(r) \/ Cascade(r)

Next ==
  \E r \in Requests :
    \/ Statement(r)
    \/ Abandon(r)
    \/ \E c \in Completions :
         \/ \E op \in OperationNames : Begin(r, op, c)
         \/ \E n \in Submissions, w \in ItemStatuses : BeginItem(r, c, n, w)

Spec == Init /\ [][Next]_vars

(* A running handler gets to its next statement: the Go scheduler runs     *)
(* every goroutine and every statement returns.  Clients owe no requests.  *)
Fairness == \A r \in Requests : WF_vars(Statement(r))

FairSpec == Spec /\ Fairness

-----------------------------------------------------------------------------
(* Correctness.                                                            *)

(* The status column, which is all the guards look at, agrees with the     *)
(* whole history of the completion: a submission waits exactly while the   *)
(* status is submitted, every earlier one was rejected, and no submission  *)
(* is decided twice although two reviewers, or a reviewer and the board's  *)
(* cascade, may race for it.                                               *)
StatusAgreesWithLedger ==
  \A c \in Completions :
    /\ \A n \in Submissions : n < filed[c] => verdict[c][n] = "rejected"
    /\ \A n \in Submissions : n > filed[c] => verdict[c][n] = "none"
    /\ status[c] \in {"none", "to_do"} => filed[c] = 0
    /\ status[c] = "submitted" => filed[c] > 0 /\ verdict[c][filed[c]] = "none"
    /\ status[c] \in {"approved", "rejected"} =>
         filed[c] > 0 /\ verdict[c][filed[c]] = status[c]
    /\ status[c] = "in_progress" /\ filed[c] > 0 =>
         verdict[c][filed[c]] = "rejected"

(* A reviewer's request that is about to close items has decided a         *)
(* submission: nothing is cleared from the board for a refused review.     *)
ResolverFollowsVerdict ==
  \A r \in Requests : At(r, "resolve") =>
    /\ req[r].round \in 1..filed[req[r].comp]
    /\ verdict[req[r].comp][req[r].round] # "none"

(* The handlers implement the ledger: one verdict per submission, given to *)
(* the latest one only, a new submission only after a rejection, and       *)
(* nothing after an approval.                                              *)
Ledger == INSTANCE SubmissionLedger WITH filed <- filed, verdict <- verdict
LedgerSpec == Ledger!Spec

OpenItems(c) == {n \in Submissions : item[c][n] \in OpenItemStatuses}
Moves(r) == req[r] # Idle /\ req'[r] # req[r]

(* The reviewer can see the waiting submission, or will as soon as the     *)
(* request that made it gets to its next statement.                        *)
Announced(c) ==
  status[c] = "submitted" =>
    \/ OpenItems(c) # {}
    \/ \E r \in Requests : At(r, "create") /\ req[r].comp = c

(* The three steps that can hide a waiting submission from the board: the  *)
(* submitting request stops before it creates the item; someone closes the *)
(* item by hand; the reviewer of an EARLIER submission gets to its         *)
(* ResolveBySource only now.                                               *)
HidesWaiting(c) ==
  \E r \in Requests :
    /\ Moves(r) /\ req[r].comp = c
    /\ \/ At(r, "create") /\ item' = item
       \/ At(r, "update") /\ req[r].want \in {"processed", "rejected"}
       \/ At(r, "resolve") /\ req[r].round \in 1..(filed[c] - 1)

(* No other interleaving of submitters, reviewers and board users loses    *)
(* the review item of a submission that still waits for its verdict.       *)
WaitingHiddenOnlyBy ==
  [][\A c \in Completions : Announced(c) /\ ~Announced(c)' => HidesWaiting(c)]_vars

(* Nothing on the board asks for a review that is over, except for the     *)
(* moment until the reviewer's request gets to its next statement.         *)
Settled(c) ==
  status[c] # "submitted" =>
    \/ OpenItems(c) = {}
    \/ \E r \in Requests : At(r, "resolve") /\ req[r].comp = c

(* The four steps that leave an open item without a waiting submission:    *)
(* the item is created after its submission was already decided; the       *)
(* reviewer's request stops before it resolves; someone reopens an item    *)
(* by hand; the cascade of one item rejects a completion that has another. *)
LeavesStale(c) ==
  \E r \in Requests :
    /\ Moves(r) /\ req[r].comp = c
    /\ \/ At(r, "create")
       \/ At(r, "resolve") /\ item' = item
       \/ At(r, "update") /\ req[r].want \in OpenItemStatuses
       \/ At(r, "cascade") /\ req[r].want = "rejected"

StaleLeftOnlyBy ==
  [][\A c \in Completions : Settled(c) /\ ~Settled(c)' => LeavesStale(c)]_vars

(* Without faults every submission gets a review item of its own, also the *)
(* one that was decided before its request came to create it.              *)
EverySubmissionSurfaces ==
  \A c \in Completions, n \in Submissions :
    filed[c] >= n ~> item[c][n] # "none"

(* actionitem/handler.go:166 "Cascade the status change to the linked      *)
(* source entity": processing the item of a waiting submission approves    *)
(* it.                                                                     *)
ProcessingApproves ==
  [][\A r \in Requests :
       /\ At(r, "cascade") /\ req[r].want = "processed"
       /\ Reviewable(req[r].comp)
       /\ req'[r] = Idle
       => status'[req[r].comp] = "approved"]_vars
=============================================================================
