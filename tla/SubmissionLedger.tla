-------------------------- MODULE SubmissionLedger --------------------------
(***************************************************************************)
(* What the task component promises about reviews, with none of its        *)
(* tables or handlers: every task completion goes through numbered         *)
(* submissions, each submission receives at most one verdict, a new        *)
(* submission is possible only when every earlier one was rejected, and    *)
(* an approval ends the ledger of that completion.                         *)
(***************************************************************************)
EXTENDS Naturals

CONSTANTS
  Completions,     \* the task completions (one per task and user)
  MaxSubmissions   \* bound on the submissions of one completion

VARIABLES
  filed,           \* [Completions -> number of submissions so far]
  verdict          \* [Completions -> [submission number -> verdict]]

ledgerVars == <<filed, verdict>>

Verdicts == {"none", "approved", "rejected"}

Init ==
  /\ filed = [c \in Completions |-> 0]
  /\ verdict = [c \in Completions |-> [n \in 1..MaxSubmissions |-> "none"]]

(* A submission opens the next page, once every page before it is rejected. *)
File(c) ==
  /\ filed[c] < MaxSubmissions
  /\ \A n \in 1..filed[c] : verdict[c][n] = "rejected"
  /\ filed' = [filed EXCEPT ![c] = @ + 1]
  /\ UNCHANGED verdict

(* A verdict is written on the last page, and only while that page is blank. *)
Decide(c, v) ==
  /\ filed[c] > 0
  /\ verdict[c][filed[c]] = "none"
  /\ verdict' = [verdict EXCEPT ![c][filed[c]] = v]
  /\ UNCHANGED filed

Next ==
  \E c \in Completions :
    \/ File(c)
    \/ \E v \in {"approved", "rejected"} : Decide(c, v)

Spec == Init /\ [][Next]_ledgerVars
=============================================================================
