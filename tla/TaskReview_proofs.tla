-------------------------- MODULE TaskReview_proofs --------------------------
(***************************************************************************)
(* Proofs about TaskReview, for any set of completions and requests, any   *)
(* bound on submissions, any set of operations, with or without faults.    *)
(***************************************************************************)
EXTENDS TaskReview, TLAPS

-----------------------------------------------------------------------------
(* How a request's record changes.                                         *)

LEMMA DoneType ==
  ASSUME TypeOK, NEW r \in Requests, Done(r)
  PROVE  req' \in [Requests -> RequestRecords \cup {Idle}]
  BY DEF TypeOK, Done

(* A request that is not idle is a record of its handler.                  *)
LEMMA ActiveType ==
  ASSUME TypeOK, NEW r \in Requests, req[r] # Idle
  PROVE  /\ req[r] \in RequestRecords
         /\ req[r].op \in OperationNames
         /\ req[r].at \in StepsOf[req[r].op]
         /\ req[r].comp \in Completions
         /\ req[r].round \in 0..MaxSubmissions
         /\ req[r].want \in ItemStatuses \cup {"none"}
         /\ req[r].op = "item" => req[r].want \in ItemStatuses
  BY DEF TypeOK, RequestRecords

LEMMA GoToType ==
  ASSUME TypeOK, NEW r \in Requests, req[r] # Idle, NEW s \in Steps,
         s \in StepsOf[req[r].op], GoTo(r, s)
  PROVE  req' \in [Requests -> RequestRecords \cup {Idle}]
  <1>1. [req[r] EXCEPT !.at = s] \in RequestRecords
    BY ActiveType DEF RequestRecords
  <1>2. req' = [req EXCEPT ![r] = [req[r] EXCEPT !.at = s]]
    BY DEF GoTo, TypeOK
  <1> QED
    BY <1>1, <1>2 DEF TypeOK

(* Which handlers have a given statement.                                  *)
LEMMA Handlers ==
  ASSUME NEW op \in OperationNames
  PROVE  /\ "ensure" \in StepsOf[op] /\ op # "view" =>
              /\ StepAfterEnsure[op] \in Steps
              /\ StepAfterEnsure[op] \in StepsOf[op]
         /\ "submit" \in StepsOf[op] => "create" \in StepsOf[op]
         /\ "decide" \in StepsOf[op] =>
              /\ "resolve" \in StepsOf[op]
              /\ VerdictOf[op] \in {"approved", "rejected"}
         /\ "update" \in StepsOf[op] => op = "item" /\ "cascade" \in StepsOf[op]
  BY DEF OperationNames, StepsOf, Steps, StepAfterEnsure, VerdictOf

-----------------------------------------------------------------------------
(* Type correctness.                                                       *)

LEMMA InitType == Init => TypeOK
  BY ReviewAssumption DEF Init, TypeOK, CompletionStatuses, Verdicts

LEMMA StepType == TypeOK /\ [Next]_vars => TypeOK'
  <1> SUFFICES ASSUME TypeOK, [Next]_vars PROVE TypeOK'
    OBVIOUS
  <1> USE ReviewAssumption
  <1>1. ASSUME NEW r \in Requests, EnsureCompletion(r) PROVE TypeOK'
    <2>1. req' \in [Requests -> RequestRecords \cup {Idle}]
      <3>1. CASE req[r].op = "view"
        BY <1>1, <3>1, DoneType DEF EnsureCompletion
      <3>2. CASE req[r].op # "view"
        <4>1. /\ req[r] # Idle /\ req[r].op \in OperationNames
              /\ "ensure" \in StepsOf[req[r].op]
          BY <1>1, ActiveType DEF EnsureCompletion, At
        <4>2. /\ StepAfterEnsure[req[r].op] \in Steps
              /\ StepAfterEnsure[req[r].op] \in StepsOf[req[r].op]
          BY <3>2, <4>1, Handlers
        <4>3. GoTo(r, StepAfterEnsure[req[r].op])
          BY <1>1, <3>2 DEF EnsureCompletion
        <4> QED BY <4>1, <4>2, <4>3, GoToType
      <3> QED BY <3>1, <3>2
    <2>2. status' \in [Completions -> CompletionStatuses]
      BY <1>1 DEF EnsureCompletion, TypeOK, CompletionStatuses
    <2> QED BY <1>1, <2>1, <2>2 DEF EnsureCompletion, TypeOK
  <1>2. ASSUME NEW r \in Requests, SaveResponses(r) PROVE TypeOK'
    <2>1. status' \in [Completions -> CompletionStatuses]
      BY <1>2 DEF SaveResponses, TypeOK, CompletionStatuses
    <2> QED BY <1>2, <2>1, DoneType DEF SaveResponses, TypeOK
  <1>3. ASSUME NEW r \in Requests, Submit(r) PROVE TypeOK'
    <2> DEFINE c == req[r].comp
    <2>1. /\ c \in Completions
          /\ req[r].at \in StepsOf[req[r].op] /\ req[r].op \in OperationNames
      BY <1>3, ActiveType DEF Submit, At
    <2>2. status' \in [Completions -> CompletionStatuses]
      BY <1>3 DEF Submit, TypeOK, CompletionStatuses
    <2>3. filed[c] + 1 \in 1..MaxSubmissions
      BY <1>3, <2>1 DEF Submit, TypeOK
    <2>4. filed' \in [Completions -> 0..MaxSubmissions]
      BY <1>3, <2>1, <2>3 DEF Submit, TypeOK
    <2>5. [req[r] EXCEPT !.at = "create", !.round = filed[c] + 1] \in RequestRecords
      <3>1. req[r] \in RequestRecords /\ "submit" \in StepsOf[req[r].op]
        BY <1>3, ActiveType DEF Submit, At
      <3>2. "create" \in StepsOf[req[r].op] /\ "create" \in Steps
        BY <2>1, <3>1, Handlers DEF Steps
      <3>3. filed[c] + 1 \in 0..MaxSubmissions
        BY <2>3
      <3> HIDE DEF c
      <3> QED BY <3>1, <3>2, <3>3 DEF RequestRecords
    <2>6. req' \in [Requests -> RequestRecords \cup {Idle}]
      BY <1>3, <2>5 DEF Submit, TypeOK
    <2> QED BY <1>3, <2>2, <2>4, <2>6 DEF Submit, TypeOK
  <1>4. ASSUME NEW r \in Requests, SubmitRefused(r) PROVE TypeOK'
    BY <1>4, DoneType DEF SubmitRefused, TypeOK
  <1>5. ASSUME NEW r \in Requests, CreateItem(r) PROVE TypeOK'
    <2>1. item' \in [Completions -> [Submissions -> ItemStatuses \cup {"none"}]]
      BY <1>5 DEF CreateItem, TypeOK, ItemStatuses
    <2> QED BY <1>5, <2>1, DoneType DEF CreateItem, TypeOK
  <1>6. ASSUME NEW r \in Requests, ReviewSubmission(r) PROVE TypeOK'
    <2> DEFINE c == req[r].comp
               v == VerdictOf[req[r].op]
    <2>1. /\ c \in Completions
          /\ req[r].at \in StepsOf[req[r].op] /\ req[r].op \in OperationNames
      BY <1>6, ActiveType DEF ReviewSubmission, At
    <2>2. v \in {"approved", "rejected"}
      BY <1>6, <2>1, Handlers DEF ReviewSubmission, At
    <2>3. /\ status' \in [Completions -> CompletionStatuses]
          /\ verdict' \in [Completions -> [Submissions -> Verdicts]]
      BY <1>6, <2>2 DEF ReviewSubmission, Record, TypeOK, CompletionStatuses, Verdicts
    <2>4. filed[c] \in 0..MaxSubmissions
      BY <2>1 DEF TypeOK
    <2>5. [req[r] EXCEPT !.at = "resolve", !.round = filed[c]] \in RequestRecords
      <3>1. req[r] \in RequestRecords /\ "decide" \in StepsOf[req[r].op]
        BY <1>6, ActiveType DEF ReviewSubmission, At
      <3>2. "resolve" \in StepsOf[req[r].op] /\ "resolve" \in Steps
        BY <2>1, <3>1, Handlers DEF Steps
      <3> HIDE DEF c
      <3> QED BY <2>4, <3>1, <3>2 DEF RequestRecords
    <2>6. req' \in [Requests -> RequestRecords \cup {Idle}]
      BY <1>6, <2>5 DEF ReviewSubmission, TypeOK
    <2> QED BY <1>6, <2>3, <2>6 DEF ReviewSubmission, TypeOK
  <1>7. ASSUME NEW r \in Requests, ReviewRefused(r) PROVE TypeOK'
    BY <1>7, DoneType DEF ReviewRefused, TypeOK
  <1>8. ASSUME NEW r \in Requests, ResolveBySource(r) PROVE TypeOK'
    <2>1. item' \in [Completions -> [Submissions -> ItemStatuses \cup {"none"}]]
      BY <1>8, ActiveType DEF ResolveBySource, At, TypeOK, ItemStatuses
    <2> QED BY <1>8, <2>1, DoneType DEF ResolveBySource, TypeOK
  <1>9. ASSUME NEW r \in Requests, UpdateItem(r) PROVE TypeOK'
    <2>1. item' \in [Completions -> [Submissions -> ItemStatuses \cup {"none"}]]
      BY <1>9, ActiveType DEF UpdateItem, At, TypeOK
    <2>2. req' \in [Requests -> RequestRecords \cup {Idle}]
      <3>1. CASE SourceStatus(req[r].want) = ""
        BY <1>9, <3>1, DoneType DEF UpdateItem
      <3>2. CASE SourceStatus(req[r].want) # ""
        <4>1. /\ req[r] # Idle /\ req[r].op \in OperationNames
              /\ "update" \in StepsOf[req[r].op]
          BY <1>9, ActiveType DEF UpdateItem, At
        <4>2. "cascade" \in Steps /\ "cascade" \in StepsOf[req[r].op]
          BY <4>1, Handlers DEF Steps
        <4>3. GoTo(r, "cascade")
          BY <1>9, <3>2 DEF UpdateItem
        <4> QED BY <4>1, <4>2, <4>3, GoToType
      <3> QED BY <3>1, <3>2
    <2> QED BY <1>9, <2>1, <2>2 DEF UpdateItem, TypeOK
  <1>10. ASSUME NEW r \in Requests, Cascade(r) PROVE TypeOK'
    <2> DEFINE v == UpdaterVerdict(SourceStatus(req[r].want))
    <2>1. v \in Verdicts
      BY DEF UpdaterVerdict, Verdicts
    <2>2. /\ status' \in [Completions -> CompletionStatuses]
          /\ verdict' \in [Completions -> [Submissions -> Verdicts]]
      <3>1. CASE v # "none" /\ Reviewable(req[r].comp)
        <4>1. v \in {"approved", "rejected"}
          BY <2>1, <3>1 DEF Verdicts
        <4>2. Record(req[r].comp, v)
          BY <1>10, <3>1 DEF Cascade
        <4> HIDE DEF v
        <4> QED BY <4>1, <4>2 DEF Record, TypeOK, CompletionStatuses, Verdicts
      <3>2. CASE ~(v # "none" /\ Reviewable(req[r].comp))
        BY <1>10, <3>2 DEF Cascade, TypeOK
      <3> QED BY <3>1, <3>2
    <2> QED BY <1>10, <2>2, DoneType DEF Cascade, TypeOK
  <1>11. ASSUME NEW r \in Requests, NEW op \in OperationNames, NEW c \in Completions,
                Begin(r, op, c)
         PROVE  TypeOK'
    <2>1. "ensure" \in StepsOf[op] /\ op # "item"
      BY <1>11 DEF Begin, OperationNames, StepsOf
    <2>2. [op |-> op, at |-> "ensure", comp |-> c, round |-> 0, want |-> "none"]
            \in RequestRecords
      BY <2>1 DEF RequestRecords, Steps
    <2> QED BY <1>11, <2>2 DEF Begin, TypeOK
  <1>12. ASSUME NEW r \in Requests, NEW c \in Completions, NEW n \in Submissions,
                NEW w \in ItemStatuses, BeginItem(r, c, n, w)
         PROVE  TypeOK'
    <2>1. [op |-> "item", at |-> "update", comp |-> c, round |-> n, want |-> w]
            \in RequestRecords
      <3>1. "update" \in StepsOf["item"] /\ "update" \in Steps /\ "item" \in OperationNames
        BY DEF Steps, StepsOf, OperationNames
      <3>2. n \in 0..MaxSubmissions /\ w # "none"
        BY DEF Submissions, ItemStatuses
      <3> QED BY <3>1, <3>2 DEF RequestRecords
    <2> QED BY <1>12, <2>1 DEF BeginItem, TypeOK
  <1>13. ASSUME NEW r \in Requests, Abandon(r) PROVE TypeOK'
    BY <1>13, DoneType DEF Abandon, TypeOK
  <1>14. CASE UNCHANGED vars
    BY <1>14 DEF vars, TypeOK
  <1> QED
    BY <1>1, <1>2, <1>3, <1>4, <1>5, <1>6, <1>7, <1>8, <1>9, <1>10, <1>11,
       <1>12, <1>13, <1>14 DEF Next, Statement

(* Every row and every request keeps its shape, whatever interleaves.      *)
THEOREM TypeCorrect == Spec => []TypeOK
  <1>1. Init => TypeOK BY InitType
  <1>2. TypeOK /\ [Next]_vars => TypeOK' BY StepType
  <1> QED BY <1>1, <1>2, PTL DEF Spec

-----------------------------------------------------------------------------
(* The inductive invariant: the guards read only the status column, so the *)
(* column must say enough about the ledger; and a request on its way to    *)
(* close items must have written the verdict it acts on.                   *)

Inv == TypeOK /\ StatusAgreesWithLedger /\ ResolverFollowsVerdict

LEMMA InitInv == Init => Inv
  <1> SUFFICES ASSUME Init PROVE Inv
    OBVIOUS
  <1>1. StatusAgreesWithLedger
    <2>1. \A c \in Completions : status[c] = "none" /\ filed[c] = 0
      BY DEF Init
    <2>2. \A c \in Completions, n \in Submissions : verdict[c][n] = "none" /\ ~(n < 0)
      BY ReviewAssumption DEF Init, Submissions
    <2> QED BY <2>1, <2>2 DEF StatusAgreesWithLedger
  <1>2. ResolverFollowsVerdict
    BY DEF Init, ResolverFollowsVerdict, At
  <1> QED
    BY <1>1, <1>2, InitType DEF Inv

(* A submission may only be made when the whole ledger is rejected.        *)
LEMMA SubmittableLedger ==
  ASSUME Inv, NEW c \in Completions, Submittable(c)
  PROVE  \A n \in 1..filed[c] : verdict[c][n] = "rejected"
  <1> USE DEF Inv
  <1>1. filed[c] \in 0..MaxSubmissions
    BY DEF TypeOK
  <1>2. filed[c] > 0 => verdict[c][filed[c]] = "rejected"
    BY <1>1 DEF StatusAgreesWithLedger, Submittable
  <1>3. \A n \in Submissions : n < filed[c] => verdict[c][n] = "rejected"
    BY DEF StatusAgreesWithLedger
  <1> QED
    BY <1>1, <1>2, <1>3, ReviewAssumption DEF Submissions

LEMMA StatusStep == Inv /\ [Next]_vars => StatusAgreesWithLedger'
  <1> SUFFICES ASSUME Inv, [Next]_vars PROVE StatusAgreesWithLedger'
    OBVIOUS
  <1> USE ReviewAssumption DEF Inv
  <1>1. ASSUME NEW r \in Requests, EnsureCompletion(r) \/ SaveResponses(r)
        PROVE  StatusAgreesWithLedger'
    <2>1. /\ filed' = filed /\ verdict' = verdict
          /\ req[r].comp \in Completions
      BY <1>1, ActiveType DEF EnsureCompletion, SaveResponses, At
    <2>2. \A c \in Completions :
            \/ status'[c] = status[c]
            \/ status[c] = "none" /\ status'[c] = "to_do"
            \/ status[c] \in {"to_do", "rejected"} /\ status'[c] = "in_progress"
      BY <1>1, <2>1 DEF EnsureCompletion, SaveResponses, TypeOK
    <2> QED BY <2>1, <2>2 DEF StatusAgreesWithLedger
  <1>2. ASSUME NEW r \in Requests, Submit(r) PROVE StatusAgreesWithLedger'
    <2> DEFINE s == req[r].comp
    <2>1. s \in Completions /\ s = req[r].comp
      BY <1>2, ActiveType DEF Submit, At
    <2>2. /\ status' = [status EXCEPT ![s] = "submitted"]
          /\ filed' = [filed EXCEPT ![s] = @ + 1]
          /\ verdict' = verdict
          /\ filed[s] < MaxSubmissions
      BY <1>2 DEF Submit
    <2>3. \A n \in 1..filed[s] : verdict[s][n] = "rejected"
      BY <1>2, <2>1, SubmittableLedger DEF Submit
    <2> HIDE DEF s
    <2>4. /\ filed[s] \in Nat
          /\ filed'[s] = filed[s] + 1
          /\ status'[s] = "submitted"
          /\ \A c \in Completions \ {s} : filed'[c] = filed[c] /\ status'[c] = status[c]
      BY <2>1, <2>2 DEF TypeOK
    <2>5. verdict[s][filed[s] + 1] = "none"
      BY <2>1, <2>2, <2>4 DEF StatusAgreesWithLedger, Submissions
    <2>6. \A n \in Submissions : n < filed'[s] => verdict[s][n] = "rejected"
      BY <2>3, <2>4 DEF Submissions
    <2>7. \A n \in Submissions : n > filed'[s] => verdict[s][n] = "none"
      BY <2>1, <2>4 DEF StatusAgreesWithLedger, Submissions
    <2> QED BY <2>2, <2>4, <2>5, <2>6, <2>7 DEF StatusAgreesWithLedger
  <1>3. ASSUME NEW c \in Completions, NEW v \in {"approved", "rejected"},
               Reviewable(c), Record(c, v), filed' = filed
        PROVE  StatusAgreesWithLedger'
    <2>1. /\ filed[c] > 0 /\ filed[c] \in Submissions
          /\ status[c] = "submitted"
      BY <1>3 DEF Reviewable, StatusAgreesWithLedger, TypeOK, Submissions
    <2>2. /\ status'[c] = v
          /\ verdict'[c][filed[c]] = v
          /\ \A n \in Submissions \ {filed[c]} : verdict'[c][n] = verdict[c][n]
          /\ \A d \in Completions \ {c} : verdict'[d] = verdict[d] /\ status'[d] = status[d]
      BY <1>3, <2>1 DEF Record, TypeOK
    <2> QED BY <1>3, <2>1, <2>2 DEF StatusAgreesWithLedger, Submissions
  <1>4. ASSUME NEW r \in Requests, ReviewSubmission(r) PROVE StatusAgreesWithLedger'
    <2>1. VerdictOf[req[r].op] \in {"approved", "rejected"}
      BY <1>4, ActiveType, Handlers DEF ReviewSubmission, At
    <2> QED BY <1>3, <1>4, <2>1, ActiveType DEF ReviewSubmission, At
  <1>5. ASSUME NEW r \in Requests, Cascade(r) PROVE StatusAgreesWithLedger'
    <2> DEFINE v == UpdaterVerdict(SourceStatus(req[r].want))
    <2>1. v = "none" \/ v \in {"approved", "rejected"}
      BY DEF UpdaterVerdict
    <2>2. CASE v # "none" /\ Reviewable(req[r].comp)
      BY <1>3, <1>5, <2>1, <2>2, ActiveType DEF Cascade, At
    <2>3. CASE ~(v # "none" /\ Reviewable(req[r].comp))
      BY <1>5, <2>3 DEF Cascade, StatusAgreesWithLedger
    <2> QED BY <2>2, <2>3
  <1>6. ASSUME UNCHANGED <<status, filed, verdict>> PROVE StatusAgreesWithLedger'
    BY <1>6 DEF StatusAgreesWithLedger
  <1> QED
    BY <1>1, <1>2, <1>4, <1>5, <1>6
    DEF Next, Statement, SubmitRefused, CreateItem, ReviewRefused, ResolveBySource,
        UpdateItem, Begin, BeginItem, Abandon, vars

(* Verdicts are only ever added, and the pages of the ledger only counted  *)
(* up, so a verdict a request has written stays written.                   *)
LEMMA LedgerGrows ==
  ASSUME Inv, [Next]_vars, NEW c \in Completions
  PROVE  /\ filed'[c] >= filed[c]
         /\ \A n \in Submissions : verdict[c][n] # "none" => verdict'[c][n] # "none"
  <1> USE DEF Inv
  <1>1. ASSUME NEW d \in Completions, NEW v \in {"approved", "rejected"},
               Record(d, v), filed' = filed
        PROVE  \A n \in Submissions : verdict[c][n] # "none" => verdict'[c][n] # "none"
    BY <1>1 DEF Record, TypeOK
  <1>2. ASSUME NEW r \in Requests, ReviewSubmission(r)
        PROVE  \A n \in Submissions : verdict[c][n] # "none" => verdict'[c][n] # "none"
    <2>1. VerdictOf[req[r].op] \in {"approved", "rejected"}
      BY <1>2, ActiveType, Handlers DEF ReviewSubmission, At
    <2> QED BY <1>1, <1>2, <2>1, ActiveType DEF ReviewSubmission, At
  <1>3. ASSUME NEW r \in Requests, Cascade(r)
        PROVE  \A n \in Submissions : verdict[c][n] # "none" => verdict'[c][n] # "none"
    <2> DEFINE v == UpdaterVerdict(SourceStatus(req[r].want))
    <2>1. v = "none" \/ v \in {"approved", "rejected"}
      BY DEF UpdaterVerdict
    <2>2. CASE v # "none" /\ Reviewable(req[r].comp)
      BY <1>1, <1>3, <2>1, <2>2, ActiveType DEF Cascade, At
    <2>3. CASE ~(v # "none" /\ Reviewable(req[r].comp))
      BY <1>3, <2>3 DEF Cascade
    <2> QED BY <2>2, <2>3
  <1>4. ASSUME NEW r \in Requests, Submit(r) PROVE filed'[c] >= filed[c]
    <2>1. filed[c] \in Nat /\ filed'[c] \in {filed[c], filed[c] + 1}
      BY <1>4 DEF Submit, TypeOK
    <2> QED BY <2>1
  <1>5. filed[c] >= filed[c]
    BY DEF TypeOK
  <1> QED
    BY <1>2, <1>3, <1>4, <1>5
    DEF Next, Statement, EnsureCompletion, SaveResponses, Submit, SubmitRefused,
        CreateItem, ReviewSubmission, ReviewRefused, ResolveBySource, UpdateItem,
        Cascade, Begin, BeginItem, Abandon, vars

LEMMA ResolverStep == Inv /\ [Next]_vars => ResolverFollowsVerdict'
  <1> SUFFICES ASSUME Inv, [Next]_vars, NEW r \in Requests, At(r, "resolve")'
               PROVE  /\ req'[r].round \in 1..filed'[req'[r].comp]
                      /\ verdict'[req'[r].comp][req'[r].round] # "none"
    BY DEF ResolverFollowsVerdict, At
  <1> USE DEF Inv
  <1>1. req'[r] = req[r] \/ ReviewSubmission(r)
    <2>1. ASSUME NEW s \in Requests, Done(s) PROVE req'[r] = req[r]
      BY <2>1 DEF Done, At, TypeOK
    <2>2. ASSUME NEW s \in Requests, NEW p, p # "resolve", GoTo(s, p)
          PROVE  req'[r] = req[r]
      <3>1. CASE s = r /\ req[r] # Idle
        <4>1. req'[r] = [req[r] EXCEPT !.at = p]
          BY <2>2, <3>1 DEF GoTo, TypeOK
        <4>2. req'[r].at = p
          BY <3>1, <4>1, ActiveType DEF RequestRecords
        <4> QED BY <2>2, <4>2 DEF At
      <3>2. CASE s = r /\ req[r] = Idle
        <4>1. req'[r] = [Idle EXCEPT !.at = p]
          BY <2>2, <3>2 DEF GoTo, TypeOK
        <4>2. req'[r] = req[r]
          BY <3>2, <4>1 DEF Idle
        <4> QED BY <4>2
      <3>3. CASE s # r
        BY <2>2, <3>3 DEF GoTo, TypeOK
      <3> QED BY <3>1, <3>2, <3>3
    <2>3. ASSUME NEW s \in Requests, EnsureCompletion(s) PROVE req'[r] = req[r]
      <3>1. CASE req[s].op = "view"
        BY <2>1, <2>3, <3>1 DEF EnsureCompletion
      <3>2. CASE req[s].op # "view"
        <4>1. StepAfterEnsure[req[s].op] # "resolve"
          BY <2>3, <3>2, ActiveType DEF EnsureCompletion, At, OperationNames, StepsOf, StepAfterEnsure
        <4> QED BY <2>2, <2>3, <3>2, <4>1 DEF EnsureCompletion
      <3> QED BY <3>1, <3>2
    <2>4. ASSUME NEW s \in Requests, Submit(s) PROVE req'[r] = req[r]
      <3>1. CASE s = r
        <4>1. req'[r].at = "create"
          BY <2>4, <3>1, ActiveType DEF Submit, At, TypeOK, RequestRecords
        <4> QED BY <4>1 DEF At
      <3>2. CASE s # r
        BY <2>4, <3>2 DEF Submit, TypeOK
      <3> QED BY <3>1, <3>2
    <2>5. ASSUME NEW s \in Requests, ReviewSubmission(s)
          PROVE  req'[r] = req[r] \/ ReviewSubmission(r)
      <3>1. CASE s = r BY <2>5, <3>1
      <3>2. CASE s # r BY <2>5, <3>2 DEF ReviewSubmission, TypeOK
      <3> QED BY <3>1, <3>2
    <2>6. ASSUME NEW s \in Requests, UpdateItem(s) PROVE req'[r] = req[r]
      BY <2>1, <2>2, <2>6 DEF UpdateItem
    <2>7. ASSUME NEW s \in Requests, NEW op \in OperationNames, NEW c \in Completions,
                 Begin(s, op, c)
          PROVE  req'[r] = req[r]
      BY <2>7 DEF Begin, At, TypeOK
    <2>8. ASSUME NEW s \in Requests, NEW c \in Completions, NEW n \in Submissions,
                 NEW w \in ItemStatuses, BeginItem(s, c, n, w)
          PROVE  req'[r] = req[r]
      BY <2>8 DEF BeginItem, At, TypeOK
    <2> QED
      BY <2>1, <2>3, <2>4, <2>5, <2>6, <2>7, <2>8
      DEF Next, Statement, SaveResponses, SubmitRefused, CreateItem, ReviewRefused,
          ResolveBySource, Cascade, Abandon, vars
  <1>2. CASE req'[r] = req[r]
    <2>1. At(r, "resolve")
      BY <1>2 DEF At
    <2>2. /\ req[r].comp \in Completions
          /\ req[r].round \in 1..filed[req[r].comp]
          /\ verdict[req[r].comp][req[r].round] # "none"
      BY <2>1, ActiveType DEF ResolverFollowsVerdict, At
    <2>3. req[r].round \in Submissions
      BY <2>2, ReviewAssumption DEF TypeOK, Submissions
    <2>4. filed'[req[r].comp] >= filed[req[r].comp]
      BY <2>2, LedgerGrows
    <2>5. filed'[req[r].comp] \in Nat
      BY <2>2, StepType DEF TypeOK
    <2>6. req[r].round \in 1..filed'[req[r].comp]
      BY <2>2, <2>4, <2>5 DEF TypeOK
    <2>7. verdict'[req[r].comp][req[r].round] # "none"
      BY <2>2, <2>3, LedgerGrows
    <2> QED BY <1>2, <2>6, <2>7
  <1>3. CASE ReviewSubmission(r)
    <2> DEFINE c == req[r].comp
    <2>1. c \in Completions /\ VerdictOf[req[r].op] \in {"approved", "rejected"}
      BY <1>3, ActiveType, Handlers DEF ReviewSubmission, At
    <2>2. req'[r].comp = c /\ req'[r].round = filed[c] /\ filed' = filed
      BY <1>3 DEF ReviewSubmission, TypeOK
    <2>3. filed[c] \in Submissions
      BY <1>3, <2>1 DEF ReviewSubmission, Reviewable, StatusAgreesWithLedger, TypeOK, Submissions
    <2>4. verdict'[c][filed[c]] = VerdictOf[req[r].op]
      BY <1>3, <2>1, <2>3 DEF ReviewSubmission, Record, TypeOK
    <2> QED BY <2>1, <2>2, <2>3, <2>4 DEF Submissions
  <1> QED BY <1>1, <1>2, <1>3

LEMMA StepInv == Inv /\ [Next]_vars => Inv'
  BY StepType, StatusStep, ResolverStep DEF Inv

THEOREM Invariance == Spec => []Inv
  <1>1. Init => Inv BY InitInv
  <1>2. Inv /\ [Next]_vars => Inv' BY StepInv
  <1> QED BY <1>1, <1>2, PTL DEF Spec

(* The status column never disagrees with the history of the reviews.      *)
THEOREM LedgerAgreement == Spec => []StatusAgreesWithLedger
  <1>1. Inv => StatusAgreesWithLedger BY DEF Inv
  <1> QED BY <1>1, Invariance, PTL

(* No item is closed on behalf of a review that was refused.               *)
THEOREM ResolversDecided == Spec => []ResolverFollowsVerdict
  <1>1. Inv => ResolverFollowsVerdict BY DEF Inv
  <1> QED BY <1>1, Invariance, PTL

-----------------------------------------------------------------------------
(* The handlers implement the ledger of submissions.                       *)

LEMMA InitRefines == Init => Ledger!Init
  BY DEF Init, Ledger!Init, Submissions

(* The UPDATE of Approve, Reject and the cascade is one verdict.           *)
LEMMA RecordDecides ==
  ASSUME Inv, NEW c \in Completions, NEW v \in {"approved", "rejected"},
         Reviewable(c), Record(c, v), filed' = filed
  PROVE  Ledger!Decide(c, v)
  BY DEF Inv, Record, Reviewable, StatusAgreesWithLedger, Ledger!Decide

LEMMA StepRefines == Inv /\ [Next]_vars => [Ledger!Next]_(Ledger!ledgerVars)
  <1> SUFFICES ASSUME Inv, [Next]_vars
               PROVE  Ledger!Next \/ UNCHANGED <<filed, verdict>>
    BY DEF Ledger!ledgerVars
  <1>1. ASSUME NEW r \in Requests, Submit(r) PROVE Ledger!Next
    <2>1. req[r].comp \in Completions
      BY <1>1, ActiveType DEF Inv, Submit, At
    <2>2. Ledger!File(req[r].comp)
      BY <1>1, <2>1, SubmittableLedger DEF Submit, Ledger!File
    <2> QED BY <2>1, <2>2 DEF Ledger!Next
  <1>2. ASSUME NEW r \in Requests, ReviewSubmission(r) PROVE Ledger!Next
    <2>1. /\ req[r].comp \in Completions
          /\ VerdictOf[req[r].op] \in {"approved", "rejected"}
      BY <1>2, ActiveType, Handlers DEF Inv, ReviewSubmission, At
    <2>2. Ledger!Decide(req[r].comp, VerdictOf[req[r].op])
      BY <1>2, <2>1, RecordDecides DEF ReviewSubmission
    <2> QED BY <2>1, <2>2 DEF Ledger!Next
  <1>3. ASSUME NEW r \in Requests, Cascade(r)
        PROVE  Ledger!Next \/ UNCHANGED <<filed, verdict>>
    <2> DEFINE v == UpdaterVerdict(SourceStatus(req[r].want))
    <2>1. /\ req[r].comp \in Completions
          /\ v = "none" \/ v \in {"approved", "rejected"}
      BY <1>3, ActiveType DEF Inv, Cascade, At, UpdaterVerdict
    <2>2. CASE v # "none" /\ Reviewable(req[r].comp)
      <3>1. Ledger!Decide(req[r].comp, v)
        BY <1>3, <2>1, <2>2, RecordDecides DEF Cascade
      <3> QED BY <2>1, <2>2, <3>1 DEF Ledger!Next
    <2>3. CASE ~(v # "none" /\ Reviewable(req[r].comp))
      BY <1>3, <2>3 DEF Cascade
    <2> QED BY <2>2, <2>3
  <1> QED
    BY <1>1, <1>2, <1>3
    DEF Next, Statement, EnsureCompletion, SaveResponses, SubmitRefused, CreateItem,
        ReviewRefused, ResolveBySource, UpdateItem, Begin, BeginItem, Abandon, vars

(* Whatever requests interleave or stop half way, each submission receives *)
(* at most one verdict and none follows an approval.                       *)
THEOREM ImplementsLedger == Spec => LedgerSpec
  <1>1. Init => Ledger!Init BY InitRefines
  <1>2. Inv /\ [Next]_vars => [Ledger!Next]_(Ledger!ledgerVars) BY StepRefines
  <1> QED BY <1>1, <1>2, Invariance, PTL DEF Spec, LedgerSpec, Ledger!Spec

-----------------------------------------------------------------------------
(* What can hide a waiting submission from the board.                      *)

StepOf(r) ==
  \/ Statement(r)
  \/ Abandon(r)
  \/ \E c \in Completions :
       \/ \E op \in OperationNames : Begin(r, op, c)
       \/ \E n \in Submissions, w \in ItemStatuses : BeginItem(r, c, n, w)

(* A step moves one request and leaves the records of the others alone.    *)
LEMMA OneRequestMoves ==
  ASSUME TypeOK, NEW s \in Requests, StepOf(s), NEW r \in Requests \ {s}
  PROVE  req'[r] = req[r]
  <1>1. \A q : req' = [req EXCEPT ![s] = q] => req'[r] = req[r]
    BY DEF TypeOK
  <1>2. ASSUME Done(s) \/ \E p : GoTo(s, p) PROVE req'[r] = req[r]
    BY <1>2 DEF Done, GoTo, TypeOK
  <1>3. ASSUME Submit(s) \/ ReviewSubmission(s) PROVE req'[r] = req[r]
    BY <1>3 DEF Submit, ReviewSubmission, TypeOK
  <1>4. ASSUME NEW c \in Completions, NEW op, Begin(s, op, c) PROVE req'[r] = req[r]
    BY <1>4 DEF Begin, TypeOK
  <1>5. ASSUME NEW c \in Completions, NEW n, NEW w, BeginItem(s, c, n, w)
        PROVE  req'[r] = req[r]
    BY <1>5 DEF BeginItem, TypeOK
  <1>6. ASSUME EnsureCompletion(s) \/ UpdateItem(s) PROVE req'[r] = req[r]
    BY <1>2, <1>6 DEF EnsureCompletion, UpdateItem
  <1> QED
    BY <1>2, <1>3, <1>4, <1>5, <1>6
    DEF StepOf, Statement, SaveResponses, SubmitRefused, CreateItem, ReviewRefused,
        ResolveBySource, Cascade, Abandon

(* Every statement moves its request to another one, or ends it.           *)
LEMMA StepMoves ==
  ASSUME TypeOK, NEW r \in Requests,
         CreateItem(r) \/ ResolveBySource(r) \/ UpdateItem(r) \/ Cascade(r) \/ Abandon(r)
  PROVE  req'[r] # req[r]
  <1>1. ASSUME Done(r), req[r] # Idle PROVE req'[r] # req[r]
    BY <1>1 DEF Done, TypeOK
  <1>2. ASSUME GoTo(r, "cascade"), At(r, "update") PROVE req'[r] # req[r]
    <2>1. req'[r] = [req[r] EXCEPT !.at = "cascade"] /\ req[r] \in RequestRecords
      BY <1>2, ActiveType DEF GoTo, At, TypeOK
    <2>2. req'[r].at = "cascade"
      BY <2>1 DEF RequestRecords
    <2> QED BY <1>2, <2>2 DEF At
  <1> QED
    BY <1>1, <1>2 DEF CreateItem, ResolveBySource, UpdateItem, Cascade, Abandon, At

LEMMA WhoseStep ==
  ASSUME [Next]_vars
  PROVE  UNCHANGED vars \/ \E r \in Requests : StepOf(r)
  BY DEF Next, StepOf

(* Only Submit makes a completion wait, and then an item is on its way.    *)
LEMMA WaitingBegins ==
  ASSUME Inv, NEW c \in Completions, NEW r \in Requests, StepOf(r),
         status[c] # "submitted", status'[c] = "submitted"
  PROVE  At(r, "create")' /\ req'[r].comp = c
  <1> USE DEF Inv
  <1>1. ASSUME NEW d \in Completions, NEW v \in {"approved", "rejected"}, Record(d, v)
        PROVE  FALSE
    BY <1>1 DEF Record, TypeOK
  <1>2. ~ReviewSubmission(r)
    BY <1>1, ActiveType, Handlers DEF ReviewSubmission, At
  <1>3. ~Cascade(r)
    <2> SUFFICES ASSUME Cascade(r) PROVE FALSE
      OBVIOUS
    <2> DEFINE v == UpdaterVerdict(SourceStatus(req[r].want))
    <2>1. v = "none" \/ v \in {"approved", "rejected"}
      BY DEF UpdaterVerdict
    <2> QED BY <1>1, <2>1, ActiveType DEF Cascade, At
  <1>4. ~EnsureCompletion(r) /\ ~SaveResponses(r)
    BY DEF EnsureCompletion, SaveResponses, TypeOK
  <1>5. Submit(r) /\ req[r].comp = c
    BY <1>2, <1>3, <1>4
    DEF StepOf, Statement, Submit, SubmitRefused, CreateItem, ReviewRefused,
        ResolveBySource, UpdateItem, Begin, BeginItem, Abandon, TypeOK
  <1>6. req'[r] = [req[r] EXCEPT !.at = "create", !.round = filed[c] + 1]
    BY <1>5 DEF Submit, TypeOK
  <1>7. req[r] \in RequestRecords
    BY <1>5, ActiveType DEF Submit, At
  <1>8. req'[r].at = "create" /\ req'[r].comp = c /\ req'[r] # Idle
    <2>1. req'[r].at = "create" /\ req'[r].comp = c
      BY <1>5, <1>6, <1>7 DEF RequestRecords
    <2>2. "at" \in DOMAIN req'[r] /\ "at" \notin DOMAIN Idle
      BY <1>6, <1>7 DEF RequestRecords, Idle
    <2> QED BY <2>1, <2>2
  <1> QED BY <1>8 DEF At

(* A step that takes the last open item of a waiting completion away is    *)
(* someone closing it by hand, or a reviewer of an earlier submission.     *)
LEMMA LastItemTaken ==
  ASSUME Inv, NEW c \in Completions, NEW r \in Requests, StepOf(r),
         status[c] = "submitted", OpenItems(c) # {}, OpenItems(c)' = {}
  PROVE  HidesWaiting(c)
  <1> USE DEF Inv
  <1>1. PICK n \in Submissions : item[c][n] \in OpenItemStatuses
    BY DEF OpenItems
  <1>2. item'[c][n] \notin OpenItemStatuses
    BY DEF OpenItems
  <1>3. CASE CreateItem(r)
    BY <1>1, <1>2, <1>3 DEF CreateItem, TypeOK, OpenItemStatuses
  <1>4. CASE ResolveBySource(r)
    <2>1. req[r].comp = c /\ At(r, "resolve") /\ Moves(r)
      BY <1>1, <1>2, <1>4, StepMoves DEF ResolveBySource, At, Moves, TypeOK
    <2>2. /\ req[r].round \in 1..filed[c]
          /\ verdict[c][req[r].round] # "none"
          /\ verdict[c][filed[c]] = "none"
      BY <2>1 DEF ResolverFollowsVerdict, StatusAgreesWithLedger
    <2>3. req[r].round \in 1..(filed[c] - 1)
      <3>1. req[r].round # filed[c]
        BY <2>2
      <3>2. filed[c] \in Nat
        BY DEF TypeOK
      <3> QED BY <2>2, <3>1, <3>2
    <2> QED BY <2>1, <2>3 DEF HidesWaiting, At
  <1>5. CASE UpdateItem(r)
    <2>1. /\ req[r].comp = c /\ req[r].round = n /\ At(r, "update")
          /\ item'[c][n] = req[r].want
      BY <1>1, <1>2, <1>5 DEF UpdateItem, TypeOK
    <2>2. req[r].want \in {"processed", "rejected"}
      <3>1. req[r].want \in ItemStatuses
        <4>1. req[r].op \in OperationNames /\ "update" \in StepsOf[req[r].op]
          BY <1>5, ActiveType DEF UpdateItem, At
        <4>2. req[r].op = "item"
          BY <4>1, Handlers
        <4> QED BY <2>1, <4>2, ActiveType DEF At
      <3> QED BY <1>2, <2>1, <3>1 DEF ItemStatuses, OpenItemStatuses
    <2>3. req'[r] # req[r]
      BY <1>5, StepMoves
    <2> QED BY <2>1, <2>2, <2>3 DEF HidesWaiting, Moves, At
  <1>6. CASE item' = item
    BY <1>1, <1>2, <1>6
  <1> QED
    BY <1>3, <1>4, <1>5, <1>6
    DEF StepOf, Statement, EnsureCompletion, SaveResponses, Submit, SubmitRefused,
        ReviewSubmission, ReviewRefused, Cascade, Begin, BeginItem, Abandon

(* A submitter that is about to create the item creates it or stops.       *)
LEMMA CreatorStep ==
  ASSUME TypeOK, NEW s \in Requests, At(s, "create"), NEW r \in Requests, StepOf(r)
  PROVE  \/ req'[s] = req[s]
         \/ r = s /\ (CreateItem(s) \/ Abandon(s))
  <1>1. CASE r # s
    BY <1>1, OneRequestMoves
  <1>2. CASE r = s
    <2>1. req[s].at = "create" /\ req[s] # Idle
      BY DEF At
    <2> QED
      BY <1>2, <2>1
      DEF StepOf, Statement, EnsureCompletion, SaveResponses, Submit, SubmitRefused,
          ReviewSubmission, ReviewRefused, ResolveBySource, UpdateItem, Cascade,
          Begin, BeginItem, At
  <1> QED BY <1>1, <1>2

LEMMA HidingStep ==
  ASSUME Inv, [Next]_vars, NEW c \in Completions, Announced(c), ~Announced(c)'
  PROVE  HidesWaiting(c)
  <1> USE DEF Inv
  <1>1. status'[c] = "submitted" /\ OpenItems(c)' = {}
    BY DEF Announced
  <1>2. \A s \in Requests : ~(At(s, "create")' /\ req'[s].comp = c)
    BY DEF Announced, At
  <1>3. PICK r \in Requests : StepOf(r)
    <2>1. ~UNCHANGED vars
      BY DEF vars, Announced, OpenItems, At
    <2> QED BY <2>1, WhoseStep
  <1>4. status[c] = "submitted"
    BY <1>1, <1>2, <1>3, WaitingBegins
  <1>5. CASE OpenItems(c) # {}
    BY <1>1, <1>3, <1>4, <1>5, LastItemTaken
  <1>6. CASE OpenItems(c) = {}
    <2>1. PICK s \in Requests : At(s, "create") /\ req[s].comp = c
      BY <1>4, <1>6 DEF Announced
    <2>2. req'[s] # req[s]
      BY <1>2, <2>1 DEF At
    <2>3. CASE CreateItem(s)
      <3>1. CASE req[s].round \in Submissions
        <4>1. item'[c][req[s].round] = "pending"
          BY <2>1, <2>3, <3>1 DEF CreateItem, TypeOK
        <4> QED BY <1>1, <3>1, <4>1 DEF OpenItems, OpenItemStatuses
      <3>2. CASE req[s].round \notin Submissions
        <4>1. item' = item
          BY <2>1, <2>3, <3>2 DEF CreateItem, TypeOK
        <4> QED BY <2>1, <2>2, <4>1 DEF HidesWaiting, Moves, At
      <3> QED BY <3>1, <3>2
    <2>4. CASE Abandon(s)
      BY <2>1, <2>2, <2>4 DEF Abandon, HidesWaiting, Moves, At
    <2> QED BY <1>3, <2>1, <2>2, <2>3, <2>4, CreatorStep
  <1> QED BY <1>5, <1>6

(* A waiting submission disappears from the board only in the three ways   *)
(* that HidesWaiting lists, whatever else requests do to each other.       *)
THEOREM WaitingHidden == Spec => WaitingHiddenOnlyBy
  <1>1. Inv /\ [Next]_vars =>
          [\A c \in Completions : Announced(c) /\ ~Announced(c)' => HidesWaiting(c)]_vars
    BY HidingStep
  <1> QED BY <1>1, Invariance, PTL DEF Spec, WaitingHiddenOnlyBy

-----------------------------------------------------------------------------
(* What can leave an open item without a waiting submission.               *)

(* A verdict comes from the reviewer's own request, which will then close  *)
(* the items, or from the cascade of an item that was rejected.            *)
LEMMA WaitingEnds ==
  ASSUME TypeOK, NEW c \in Completions, NEW r \in Requests, StepOf(r),
         status[c] = "submitted", status'[c] # "submitted"
  PROVE  /\ req[r].comp = c
         /\ \/ ReviewSubmission(r)
            \/ Cascade(r) /\ req[r].want = "rejected"
  <1>1. ASSUME Cascade(r) PROVE req[r].comp = c /\ req[r].want = "rejected"
    <2>1. /\ UpdaterVerdict(SourceStatus(req[r].want)) # "none"
          /\ Record(req[r].comp, UpdaterVerdict(SourceStatus(req[r].want)))
      BY <1>1 DEF Cascade
    <2>2. req[r].comp = c
      BY <2>1 DEF Record, TypeOK
    <2>3. req[r].want = "rejected"
      BY <2>1 DEF UpdaterVerdict, SourceStatus
    <2> QED BY <2>2, <2>3
  <1>2. ASSUME ReviewSubmission(r) PROVE req[r].comp = c
    BY <1>2 DEF ReviewSubmission, Record, TypeOK
  <1>3. ~EnsureCompletion(r) /\ ~SaveResponses(r) /\ ~Submit(r)
    BY DEF EnsureCompletion, SaveResponses, Submit, TypeOK
  <1> QED
    BY <1>1, <1>2, <1>3
    DEF StepOf, Statement, SubmitRefused, CreateItem, ReviewRefused, ResolveBySource,
        UpdateItem, Begin, BeginItem, Abandon

(* A completion without open items gets one from its submission's request  *)
(* or from the board.                                                      *)
LEMMA FirstItemOpened ==
  ASSUME TypeOK, NEW c \in Completions, NEW r \in Requests, StepOf(r),
         OpenItems(c) = {}, OpenItems(c)' # {}
  PROVE  LeavesStale(c)
  <1>1. PICK n \in Submissions : item'[c][n] \in OpenItemStatuses
    BY DEF OpenItems
  <1>2. item[c][n] \notin OpenItemStatuses
    BY DEF OpenItems
  <1>3. CASE CreateItem(r)
    <2>1. req[r].comp = c /\ At(r, "create")
      BY <1>1, <1>2, <1>3 DEF CreateItem, TypeOK
    <2>2. Moves(r)
      BY <1>3, <2>1, StepMoves DEF Moves, At
    <2> QED BY <2>1, <2>2 DEF LeavesStale
  <1>4. CASE UpdateItem(r)
    <2>1. /\ req[r].comp = c /\ req[r].round = n /\ At(r, "update")
          /\ item'[c][n] = req[r].want
      BY <1>1, <1>2, <1>4 DEF UpdateItem, TypeOK
    <2>2. Moves(r)
      BY <1>4, <2>1, StepMoves DEF Moves, At
    <2> QED BY <1>1, <2>1, <2>2 DEF LeavesStale
  <1>5. CASE ResolveBySource(r)
    BY <1>1, <1>2, <1>5 DEF ResolveBySource, TypeOK, OpenItemStatuses
  <1>6. CASE item' = item
    BY <1>1, <1>2, <1>6
  <1> QED
    BY <1>3, <1>4, <1>5, <1>6
    DEF StepOf, Statement, EnsureCompletion, SaveResponses, Submit, SubmitRefused,
        ReviewSubmission, ReviewRefused, Cascade, Begin, BeginItem, Abandon

(* A reviewer who is about to close the items closes them or stops.        *)
LEMMA ResolverMoves ==
  ASSUME TypeOK, NEW s \in Requests, At(s, "resolve"), NEW r \in Requests, StepOf(r)
  PROVE  \/ req'[s] = req[s]
         \/ r = s /\ (ResolveBySource(s) \/ Abandon(s))
  <1>1. CASE r # s
    BY <1>1, OneRequestMoves
  <1>2. CASE r = s
    <2>1. req[s].at = "resolve" /\ req[s] # Idle
      BY DEF At
    <2> QED
      BY <1>2, <2>1
      DEF StepOf, Statement, EnsureCompletion, SaveResponses, Submit, SubmitRefused,
          ReviewSubmission, ReviewRefused, CreateItem, UpdateItem, Cascade,
          Begin, BeginItem, At
  <1> QED BY <1>1, <1>2

(* After its verdict the reviewer's request is about to close the items.   *)
LEMMA ReviewResolves ==
  ASSUME TypeOK, NEW r \in Requests, ReviewSubmission(r)
  PROVE  At(r, "resolve")' /\ req'[r].comp = req[r].comp
  <1>1. req[r] \in RequestRecords
    BY ActiveType DEF ReviewSubmission, At
  <1>2. req'[r] = [req[r] EXCEPT !.at = "resolve", !.round = filed[req[r].comp]]
    BY DEF ReviewSubmission, TypeOK
  <1>3. req'[r].at = "resolve" /\ req'[r].comp = req[r].comp
    BY <1>1, <1>2 DEF RequestRecords
  <1>4. "at" \in DOMAIN req'[r] /\ "at" \notin DOMAIN Idle
    BY <1>1, <1>2 DEF RequestRecords, Idle
  <1> QED BY <1>3, <1>4 DEF At

LEMMA StalingStep ==
  ASSUME Inv, [Next]_vars, NEW c \in Completions, Settled(c), ~Settled(c)'
  PROVE  LeavesStale(c)
  <1> USE DEF Inv
  <1>1. status'[c] # "submitted" /\ OpenItems(c)' # {}
    BY DEF Settled
  <1>2. \A s \in Requests : ~(At(s, "resolve")' /\ req'[s].comp = c)
    BY DEF Settled, At
  <1>3. PICK r \in Requests : StepOf(r)
    <2>1. ~UNCHANGED vars
      BY DEF vars, Settled, OpenItems, At
    <2> QED BY <2>1, WhoseStep
  <1>4. CASE status[c] = "submitted"
    <2>1. /\ req[r].comp = c
          /\ ReviewSubmission(r) \/ (Cascade(r) /\ req[r].want = "rejected")
      BY <1>1, <1>3, <1>4, WaitingEnds
    <2>2. ~ReviewSubmission(r)
      BY <1>2, <2>1, ReviewResolves
    <2>3. At(r, "cascade") /\ Moves(r)
      BY <2>1, <2>2, StepMoves DEF Cascade, Moves, At
    <2> QED BY <2>1, <2>2, <2>3 DEF LeavesStale
  <1>5. CASE OpenItems(c) = {}
    BY <1>1, <1>3, <1>5, FirstItemOpened
  <1>6. CASE status[c] # "submitted" /\ OpenItems(c) # {}
    <2>1. PICK s \in Requests : At(s, "resolve") /\ req[s].comp = c
      BY <1>6 DEF Settled
    <2>2. req'[s] # req[s]
      BY <1>2, <2>1 DEF At
    <2>3. CASE ResolveBySource(s)
      <3>1. \A n \in Submissions : item'[c][n] \notin OpenItemStatuses
        BY <2>1, <2>3 DEF ResolveBySource, TypeOK, OpenItemStatuses
      <3> QED BY <1>1, <3>1 DEF OpenItems
    <2>4. CASE Abandon(s)
      BY <2>1, <2>2, <2>4 DEF Abandon, LeavesStale, Moves, At
    <2> QED BY <1>3, <2>1, <2>2, <2>3, <2>4, ResolverMoves
  <1> QED BY <1>4, <1>5, <1>6

(* An open item is left without a waiting submission only in the four ways *)
(* that LeavesStale lists, whatever else requests do to each other.        *)
THEOREM StaleLeft == Spec => StaleLeftOnlyBy
  <1>1. Inv /\ [Next]_vars =>
          [\A c \in Completions : Settled(c) /\ ~Settled(c)' => LeavesStale(c)]_vars
    BY StalingStep
  <1> QED BY <1>1, Invariance, PTL DEF Spec, StaleLeftOnlyBy
=============================================================================
