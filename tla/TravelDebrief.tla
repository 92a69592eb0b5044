---------------------------- MODULE TravelDebrief ----------------------------
(***************************************************************************)
(* Foreign travel reports and their post-travel debriefs: a traveller      *)
(* edits and submits a report, a reviewer decides it, the daily cron       *)
(* creates a debrief once the trip is over, the traveller answers it, and  *)
(* both leave items on the FSO's board (source_type "travel_debrief").     *)
(*                                                                         *)
(* As everywhere in this program a handler is a sequence of statements     *)
(* without a transaction; the cron is a handler too, called by a           *)
(* scheduler.  The review items of the reports are not modelled here.      *)
(*                                                                         *)
(* Items are open (pending, under_review) or closed (processed, rejected). *)
(* Of a country of a trip only the end date matters, and of the countries  *)
(* of a report only which end dates occur.  plan, torn and the field late  *)
(* of an edit are history: the countries of the edit that was accepted     *)
(* last; whether that edit stopped before they were all stored, or an      *)
(* earlier one wrote beside it after it had removed the old ones; and      *)
(* whether another edit of the report was accepted since.                  *)
(***************************************************************************)
EXTENDS Naturals

CONSTANTS
  Reports,      \* travel reports
  Edits,        \* slots for create and update requests that have begun
  Crons,        \* slots for cron runs; more than one lets runs overlap
  MaxDebriefs,  \* bound on the debriefs of a report
  LastDay,      \* bound on the calendar
  Plans,        \* sets of end dates the travellers fill in
  Faults        \* whether statements may fail and handlers stop half way

ASSUME TravelAssumption ==
  /\ MaxDebriefs \in Nat \ {0}
  /\ LastDay \in Nat \ {0}
  /\ Faults \in BOOLEAN

VARIABLES
  status, legs, marked,  \* the report, its countries, debrief_created_at
  plan, torn, edit,      \* the traveller's create and update requests
  debrief, item,         \* the debriefs and their items
  answer,                \* the traveller's SubmitDebrief request
  cron, today

vars == <<status, legs, marked, plan, torn, edit, debrief, item, answer, cron, today>>
reportVars == <<status, legs, marked, plan, torn, edit>>
debriefVars == <<debrief, item, answer>>

NoEnd == 0  \* an end date not filled in
Days == 1..LastDay
Legs == SUBSET (Days \cup {NoEnd})
ASSUME PlansAssumption == Plans \subseteq Legs

Numbers == 1..MaxDebriefs
ReportStatuses == {"draft", "submitted", "under_review", "approved", "rejected"}
ItemStates == {"open", "closed"}
Idle == [at |-> "idle"]

TypeOK ==
  /\ status \in [Reports -> ReportStatuses \cup {"none"}]
  /\ legs \in [Reports -> Legs]
  /\ plan \in [Reports -> Legs]
  /\ marked \in [Reports -> BOOLEAN]
  /\ torn \in [Reports -> BOOLEAN]
  /\ edit \in [Edits -> {Idle} \cup
                 [at : {"delete", "insert"}, report : Reports, legs : Legs,
                  late : BOOLEAN]]
  /\ debrief \in [Reports -> [Numbers -> {"none", "pending", "submitted"}]]
  /\ item \in [Reports -> [Numbers -> [track : ItemStates \cup {"none"},
                                       process : ItemStates \cup {"none"}]]]
  /\ answer \in [Reports -> [Numbers -> {"none", "resolve", "item", "done"}]]
  /\ cron \in [Crons -> {Idle} \cup
                 [at : {"create", "mark", "item"}, todo : SUBSET Reports,
                  report : Reports, number : Numbers \cup {0},
                  overlap : BOOLEAN]]
  /\ today \in Days

Init ==
  /\ status = [r \in Reports |-> "none"]
  /\ legs = [r \in Reports |-> {}]
  /\ plan = [r \in Reports |-> {}]
  /\ marked = [r \in Reports |-> FALSE]
  /\ torn = [r \in Reports |-> FALSE]
  /\ edit = [e \in Edits |-> Idle]
  /\ debrief = [r \in Reports |-> [n \in Numbers |-> "none"]]
  /\ item = [r \in Reports |-> [n \in Numbers |->
               [track |-> "none", process |-> "none"]]]
  /\ answer = [r \in Reports |-> [n \in Numbers |-> "none"]]
  /\ cron = [k \in Crons |-> Idle]
  /\ today = 1

-----------------------------------------------------------------------------
(* The traveller's report.  Nothing keeps two edits of a report apart.     *)

(* The countries in p still to be inserted, if any.                        *)
Inserting(r, p, late) ==
  IF p = {} THEN Idle
  ELSE [at |-> "insert", report |-> r, legs |-> p, late |-> late]

(* The report's row; its countries follow one INSERT at a time.            *)
CreateReport(e, r, p) ==
  /\ edit[e] = Idle
  /\ status[r] = "none"
  /\ status' = [status EXCEPT ![r] = "draft"]
  /\ plan' = [plan EXCEPT ![r] = p]
  /\ edit' = [edit EXCEPT ![e] = Inserting(r, p, FALSE)]
  /\ UNCHANGED <<legs, marked, torn, debriefVars, cron, today>>

EditOf(x, r) == edit[x] # Idle /\ edit[x].report = r

(* The UPDATE of a draft's row; a request for any other report ends with   *)
(* 404 and has changed nothing.                                            *)
UpdateReport(e, r, p) ==
  /\ edit[e] = Idle
  /\ status[r] = "draft"
  /\ plan' = [plan EXCEPT ![r] = p]
  /\ torn' = [torn EXCEPT ![r] = FALSE]
  /\ edit' = [x \in Edits |->
                IF x = e THEN [at |-> "delete", report |-> r, legs |-> p,
                               late |-> FALSE]
                ELSE IF EditOf(x, r) THEN [edit[x] EXCEPT !.late = TRUE]
                ELSE edit[x]]
  /\ UNCHANGED <<status, legs, marked, debriefVars, cron, today>>

DeleteCountries(e) ==
  LET r == edit[e].report IN
  /\ edit[e].at = "delete"
  /\ legs' = [legs EXCEPT ![r] = {}]
  /\ torn' = [torn EXCEPT ![r] = edit[e].late]
  /\ edit' = [edit EXCEPT ![e] = Inserting(r, edit[e].legs, edit[e].late)]
  /\ UNCHANGED <<status, marked, plan, debriefVars, cron, today>>

InsertCountry(e) ==
  LET r == edit[e].report IN
  /\ edit[e].at = "insert"
  /\ \E l \in edit[e].legs :
       /\ legs' = [legs EXCEPT ![r] = @ \cup {l}]
       /\ edit' = [edit EXCEPT ![e] =
                     Inserting(r, edit[e].legs \ {l}, edit[e].late)]
  /\ torn' = [torn EXCEPT ![r] = @ \/ edit[e].late]
  /\ UNCHANGED <<status, marked, plan, debriefVars, cron, today>>

(* A statement failed, a date did not parse, or the instance is gone.      *)
AbandonEdit(e) ==
  /\ Faults
  /\ edit[e] # Idle
  /\ edit' = [edit EXCEPT ![e] = Idle]
  /\ torn' = [torn EXCEPT ![edit[e].report] = @ \/ ~edit[e].late]
  /\ UNCHANGED <<status, legs, marked, plan, debriefVars, cron, today>>

SubmitReport(r) ==
  /\ status[r] = "draft"
  /\ status' = [status EXCEPT ![r] = "submitted"]
  /\ UNCHANGED <<legs, marked, plan, torn, edit, debriefVars, cron, today>>

(* An admin opens the report.                                              *)
MarkUnderReview(r) ==
  /\ status[r] = "submitted"
  /\ status' = [status EXCEPT ![r] = "under_review"]
  /\ UNCHANGED <<legs, marked, plan, torn, edit, debriefVars, cron, today>>

(* Mutant: the updater maps the status as the one for other reports does.  *)
UpdateStatusMapped(r, s) ==
  /\ status[r] # "none"
  /\ s \in {"under_review", "approved", "rejected"}
  /\ status' = [status EXCEPT ![r] = IF s = "approved" THEN "processed" ELSE s]
  /\ UNCHANGED <<legs, marked, plan, torn, edit, debriefVars, cron, today>>

(* ApproveReport, RejectReport and the board's cascade: whatever status    *)
(* the report is in.                                                       *)
UpdateStatus(r, s) ==
  /\ status[r] # "none"
  /\ s \in {"under_review", "approved", "rejected"}
  /\ status' = [status EXCEPT ![r] = s]
  /\ UNCHANGED <<legs, marked, plan, torn, edit, debriefVars, cron, today>>

-----------------------------------------------------------------------------
(* The cron.                                                               *)

TripOver(ends) == ends # {} /\ \A e \in ends : e # NoEnd /\ e < today

(* Mutant: a trip is over on its last day.                                 *)
PendingDebriefLastDay(r) ==
  /\ status[r] = "approved"
  /\ ~marked[r]
  /\ legs[r] # {} /\ \A e \in legs[r] : e # NoEnd /\ e <= today

(* Mutant: debrief_created_at is not looked at.                            *)
PendingDebriefAgain(r) == status[r] = "approved" /\ TripOver(legs[r])

(* Mutant: a day has to pass between the trip and its debrief.             *)
PendingDebriefOneDay(r) ==
  /\ status[r] = "approved"
  /\ ~marked[r]
  /\ TripOver(legs[r]) /\ \A e \in legs[r] : e + 1 < today

PendingDebrief(r) == status[r] = "approved" /\ ~marked[r] /\ TripOver(legs[r])

(* The scheduler may call again before a run is over.  overlap, a history  *)
(* field, says of a run that another one was under way beside it.          *)
ListPendingDebriefReports(k) ==
  LET pending == {r \in Reports : PendingDebrief(r)}
      others  == {x \in Crons \ {k} : cron[x] # Idle}
  IN
  /\ cron[k] = Idle
  /\ \E r \in pending :
       cron' = [x \in Crons |->
                  IF x = k THEN [at |-> "create", todo |-> pending, report |-> r,
                                 number |-> 0, overlap |-> others # {}]
                  ELSE IF x \in others THEN [cron[x] EXCEPT !.overlap = TRUE]
                  ELSE Idle]
  /\ UNCHANGED <<reportVars, debriefVars, today>>

(* On to another report of the list, or the end of the run.                *)
NextReport(k) ==
  LET rest == cron[k].todo \ {cron[k].report} IN
  IF rest = {} THEN cron' = [cron EXCEPT ![k] = Idle]
  ELSE \E r \in rest :
         cron' = [cron EXCEPT ![k] = [at |-> "create", todo |-> rest, report |-> r,
                                      number |-> 0, overlap |-> @.overlap]]

(* Nothing makes a second debrief of a report an error.                    *)
CreateDebrief(k) ==
  LET r == cron[k].report IN
  /\ cron[k].at = "create"
  /\ \E n \in Numbers :
       /\ \A m \in Numbers : debrief[r][m] = "none" <=> m >= n
       /\ debrief' = [debrief EXCEPT ![r][n] = "pending"]
       /\ cron' = [cron EXCEPT ![k].at = "mark", ![k].number = n]
  /\ UNCHANGED <<reportVars, item, answer, today>>

(* The INSERT failed, or the bound is reached: the next report.            *)
DebriefNotCreated(k) ==
  LET r == cron[k].report IN
  /\ cron[k].at = "create"
  /\ Faults \/ debrief[r][MaxDebriefs] # "none"
  /\ NextReport(k)
  /\ UNCHANGED <<reportVars, debriefVars, today>>

(* An error is logged and the run goes on.                                 *)
MarkDebriefCreated(k) ==
  /\ cron[k].at = "mark"
  /\ \/ marked' = [marked EXCEPT ![cron[k].report] = TRUE]
     \/ Faults /\ UNCHANGED marked
  /\ cron' = [cron EXCEPT ![k].at = "item"]
  /\ UNCHANGED <<status, legs, plan, torn, edit, debriefVars, today>>

CreateTrackingItem(k) ==
  /\ cron[k].at = "item"
  /\ \/ item' = [item EXCEPT ![cron[k].report][cron[k].number].track = "open"]
     \/ Faults /\ UNCHANGED item
  /\ NextReport(k)
  /\ UNCHANGED <<reportVars, debrief, answer, today>>

StopCron(k) ==
  /\ Faults
  /\ cron[k] # Idle
  /\ cron' = [cron EXCEPT ![k] = Idle]
  /\ UNCHANGED <<reportVars, debriefVars, today>>

-----------------------------------------------------------------------------
(* SubmitDebrief, and the board.                                           *)

(* Mutant: the tracking item is not resolved.                              *)
SubmitDebriefUnresolved(r, n) ==
  /\ debrief[r][n] = "pending"
  /\ debrief' = [debrief EXCEPT ![r][n] = "submitted"]
  /\ answer' = [answer EXCEPT ![r][n] = "item"]
  /\ UNCHANGED <<reportVars, item, cron, today>>

(* A debrief is answered once; a second request finds it answered: 409.    *)
SubmitDebrief(r, n) ==
  /\ debrief[r][n] = "pending"
  /\ debrief' = [debrief EXCEPT ![r][n] = "submitted"]
  /\ answer' = [answer EXCEPT ![r][n] = "resolve"]
  /\ UNCHANGED <<reportVars, item, cron, today>>

Resolved(s) == IF s = "none" THEN "none" ELSE "closed"

(* Both kinds of item have the debrief as source.  An error is logged and  *)
(* the handler goes on.                                                    *)
ResolveBySource(r, n) ==
  /\ answer[r][n] = "resolve"
  /\ \/ item' = [item EXCEPT ![r][n] = [track |-> Resolved(@.track),
                                        process |-> Resolved(@.process)]]
     \/ Faults /\ UNCHANGED item
  /\ answer' = [answer EXCEPT ![r][n] = "item"]
  /\ UNCHANGED <<reportVars, debrief, cron, today>>

(* Mutant: the answers are stored and the FSO is not told.                 *)
CreateProcessItemSkipped(r, n) ==
  /\ answer[r][n] = "item"
  /\ answer' = [answer EXCEPT ![r][n] = "done"]
  /\ UNCHANGED <<reportVars, debrief, item, cron, today>>

CreateProcessItem(r, n) ==
  /\ answer[r][n] = "item"
  /\ \/ item' = [item EXCEPT ![r][n].process = "open"]
     \/ Faults /\ UNCHANGED item
  /\ answer' = [answer EXCEPT ![r][n] = "done"]
  /\ UNCHANGED <<reportVars, debrief, cron, today>>

AbandonAnswer(r, n) ==
  /\ Faults
  /\ answer[r][n] \in {"resolve", "item"}
  /\ answer' = [answer EXCEPT ![r][n] = "done"]
  /\ UNCHANGED <<reportVars, debrief, item, cron, today>>

(* The FSO sets an item's status, to pending or under_review (open) or to  *)
(* processed or rejected (closed); nothing cascades to a debrief.          *)
UpdateItem(r, n, kind, s) ==
  /\ item[r][n][kind] # "none"
  /\ item' = [item EXCEPT ![r][n][kind] = s]
  /\ UNCHANGED <<reportVars, debrief, answer, cron, today>>

-----------------------------------------------------------------------------
Midnight ==
  /\ today < LastDay
  /\ today' = today + 1
  /\ UNCHANGED <<reportVars, debriefVars, cron>>

EditStep(e) == DeleteCountries(e) \/ InsertCountry(e)

CronStep(k) ==
  \/ ListPendingDebriefReports(k)
  \/ CreateDebrief(k) \/ DebriefNotCreated(k)
  \/ MarkDebriefCreated(k) \/ CreateTrackingItem(k)

AnswerStep(r, n) == ResolveBySource(r, n) \/ CreateProcessItem(r, n)

Next ==
  \/ \E r \in Reports :
       \/ \E e \in Edits, p \in Plans :
            CreateReport(e, r, p) \/ UpdateReport(e, r, p)
       \/ SubmitReport(r) \/ MarkUnderReview(r)
       \/ \E s \in ReportStatuses : UpdateStatus(r, s)
       \/ \E n \in Numbers :
            \/ SubmitDebrief(r, n)
            \/ AnswerStep(r, n)
            \/ AbandonAnswer(r, n)
            \/ \E kind \in {"track", "process"}, s \in ItemStates :
                 UpdateItem(r, n, kind, s)
  \/ \E e \in Edits : EditStep(e) \/ AbandonEdit(e)
  \/ \E k \in Crons : CronStep(k) \/ StopCron(k)
  \/ Midnight

Spec == Init /\ [][Next]_vars

(* The scheduler calls the cron, and a handler gets to its next statement. *)
(* Nobody need edit, decide or answer anything, and days need not pass.    *)
Fairness ==
  /\ \A e \in Edits : WF_vars(EditStep(e))
  /\ \A k \in Crons : WF_vars(CronStep(k))
  /\ \A r \in Reports, n \in Numbers : WF_vars(AnswerStep(r, n))

FairSpec == Spec /\ Fairness

-----------------------------------------------------------------------------
(* Correctness.                                                            *)

Debriefs(r) == {n \in Numbers : debrief[r][n] # "none"}

(* debrief_created_at is to keep a later run from taking a report up again *)
(* (the comment at cron.go:78).  A trip gets a second debrief only from a  *)
(* run that overlapped another, or because an earlier run created the      *)
(* debrief and then stopped, or failed, before it marked the report.       *)
SecondDebriefOnlyBy ==
  [][\A r \in Reports : Debriefs(r) # {} /\ Debriefs(r)' # Debriefs(r) =>
       \E k \in Crons :
         /\ cron[k] # Idle /\ cron'[k] # cron[k] /\ cron[k].report = r
         /\ ~cron[k].overlap => Faults /\ ~marked[r]]_vars

(* The cron takes up a report only when the whole trip of the edit that    *)
(* was accepted last is over.  Otherwise that edit is still running (it    *)
(* may have begun when the report was a draft and go on after its          *)
(* approval), or it stopped half way, or an earlier edit, which it         *)
(* overtook, removed or inserted countries after it had removed the old    *)
(* ones (travel/store.go:306).  A late edit alone is no excuse.            *)
ListedTripsAreOver ==
  [][\A k \in Crons : cron[k] = Idle /\ cron'[k] # Idle =>
       \A r \in cron'[k].todo :
         \/ TripOver(plan[r])
         \/ \E e \in Edits : EditOf(e, r) /\ ~edit[e].late
         \/ torn[r]]_vars

(* Nothing on the board says that an answer is awaited which has come.     *)
TrackingSettled(r, n) ==
  debrief[r][n] = "submitted" /\ answer[r][n] # "resolve" =>
    item[r][n].track # "open"

(* The steps that leave such an item: the cron creates it after the answer *)
(* came; closing it failed or was not reached; someone reopens it.  And    *)
(* the statement that closes it, which names the debrief and not the item, *)
(* never takes the item that shows the answers from the board.             *)
BoardFollowsAnswer ==
  [][\A r \in Reports, n \in Numbers :
       /\ TrackingSettled(r, n) /\ ~TrackingSettled(r, n)' =>
            \/ \E k \in Crons : /\ cron[k].at = "item" /\ cron'[k] # cron[k]
                                /\ cron[k].report = r /\ cron[k].number = n
            \/ answer[r][n] = "resolve" /\ Faults
            \/ item[r][n].track = "closed"
       /\ item[r][n].process = "open" /\ item'[r][n].process = "closed" =>
            answer' = answer]_vars

(* features/reportForeignTravel.md: returning from an approved trip brings *)
(* a debrief, unless the report is decided otherwise in the end.           *)
EveryTripDebriefed ==
  \A r \in Reports :
    <>[](status[r] = "approved" /\ TripOver(legs[r])) => <>(Debriefs(r) # {})

(* The answers to every debrief reach the FSO's board.                     *)
EveryAnswerSurfaces ==
  \A r \in Reports, n \in Numbers :
    debrief[r][n] = "submitted" ~> item[r][n].process # "none"
=============================================================================
