------------------------ MODULE TravelDebrief_proofs ------------------------
(***************************************************************************)
(* Proofs about TravelDebrief, for any reports, any number of cron runs,   *)
(* any trips and calendar, with or without faults.                         *)
(***************************************************************************)
EXTENDS TravelDebrief, TLAPS

EditRecords == [at : {"delete", "insert"}, report : Reports, legs : Legs,
                late : BOOLEAN]
CronRecords == [at : {"create", "mark", "item"}, todo : SUBSET Reports,
                report : Reports, number : Numbers \cup {0}, overlap : BOOLEAN]
ItemRecords == [track : ItemStates \cup {"none"}, process : ItemStates \cup {"none"}]

-----------------------------------------------------------------------------
(* How a run of the cron moves.                                            *)

LEMMA ActiveRun ==
  ASSUME TypeOK, NEW k \in Crons, cron[k] # Idle
  PROVE  /\ cron[k] \in CronRecords
         /\ cron[k].at \in {"create", "mark", "item"}
         /\ cron[k].todo \subseteq Reports
         /\ cron[k].report \in Reports
         /\ cron[k].number \in Numbers \cup {0}
         /\ cron[k].overlap \in BOOLEAN
  BY DEF TypeOK, CronRecords

(* A run ends, or is in front of another report of its list.               *)
LEMMA NextReportMoves ==
  ASSUME TypeOK, NEW k \in Crons, cron[k] # Idle, NextReport(k)
  PROVE  /\ cron' \in [Crons -> {Idle} \cup CronRecords]
         /\ \A x \in Crons \ {k} : cron'[x] = cron[x]
         /\ cron'[k] # Idle => /\ cron'[k].at = "create"
                               /\ cron'[k].report \in cron'[k].todo
                               /\ cron'[k].todo = cron[k].todo \ {cron[k].report}
                               /\ cron'[k].overlap = cron[k].overlap
  <1> DEFINE rest == cron[k].todo \ {cron[k].report}
  <1>1. cron \in [Crons -> {Idle} \cup CronRecords]
    BY DEF TypeOK, CronRecords
  <1>2. CASE rest = {}
    <2>1. cron' = [cron EXCEPT ![k] = Idle]
      BY <1>2 DEF NextReport
    <2> QED BY <1>1, <2>1
  <1>3. CASE rest # {}
    <2>1. PICK r \in rest :
            cron' = [cron EXCEPT ![k] = [at |-> "create", todo |-> rest, report |-> r,
                                         number |-> 0, overlap |-> cron[k].overlap]]
      BY <1>3 DEF NextReport
    <2> DEFINE new == [at |-> "create", todo |-> rest, report |-> r,
                       number |-> 0, overlap |-> cron[k].overlap]
    <2>2. new \in CronRecords /\ r \in rest
      BY ActiveRun DEF CronRecords
    <2>3. cron' = [cron EXCEPT ![k] = new]
      BY <2>1
    <2>4. cron'[k] = new /\ \A x \in Crons \ {k} : cron'[x] = cron[x]
      BY <1>1, <2>3
    <2>5. cron' \in [Crons -> {Idle} \cup CronRecords]
      BY <1>1, <2>2, <2>3
    <2> HIDE DEF new
    <2>6. new.at = "create" /\ new.report = r /\ new.todo = rest /\ new.overlap = cron[k].overlap
      BY DEF new
    <2> QED BY <2>2, <2>4, <2>5, <2>6
  <1> QED BY <1>2, <1>3

-----------------------------------------------------------------------------
(* Types.                                                                  *)

(* The records an edit is, and what is left to insert.                     *)
LEMMA EditShapes ==
  ASSUME TypeOK
  PROVE  /\ edit \in [Edits -> {Idle} \cup EditRecords]
         /\ legs \in [Reports -> Legs] /\ plan \in [Reports -> Legs]
         /\ torn \in [Reports -> BOOLEAN]
         /\ status \in [Reports -> ReportStatuses \cup {"none"}]
         /\ Idle.at = "idle"
         /\ \A v \in EditRecords : v # Idle /\ v.at # "idle"
         /\ \A r \in Reports, p \in Legs, late \in BOOLEAN :
              IF p = {} THEN Inserting(r, p, late) = Idle
              ELSE /\ Inserting(r, p, late) \in EditRecords
                   /\ Inserting(r, p, late).at = "insert"
                   /\ Inserting(r, p, late).report = r
                   /\ Inserting(r, p, late).legs = p
                   /\ Inserting(r, p, late).late = late
  <1>1. Idle.at = "idle" /\ \A v \in EditRecords : v # Idle /\ v.at # "idle"
    BY DEF Idle, EditRecords
  <1> QED BY <1>1 DEF TypeOK, EditRecords, Inserting

(* What a running edit is.                                                 *)
LEMMA ActiveEdit ==
  ASSUME TypeOK, NEW e \in Edits, edit[e] # Idle
  PROVE  /\ edit[e] \in EditRecords
         /\ edit[e].at \in {"delete", "insert"} /\ edit[e].report \in Reports
         /\ edit[e].legs \in Legs /\ edit[e].late \in BOOLEAN
         /\ [edit[e] EXCEPT !.late = TRUE] \in EditRecords
         /\ [edit[e] EXCEPT !.late = TRUE].late
         /\ [edit[e] EXCEPT !.late = TRUE].report = edit[e].report
  <1>1. edit[e] \in EditRecords
    BY DEF TypeOK, EditRecords
  <1> QED BY <1>1 DEF EditRecords

LEMMA EditTypes ==
  ASSUME TypeOK, NEW e \in Edits,
         \/ \E r \in Reports, p \in Plans : CreateReport(e, r, p) \/ UpdateReport(e, r, p)
         \/ EditStep(e) \/ AbandonEdit(e)
  PROVE  TypeOK'
  <1> USE DEF EditRecords
  <1>1. /\ edit \in [Edits -> {Idle} \cup EditRecords]
        /\ legs \in [Reports -> Legs] /\ plan \in [Reports -> Legs]
        /\ torn \in [Reports -> BOOLEAN]
        /\ status \in [Reports -> ReportStatuses \cup {"none"}]
    BY DEF TypeOK
  <1>2. \A r \in Reports, p \in Legs, late \in BOOLEAN :
          Inserting(r, p, late) \in {Idle} \cup EditRecords
    BY EditShapes
  <1>3. \A p \in Plans : p \in Legs
    BY PlansAssumption
  <1>4. ASSUME NEW r \in Reports, NEW p \in Plans, CreateReport(e, r, p)
        PROVE  TypeOK'
    BY <1>1, <1>2, <1>3, <1>4
    DEF TypeOK, CreateReport, ReportStatuses, debriefVars
  <1>5. ASSUME NEW r \in Reports, NEW p \in Plans, UpdateReport(e, r, p)
        PROVE  TypeOK'
    <2> DEFINE new == [at |-> "delete", report |-> r, legs |-> p, late |-> FALSE]
    <2>1. new \in EditRecords
      BY <1>3
    <2>2. \A x \in Edits : edit[x] # Idle => [edit[x] EXCEPT !.late = TRUE] \in EditRecords
      BY ActiveEdit
    <2>3. edit' = [x \in Edits |->
                     IF x = e THEN new
                     ELSE IF EditOf(x, r) THEN [edit[x] EXCEPT !.late = TRUE] ELSE edit[x]]
      BY <1>5 DEF UpdateReport
    <2> HIDE DEF new
    <2>4. edit' \in [Edits -> {Idle} \cup EditRecords]
      BY <1>1, <2>1, <2>2, <2>3 DEF EditOf
    <2> QED BY <1>1, <1>3, <1>5, <2>4 DEF TypeOK, UpdateReport, debriefVars
  <1>6. ASSUME DeleteCountries(e)
        PROVE  TypeOK'
    <2>1. edit[e] # Idle
      BY <1>6 DEF DeleteCountries, Idle
    <2>2. edit' \in [Edits -> {Idle} \cup EditRecords]
      BY <1>1, <1>2, <1>6, <2>1, ActiveEdit DEF DeleteCountries
    <2>3. legs' \in [Reports -> Legs] /\ torn' \in [Reports -> BOOLEAN]
      BY <1>1, <1>6, <2>1, ActiveEdit DEF DeleteCountries, Legs
    <2> QED BY <1>6, <2>2, <2>3 DEF TypeOK, DeleteCountries, debriefVars
  <1>7. ASSUME InsertCountry(e)
        PROVE  TypeOK'
    <2>1. PICK l \in edit[e].legs :
            /\ legs' = [legs EXCEPT ![edit[e].report] = @ \cup {l}]
            /\ edit' = [edit EXCEPT ![e] =
                          Inserting(edit[e].report, edit[e].legs \ {l}, edit[e].late)]
      BY <1>7 DEF InsertCountry
    <2>2. edit[e] # Idle
      BY <1>7 DEF InsertCountry, Idle
    <2>3. /\ edit[e].report \in Reports /\ edit[e].late \in BOOLEAN
          /\ edit[e].legs \ {l} \in Legs /\ legs[edit[e].report] \cup {l} \in Legs
      BY <1>1, <2>2, ActiveEdit DEF Legs
    <2>4. legs' \in [Reports -> Legs] /\ edit' \in [Edits -> {Idle} \cup EditRecords]
      BY <1>1, <1>2, <2>1, <2>3
    <2>5. torn' \in [Reports -> BOOLEAN]
      BY <1>1, <1>7, <2>3 DEF InsertCountry
    <2> QED BY <1>7, <2>4, <2>5 DEF TypeOK, InsertCountry, debriefVars
  <1>8. ASSUME AbandonEdit(e)
        PROVE  TypeOK'
    BY <1>1, <1>8, ActiveEdit DEF TypeOK, AbandonEdit, debriefVars
  <1> QED BY <1>4, <1>5, <1>6, <1>7, <1>8 DEF EditStep

LEMMA DecisionTypes ==
  ASSUME TypeOK, NEW r \in Reports,
         \/ SubmitReport(r) \/ MarkUnderReview(r)
         \/ \E s \in ReportStatuses : UpdateStatus(r, s)
  PROVE  TypeOK'
  BY DEF TypeOK, SubmitReport, MarkUnderReview, UpdateStatus, ReportStatuses, debriefVars

(* An item is replaced by another.                                         *)
LEMMA ItemChanged ==
  ASSUME item \in [Reports -> [Numbers -> ItemRecords]],
         NEW r \in Reports, NEW n \in Numbers, NEW new \in ItemRecords,
         \/ item' = [item EXCEPT ![r][n] = new]
         \/ UNCHANGED item
  PROVE  item' \in [Reports -> [Numbers -> ItemRecords]]
  OBVIOUS

LEMMA AnswerTypes ==
  ASSUME TypeOK, NEW r \in Reports, NEW n \in Numbers,
         \/ SubmitDebrief(r, n) \/ AnswerStep(r, n) \/ AbandonAnswer(r, n)
         \/ \E kind \in {"track", "process"}, s \in ItemStates : UpdateItem(r, n, kind, s)
  PROVE  TypeOK'
  <1>1. /\ item \in [Reports -> [Numbers -> ItemRecords]]
        /\ answer \in [Reports -> [Numbers -> {"none", "resolve", "item", "done"}]]
        /\ debrief \in [Reports -> [Numbers -> {"none", "pending", "submitted"}]]
    BY DEF TypeOK, ItemRecords
  <1>2. item[r][n] \in ItemRecords
    BY <1>1
  <1>3. ASSUME SubmitDebrief(r, n)
        PROVE  TypeOK'
    BY <1>1, <1>3 DEF TypeOK, SubmitDebrief, reportVars
  <1>4. ASSUME ResolveBySource(r, n)
        PROVE  TypeOK'
    <2>1. [track |-> Resolved(item[r][n].track), process |-> Resolved(item[r][n].process)]
             \in ItemRecords
      BY <1>2 DEF Resolved, ItemRecords, ItemStates
    <2>2. item' \in [Reports -> [Numbers -> ItemRecords]]
      BY <1>1, <1>4, <2>1, ItemChanged DEF ResolveBySource
    <2> QED BY <1>1, <1>4, <2>2 DEF TypeOK, ItemRecords, ResolveBySource, reportVars
  <1>5. ASSUME CreateProcessItem(r, n)
        PROVE  TypeOK'
    <2>1. [item[r][n] EXCEPT !.process = "open"] \in ItemRecords
      BY <1>2 DEF ItemRecords, ItemStates
    <2>2. item' \in [Reports -> [Numbers -> ItemRecords]]
      BY <1>1, <1>5, <2>1, ItemChanged DEF CreateProcessItem
    <2> QED BY <1>1, <1>5, <2>2 DEF TypeOK, ItemRecords, CreateProcessItem, reportVars
  <1>6. ASSUME AbandonAnswer(r, n)
        PROVE  TypeOK'
    BY <1>1, <1>6 DEF TypeOK, AbandonAnswer, reportVars
  <1>7. ASSUME NEW kind \in {"track", "process"}, NEW s \in ItemStates,
               UpdateItem(r, n, kind, s)
        PROVE  TypeOK'
    <2>1. [item[r][n] EXCEPT ![kind] = s] \in ItemRecords
      BY <1>2 DEF ItemRecords
    <2>2. item' \in [Reports -> [Numbers -> ItemRecords]]
      BY <1>1, <1>7, <2>1, ItemChanged DEF UpdateItem
    <2> QED BY <1>7, <2>2 DEF TypeOK, ItemRecords, UpdateItem, reportVars
  <1> QED BY <1>3, <1>4, <1>5, <1>6, <1>7 DEF AnswerStep

LEMMA CronTypes ==
  ASSUME TypeOK, NEW k \in Crons, CronStep(k) \/ StopCron(k)
  PROVE  TypeOK'
  <1>1. /\ cron \in [Crons -> {Idle} \cup CronRecords]
        /\ item \in [Reports -> [Numbers -> ItemRecords]]
        /\ debrief \in [Reports -> [Numbers -> {"none", "pending", "submitted"}]]
        /\ marked \in [Reports -> BOOLEAN]
    BY DEF TypeOK, ItemRecords, CronRecords
  <1>2. ASSUME ListPendingDebriefReports(k)
        PROVE  TypeOK'
    <2> DEFINE pending == {r \in Reports : PendingDebrief(r)}
               others == {x \in Crons \ {k} : cron[x] # Idle}
    <2>1. PICK r \in pending :
            cron' = [x \in Crons |->
                       IF x = k THEN [at |-> "create", todo |-> pending, report |-> r,
                                      number |-> 0, overlap |-> others # {}]
                       ELSE IF x \in others THEN [cron[x] EXCEPT !.overlap = TRUE]
                       ELSE Idle]
      BY <1>2 DEF ListPendingDebriefReports
    <2>2. [at |-> "create", todo |-> pending, report |-> r,
           number |-> 0, overlap |-> others # {}] \in CronRecords
      BY DEF CronRecords
    <2>3. \A x \in others : [cron[x] EXCEPT !.overlap = TRUE] \in CronRecords
      BY ActiveRun DEF CronRecords
    <2>4. cron' \in [Crons -> {Idle} \cup CronRecords]
      BY <2>1, <2>2, <2>3
    <2> QED BY <1>2, <2>4 DEF TypeOK, CronRecords, ListPendingDebriefReports, reportVars, debriefVars
  <1>3. ASSUME CreateDebrief(k)
        PROVE  TypeOK'
    <2>1. PICK n \in Numbers :
            /\ debrief' = [debrief EXCEPT ![cron[k].report][n] = "pending"]
            /\ cron' = [cron EXCEPT ![k].at = "mark", ![k].number = n]
      BY <1>3 DEF CreateDebrief
    <2>2. cron[k] # Idle
      BY <1>3 DEF CreateDebrief, Idle
    <2>3. cron' \in [Crons -> {Idle} \cup CronRecords]
      BY <1>1, <2>1, <2>2, ActiveRun DEF CronRecords
    <2>4. debrief' \in [Reports -> [Numbers -> {"none", "pending", "submitted"}]]
      BY <1>1, <2>1
    <2> QED BY <1>3, <2>3, <2>4 DEF TypeOK, CronRecords, CreateDebrief, reportVars
  <1>4. ASSUME DebriefNotCreated(k)
        PROVE  TypeOK'
    <2>1. cron[k] # Idle /\ NextReport(k)
      BY <1>4 DEF DebriefNotCreated, Idle
    <2>2. cron' \in [Crons -> {Idle} \cup CronRecords]
      BY <2>1, NextReportMoves
    <2> QED BY <1>4, <2>2 DEF TypeOK, CronRecords, DebriefNotCreated, reportVars, debriefVars
  <1>5. ASSUME MarkDebriefCreated(k)
        PROVE  TypeOK'
    <2>1. cron[k] # Idle
      BY <1>5 DEF MarkDebriefCreated, Idle
    <2>2. cron' \in [Crons -> {Idle} \cup CronRecords]
      BY <1>1, <1>5, <2>1, ActiveRun DEF CronRecords, MarkDebriefCreated
    <2>3. marked' \in [Reports -> BOOLEAN]
      BY <1>1, <1>5 DEF MarkDebriefCreated
    <2> QED BY <1>5, <2>2, <2>3 DEF TypeOK, CronRecords, MarkDebriefCreated, debriefVars
  <1>6. ASSUME CreateTrackingItem(k)
        PROVE  TypeOK'
    <2>1. cron[k] # Idle /\ NextReport(k)
      BY <1>6 DEF CreateTrackingItem, Idle
    <2>2. cron' \in [Crons -> {Idle} \cup CronRecords]
      BY <2>1, NextReportMoves
    <2> DEFINE r == cron[k].report
               n == cron[k].number
    <2>3. item' \in [Reports -> [Numbers -> ItemRecords]]
      <3>1. CASE UNCHANGED item
        BY <1>1, <3>1
      <3>2. CASE item' = [item EXCEPT ![r][n].track = "open"]
        <4>1. CASE n \in Numbers
          <5>1. r \in Reports
            BY <2>1, ActiveRun
          <5>2. item[r][n] \in ItemRecords
            BY <1>1, <4>1, <5>1
          <5>3. [item[r][n] EXCEPT !.track = "open"] \in ItemRecords
            BY <5>2 DEF ItemRecords, ItemStates
          <5> QED BY <1>1, <3>2, <4>1, <5>1, <5>3, ItemChanged
        <4>2. CASE n \notin Numbers
          BY <1>1, <3>2, <4>2
        <4> QED BY <4>1, <4>2
      <3> QED BY <1>6, <3>1, <3>2 DEF CreateTrackingItem
    <2> QED BY <1>6, <2>2, <2>3 DEF TypeOK, CronRecords, ItemRecords, CreateTrackingItem, reportVars
  <1>7. ASSUME StopCron(k)
        PROVE  TypeOK'
    BY <1>7 DEF TypeOK, StopCron, reportVars, debriefVars
  <1> QED BY <1>2, <1>3, <1>4, <1>5, <1>6, <1>7 DEF CronStep

(* Every step of Next keeps the types.                                     *)
LEMMA TypeNext ==
  ASSUME TypeOK, [Next]_vars
  PROVE  TypeOK'
  <1>1. ASSUME Midnight
        PROVE  TypeOK'
    BY <1>1, TravelAssumption DEF TypeOK, Midnight, Days, reportVars, debriefVars
  <1>2. CASE UNCHANGED vars
    BY <1>2 DEF TypeOK, vars
  <1> QED BY <1>1, <1>2, EditTypes, DecisionTypes, AnswerTypes, CronTypes DEF Next

LEMMA TypeInit == ASSUME Init PROVE TypeOK
  BY TravelAssumption DEF Init, TypeOK, Idle, Legs, ItemStates, Days

(* Reports, countries, debriefs, items and runs keep their types.          *)
THEOREM DebriefTypes == Spec => []TypeOK
  BY TypeInit, TypeNext, PTL DEF Spec

-----------------------------------------------------------------------------
(* Second debriefs.  A run that had the table to itself so far is alone    *)
(* still, and what is left on its list is as unmarked as when it was       *)
(* listed, but for the report it is just through with.  If nothing fails,  *)
(* whoever created a debrief marks the report or is about to.              *)

Active(k) == cron[k] # Idle
Alone(k) == Active(k) /\ ~cron[k].overlap

RunsAlone == \A k \in Crons : Alone(k) => \A x \in Crons \ {k} : ~Active(x)

ListUnmarked ==
  \A k \in Crons : Alone(k) =>
    /\ cron[k].report \in cron[k].todo
    /\ \A r \in cron[k].todo :
         marked[r] => r = cron[k].report /\ cron[k].at # "create"

Marking(r) == \E k \in Crons : Active(k) /\ cron[k].at = "mark" /\ cron[k].report = r

DebriefMarked ==
  ~Faults => \A r \in Reports : Debriefs(r) # {} => marked[r] \/ Marking(r)

IInv == TypeOK /\ RunsAlone /\ ListUnmarked /\ DebriefMarked

LEMMA IInvInit == ASSUME Init PROVE IInv
  <1>1. \A k \in Crons : ~Active(k)
    BY DEF Init, Active
  <1>2. \A r \in Reports : Debriefs(r) = {}
    BY DEF Init, Debriefs
  <1> QED BY <1>1, <1>2, TypeInit DEF IInv, RunsAlone, ListUnmarked, DebriefMarked, Alone

(* The steps that are not the cron's neither create a debrief nor mark a   *)
(* report.                                                                 *)
LEMMA QuietSteps ==
  ASSUME TypeOK, [Next]_vars, \A k \in Crons : ~CronStep(k) /\ ~StopCron(k)
  PROVE  UNCHANGED <<marked, cron>> /\ \A r \in Reports : Debriefs(r)' = Debriefs(r)
  <1>1. ASSUME UNCHANGED <<marked, cron, debrief>>
        PROVE  UNCHANGED <<marked, cron>> /\ \A r \in Reports : Debriefs(r)' = Debriefs(r)
    BY <1>1 DEF Debriefs
  <1>2. ASSUME NEW r \in Reports, NEW n \in Numbers, SubmitDebrief(r, n)
        PROVE  UNCHANGED <<marked, cron>> /\ \A x \in Reports : Debriefs(x)' = Debriefs(x)
    <2>1. debrief \in [Reports -> [Numbers -> {"none", "pending", "submitted"}]]
      BY DEF TypeOK
    <2>2. \A x \in Reports, m \in Numbers : debrief'[x][m] # "none" <=> debrief[x][m] # "none"
      BY <1>2, <2>1 DEF SubmitDebrief
    <2> QED BY <1>2, <2>2 DEF Debriefs, SubmitDebrief, reportVars
  <1>3. ASSUME NEW e \in Edits,
               \/ \E r \in Reports, p \in Plans : CreateReport(e, r, p) \/ UpdateReport(e, r, p)
               \/ EditStep(e) \/ AbandonEdit(e)
        PROVE  UNCHANGED <<marked, cron, debrief>>
    BY <1>3 DEF CreateReport, UpdateReport, EditStep, DeleteCountries, InsertCountry,
                AbandonEdit, debriefVars
  <1>4. ASSUME NEW r \in Reports,
               \/ SubmitReport(r) \/ MarkUnderReview(r)
               \/ \E s \in ReportStatuses : UpdateStatus(r, s)
        PROVE  UNCHANGED <<marked, cron, debrief>>
    BY <1>4 DEF SubmitReport, MarkUnderReview, UpdateStatus, debriefVars
  <1>5. ASSUME NEW r \in Reports, NEW n \in Numbers,
               \/ AnswerStep(r, n) \/ AbandonAnswer(r, n)
               \/ \E kind \in {"track", "process"}, s \in ItemStates : UpdateItem(r, n, kind, s)
        PROVE  UNCHANGED <<marked, cron, debrief>>
    BY <1>5 DEF AnswerStep, ResolveBySource, CreateProcessItem, AbandonAnswer, UpdateItem,
                reportVars
  <1>6. CASE Midnight \/ UNCHANGED vars
    BY <1>1, <1>6 DEF Midnight, vars, reportVars, debriefVars
  <1> QED BY <1>1, <1>2, <1>3, <1>4, <1>5, <1>6 DEF Next

(* What a step of the cron leaves: the runs beside it are as they were, or *)
(* it began and they are marked as overlapped.                             *)
LEMMA BesideRuns ==
  ASSUME IInv, NEW k \in Crons, CronStep(k) \/ StopCron(k)
  PROVE  /\ RunsAlone'
         /\ \A x \in Crons \ {k} :
              /\ Active(x)' <=> Active(x)
              /\ Active(x) => /\ cron'[x].at = cron[x].at
                              /\ cron'[x].report = cron[x].report
                              /\ cron'[x].todo = cron[x].todo
                              /\ cron[x].overlap => cron'[x].overlap
  <1> DEFINE Kept ==
        /\ \A x \in Crons \ {k} : cron'[x] = cron[x]
        /\ cron'[k] # Idle => cron[k] # Idle /\ cron'[k].overlap = cron[k].overlap
  <1>1. cron \in [Crons -> {Idle} \cup CronRecords]
    BY DEF IInv, TypeOK, CronRecords
  <1>2. ASSUME ListPendingDebriefReports(k)
        PROVE  /\ RunsAlone'
               /\ \A x \in Crons \ {k} :
                    /\ Active(x)' <=> Active(x)
                    /\ Active(x) => /\ cron'[x].at = cron[x].at
                                    /\ cron'[x].report = cron[x].report
                                    /\ cron'[x].todo = cron[x].todo
                                    /\ cron[x].overlap => cron'[x].overlap
    <2> DEFINE pending == {r \in Reports : PendingDebrief(r)}
               others == {x \in Crons \ {k} : cron[x] # Idle}
    <2>1. PICK r \in pending :
            cron' = [x \in Crons |->
                       IF x = k THEN [at |-> "create", todo |-> pending, report |-> r,
                                      number |-> 0, overlap |-> others # {}]
                       ELSE IF x \in others THEN [cron[x] EXCEPT !.overlap = TRUE]
                       ELSE Idle]
      BY <1>2 DEF ListPendingDebriefReports
    <2>2. cron'[k].overlap = (others # {})
      BY <2>1
    <2>3. \A x \in others : /\ cron'[x] = [cron[x] EXCEPT !.overlap = TRUE]
                            /\ cron[x] \in CronRecords
      BY <1>1, <2>1
    <2>4. \A x \in others : /\ cron'[x].overlap = TRUE
                            /\ cron'[x].at = cron[x].at
                            /\ cron'[x].report = cron[x].report
                            /\ cron'[x].todo = cron[x].todo
                            /\ cron'[x] \in CronRecords
      BY <2>3 DEF CronRecords
    <2>5. \A c \in CronRecords : c # Idle
      BY DEF CronRecords, Idle
    <2>6. \A x \in Crons \ {k} : x \notin others => cron[x] = Idle /\ cron'[x] = Idle
      BY <2>1
    <2>7. RunsAlone'
      BY <2>2, <2>4, <2>6 DEF RunsAlone, Alone, Active
    <2> QED BY <2>3, <2>4, <2>5, <2>6, <2>7 DEF Active
  <1>3. CreateDebrief(k) => Kept
    BY <1>1 DEF CreateDebrief, CronRecords, Idle
  <1>4. DebriefNotCreated(k) => Kept
    BY NextReportMoves DEF DebriefNotCreated, IInv, Idle
  <1>5. MarkDebriefCreated(k) => Kept
    BY <1>1 DEF MarkDebriefCreated, CronRecords, Idle
  <1>6. CreateTrackingItem(k) => Kept
    BY NextReportMoves DEF CreateTrackingItem, IInv, Idle
  <1>7. StopCron(k) => Kept
    BY <1>1 DEF StopCron
  <1>8. ASSUME Kept PROVE RunsAlone'
    BY <1>8 DEF RunsAlone, Alone, Active, IInv
  <1>9. CASE Kept
    BY <1>8, <1>9 DEF Active
  <1> QED BY <1>2, <1>3, <1>4, <1>5, <1>6, <1>7, <1>9 DEF CronStep

LEMMA ListStaysUnmarked ==
  ASSUME IInv, NEW k \in Crons, CronStep(k) \/ StopCron(k)
  PROVE  ListUnmarked'
  <1>1. /\ cron \in [Crons -> {Idle} \cup CronRecords]
        /\ marked \in [Reports -> BOOLEAN]
    BY DEF IInv, TypeOK, CronRecords
  <1>2. ASSUME NEW x \in Crons \ {k} PROVE ~Alone(x)'
    <2>1. SUFFICES ASSUME Alone(x)' PROVE FALSE
      OBVIOUS
    <2>2. Alone(x)
      BY <2>1, BesideRuns DEF Alone, Active
    <2>3. ~Active(k) /\ ~Active(k)'
      BY <2>1, <2>2, BesideRuns DEF IInv, RunsAlone
    <2>4. ListPendingDebriefReports(k)
      BY <2>3 DEF Active, CronStep, StopCron, CreateDebrief, DebriefNotCreated,
                  MarkDebriefCreated, CreateTrackingItem, Idle
    <2>5. cron'[k] # Idle
      BY <2>4 DEF ListPendingDebriefReports, Idle
    <2> QED BY <2>3, <2>5 DEF Active
  <1> DEFINE Mine == Alone(k)' =>
        /\ cron'[k].report \in cron'[k].todo
        /\ \A r \in cron'[k].todo :
             marked'[r] => r = cron'[k].report /\ cron'[k].at # "create"
  <1>3. ListPendingDebriefReports(k) => Mine
    BY <1>1 DEF ListPendingDebriefReports, PendingDebrief, reportVars
  <1>5. CreateDebrief(k) => Mine
    BY <1>1 DEF CreateDebrief, CronRecords, Idle, IInv, ListUnmarked, Alone, Active, reportVars
  <1>6. DebriefNotCreated(k) => Mine
    BY <1>1, NextReportMoves
    DEF DebriefNotCreated, Idle, IInv, TypeOK, ListUnmarked, Alone, Active, reportVars
  <1>7. MarkDebriefCreated(k) => Mine
    <2>1. SUFFICES ASSUME MarkDebriefCreated(k), Alone(k)'
                   PROVE  /\ cron'[k].report \in cron'[k].todo
                          /\ \A r \in cron'[k].todo :
                               marked'[r] => r = cron'[k].report /\ cron'[k].at # "create"
      OBVIOUS
    <2>2. cron[k] \in CronRecords /\ cron[k] # Idle
      BY <1>1, <2>1 DEF MarkDebriefCreated, Idle
    <2>3. cron'[k] = [cron[k] EXCEPT !.at = "item"]
      BY <1>1, <2>1 DEF MarkDebriefCreated
    <2>4. /\ cron'[k].at = "item" /\ cron'[k].report = cron[k].report
          /\ cron'[k].todo = cron[k].todo /\ cron'[k].overlap = cron[k].overlap
      BY <2>2, <2>3 DEF CronRecords
    <2>5. Alone(k)
      BY <2>1, <2>2, <2>4 DEF Alone, Active
    <2>6. \A r \in Reports : marked'[r] => marked[r] \/ r = cron[k].report
      BY <1>1, <2>1 DEF MarkDebriefCreated
    <2>7. cron[k].todo \subseteq Reports
      BY <2>2, ActiveRun DEF IInv
    <2> QED BY <2>4, <2>5, <2>6, <2>7 DEF IInv, ListUnmarked
  <1>8. CreateTrackingItem(k) => Mine
    BY <1>1, NextReportMoves
    DEF CreateTrackingItem, Idle, IInv, ListUnmarked, Alone, Active, reportVars
  <1>9. StopCron(k) => Mine
    BY <1>1 DEF StopCron, Alone, Active
  <1>10. Mine
    BY <1>3, <1>5, <1>6, <1>7, <1>8, <1>9 DEF CronStep
  <1> QED BY <1>2, <1>10 DEF ListUnmarked

LEMMA DebriefStaysMarked ==
  ASSUME IInv, NEW k \in Crons, CronStep(k) \/ StopCron(k)
  PROVE  DebriefMarked'
  <1>1. /\ cron \in [Crons -> {Idle} \cup CronRecords]
        /\ marked \in [Reports -> BOOLEAN]
        /\ debrief \in [Reports -> [Numbers -> {"none", "pending", "submitted"}]]
    BY DEF IInv, TypeOK, CronRecords
  <1>2. SUFFICES ASSUME ~Faults, NEW r \in Reports, Debriefs(r)' # {}
                 PROVE  marked'[r] \/ Marking(r)'
    BY DEF DebriefMarked
  <1>3. ASSUME NEW x \in Crons \ {k}, Active(x), cron[x].at = "mark", cron[x].report = r
        PROVE  Marking(r)'
    BY <1>3, BesideRuns DEF Marking
  <1>4. marked[r] => marked'[r]
    BY <1>1 DEF CronStep, ListPendingDebriefReports, CreateDebrief, DebriefNotCreated,
                MarkDebriefCreated, CreateTrackingItem, StopCron, reportVars
  <1>5. CASE /\ Debriefs(r) # {}
             /\ Active(k) => cron[k].at # "mark" \/ cron[k].report # r
    BY <1>2, <1>3, <1>4, <1>5 DEF IInv, DebriefMarked, Marking
  <1>6. CASE Active(k) /\ cron[k].at = "mark" /\ cron[k].report = r
    <2>1. MarkDebriefCreated(k)
      BY <1>2, <1>6 DEF CronStep, StopCron, ListPendingDebriefReports, CreateDebrief,
                        DebriefNotCreated, CreateTrackingItem, Active
    <2> QED BY <1>1, <1>2, <1>6, <2>1 DEF MarkDebriefCreated
  <1>7. CASE Debriefs(r) = {}
    <2>1. debrief' # debrief
      BY <1>2, <1>7 DEF Debriefs
    <2>2. CreateDebrief(k)
      BY <2>1 DEF CronStep, StopCron, ListPendingDebriefReports, DebriefNotCreated,
                  MarkDebriefCreated, CreateTrackingItem, debriefVars
    <2>3. cron[k].report = r
      BY <1>1, <1>2, <1>7, <2>2 DEF CreateDebrief, Debriefs
    <2>4. cron[k] \in CronRecords /\ cron[k] # Idle
      BY <1>1, <2>2 DEF CreateDebrief, Idle
    <2>5. cron'[k].at = "mark" /\ cron'[k].report = r
      BY <1>1, <2>2, <2>3, <2>4 DEF CreateDebrief, CronRecords
    <2> QED BY <2>5 DEF Marking, Active, Idle
  <1> QED BY <1>5, <1>6, <1>7

LEMMA IInvNext ==
  ASSUME IInv, [Next]_vars
  PROVE  IInv'
  <1>1. TypeOK'
    BY TypeNext DEF IInv
  <1>2. ASSUME NEW k \in Crons, CronStep(k) \/ StopCron(k)
        PROVE  IInv'
    BY <1>1, <1>2, BesideRuns, ListStaysUnmarked, DebriefStaysMarked DEF IInv
  <1>3. CASE \A k \in Crons : ~CronStep(k) /\ ~StopCron(k)
    <2>1. UNCHANGED <<marked, cron>> /\ \A r \in Reports : Debriefs(r)' = Debriefs(r)
      BY <1>3, QuietSteps DEF IInv
    <2>2. RunsAlone' /\ ListUnmarked'
      BY <2>1 DEF IInv, RunsAlone, ListUnmarked, Alone, Active
    <2>3. DebriefMarked'
      BY <2>1 DEF IInv, DebriefMarked, Marking, Active
    <2> QED BY <1>1, <2>2, <2>3 DEF IInv
  <1> QED BY <1>2, <1>3

(* A second debrief comes only from a run that overlapped another, or      *)
(* after an earlier run stopped or failed between debrief and mark         *)
(* (cron.go:78).                                                           *)
THEOREM SecondDebriefs == Spec => SecondDebriefOnlyBy
  <1>1. ASSUME IInv, [Next]_vars
        PROVE  [\A r \in Reports : Debriefs(r) # {} /\ Debriefs(r)' # Debriefs(r) =>
                  \E k \in Crons :
                    /\ cron[k] # Idle /\ cron'[k] # cron[k] /\ cron[k].report = r
                    /\ ~cron[k].overlap => Faults /\ ~marked[r]]_vars
    <2>1. SUFFICES ASSUME NEW r \in Reports, Debriefs(r) # {}, Debriefs(r)' # Debriefs(r)
                   PROVE  \E k \in Crons :
                            /\ cron[k] # Idle /\ cron'[k] # cron[k] /\ cron[k].report = r
                            /\ ~cron[k].overlap => Faults /\ ~marked[r]
      OBVIOUS
    <2>2. PICK k \in Crons : CronStep(k) \/ StopCron(k)
      BY <1>1, <2>1, QuietSteps DEF IInv
    <2>3. CreateDebrief(k)
      BY <2>1, <2>2 DEF CronStep, StopCron, ListPendingDebriefReports, DebriefNotCreated,
                        MarkDebriefCreated, CreateTrackingItem, debriefVars, Debriefs
    <2>4. /\ cron \in [Crons -> {Idle} \cup CronRecords]
          /\ debrief \in [Reports -> [Numbers -> {"none", "pending", "submitted"}]]
      BY <1>1 DEF IInv, TypeOK, CronRecords
    <2>5. cron[k].report = r
      BY <2>1, <2>3, <2>4 DEF CreateDebrief, Debriefs
    <2>6. cron[k] # Idle /\ cron[k].at = "create" /\ cron'[k] # cron[k]
      <3>1. cron[k].at = "create" /\ cron[k] # Idle /\ cron[k] \in CronRecords
        BY <2>3, <2>4 DEF CreateDebrief, Idle
      <3>2. cron'[k].at = "mark"
        BY <2>3, <2>4, <3>1 DEF CreateDebrief, CronRecords
      <3> QED BY <3>1, <3>2
    <2>7. ASSUME ~cron[k].overlap PROVE Faults /\ ~marked[r]
      <3>1. Alone(k)
        BY <2>6, <2>7 DEF Alone, Active
      <3>2. ~marked[r]
        BY <1>1, <2>5, <2>6, <3>1 DEF IInv, ListUnmarked
      <3>3. ~Marking(r)
        BY <1>1, <2>6, <3>1 DEF IInv, RunsAlone, Marking
      <3> QED BY <1>1, <2>1, <3>2, <3>3 DEF IInv, DebriefMarked
    <2> QED BY <2>5, <2>6, <2>7
  <1> QED BY <1>1, IInvInit, IInvNext, PTL DEF Spec, SecondDebriefOnlyBy

-----------------------------------------------------------------------------
(* The trips the cron finds.  Of the edits of a report that are running at *)
(* most one is not late.  While it runs, the countries stored and those it *)
(* has still to insert make up its plan once it has removed the old ones;  *)
(* when none runs the countries are those of the last edit accepted.  Both *)
(* hold unless that edit stopped half way or a late one wrote beside it.   *)

Current(e, r) == EditOf(e, r) /\ ~edit[e].late

PlanStored(r) ==
  /\ status[r] = "none" => legs[r] = {} /\ \A e \in Edits : ~EditOf(e, r)
  /\ \A e, x \in Edits : Current(e, r) /\ Current(x, r) => e = x
  /\ (\A e \in Edits : ~Current(e, r)) => torn[r] \/ legs[r] = plan[r]
  /\ \A e \in Edits : Current(e, r) =>
       IF edit[e].at = "delete" THEN plan[r] = edit[e].legs
       ELSE torn[r] \/ plan[r] = legs[r] \cup edit[e].legs

PlanInv == TypeOK /\ \A r \in Reports : PlanStored(r)

LEMMA PlanInit == ASSUME Init PROVE PlanInv
  <1>1. \A e \in Edits, r \in Reports : ~EditOf(e, r)
    BY DEF Init, EditOf
  <1> QED BY <1>1, TypeInit DEF Init, PlanInv, PlanStored, Current

(* An edit e of report q takes a step and is then as the last conjuncts    *)
(* say; the other edits go on as they were.                                *)
LEMMA OneEditMoves ==
  ASSUME PlanInv, NEW e \in Edits, NEW q \in Reports, EditOf(e, q),
         NEW v, edit' = [edit EXCEPT ![e] = v], UNCHANGED <<status, plan>>,
         NEW rest \in SUBSET edit[e].legs,
         \/ v = Idle /\ rest = {}
         \/ /\ v # Idle /\ v.report = q /\ v.late = edit[e].late
            /\ v.at = "insert" /\ v.legs = rest,
         \A r \in Reports \ {q} : legs'[r] = legs[r] /\ torn'[r] = torn[r],
         \/ torn'[q]
         \/ edit[e].late /\ torn'[q] = torn[q] /\ legs'[q] = legs[q]
         \/ /\ ~edit[e].late /\ edit[e].at = "delete"
            /\ plan[q] = edit[e].legs => plan[q] = legs'[q] \cup rest
         \/ /\ ~edit[e].late /\ edit[e].at = "insert" /\ torn'[q] = torn[q]
            /\ plan[q] = legs[q] \cup edit[e].legs => plan[q] = legs'[q] \cup rest
  PROVE  \A r \in Reports : PlanStored(r)'
  <1> USE DEF EditOf, Current
  <1>1. /\ edit'[e] = v /\ \A x \in Edits \ {e} : edit'[x] = edit[x]
        /\ edit[e] # Idle /\ edit[e].report = q
        /\ \A r \in Reports : PlanStored(r) /\ torn[r] \in BOOLEAN
    BY DEF PlanInv, TypeOK, EditOf
  <1>2. /\ \A x \in Edits \ {e}, r \in Reports : /\ EditOf(x, r)' <=> EditOf(x, r)
                                                /\ Current(x, r)' <=> Current(x, r)
        /\ \A r \in Reports : /\ EditOf(e, r)' => r = q
                              /\ Current(e, r)' => Current(e, r)
    BY <1>1 DEF EditOf, Current
  <1>3. \A r \in Reports \ {q} : ~EditOf(e, r) /\ ~Current(e, r)
    BY <1>1 DEF EditOf, Current
  <1>4. ASSUME NEW r \in Reports \ {q} PROVE PlanStored(r)'
    <2>1. \A x \in Edits : /\ EditOf(x, r)' <=> EditOf(x, r)
                           /\ Current(x, r)' <=> Current(x, r)
                           /\ Current(x, r) => edit'[x] = edit[x]
      BY <1>1, <1>2, <1>3
    <2> QED BY <1>1, <2>1 DEF PlanStored
  <1>5. PlanStored(q)'
    <2>1. status[q] # "none" /\ PlanStored(q)
      BY <1>1 DEF PlanStored
    <2>2. \A x, y \in Edits : Current(x, q)' /\ Current(y, q)' => x = y
      BY <1>2, <2>1 DEF PlanStored
    <2>3. CASE edit[e].late
      <3>1. ~Current(e, q) /\ ~Current(e, q)'
        BY <1>1, <1>2, <2>3 DEF Current
      <3>2. \A x \in Edits : Current(x, q)' <=> Current(x, q)
        BY <1>2, <3>1
      <3>3. \A x \in Edits : Current(x, q) => edit'[x] = edit[x]
        BY <1>1, <3>1
      <3>4. torn'[q] \/ (torn'[q] = torn[q] /\ legs'[q] = legs[q])
        BY <1>1, <2>3
      <3> QED BY <2>1, <2>2, <3>2, <3>3, <3>4 DEF PlanStored
    <2>4. CASE ~edit[e].late
      <3>1. Current(e, q)
        BY <2>4 DEF Current
      <3>2. \A x \in Edits \ {e} : ~Current(x, q) /\ ~Current(x, q)'
        BY <1>2, <2>1, <3>1 DEF PlanStored
      <3>3. torn'[q] \/ plan[q] = legs'[q] \cup rest
        BY <2>1, <2>4, <3>1 DEF PlanStored
      <3>4. CASE v = Idle
        <4>1. \A x \in Edits : ~Current(x, q)'
          BY <1>1, <3>2, <3>4
        <4>2. torn'[q] \/ legs'[q] = plan'[q]
          <5>1. rest = {}
            BY <3>4
          <5> QED BY <3>3, <5>1
        <4> QED BY <2>1, <2>2, <4>1, <4>2 DEF PlanStored
      <3>5. CASE v # Idle
        <4>1. edit'[e].at = "insert" /\ edit'[e].legs = rest /\ Current(e, q)'
          BY <1>1, <2>4, <3>5 DEF Current, EditOf
        <4> QED BY <1>1, <2>1, <2>2, <3>2, <3>3, <4>1 DEF PlanStored
      <3> QED BY <3>4, <3>5
    <2> QED BY <2>3, <2>4
  <1> QED BY <1>4, <1>5

LEMMA EditStores ==
  ASSUME PlanInv, NEW e \in Edits, EditStep(e) \/ AbandonEdit(e)
  PROVE  \A r \in Reports : PlanStored(r)'
  <1> DEFINE q == edit[e].report
  <1>1. edit[e] # Idle
    BY DEF EditStep, DeleteCountries, InsertCountry, AbandonEdit, Idle
  <1>2. /\ TypeOK /\ q \in Reports /\ EditOf(e, q)
        /\ edit[e].legs \in Legs /\ edit[e].late \in BOOLEAN
    BY <1>1, ActiveEdit DEF PlanInv, EditOf
  <1>3. legs \in [Reports -> Legs] /\ torn \in [Reports -> BOOLEAN]
    BY <1>2 DEF TypeOK
  <1>4. ASSUME NEW rest \in SUBSET edit[e].legs
        PROVE  \/ Inserting(q, rest, edit[e].late) = Idle /\ rest = {}
               \/ /\ Inserting(q, rest, edit[e].late) # Idle
                  /\ Inserting(q, rest, edit[e].late).report = q
                  /\ Inserting(q, rest, edit[e].late).late = edit[e].late
                  /\ Inserting(q, rest, edit[e].late).at = "insert"
                  /\ Inserting(q, rest, edit[e].late).legs = rest
    <2>1. rest \in Legs
      BY <1>2 DEF Legs
    <2> QED BY <1>2, <2>1, EditShapes
  <1>5. CASE DeleteCountries(e)
    <2>1. /\ edit' = [edit EXCEPT ![e] = Inserting(q, edit[e].legs, edit[e].late)]
          /\ UNCHANGED <<status, plan>> /\ edit[e].at = "delete"
          /\ legs'[q] = {} /\ torn'[q] = edit[e].late
          /\ \A r \in Reports \ {q} : legs'[r] = legs[r] /\ torn'[r] = torn[r]
      BY <1>2, <1>3, <1>5 DEF DeleteCountries
    <2> DEFINE v == Inserting(q, edit[e].legs, edit[e].late)
               rest == edit[e].legs
    <2>2. \/ v = Idle /\ rest = {}
          \/ /\ v # Idle /\ v.report = q /\ v.late = edit[e].late
             /\ v.at = "insert" /\ v.legs = rest
      BY <1>4
    <2>3. \/ torn'[q]
          \/ /\ ~edit[e].late /\ edit[e].at = "delete"
             /\ plan[q] = edit[e].legs => plan[q] = legs'[q] \cup rest
      BY <1>2, <2>1
    <2>4. /\ rest \in SUBSET edit[e].legs
          /\ edit' = [edit EXCEPT ![e] = v] /\ UNCHANGED <<status, plan>>
          /\ \A r \in Reports \ {q} : legs'[r] = legs[r] /\ torn'[r] = torn[r]
      BY <2>1
    <2> HIDE DEF q, v, rest
    <2> QED BY <1>2, <2>2, <2>3, <2>4, OneEditMoves
  <1>6. CASE InsertCountry(e)
    <2>1. PICK l \in edit[e].legs :
            /\ legs' = [legs EXCEPT ![q] = @ \cup {l}]
            /\ edit' = [edit EXCEPT ![e] = Inserting(q, edit[e].legs \ {l}, edit[e].late)]
      BY <1>6 DEF InsertCountry
    <2>2. /\ UNCHANGED <<status, plan>> /\ edit[e].at = "insert"
          /\ legs'[q] = legs[q] \cup {l} /\ torn'[q] = (torn[q] \/ edit[e].late)
          /\ \A r \in Reports \ {q} : legs'[r] = legs[r] /\ torn'[r] = torn[r]
      BY <1>2, <1>3, <1>6, <2>1 DEF InsertCountry
    <2>3. legs'[q] \cup (edit[e].legs \ {l}) = legs[q] \cup edit[e].legs
      BY <2>2
    <2> DEFINE rest == edit[e].legs \ {l}
               v == Inserting(q, rest, edit[e].late)
    <2>4. \/ v = Idle /\ rest = {}
          \/ /\ v # Idle /\ v.report = q /\ v.late = edit[e].late
             /\ v.at = "insert" /\ v.legs = rest
      BY <1>4
    <2>5. \/ torn'[q]
          \/ /\ ~edit[e].late /\ edit[e].at = "insert" /\ torn'[q] = torn[q]
             /\ plan[q] = legs[q] \cup edit[e].legs => plan[q] = legs'[q] \cup rest
      BY <1>2, <1>3, <2>2, <2>3
    <2>6. rest \in SUBSET edit[e].legs /\ edit' = [edit EXCEPT ![e] = v]
      BY <2>1
    <2> HIDE DEF q, v, rest
    <2> QED BY <1>2, <2>2, <2>4, <2>5, <2>6, OneEditMoves
  <1>7. CASE AbandonEdit(e)
    <2>1. /\ edit' = [edit EXCEPT ![e] = Idle] /\ UNCHANGED <<status, plan, legs>>
          /\ torn'[q] = (torn[q] \/ ~edit[e].late)
          /\ \A r \in Reports \ {q} : torn'[r] = torn[r]
      BY <1>2, <1>3, <1>7 DEF AbandonEdit
    <2> DEFINE v == Idle
               rest == {}
    <2>2. v = Idle /\ rest = {} /\ rest \in SUBSET edit[e].legs
      OBVIOUS
    <2>3. \/ torn'[q]
          \/ edit[e].late /\ torn'[q] = torn[q] /\ legs'[q] = legs[q]
      BY <1>2, <1>3, <2>1
    <2>4. /\ edit' = [edit EXCEPT ![e] = v] /\ UNCHANGED <<status, plan>>
          /\ \A r \in Reports \ {q} : legs'[r] = legs[r] /\ torn'[r] = torn[r]
      BY <2>1
    <2> HIDE DEF q, v, rest
    <2> QED BY <1>2, <2>2, <2>3, <2>4, OneEditMoves
  <1> QED BY <1>5, <1>6, <1>7 DEF EditStep

(* A report appears, or an update of a draft is accepted: the new edit is  *)
(* the one that is not late.                                               *)
LEMMA EditBegins ==
  ASSUME PlanInv, NEW e \in Edits, NEW q \in Reports, NEW p \in Plans,
         CreateReport(e, q, p) \/ UpdateReport(e, q, p)
  PROVE  \A r \in Reports : PlanStored(r)'
  <1>1. /\ TypeOK /\ edit \in [Edits -> {Idle} \cup EditRecords] /\ p \in Legs
        /\ legs \in [Reports -> Legs] /\ plan \in [Reports -> Legs]
        /\ torn \in [Reports -> BOOLEAN] /\ edit[e] = Idle
        /\ status \in [Reports -> ReportStatuses \cup {"none"}]
        /\ \A r \in Reports : PlanStored(r)
    BY EditShapes, PlansAssumption DEF PlanInv, CreateReport, UpdateReport
  <1>2. CASE CreateReport(e, q, p)
    <2>1. /\ edit'[e] = Inserting(q, p, FALSE) /\ \A x \in Edits \ {e} : edit'[x] = edit[x]
          /\ UNCHANGED <<legs, torn>> /\ plan'[q] = p /\ status'[q] = "draft"
          /\ legs[q] = {} /\ \A x \in Edits : ~EditOf(x, q)
          /\ \A r \in Reports \ {q} : status'[r] = status[r] /\ plan'[r] = plan[r]
      BY <1>1, <1>2 DEF CreateReport, PlanStored
    <2>2. \A x \in Edits \ {e}, r \in Reports : /\ EditOf(x, r)' <=> EditOf(x, r)
                                                /\ Current(x, r)' <=> Current(x, r)
      BY <2>1 DEF EditOf, Current
    <2>3. \/ edit'[e] = Idle /\ p = {}
          \/ /\ edit'[e] # Idle /\ edit'[e].report = q /\ ~edit'[e].late
             /\ edit'[e].at = "insert" /\ edit'[e].legs = p
      <3>1. CASE p = {}
        BY <2>1, <3>1 DEF Inserting
      <3>2. CASE p # {}
        <4>1. edit'[e] = [at |-> "insert", report |-> q, legs |-> p, late |-> FALSE]
          BY <2>1, <3>2 DEF Inserting
        <4> QED BY <4>1 DEF Idle
      <3> QED BY <3>1, <3>2
    <2>4. ASSUME NEW r \in Reports \ {q} PROVE PlanStored(r)'
      <3>1. ~EditOf(e, r)' /\ ~EditOf(e, r)
        BY <1>1, <2>3 DEF EditOf
      <3>2. \A x \in Edits : /\ EditOf(x, r)' <=> EditOf(x, r)
                             /\ Current(x, r)' <=> Current(x, r)
                             /\ Current(x, r) => edit'[x] = edit[x]
        BY <2>1, <2>2, <3>1 DEF Current
      <3> QED BY <1>1, <2>1, <3>2 DEF PlanStored
    <2>5. PlanStored(q)'
      <3>1. \A x \in Edits \ {e} : ~Current(x, q)'
        BY <2>1, <2>2 DEF Current
      <3> QED BY <2>1, <2>3, <3>1 DEF PlanStored, Current, EditOf
    <2> QED BY <2>4, <2>5
  <1>3. CASE UpdateReport(e, q, p)
    <2> DEFINE new == [at |-> "delete", report |-> q, legs |-> p, late |-> FALSE]
    <2>1. /\ edit' = [x \in Edits |->
                        IF x = e THEN new
                        ELSE IF EditOf(x, q) THEN [edit[x] EXCEPT !.late = TRUE] ELSE edit[x]]
          /\ UNCHANGED <<legs, status>> /\ plan'[q] = p /\ status[q] = "draft"
          /\ \A r \in Reports \ {q} : torn'[r] = torn[r] /\ plan'[r] = plan[r]
      BY <1>1, <1>3 DEF UpdateReport
    <2>2. new # Idle /\ new.at = "delete" /\ new.report = q /\ new.legs = p /\ ~new.late
      BY DEF Idle
    <2> HIDE DEF new
    <2>3. edit'[e] = new
      BY <2>1
    <2>4. \A x \in Edits \ {e} :
             edit'[x] = IF EditOf(x, q) THEN [edit[x] EXCEPT !.late = TRUE] ELSE edit[x]
      BY <2>1
    <2>5. \A x \in Edits \ {e} : ~Current(x, q)'
      <3>1. ASSUME NEW x \in Edits \ {e}, EditOf(x, q) PROVE ~Current(x, q)'
        BY <1>1, <2>4, <3>1, ActiveEdit DEF EditOf, Current
      <3>2. ASSUME NEW x \in Edits \ {e}, ~EditOf(x, q) PROVE ~Current(x, q)'
        BY <2>4, <3>2 DEF EditOf, Current
      <3> QED BY <3>1, <3>2
    <2>6. ASSUME NEW r \in Reports \ {q} PROVE PlanStored(r)'
      <3>1. ~EditOf(e, r)' /\ ~EditOf(e, r)
        BY <1>1, <2>2, <2>3 DEF EditOf
      <3>2. \A x \in Edits \ {e} : EditOf(x, q) => ~EditOf(x, r) /\ ~EditOf(x, r)'
        BY <1>1, <2>4, ActiveEdit DEF EditOf
      <3>3. \A x \in Edits : /\ EditOf(x, r)' <=> EditOf(x, r)
                             /\ EditOf(x, r) => edit'[x] = edit[x]
        BY <2>4, <3>1, <3>2 DEF EditOf
      <3>4. \A x \in Edits : /\ Current(x, r)' <=> Current(x, r)
                             /\ Current(x, r) => edit'[x] = edit[x]
        BY <3>3 DEF Current
      <3> QED BY <1>1, <2>1, <3>3, <3>4 DEF PlanStored
    <2>7. PlanStored(q)'
      <3>1. Current(e, q)' /\ edit'[e].at = "delete" /\ plan'[q] = edit'[e].legs
        BY <2>1, <2>2, <2>3 DEF Current, EditOf
      <3> QED BY <2>1, <2>5, <3>1 DEF PlanStored
    <2> QED BY <2>6, <2>7
  <1> QED BY <1>2, <1>3

LEMMA PlanNext ==
  ASSUME PlanInv, [Next]_vars
  PROVE  PlanInv'
  <1>1. TypeOK'
    BY TypeNext DEF PlanInv
  <1>2. ASSUME NEW e \in Edits,
               \/ \E r \in Reports, p \in Plans : CreateReport(e, r, p) \/ UpdateReport(e, r, p)
               \/ EditStep(e) \/ AbandonEdit(e)
        PROVE  \A x \in Reports : PlanStored(x)'
    BY <1>2, EditStores, EditBegins
  <1>3. ASSUME NEW r \in Reports,
               \/ SubmitReport(r) \/ MarkUnderReview(r)
               \/ \E s \in ReportStatuses : UpdateStatus(r, s)
        PROVE  \A x \in Reports : PlanStored(x)'
    <2>1. /\ UNCHANGED <<legs, plan, torn, edit>>
          /\ \A x \in Reports : status'[x] = "none" => status[x] = "none"
      BY <1>3 DEF SubmitReport, MarkUnderReview, UpdateStatus, PlanInv, TypeOK
    <2> QED BY <2>1 DEF PlanInv, PlanStored, Current, EditOf
  <1>4. ASSUME UNCHANGED reportVars \/ UNCHANGED <<status, legs, plan, torn, edit>>
        PROVE  \A x \in Reports : PlanStored(x)'
    BY <1>4 DEF PlanInv, PlanStored, Current, EditOf, reportVars
  <1>5. ASSUME NEW k \in Crons, CronStep(k) \/ StopCron(k)
        PROVE  UNCHANGED <<status, legs, plan, torn, edit>>
    BY <1>5 DEF CronStep, ListPendingDebriefReports, CreateDebrief, DebriefNotCreated,
                MarkDebriefCreated, CreateTrackingItem, StopCron, reportVars
  <1>6. ASSUME NEW r \in Reports, NEW n \in Numbers,
               \/ SubmitDebrief(r, n) \/ AnswerStep(r, n) \/ AbandonAnswer(r, n)
               \/ \E kind \in {"track", "process"}, s \in ItemStates : UpdateItem(r, n, kind, s)
        PROVE  UNCHANGED reportVars
    BY <1>6 DEF SubmitDebrief, AnswerStep, ResolveBySource, CreateProcessItem, AbandonAnswer,
                UpdateItem
  <1>7. ASSUME Midnight \/ UNCHANGED vars
        PROVE  UNCHANGED reportVars
    BY <1>7 DEF Midnight, vars, reportVars
  <1> QED BY <1>1, <1>2, <1>3, <1>4, <1>5, <1>6, <1>7 DEF Next, PlanInv

(* The cron takes up a report only when the whole trip of the edit that    *)
(* was accepted last is over, unless that edit is at work on the countries *)
(* or stopped half way, or one it overtook wrote beside it                 *)
(* (travel/store.go, Update; travel/debrief.go, the pending reports).      *)
THEOREM TripsOver == Spec => ListedTripsAreOver
  <1>1. ASSUME PlanInv, [Next]_vars
        PROVE  [\A k \in Crons : cron[k] = Idle /\ cron'[k] # Idle =>
                  \A r \in cron'[k].todo :
                    \/ TripOver(plan[r])
                    \/ \E e \in Edits : EditOf(e, r) /\ ~edit[e].late
                    \/ torn[r]]_vars
    <2>1. SUFFICES ASSUME NEW k \in Crons, cron[k] = Idle, cron'[k] # Idle,
                          NEW r \in cron'[k].todo
                   PROVE  \/ TripOver(plan[r])
                          \/ \E e \in Edits : EditOf(e, r) /\ ~edit[e].late
                          \/ torn[r]
      OBVIOUS
    <2>2. TypeOK /\ cron \in [Crons -> {Idle} \cup CronRecords]
      BY <1>1 DEF PlanInv, TypeOK, CronRecords
    <2>3. PICK x \in Crons : CronStep(x) \/ StopCron(x)
      BY <1>1, <2>1, <2>2, QuietSteps
    <2>4. ASSUME x # k \/ ~ListPendingDebriefReports(k)
          PROVE  FALSE
      <3>1. CASE ListPendingDebriefReports(x) /\ x # k
        BY <2>1, <2>2, <3>1 DEF ListPendingDebriefReports
      <3>2. CASE ~ListPendingDebriefReports(x)
        <4>1. cron[x].at \in {"create", "mark", "item"} \/ cron[x] # Idle
          BY <2>3, <3>2 DEF CronStep, CreateDebrief, DebriefNotCreated, MarkDebriefCreated,
                            CreateTrackingItem, StopCron
        <4>2. cron[x] # Idle
          BY <4>1 DEF Idle
        <4>3. CASE NextReport(x)
          BY <2>1, <2>2, <4>2, <4>3, NextReportMoves
        <4>4. CASE \E q : cron' = [cron EXCEPT ![x] = q]
          BY <2>1, <2>2, <4>2, <4>4
        <4> QED BY <2>1, <2>2, <2>3, <3>2, <4>2, <4>3, <4>4
                DEF CronStep, CreateDebrief, DebriefNotCreated, MarkDebriefCreated,
                    CreateTrackingItem, StopCron
      <3> QED BY <2>4, <3>1, <3>2
    <2>5. ListPendingDebriefReports(k)
      BY <2>4
    <2>6. r \in Reports /\ TripOver(legs[r])
      BY <2>1, <2>5 DEF ListPendingDebriefReports, PendingDebrief
    <2>7. CASE ~torn[r] /\ \A e \in Edits : ~(EditOf(e, r) /\ ~edit[e].late)
      BY <1>1, <2>6, <2>7 DEF PlanInv, PlanStored, Current
    <2> QED BY <2>7
  <1> QED BY <1>1, PlanInit, PlanNext, PTL DEF Spec, ListedTripsAreOver

-----------------------------------------------------------------------------
(* The board and the answers.  A debrief is answered once, and the item    *)
(* that shows the answers is created by the last statement of the request  *)
(* that stored them: none is there for the statement before it to close.   *)

AnsweredOnce ==
  \A r \in Reports, n \in Numbers :
    /\ answer[r][n] = "none" <=> debrief[r][n] # "submitted"
    /\ item[r][n].process # "none" => answer[r][n] = "done"

BoardInv == TypeOK /\ AnsweredOnce

LEMMA BoardInit == ASSUME Init PROVE BoardInv
  BY TypeInit DEF Init, BoardInv, AnsweredOnce

(* What one debrief of one report can meet in a step: its answer arriving, *)
(* its two statements, the end of its request, the board and the cron.     *)
Untouched(r, n) ==
  /\ answer'[r][n] = answer[r][n] /\ item'[r][n] = item[r][n]
  /\ debrief'[r][n] = "submitted" <=> debrief[r][n] = "submitted"

Answered(r, n) ==
  /\ debrief[r][n] = "pending" /\ debrief'[r][n] = "submitted"
  /\ answer'[r][n] = "resolve" /\ item'[r][n] = item[r][n]

Closed(r, n) ==
  /\ answer[r][n] = "resolve" /\ answer'[r][n] = "item" /\ debrief'[r][n] = debrief[r][n]
  /\ \/ Faults /\ item'[r][n] = item[r][n]
     \/ /\ item'[r][n].track = Resolved(item[r][n].track)
        /\ item'[r][n].process = Resolved(item[r][n].process)

Shown(r, n) ==
  /\ answer[r][n] = "item" /\ answer'[r][n] = "done" /\ debrief'[r][n] = debrief[r][n]
  /\ item'[r][n].track = item[r][n].track
  /\ item'[r][n].process \in {item[r][n].process, "open"}

Ended(r, n) ==
  /\ Faults /\ answer[r][n] \in {"resolve", "item"} /\ answer'[r][n] = "done"
  /\ debrief'[r][n] = debrief[r][n] /\ item'[r][n] = item[r][n]

Set(r, n) ==
  /\ answer' = answer /\ debrief'[r][n] = debrief[r][n]
  /\ item[r][n].track = "none" => item'[r][n].track = "none"
  /\ item[r][n].process = "none" => item'[r][n].process = "none"

Tracked(r, n) ==
  /\ answer' = answer /\ debrief'[r][n] = debrief[r][n]
  /\ item'[r][n].process = item[r][n].process
  /\ \E k \in Crons : /\ cron[k].at = "item" /\ cron'[k] # cron[k]
                      /\ cron[k].report = r /\ cron[k].number = n

LEMMA AnswerMoves ==
  ASSUME TypeOK, NEW q \in Reports, NEW m \in Numbers,
         \/ SubmitDebrief(q, m) \/ AnswerStep(q, m) \/ AbandonAnswer(q, m)
         \/ \E kind \in {"track", "process"}, s \in ItemStates : UpdateItem(q, m, kind, s),
         NEW r \in Reports, NEW n \in Numbers
  PROVE  \/ Untouched(r, n) \/ Answered(r, n) \/ Closed(r, n) \/ Shown(r, n)
         \/ Ended(r, n) \/ Set(r, n)
  <1>1. /\ item \in [Reports -> [Numbers -> ItemRecords]]
        /\ answer \in [Reports -> [Numbers -> {"none", "resolve", "item", "done"}]]
        /\ debrief \in [Reports -> [Numbers -> {"none", "pending", "submitted"}]]
    BY DEF TypeOK, ItemRecords
  <1>2. CASE q # r \/ m # n
    <2>1. /\ answer'[r][n] = answer[r][n] /\ item'[r][n] = item[r][n]
          /\ debrief'[r][n] = debrief[r][n]
      BY <1>1, <1>2 DEF SubmitDebrief, AnswerStep, ResolveBySource, CreateProcessItem,
                        AbandonAnswer, UpdateItem
    <2> QED BY <2>1 DEF Untouched
  <1>3. CASE q = r /\ m = n
    <2>1. item[r][n] \in ItemRecords
      BY <1>1
    <2>2. ASSUME SubmitDebrief(r, n) PROVE Answered(r, n)
      BY <1>1, <2>2 DEF SubmitDebrief, Answered
    <2>3. ASSUME ResolveBySource(r, n) PROVE Closed(r, n)
      BY <1>1, <2>3 DEF ResolveBySource, Closed
    <2>4. ASSUME CreateProcessItem(r, n) PROVE Shown(r, n)
      <3>1. [item[r][n] EXCEPT !.process = "open"].process = "open"
            /\ [item[r][n] EXCEPT !.process = "open"].track = item[r][n].track
        BY <2>1 DEF ItemRecords
      <3>2. item'[r][n] \in {item[r][n], [item[r][n] EXCEPT !.process = "open"]}
        BY <1>1, <2>4 DEF CreateProcessItem
      <3> QED BY <1>1, <2>4, <3>1, <3>2 DEF CreateProcessItem, Shown
    <2>5. ASSUME AbandonAnswer(r, n) PROVE Ended(r, n)
      BY <1>1, <2>5 DEF AbandonAnswer, Ended
    <2>6. ASSUME NEW kind \in {"track", "process"}, NEW s \in ItemStates,
                 UpdateItem(r, n, kind, s)
          PROVE  Set(r, n)
      <3>1. item'[r][n] = [item[r][n] EXCEPT ![kind] = s] /\ item[r][n][kind] # "none"
        BY <1>1, <2>6 DEF UpdateItem
      <3>2. CASE kind = "track"
        BY <2>1, <2>6, <3>1, <3>2 DEF UpdateItem, Set, ItemRecords
      <3>3. CASE kind = "process"
        BY <2>1, <2>6, <3>1, <3>3 DEF UpdateItem, Set, ItemRecords
      <3> QED BY <3>2, <3>3
    <2> QED BY <1>3, <2>2, <2>3, <2>4, <2>5, <2>6 DEF AnswerStep
  <1> QED BY <1>2, <1>3

LEMMA CronMoves ==
  ASSUME TypeOK, NEW k \in Crons, CronStep(k) \/ StopCron(k),
         NEW r \in Reports, NEW n \in Numbers
  PROVE  Untouched(r, n) \/ Tracked(r, n)
  <1>1. /\ item \in [Reports -> [Numbers -> ItemRecords]]
        /\ debrief \in [Reports -> [Numbers -> {"none", "pending", "submitted"}]]
    BY DEF TypeOK, ItemRecords
  <1>2. answer' = answer
    BY DEF CronStep, ListPendingDebriefReports, CreateDebrief, DebriefNotCreated,
           MarkDebriefCreated, CreateTrackingItem, StopCron, debriefVars
  <1>3. CASE CreateTrackingItem(k)
    <2>1. debrief' = debrief /\ cron[k].at = "item" /\ cron[k] # Idle /\ NextReport(k)
      BY <1>3 DEF CreateTrackingItem, Idle
    <2>2. CASE item' = item
      BY <1>2, <2>1, <2>2 DEF Untouched
    <2>3. CASE item' = [item EXCEPT ![cron[k].report][cron[k].number].track = "open"]
      <3>1. CASE cron[k].report = r /\ cron[k].number = n
        <4>1. item'[r][n] = [item[r][n] EXCEPT !.track = "open"] /\ item[r][n] \in ItemRecords
          BY <1>1, <2>3, <3>1
        <4>2. item'[r][n].process = item[r][n].process
          BY <4>1 DEF ItemRecords
        <4>3. cron'[k] # cron[k]
          BY <2>1, NextReportMoves DEF Idle
        <4> QED BY <1>2, <2>1, <3>1, <4>2, <4>3 DEF Tracked
      <3>2. CASE ~(cron[k].report = r /\ cron[k].number = n)
        <4>1. item'[r][n] = item[r][n]
          BY <1>1, <2>3, <3>2
        <4> QED BY <1>2, <2>1, <4>1 DEF Untouched
      <3> QED BY <3>1, <3>2
    <2> QED BY <1>3, <2>2, <2>3 DEF CreateTrackingItem
  <1>4. CASE ~CreateTrackingItem(k)
    <2>1. item' = item
      BY <1>4 DEF CronStep, ListPendingDebriefReports, CreateDebrief, DebriefNotCreated,
                  MarkDebriefCreated, StopCron, debriefVars
    <2>2. debrief'[r][n] = "submitted" <=> debrief[r][n] = "submitted"
      <3>1. CASE CreateDebrief(k)
        <4>1. PICK m \in Numbers :
                /\ \A j \in Numbers : debrief[cron[k].report][j] = "none" <=> j >= m
                /\ debrief' = [debrief EXCEPT ![cron[k].report][m] = "pending"]
          BY <3>1 DEF CreateDebrief
        <4>2. debrief[cron[k].report][m] = "none"
          BY <4>1 DEF Numbers
        <4> QED BY <1>1, <4>1, <4>2
      <3>2. CASE ~CreateDebrief(k)
        BY <1>4, <3>2 DEF CronStep, ListPendingDebriefReports, DebriefNotCreated,
                          MarkDebriefCreated, StopCron, debriefVars
      <3> QED BY <3>1, <3>2
    <2> QED BY <1>2, <2>1, <2>2 DEF Untouched
  <1> QED BY <1>3, <1>4

LEMMA BoardMoves ==
  ASSUME TypeOK, [Next]_vars, NEW r \in Reports, NEW n \in Numbers
  PROVE  \/ Untouched(r, n) \/ Answered(r, n) \/ Closed(r, n) \/ Shown(r, n)
         \/ Ended(r, n) \/ Set(r, n) \/ Tracked(r, n)
  <1>1. ASSUME UNCHANGED debriefVars PROVE Untouched(r, n)
    BY <1>1 DEF debriefVars, Untouched
  <1>2. ASSUME NEW q \in Reports,
               \/ \E e \in Edits, p \in Plans : CreateReport(e, q, p) \/ UpdateReport(e, q, p)
               \/ SubmitReport(q) \/ MarkUnderReview(q)
               \/ \E s \in ReportStatuses : UpdateStatus(q, s)
        PROVE  UNCHANGED debriefVars
    BY <1>2 DEF CreateReport, UpdateReport, SubmitReport, MarkUnderReview, UpdateStatus
  <1>3. ASSUME NEW e \in Edits, EditStep(e) \/ AbandonEdit(e) PROVE UNCHANGED debriefVars
    BY <1>3 DEF EditStep, DeleteCountries, InsertCountry, AbandonEdit
  <1>4. ASSUME Midnight \/ UNCHANGED vars PROVE UNCHANGED debriefVars
    BY <1>4 DEF Midnight, vars, debriefVars
  <1> QED BY <1>1, <1>2, <1>3, <1>4, AnswerMoves, CronMoves DEF Next

LEMMA BoardNext ==
  ASSUME BoardInv, [Next]_vars
  PROVE  BoardInv'
  <1>1. TypeOK /\ TypeOK'
    BY TypeNext DEF BoardInv
  <1>2. ASSUME NEW r \in Reports, NEW n \in Numbers
        PROVE  /\ answer'[r][n] = "none" <=> debrief'[r][n] # "submitted"
               /\ item'[r][n].process # "none" => answer'[r][n] = "done"
    <2>1. /\ answer[r][n] = "none" <=> debrief[r][n] # "submitted"
          /\ item[r][n].process # "none" => answer[r][n] = "done"
      BY DEF BoardInv, AnsweredOnce
    <2> QED BY <1>1, <2>1, BoardMoves
            DEF Untouched, Answered, Closed, Shown, Ended, Set, Tracked, Resolved
  <1> QED BY <1>1, <1>2 DEF BoardInv, AnsweredOnce

(* The item that awaits a debrief's answer outlives the answer only when   *)
(* the cron creates it late, when closing it failed or was not reached, or *)
(* when it is reopened; and closing it never closes the item that shows    *)
(* the answers (travel/handler.go, SubmitDebrief).                         *)
THEOREM BoardFollows == Spec => BoardFollowsAnswer
  <1>1. ASSUME BoardInv, [Next]_vars
        PROVE  [\A r \in Reports, n \in Numbers :
                  /\ TrackingSettled(r, n) /\ ~TrackingSettled(r, n)' =>
                       \/ \E k \in Crons : /\ cron[k].at = "item" /\ cron'[k] # cron[k]
                                           /\ cron[k].report = r /\ cron[k].number = n
                       \/ answer[r][n] = "resolve" /\ Faults
                       \/ item[r][n].track = "closed"
                  /\ item[r][n].process = "open" /\ item'[r][n].process = "closed" =>
                       answer' = answer]_vars
    <2>1. SUFFICES ASSUME NEW r \in Reports, NEW n \in Numbers
                   PROVE
                  /\ TrackingSettled(r, n) /\ ~TrackingSettled(r, n)' =>
                       \/ \E k \in Crons : /\ cron[k].at = "item" /\ cron'[k] # cron[k]
                                           /\ cron[k].report = r /\ cron[k].number = n
                       \/ answer[r][n] = "resolve" /\ Faults
                       \/ item[r][n].track = "closed"
                  /\ item[r][n].process = "open" /\ item'[r][n].process = "closed" =>
                       answer' = answer
      OBVIOUS
    <2>2. /\ item[r][n] \in ItemRecords /\ item[r][n].track \in {"none", "open", "closed"}
          /\ item[r][n].process # "none" => answer[r][n] = "done"
      BY <1>1 DEF BoardInv, TypeOK, AnsweredOnce, ItemRecords, ItemStates
    <2>3. CASE Untouched(r, n)
      BY <2>3 DEF Untouched, TrackingSettled
    <2>4. CASE Answered(r, n) \/ Ended(r, n) \/ Shown(r, n)
      BY <2>2, <2>4 DEF Answered, Ended, Shown, TrackingSettled
    <2>5. CASE Closed(r, n)
      BY <2>2, <2>5 DEF Closed, TrackingSettled, Resolved
    <2>6. CASE Set(r, n) \/ Tracked(r, n)
      BY <2>2, <2>6 DEF Set, Tracked, TrackingSettled
    <2> QED BY <1>1, <2>3, <2>4, <2>5, <2>6, BoardMoves DEF BoardInv
  <1> QED BY <1>1, BoardInit, BoardNext, PTL DEF Spec, BoardFollowsAnswer
=============================================================================
