---------------------------- MODULE Visits_proofs ----------------------------
(***************************************************************************)
(* Proofs about Board, the status of a visit request or report and of its  *)
(* item on the FSO's board, and about Contracts, the contract a visit is   *)
(* made under: for any requests and forms, whatever the visit asks for and *)
(* whether or not requests stop half way.                                  *)
(***************************************************************************)
EXTENDS Board, Contracts, TLAPS

AllStatuses == UNION {Statuses[k] : k \in Kinds}
BoardRequests ==
  [op : {"file"}, at : {"create"}, want : {"none"}]
    \cup [op : {"review"}, at : {"resolve"}, want : AllStatuses]
    \cup [op : {"item"}, at : {"cascade"},
          want : {"none", "approved", "processed", "under_review", "rejected"}]

(* While nothing has happened that could part source and item, whatever is *)
(* in progress heads for the same end.                                     *)
Doing(op) == \E r \in Requests : req[r].op = op
Pending == {"submitted", "unreviewed", "under_review"}

Heads(q) ==
  /\ q.op = "file" => Waiting /\ entry = "none"
  /\ q.op \in {"review", "item"} =>
       IF q.want \in Decisions
         THEN (Waiting => Doing("item")) /\ (Open => Doing("review"))
         ELSE q.want \in Pending /\ Open /\ (Waiting \/ Doing("item"))

OneWay ==
  /\ \A r, q \in Requests :
       req[r] # Idle /\ req[q] # Idle =>
         req[r].want = req[q].want /\ (req[r].op = "file" => r = q)
  /\ \A r \in Requests : Heads(req[r])
  /\ Quiet => Agree

BoardTypes ==
  /\ req \in [Requests -> {Idle} \cup BoardRequests]
  /\ BoardOK
  /\ Kinds \cap mix # {}
  /\ matter \in {"none", "draft"} => Quiet /\ entry = "none"

BoardInv == BoardTypes /\ (since = {} => OneWay)

LEMMA KindKnown ==
  ASSUME Kinds \cap mix # {}
  PROVE  Kind \in Kinds \cap mix
  BY DEF Kind

LEMMA BoardStarts ==
  ASSUME HandlersInit, BoardInit, Kinds \cap mix # {}
  PROVE  BoardInv
  <1>1. /\ req \in [Requests -> {Idle} \cup BoardRequests] /\ Quiet
        /\ matter = "none" /\ entry = "none" /\ since = {}
    BY DEF HandlersInit, BoardInit, Quiet
  <1>2. BoardOK /\ Agree
    BY <1>1 DEF BoardOK, Agree, Waiting, Open
  <1>3. OneWay
    BY <1>1, <1>2 DEF OneWay, Quiet, Heads, Idle
  <1> QED BY <1>1, <1>2, <1>3 DEF BoardInv, BoardTypes

(* What a status may be, whichever the kind.                               *)
LEMMA StatusKinds ==
  ASSUME BoardTypes, NEW s, s \in Statuses[Kind] \cup {"cancelled"}
  PROVE  s # "none" /\ (s = "draft" => Kind = "travel")
           /\ (s # "cancelled" => s \in Decisions \cup Pending \cup {"draft"})
  BY KindKnown DEF BoardTypes, Statuses, Kinds, Decisions, Pending

LEMMA MatterTyped ==
  ASSUME BoardTypes, UNCHANGED mix, matter' \in Statuses[Kind], matter' \notin {"none", "draft"},
         entry' \in EntryStatuses \cup {"none"},
         since' \subseteq {"early", "conflict", "stopped", "withdrawn", "refused", "reopened"},
         req' \in [Requests -> {Idle} \cup BoardRequests]
  PROVE  BoardTypes'
  <1>1. Kind \in Kinds \cap mix
    BY KindKnown DEF BoardTypes
  <1>2. matter' \in UNION {Statuses[k] : k \in Kinds \cap mix}
    BY <1>1
  <1>3. BoardOK'
    BY <1>2 DEF BoardOK
  <1> QED BY <1>3 DEF BoardTypes

(* With the account of what happened empty after a note, nothing noted and *)
(* either a fresh start or everything still heading one way.               *)
LEMMA NothingNoted ==
  ASSUME BoardInv, NEW causes, Note(causes), since' = {}
  PROVE  causes = {} /\ ((Quiet /\ Agree) \/ (~Quiet /\ OneWay))
  BY DEF Note, BoardInv, OneWay

LEMMA NoteTyped ==
  ASSUME BoardInv,
         NEW causes \in SUBSET {"early", "conflict", "stopped", "withdrawn", "refused", "reopened"},
         Note(causes)
  PROVE  since' \subseteq {"early", "conflict", "stopped", "withdrawn", "refused", "reopened"}
  BY DEF Note, BoardInv, BoardTypes, BoardOK

LEMMA CrossingTyped ==
  ASSUME NEW s PROVE Crossing(s) \subseteq {"early", "conflict"}
  BY DEF Crossing, If

LEMMA BoardMoves ==
  ASSUME BoardInv, NEW r \in Requests, NEW q \in {Idle} \cup BoardRequests,
         req' = [req EXCEPT ![r] = q]
  PROVE  /\ req' \in [Requests -> {Idle} \cup BoardRequests]
         /\ req'[r] = q /\ \A x \in Requests \ {r} : req'[x] = req[x]
  BY DEF BoardInv, BoardTypes

LEMMA FileStep ==
  ASSUME BoardInv, NEW r \in Requests, CreateVisit(r) \/ CreateReport(r) \/ SubmitReport(r)
  PROVE  BoardInv'
  <1>1. PICK s \in {"submitted", "unreviewed"} :
          File(r, s) /\ s \in Statuses[Kind] /\ matter \in {"none", "draft"}
    BY DEF CreateVisit, CreateReport, SubmitReport, Statuses
  <1> DEFINE q == [op |-> "file", at |-> "create", want |-> "none"]
  <1>2. q \in BoardRequests /\ q.op = "file" /\ q.want = "none"
    BY DEF BoardRequests
  <1>3. req' = [req EXCEPT ![r] = q] /\ matter' = s /\ Note({}) /\ UNCHANGED <<mix, entry>>
    BY <1>1 DEF File, Begin
  <1> HIDE DEF q
  <1>4. /\ req' \in [Requests -> {Idle} \cup BoardRequests]
        /\ req'[r] = q /\ \A x \in Requests \ {r} : req'[x] = req[x]
    BY <1>2, <1>3, BoardMoves
  <1>5. entry = "none" /\ \A x \in Requests \ {r} : req'[x] = Idle
    BY <1>1, <1>4 DEF BoardInv, BoardTypes, Quiet
  <1>6. since' \subseteq {"early", "conflict", "stopped", "withdrawn", "refused", "reopened"}
    BY <1>3, NoteTyped
  <1>7. BoardTypes'
    BY <1>1, <1>3, <1>4, <1>5, <1>6, MatterTyped DEF BoardInv
  <1>8. Waiting' /\ ~Quiet'
    BY <1>2, <1>3, <1>4 DEF Waiting, Quiet, Idle
  <1>9. OneWay'
    BY <1>2, <1>3, <1>4, <1>5, <1>8 DEF OneWay, Heads, Idle
  <1> QED BY <1>7, <1>9 DEF BoardInv

(* A verdict that crosses no other: all that is in progress wants the same.*)
LEMMA NoCrossing ==
  ASSUME BoardInv, NEW w, Crossing(w) = {}, NEW x \in Requests, req[x] # Idle
  PROVE  req[x].op \in {"review", "item"} /\ req[x].want = w
  <1>1. req[x] \in BoardRequests
    BY DEF BoardInv, BoardTypes
  <1>2. req[x].op # "file"
    BY DEF Crossing, If
  <1>3. req[x].op \in {"review", "item"} => req[x].want = w
    BY DEF Crossing, If
  <1> QED BY <1>1, <1>2, <1>3 DEF BoardRequests

(* A verdict begins: at the source, whose status it is, or at the item.    *)
LEMMA VerdictBegins ==
  ASSUME BoardInv, NEW r \in Requests, NEW q \in BoardRequests, q.op \in {"review", "item"},
         req' = [req EXCEPT ![r] = q], Crossing(q.want) = {},
         IF q.want \in Decisions
           THEN (Waiting' => q.op = "item") /\ (Open' => q.op = "review")
           ELSE q.want \in Pending /\ Open' /\ (Waiting' \/ q.op = "item")
  PROVE  OneWay'
  <1>1. /\ req' \in [Requests -> {Idle} \cup BoardRequests]
        /\ req'[r] = q /\ \A x \in Requests \ {r} : req'[x] = req[x]
    BY BoardMoves
  <1>2. q # Idle
    BY DEF Idle
  <1>3. ASSUME NEW x \in Requests, req'[x] # Idle
        PROVE  req'[x].op \in {"review", "item"} /\ req'[x].want = q.want
    BY <1>1, <1>3, NoCrossing
  <1>4. ~Quiet'
    BY <1>1, <1>2 DEF Quiet
  <1>5. Doing(q.op)'
    BY <1>1 DEF Doing
  <1>6. ASSUME NEW x \in Requests PROVE Heads(req[x])'
    <2>1. CASE req'[x] = Idle
      BY <2>1 DEF Heads, Idle
    <2>2. CASE req'[x] # Idle
      BY <1>3, <1>5, <2>2 DEF Heads
    <2> QED BY <2>1, <2>2
  <1> QED BY <1>3, <1>4, <1>6 DEF OneWay

LEMMA ReviewStep ==
  ASSUME BoardInv, NEW r \in Requests, NEW s,
         AdminUpdateVisit(r, s) \/ AdminUpdateReport(r, s)
           \/ (ApproveReport(r) /\ s = "approved") \/ (RejectReport(r) /\ s = "rejected")
  PROVE  BoardInv'
  <1>1. Review(r, s) /\ s \in Statuses[Kind] /\ s \notin {"none", "draft"}
    BY DEF AdminUpdateVisit, AdminUpdateReport, ApproveReport, RejectReport, Statuses
  <1>2. s \in AllStatuses /\ s \in Decisions \cup Pending \cup {"cancelled"}
    BY <1>1, StatusKinds, KindKnown DEF AllStatuses, BoardInv, BoardTypes
  <1> DEFINE q == [op |-> "review", at |-> "resolve", want |-> s]
             causes == Crossing(s) \cup If(s = "cancelled", "withdrawn")
                         \cup If(s \notin Decisions /\ ~Open, "reopened")
  <1>3. q \in BoardRequests /\ q.op = "review" /\ q.want = s
    BY <1>2 DEF BoardRequests
  <1>4. /\ req' = [req EXCEPT ![r] = q] /\ matter' = s /\ Note(causes)
        /\ UNCHANGED <<mix, entry>>
    BY <1>1 DEF Review, Begin
  <1>5. causes \subseteq {"early", "conflict", "stopped", "withdrawn", "refused", "reopened"}
    BY CrossingTyped DEF If
  <1>6. causes = {} => /\ Crossing(s) = {} /\ s # "cancelled"
                       /\ s \in Decisions \/ Open
    BY DEF If
  <1> HIDE DEF q, causes
  <1>7. req' \in [Requests -> {Idle} \cup BoardRequests]
    BY <1>3, <1>4, BoardMoves
  <1>8. since' \subseteq {"early", "conflict", "stopped", "withdrawn", "refused", "reopened"}
    BY <1>4, <1>5, NoteTyped
  <1>9. BoardTypes'
    BY <1>1, <1>4, <1>7, <1>8, MatterTyped DEF BoardInv, BoardTypes, BoardOK
  <1>10. ASSUME since' = {} PROVE OneWay'
    <2>1. causes = {}
      BY <1>4, <1>10, NothingNoted
    <2>2. Crossing(q.want) = {} /\ s # "cancelled" /\ (s \in Decisions \/ Open')
      BY <1>3, <1>4, <1>6, <2>1 DEF Open
    <2>3. s \in Decisions => ~Waiting'
      BY <1>4 DEF Decisions, Waiting
    <2>4. s \in Pending => Waiting'
      BY <1>4 DEF Pending, Waiting
    <2> QED BY <1>2, <1>3, <1>4, <2>2, <2>3, <2>4, VerdictBegins
  <1> QED BY <1>9, <1>10 DEF BoardInv

LEMMA UpdateEntryStep ==
  ASSUME BoardInv, NEW r \in Requests, NEW w \in EntryStatuses, UpdateEntry(r, w)
  PROVE  BoardInv'
  <1> DEFINE q == [op |-> "item", at |-> "cascade", want |-> Handed(w)]
             causes == Crossing(Handed(w)) \cup If(w = "pending", "reopened")
  <1>1. Handed(w) \in {"none", "approved", "processed", "under_review", "rejected"}
    BY DEF Handed, EntryStatuses
  <1>2. q \in BoardRequests /\ q.op = "item" /\ q.want = Handed(w)
    BY <1>1 DEF BoardRequests
  <1>3. /\ req' = [req EXCEPT ![r] = q] /\ entry' = w /\ Note(causes)
        /\ UNCHANGED <<mix, matter>> /\ entry # "none"
    BY DEF UpdateEntry, Begin
  <1>4. causes \subseteq {"early", "conflict", "stopped", "withdrawn", "refused", "reopened"}
    BY CrossingTyped DEF If
  <1>5. causes = {} => Crossing(q.want) = {} /\ w # "pending"
    BY <1>2 DEF If
  <1> HIDE DEF q, causes
  <1>6. req' \in [Requests -> {Idle} \cup BoardRequests]
    BY <1>2, <1>3, BoardMoves
  <1>7. since' \subseteq {"early", "conflict", "stopped", "withdrawn", "refused", "reopened"}
    BY <1>3, <1>4, NoteTyped
  <1>8. BoardTypes'
    BY <1>3, <1>6, <1>7 DEF BoardInv, BoardTypes, BoardOK, EntryStatuses
  <1>9. ASSUME since' = {} PROVE OneWay'
    <2>1. Crossing(q.want) = {} /\ w # "pending"
      BY <1>3, <1>5, <1>9, NothingNoted
    <2>2. CASE w \in {"processed", "rejected"}
      <3>1. q.want \in Decisions /\ ~Open'
        BY <1>2, <1>3, <2>2 DEF Handed, Decisions, Open
      <3> QED BY <1>2, <1>3, <2>1, <3>1, VerdictBegins
    <2>3. CASE w = "under_review"
      <3>1. q.want \in Pending /\ q.want \notin Decisions /\ Open'
        BY <1>2, <1>3, <2>3 DEF Handed, Decisions, Pending, Open
      <3> QED BY <1>2, <1>3, <2>1, <3>1, VerdictBegins
    <2> QED BY <2>1, <2>2, <2>3 DEF EntryStatuses
  <1> QED BY <1>8, <1>9 DEF BoardInv

(* A request ends in one of the four ways.                                 *)
LEMMA BoardShape ==
  ASSUME BoardInv, NEW r \in Requests, req[r] # Idle
  PROVE  /\ req[r] \in BoardRequests /\ req[r].op \in {"file", "review", "item"}
         /\ matter \notin {"none", "draft"}
  BY DEF BoardInv, BoardTypes, BoardRequests, Quiet

LEMMA BoardEnds ==
  ASSUME BoardInv, NEW r \in Requests, req[r] # Idle, Done(r)
  PROVE  /\ req' \in [Requests -> {Idle} \cup BoardRequests]
         /\ req'[r] = Idle /\ \A x \in Requests \ {r} : req'[x] = req[x]
         /\ \A op \in {"file", "review", "item"} \ {req[r].op} : Doing(op)' <=> Doing(op)
  <1>1. /\ req' \in [Requests -> {Idle} \cup BoardRequests]
        /\ req'[r] = Idle /\ \A x \in Requests \ {r} : req'[x] = req[x]
    BY BoardMoves DEF Done
  <1> QED BY <1>1 DEF Doing, Idle

LEMMA CreateEntryStep ==
  ASSUME BoardInv, NEW r \in Requests, CreateEntry(r)
  PROVE  BoardInv'
  <1>1. /\ req[r] # Idle /\ req[r].op = "file" /\ Done(r) /\ entry' = "pending"
        /\ UNCHANGED <<mix, matter, since>>
    BY DEF CreateEntry, At, Idle
  <1>2. /\ req' \in [Requests -> {Idle} \cup BoardRequests]
        /\ req'[r] = Idle /\ \A x \in Requests \ {r} : req'[x] = req[x]
    BY <1>1, BoardEnds
  <1>3. matter \notin {"none", "draft"}
    BY <1>1, BoardShape
  <1>4. BoardTypes'
    BY <1>1, <1>2, <1>3 DEF BoardInv, BoardTypes, BoardOK, EntryStatuses
  <1>5. ASSUME since = {} PROVE OneWay'
    <2>1. \A x \in Requests : req'[x] = Idle
      BY <1>1, <1>2, <1>5 DEF BoardInv, OneWay
    <2>2. Waiting' /\ Open'
      BY <1>1, <1>5 DEF BoardInv, OneWay, Heads, Waiting, Open
    <2> QED BY <2>1, <2>2 DEF OneWay, Heads, Agree, Idle
  <1> QED BY <1>1, <1>4, <1>5 DEF BoardInv

LEMMA ResolveStep ==
  ASSUME BoardInv, NEW r \in Requests, ResolveBySource(r)
  PROVE  BoardInv'
  <1>1. /\ req[r] # Idle /\ req[r].op = "review" /\ Done(r) /\ UNCHANGED <<mix, matter, since>>
        /\ entry' = IF req[r].want \in Decisions /\ Open THEN "processed" ELSE entry
    BY DEF ResolveBySource, At, Idle, Closes
  <1>2. /\ req' \in [Requests -> {Idle} \cup BoardRequests]
        /\ req'[r] = Idle /\ \A x \in Requests \ {r} : req'[x] = req[x]
        /\ Doing("item")' <=> Doing("item")
    BY <1>1, BoardEnds
  <1>3. matter \notin {"none", "draft"}
    BY <1>1, BoardShape
  <1>4. BoardTypes'
    BY <1>1, <1>2, <1>3 DEF BoardInv, BoardTypes, BoardOK, EntryStatuses
  <1>5. ASSUME since = {} PROVE OneWay'
    <2>1. \A x \in Requests : req'[x] # Idle => /\ req'[x].want = req[r].want
                                              /\ req[x].op # "file" /\ req'[x] = req[x]
      BY <1>1, <1>2, <1>5 DEF BoardInv, OneWay
    <2>2. Heads(req[r])
      BY <1>5 DEF BoardInv, OneWay
    <2>3. Waiting' <=> Waiting
      BY <1>1 DEF Waiting
    <2>4. IF req[r].want \in Decisions
            THEN (Waiting' => Doing("item")') /\ ~Open'
            ELSE req[r].want \in Pending /\ Open' /\ (Waiting' \/ Doing("item")')
      BY <1>1, <1>2, <2>2, <2>3 DEF Heads, Open
    <2>5. ASSUME NEW x \in Requests PROVE Heads(req[x])'
      BY <2>1, <2>4 DEF Heads, Idle
    <2>6. Quiet' => ~Doing("item")'
      BY DEF Quiet, Doing, Idle
    <2>7. Quiet' => Agree'
      BY <2>4, <2>6 DEF Agree
    <2>8. \A x, y \in Requests : req'[x] # Idle /\ req'[y] # Idle =>
            req'[x].want = req'[y].want /\ (req'[x].op = "file" => x = y)
      BY <2>1
    <2> QED BY <2>5, <2>7, <2>8 DEF OneWay
  <1> QED BY <1>1, <1>4, <1>5 DEF BoardInv

LEMMA CascadeStep ==
  ASSUME BoardInv, NEW r \in Requests, Cascade(r)
  PROVE  BoardInv'
  <1> DEFINE s == req[r].want
  <1>1. /\ req[r] # Idle /\ req[r].op = "item" /\ Done(r) /\ UNCHANGED <<mix, entry>>
        /\ matter' = IF Allowed(s) THEN s ELSE matter
        /\ since' = since \cup If(~Allowed(s) /\ s # "none", "refused")
    BY DEF Cascade, At, Idle
  <1>2. /\ req' \in [Requests -> {Idle} \cup BoardRequests]
        /\ req'[r] = Idle /\ \A x \in Requests \ {r} : req'[x] = req[x]
        /\ Doing("review")' <=> Doing("review")
    BY <1>1, BoardEnds
  <1>3. /\ matter \notin {"none", "draft"}
        /\ s \in {"none", "approved", "processed", "under_review", "rejected"}
    BY <1>1, BoardShape DEF BoardRequests
  <1> HIDE DEF s
  <1>4. since' \subseteq {"early", "conflict", "stopped", "withdrawn", "refused", "reopened"}
    BY <1>1 DEF BoardInv, BoardTypes, BoardOK, If
  <1>5. BoardTypes'
    <2>1. CASE Allowed(s)
      <3>1. s \in Statuses[Kind] /\ s # "none"
        BY <2>1, StatusKinds DEF Allowed, BoardInv
      <3> QED BY <1>1, <1>2, <1>3, <1>4, <2>1, <3>1, MatterTyped DEF BoardInv, BoardTypes, BoardOK
    <2>2. CASE ~Allowed(s)
      BY <1>1, <1>2, <1>3, <1>4, <2>2 DEF BoardInv, BoardTypes, BoardOK
    <2> QED BY <2>1, <2>2
  <1>6. ASSUME since' = {} PROVE OneWay'
    <2>1. since = {} /\ OneWay
      BY <1>1, <1>6 DEF BoardInv
    <2>2. Heads(req[r]) /\ s \in Decisions \cup Pending
      BY <1>1, <2>1 DEF OneWay, Heads, s
    <2>3. matter' = s
      BY <1>1, <1>6, <2>2 DEF If, Decisions, Pending
    <2>4. \A x \in Requests : req'[x] # Idle => /\ req'[x].want = s
                                              /\ req[x].op # "file" /\ req'[x] = req[x]
      BY <1>1, <1>2, <2>1 DEF OneWay, s
    <2>5. Waiting' <=> s \notin Decisions
      BY <1>3, <2>2, <2>3 DEF Waiting, Decisions, Pending
    <2>6. IF s \in Decisions
            THEN ~Waiting' /\ (Open' => Doing("review")')
            ELSE s \in Pending /\ Open' /\ Waiting'
      BY <1>1, <1>2, <2>2, <2>5 DEF Heads, Open, s
    <2>7. ASSUME NEW x \in Requests PROVE Heads(req[x])'
      BY <2>4, <2>6 DEF Heads, Idle
    <2>8. Quiet' => ~Doing("review")'
      BY DEF Quiet, Doing, Idle
    <2>9. Quiet' => Agree'
      BY <2>6, <2>8 DEF Agree
    <2>10. \A x, y \in Requests : req'[x] # Idle /\ req'[y] # Idle =>
             req'[x].want = req'[y].want /\ (req'[x].op = "file" => x = y)
      BY <2>4
    <2> QED BY <2>7, <2>9, <2>10 DEF OneWay
  <1> QED BY <1>5, <1>6 DEF BoardInv

LEMMA BoardOtherStep ==
  ASSUME BoardInv,
         \/ DraftReport \/ Cancel \/ MarkUnderReview
         \/ \E r \in Requests : /\ Abandon(r) /\ since' = since \cup {"stopped"}
                               /\ UNCHANGED <<matter, entry>>
         \/ UNCHANGED <<mix, req, boardVars>>
  PROVE  BoardInv'
  <1>1. CASE DraftReport
    <2>1. /\ Kind = "travel" /\ matter = "none" /\ matter' = "draft" /\ entry = "none" /\ Quiet
          /\ UNCHANGED <<mix, req, entry, since>>
      BY <1>1 DEF DraftReport, BoardInv, BoardTypes
    <2>2. "draft" \in UNION {Statuses[k] : k \in Kinds \cap mix}
      BY <2>1, KindKnown DEF Statuses, BoardInv, BoardTypes
    <2>3. BoardTypes'
      BY <2>1, <2>2 DEF BoardInv, BoardTypes, BoardOK, Quiet
    <2>4. OneWay'
      BY <2>1 DEF OneWay, Quiet, Heads, Agree, Waiting, Open, Idle
    <2> QED BY <2>3, <2>4 DEF BoardInv
  <1>2. CASE Cancel
    <2>1. /\ matter' = "cancelled" /\ Note({"withdrawn"}) /\ UNCHANGED <<mix, req, entry>>
          /\ Kind = "visit"
      BY <1>2 DEF Cancel
    <2>2. "cancelled" \in Statuses[Kind] /\ since' # {}
      BY <2>1 DEF Statuses, Note
    <2>3. since' \subseteq {"early", "conflict", "stopped", "withdrawn", "refused", "reopened"}
      BY <2>1, NoteTyped
    <2>4. BoardTypes'
      BY <2>1, <2>2, <2>3, MatterTyped DEF BoardInv, BoardTypes, BoardOK
    <2> QED BY <2>2, <2>4 DEF BoardInv
  <1>3. CASE MarkUnderReview
    <2>1. /\ Kind = "travel" /\ matter = "submitted" /\ matter' = "under_review"
          /\ UNCHANGED <<mix, req, entry, since>>
      BY <1>3 DEF MarkUnderReview
    <2>2. matter' \in Statuses[Kind] /\ matter' \notin {"none", "draft"} /\ Waiting' /\ Waiting
      BY <2>1 DEF Statuses, Waiting
    <2>3. BoardTypes'
      BY <2>1, <2>2, MatterTyped DEF BoardInv, BoardTypes, BoardOK
    <2>4. OneWay => OneWay'
      BY <2>1, <2>2 DEF OneWay, Quiet, Heads, Agree, Open, Doing
    <2> QED BY <2>1, <2>3, <2>4 DEF BoardInv
  <1>4. ASSUME NEW r \in Requests, Abandon(r), since' = since \cup {"stopped"},
               UNCHANGED <<matter, entry>>
        PROVE  BoardInv'
    <2>1. req[r] # Idle /\ Done(r) /\ mix' = mix
      BY <1>4 DEF Abandon
    <2>2. req' \in [Requests -> {Idle} \cup BoardRequests] /\ matter \notin {"none", "draft"}
      BY <2>1, BoardEnds, BoardShape
    <2>3. BoardTypes'
      BY <1>4, <2>1, <2>2 DEF BoardInv, BoardTypes, BoardOK
    <2> QED BY <1>4, <2>3 DEF BoardInv
  <1>5. CASE UNCHANGED <<mix, req, boardVars>>
    BY <1>5 DEF boardVars, BoardInv, BoardTypes, BoardOK, Quiet, OneWay, Heads, Waiting, Open,
                Agree, Doing
  <1> QED BY <1>1, <1>2, <1>3, <1>4, <1>5

LEMMA BoardStays ==
  ASSUME BoardInv, [BoardNext]_<<mix, req, boardVars>>
  PROVE  BoardInv'
  BY FileStep, CreateEntryStep, ReviewStep, ResolveStep, UpdateEntryStep, CascadeStep,
     BoardOtherStep DEF BoardNext

(* The kind of source is one of those the operations are for.              *)
LEMMA BoardHolds == BoardSpec /\ Kinds \cap mix # {} => []PartedOnlySince
  <1>1. HandlersInit /\ BoardInit /\ Kinds \cap mix # {} => BoardInv
    BY BoardStarts
  <1>2. BoardInv /\ [BoardNext]_<<mix, req, boardVars>> => BoardInv'
    BY BoardStays
  <1>3. BoardInv => PartedOnlySince
    BY DEF BoardInv, OneWay, PartedOnlySince
  <1> QED BY <1>1, <1>2, <1>3, PTL DEF BoardSpec

(* With no request in progress a source waits for review exactly if its    *)
(* item is open, unless one of the noted causes has come between them      *)
(* (visitrequest/store.go:192, report/store.go:159, travel/store.go:373).  *)
THEOREM BoardAgrees ==
  ASSUME \A m \in Mixes : Kinds \cap m # {}
  PROVE  BoardSpec => []PartedOnlySince
  <1>1. HandlersInit => Kinds \cap mix # {}
    BY DEF HandlersInit
  <1> QED BY <1>1, BoardHolds, PTL DEF BoardSpec

-----------------------------------------------------------------------------
Namings == [op : {"declare", "panel"}, at : {"insert", "offer"},
            forms : SUBSET (Forms \cup {"none"})]

Authorises(f) == form[f] = "active" /\ reading[f] = "on"

(* What a request names or a panel offers authorised the author when it    *)
(* was looked up, and still does unless it is among the lost.              *)
Named ==
  \A r \in Requests : req[r] # Idle =>
    /\ req[r].forms # {}  \/ req[r].op = "panel"
    /\ \A f \in req[r].forms \cap Forms : Authorises(f) \/ f \in lost

ContractsInv ==
  /\ req \in [Requests -> {Idle} \cup Namings]
  /\ Named
  /\ form \in [Forms -> {"none", "active", "superseded"}]
  /\ reading \in [Forms -> {"none", "on", "debriefed"}]
  /\ terms.spans \subseteq Forms

LEMMA ContractsStarts ==
  ASSUME HandlersInit, ContractsInit
  PROVE  ContractsInv
  BY DEF HandlersInit, ContractsInit, ContractsInv, Named, VisitTerms

(* A request or panel begins with what authorises, or ends.                *)
LEMMA NamingBegins ==
  ASSUME ContractsInv, NEW r \in Requests, NEW q \in Namings, Begin(r, q),
         UNCHANGED <<form, reading, terms, lost>>,
         q.forms # {} \/ q.op = "panel",
         \A f \in q.forms \cap Forms : Authorises(f)
  PROVE  ContractsInv'
  <1>1. /\ req' \in [Requests -> {Idle} \cup Namings]
        /\ req'[r] = q /\ \A x \in Requests \ {r} : req'[x] = req[x]
    BY DEF ContractsInv, Begin
  <1> QED BY <1>1 DEF ContractsInv, Named, Authorises

LEMMA NamingEnds ==
  ASSUME ContractsInv, NEW r \in Requests, Done(r),
         UNCHANGED <<form, reading, terms, lost>>
  PROVE  ContractsInv'
  <1>1. /\ req' \in [Requests -> {Idle} \cup Namings]
        /\ req'[r] = Idle /\ \A x \in Requests \ {r} : req'[x] = req[x]
    BY DEF ContractsInv, Done
  <1> QED BY <1>1 DEF ContractsInv, Named, Authorises

(* A form or a reading changes: what it takes away is noted as lost, if    *)
(* anybody may still name it.                                              *)
LEMMA GroundsChange ==
  ASSUME ContractsInv, UNCHANGED <<req, terms>>, NEW fs \in SUBSET Forms, Lose(fs),
         \A f \in Forms \ fs : Authorises(f) => Authorises(f)',
         form' \in [Forms -> {"none", "active", "superseded"}],
         reading' \in [Forms -> {"none", "on", "debriefed"}]
  PROVE  ContractsInv'
  <1>1. CASE Underway
    BY <1>1 DEF Lose, ContractsInv, Named
  <1>2. CASE ~Underway
    BY <1>2 DEF Underway, ContractsInv, Named
  <1> QED BY <1>1, <1>2

LEMMA FormChange ==
  ASSUME ContractsInv, NEW f \in Forms,
         \/ UploadDD254(f) \/ DeleteForm(f) \/ RevokeAccess(f)
         \/ \E debriefed \in BOOLEAN : GrantAccess(f, debriefed)
  PROVE  ContractsInv' /\ contract' = contract
  <1>1. CASE UploadDD254(f)
    <2>1. /\ UNCHANGED <<req, reading, terms, lost, contract>> /\ form[f] = "none"
          /\ form' \in [Forms -> {"none", "active", "superseded"}]
          /\ \A g \in Forms \ {f} : form'[g] = form[g]
      BY <1>1 DEF UploadDD254, ContractsInv
    <2>2. \A g \in Forms : Authorises(g) => Authorises(g)'
      BY <2>1 DEF Authorises
    <2> QED BY <2>1, <2>2 DEF ContractsInv, Named
  <1>2. CASE DeleteForm(f)
    <2>1. /\ UNCHANGED <<req, reading, terms, contract>> /\ Lose({f})
          /\ form' \in [Forms -> {"none", "active", "superseded"}]
          /\ \A g \in Forms \ {f} : form'[g] = form[g]
      BY <1>2 DEF DeleteForm, ContractsInv
    <2> QED BY <2>1, GroundsChange DEF Authorises, ContractsInv
  <1>3. CASE RevokeAccess(f)
    <2>1. /\ UNCHANGED <<req, form, terms, contract>> /\ Lose({f})
          /\ reading' \in [Forms -> {"none", "on", "debriefed"}]
          /\ \A g \in Forms \ {f} : reading'[g] = reading[g]
      BY <1>3 DEF RevokeAccess, ContractsInv
    <2> QED BY <2>1, GroundsChange DEF Authorises, ContractsInv
  <1>4. ASSUME NEW debriefed \in BOOLEAN, GrantAccess(f, debriefed)
        PROVE  ContractsInv' /\ contract' = contract
    <2>1. /\ UNCHANGED <<req, form, terms, contract>> /\ Lose(IF debriefed THEN {f} ELSE {})
          /\ reading' \in [Forms -> {"none", "on", "debriefed"}]
          /\ \A g \in Forms \ {f} : reading'[g] = reading[g]
          /\ ~debriefed => reading'[f] = "on"
      BY <1>4 DEF GrantAccess, Granted, ContractsInv
    <2>2. CASE debriefed
      BY <2>1, <2>2, GroundsChange DEF Authorises, ContractsInv
    <2>3. CASE ~debriefed
      BY <2>1, <2>3, GroundsChange DEF Authorises, ContractsInv
    <2> QED BY <2>2, <2>3
  <1> QED BY <1>1, <1>2, <1>3, <1>4

LEMMA ContractsStays ==
  ASSUME ContractsInv, [ContractsNext]_<<mix, req, contractVars>>
  PROVE  ContractsInv'
  <1>1. ASSUME NEW r \in Requests, NEW f \in Forms \cup {"none"}, Declare(r, f)
        PROVE  ContractsInv'
    <2> DEFINE q == [op |-> "declare", at |-> "insert", forms |-> {f}]
    <2>1. q \in Namings /\ q.forms = {f}
      BY DEF Namings
    <2>2. Begin(r, q) /\ UNCHANGED <<form, reading, terms, lost>>
      BY <1>1 DEF Declare, contractVars
    <2>3. f \in Forms => Authorises(f)
      BY <1>1, ContractsAssumption DEF Declare, UserHasAccess, Authorises
    <2> HIDE DEF q
    <2> QED BY <2>1, <2>2, <2>3, NamingBegins
  <1>2. ASSUME NEW r \in Requests, SuggestForVisit(r)
        PROVE  ContractsInv'
    <2> DEFINE q == [op |-> "panel", at |-> "offer", forms |-> Suggested]
    <2>1. Suggested \subseteq Forms /\ \A f \in Suggested : Authorises(f)
      BY DEF Suggested, Authorises, ContractsInv
    <2>2. q \in Namings /\ q.forms = Suggested /\ q.op = "panel"
      BY <2>1 DEF Namings
    <2>3. Begin(r, q) /\ UNCHANGED <<form, reading, terms, lost>>
      BY <1>2 DEF SuggestForVisit, contractVars
    <2> HIDE DEF q
    <2> QED BY <2>1, <2>2, <2>3, NamingBegins
  <1>3. ASSUME NEW r \in Requests,
               \/ InsertVisit(r) \/ ClosePanel(r)
               \/ Abandon(r) /\ UNCHANGED contractVars
        PROVE  ContractsInv'
    BY <1>3, NamingEnds DEF InsertVisit, ClosePanel, Abandon, contractVars
  <1>4. ASSUME \/ \E f \in Forms \cup {"none"} : LinkVisitRequest(f)
               \/ UNCHANGED <<mix, req, contractVars>>
        PROVE  ContractsInv'
    BY <1>4 DEF LinkVisitRequest, ContractsInv, Named, Authorises, contractVars
  <1> QED BY <1>1, <1>2, <1>3, <1>4, FormChange DEF ContractsNext

(* A visit comes to name a form that does not authorise its author only    *)
(* when the form or the reading ended while the request that names it or   *)
(* the panel it is picked from was under way, or when it is linked past    *)
(* the panel (visitrequest/handler.go:83, dd254/store.go:447).             *)
THEOREM AuthorisedWhenNamed == ContractsSpec => UnauthorisedOnlyBy
  <1>1. ASSUME ContractsInv, [ContractsNext]_<<mix, req, contractVars>>
        PROVE  [contract' # contract /\ Unauthorised' =>
                  \/ contract' \in lost
                  \/ contract # "unmade" /\ ~Offered(contract')]_<<mix, req, contractVars>>
    <2>1. SUFFICES ASSUME Unauthorised', contract' # contract
                   PROVE  \/ contract' \in lost
                          \/ contract # "unmade" /\ ~Offered(contract')
      OBVIOUS
    <2>2. CASE \E f \in Forms \cup {"none"} : LinkVisitRequest(f)
      <3>1. UNCHANGED <<form, reading, req>> /\ contract # "unmade"
        BY <2>2 DEF LinkVisitRequest
      <3>2. contract' \in Forms /\ ~Authorises(contract')
        BY <2>1, <3>1 DEF Unauthorised, Authorises
      <3>3. Offered(contract') => contract' \in lost
        BY <1>1, <3>2 DEF Offered, At, Idle, ContractsInv, Named
      <3> QED BY <3>1, <3>3
    <2>3. CASE ~\E f \in Forms \cup {"none"} : LinkVisitRequest(f)
      <3>1. PICK r \in Requests : InsertVisit(r)
        BY <1>1, <2>1, <2>3, FormChange
        DEF ContractsNext, Declare, SuggestForVisit, ClosePanel, Abandon, contractVars
      <3>2. UNCHANGED <<form, reading>> /\ req[r] # Idle /\ req[r].op = "declare"
        BY <3>1 DEF InsertVisit, At, Idle
      <3>3. contract' \in Forms /\ ~Authorises(contract')
        BY <2>1, <3>2 DEF Unauthorised, Authorises
      <3>4. contract' \in req[r].forms
        BY <1>1, <2>1, <3>1, <3>2 DEF InsertVisit, ContractsInv, Named
      <3> QED BY <1>1, <3>2, <3>3, <3>4 DEF ContractsInv, Named
    <2> QED BY <2>2, <2>3
  <1> QED BY <1>1, ContractsStarts, ContractsStays, PTL DEF ContractsSpec, UnauthorisedOnlyBy
=============================================================================
