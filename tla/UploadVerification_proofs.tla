---------------------- MODULE UploadVerification_proofs ----------------------
(***************************************************************************)
(* Proofs about UploadVerification, for any uploads, names, workers and    *)
(* attempts, whether or not deliveries overlap and requests stop.          *)
(***************************************************************************)
EXTENDS UploadVerification, TLAPS

PostRecords == [at : PostSteps, name : Names, ai : BOOLEAN]
CheckRecords == [status : Statuses \cup {"none"}, flagged : BOOLEAN,
                 of : Uploads \cup {NoUpload}, feedback : Feedbacks \cup {"none"}]
WorkerRecords == [at : WorkerSteps, upload : Uploads, saw : Uploads \cup {NoUpload},
                  flagged : BOOLEAN, overlap : BOOLEAN]

Begun(u) == post[u] # New
Active(w) == worker[w] # Idle

(* A download looks up the name of its upload: what is delivered must have *)
(* been posted, or the types would not be kept.                            *)
Known ==
  /\ \A u \in queue : Begun(u)
  /\ \A w \in Workers : Active(w) => Begun(worker[w].upload)

LEMMA Shapes ==
  ASSUME TypeOK
  PROVE  /\ post \in [Uploads -> {New} \cup PostRecords]
         /\ row \in [Uploads -> {"none", "stored", "unlinked", "gone"}]
         /\ blob \in [Names -> Uploads \cup {NoUpload}]
         /\ check \in [Uploads -> CheckRecords]
         /\ queue \subseteq Uploads
         /\ attempts \in [Uploads -> 0..MaxAttempts]
         /\ worker \in [Workers -> {Idle} \cup WorkerRecords]
  BY DEF TypeOK, PostRecords, CheckRecords, WorkerRecords

LEMMA CheckShapes == NoCheck \in CheckRecords /\ Pending \in CheckRecords
  BY DEF NoCheck, Pending, CheckRecords, Statuses

-----------------------------------------------------------------------------
(* How requests, deletions and deliveries move.                            *)

Posting(u) ==
  \/ \E n \in Names, ai \in BOOLEAN : Begin(u, n, ai)
  \/ PostStep(u) \/ AbandonPost(u)

Deleting(u) == DeleteUpload(u) \/ DeleteBlob(u) \/ AbandonDelete(u)
Rating(u) == \E f \in Feedbacks : RecordFeedback(u, f)
Delivering(w) == \E u \in Uploads : Deliver(w, u)
Running(w) == WorkerStep(w) \/ AbandonDelivery(w)

LEMMA Steps ==
  ASSUME [Next]_vars
  PROVE  \/ \E u \in Uploads : Posting(u) \/ Deleting(u) \/ Rating(u)
         \/ \E w \in Workers : Delivering(w) \/ Running(w)
         \/ UNCHANGED vars
  BY DEF Next, Posting, Deleting, Rating, Delivering, Running

(* One request moves; it has a name from its beginning.                    *)
LEMMA PostGoes ==
  ASSUME TypeOK, NEW u \in Uploads, NEW step \in PostSteps, Begun(u), PostGoTo(u, step)
  PROVE  /\ post' \in [Uploads -> {New} \cup PostRecords]
         /\ \A v \in Uploads \ {u} : post'[v] = post[v]
         /\ post'[u] # New /\ post'[u].at = step /\ post'[u].name = post[u].name
  <1>1. post \in [Uploads -> {New} \cup PostRecords] /\ post[u] \in PostRecords
    BY Shapes DEF Begun
  <1>2. post' = [post EXCEPT ![u] = [post[u] EXCEPT !.at = step]]
    BY DEF PostGoTo
  <1>3. [post[u] EXCEPT !.at = step] \in PostRecords
    BY <1>1 DEF PostRecords
  <1>4. post'[u] = [post[u] EXCEPT !.at = step] /\ post'[u] \in PostRecords
    BY <1>1, <1>2, <1>3
  <1>5. \A p \in PostRecords : p # New
    BY DEF PostRecords, New, PostSteps
  <1>6. post'[u].at = step /\ post'[u].name = post[u].name
    BY <1>1, <1>4 DEF PostRecords
  <1> QED BY <1>1, <1>2, <1>4, <1>5, <1>6

LEMMA Posts ==
  ASSUME TypeOK, NEW u \in Uploads, Posting(u)
  PROVE  /\ post' \in [Uploads -> {New} \cup PostRecords]
         /\ \A v \in Uploads \ {u} : post'[v] = post[v]
         /\ post'[u] # New
         /\ Begun(u) => post'[u].name = post[u].name
  <1>1. ASSUME NEW n \in Names, NEW ai \in BOOLEAN, Begin(u, n, ai)
        PROVE  /\ post' \in [Uploads -> {New} \cup PostRecords]
               /\ \A v \in Uploads \ {u} : post'[v] = post[v]
               /\ post'[u] # New
               /\ ~Begun(u)
    <2>1. [at |-> "store", name |-> n, ai |-> ai] \in PostRecords
      BY DEF PostRecords, PostSteps
    <2>2. [at |-> "store", name |-> n, ai |-> ai] # New
      BY DEF New
    <2> QED BY <1>1, <2>1, <2>2, Shapes DEF Begin, Begun
  <1>2. ASSUME PostStep(u) \/ AbandonPost(u)
        PROVE  Begun(u) /\ \E step \in PostSteps : PostGoTo(u, step)
    BY <1>2 DEF PostStep, StoreBlob, CreateUpload, CreatePending, Enqueue, AbandonPost,
                PostAt, Begun, New, PostSteps
  <1> QED BY <1>1, <1>2, PostGoes DEF Posting

(* One delivery moves; it is for the same upload, and overlapped as before. *)
LEMMA Runs ==
  ASSUME TypeOK, Known, NEW w \in Workers, Running(w)
  PROVE  /\ worker' \in [Workers -> {Idle} \cup WorkerRecords]
         /\ \A x \in Workers \ {w} : worker'[x] = worker[x]
         /\ Active(w) /\ worker[w] \in WorkerRecords
         /\ Active(w)' => /\ worker'[w].upload = worker[w].upload
                         /\ worker'[w].overlap = worker[w].overlap
  <1>1. worker \in [Workers -> {Idle} \cup WorkerRecords] /\ blob \in [Names -> Uploads \cup {NoUpload}]
    BY Shapes
  <1>2. worker[w].at \in WorkerSteps
    BY DEF Running, WorkerStep, GetByUpload, LoadContext, Download, Verify, MarkSucceeded,
           MarkFailed, Answer, AbandonDelivery, WorkerAt, WorkerSteps
  <1>3. Active(w) /\ worker[w] \in WorkerRecords
    BY <1>1, <1>2 DEF Active, Idle, WorkerSteps
  <1>4. ASSUME NEW new \in WorkerRecords, worker' = [worker EXCEPT ![w] = new],
               new.upload = worker[w].upload, new.overlap = worker[w].overlap
        PROVE  /\ worker' \in [Workers -> {Idle} \cup WorkerRecords]
               /\ \A x \in Workers \ {w} : worker'[x] = worker[x]
               /\ worker'[w].upload = worker[w].upload
               /\ worker'[w].overlap = worker[w].overlap
    BY <1>1, <1>4
  <1>5. ASSUME NEW step \in WorkerSteps, WorkerGoTo(w, step)
        PROVE  /\ worker' \in [Workers -> {Idle} \cup WorkerRecords]
               /\ \A x \in Workers \ {w} : worker'[x] = worker[x]
               /\ worker'[w].upload = worker[w].upload
               /\ worker'[w].overlap = worker[w].overlap
    <2> DEFINE new == [worker[w] EXCEPT !.at = step]
    <2>1. new \in WorkerRecords /\ new.upload = worker[w].upload /\ new.overlap = worker[w].overlap
      BY <1>3 DEF WorkerRecords
    <2>2. worker' = [worker EXCEPT ![w] = new]
      BY <1>5 DEF WorkerGoTo
    <2> QED BY <1>4, <2>1, <2>2
  <1>6. ASSUME GetByUpload(w) \/ LoadContext(w) \/ MarkSucceeded(w) \/ MarkFailed(w)
        PROVE  \E step \in WorkerSteps : WorkerGoTo(w, step)
    BY <1>6 DEF GetByUpload, LoadContext, MarkSucceeded, MarkFailed, WorkerSteps
  <1>7. ASSUME NEW v \in Uploads,
               worker' = [worker EXCEPT ![w].at = "ask", ![w].saw = v]
        PROVE  /\ worker' \in [Workers -> {Idle} \cup WorkerRecords]
               /\ \A x \in Workers \ {w} : worker'[x] = worker[x]
               /\ worker'[w].upload = worker[w].upload
               /\ worker'[w].overlap = worker[w].overlap
    <2> DEFINE new == [worker[w] EXCEPT !.at = "ask", !.saw = v]
    <2>1. new \in WorkerRecords /\ new.upload = worker[w].upload /\ new.overlap = worker[w].overlap
      BY <1>3 DEF WorkerRecords, WorkerSteps
    <2>2. worker' = [worker EXCEPT ![w] = new]
      BY <1>7
    <2> QED BY <1>4, <2>1, <2>2
  <1>8. Download(w) => /\ Content(w) \in Uploads \cup {NoUpload}
                       /\ \/ WorkerGoTo(w, "fail")
                          \/ /\ Content(w) # NoUpload
                             /\ worker' = [worker EXCEPT ![w].at = "ask", ![w].saw = Content(w)]
    <2>1. post[worker[w].upload].name \in Names
      BY <1>3, Shapes DEF Known, Begun, PostRecords, WorkerRecords
    <2> QED BY <1>1, <2>1 DEF Download, Content
  <1>9. ASSUME NEW f \in BOOLEAN,
               worker' = [worker EXCEPT ![w].at = "succeed", ![w].flagged = f]
        PROVE  /\ worker' \in [Workers -> {Idle} \cup WorkerRecords]
               /\ \A x \in Workers \ {w} : worker'[x] = worker[x]
               /\ worker'[w].upload = worker[w].upload
               /\ worker'[w].overlap = worker[w].overlap
    <2> DEFINE new == [worker[w] EXCEPT !.at = "succeed", !.flagged = f]
    <2>1. new \in WorkerRecords /\ new.upload = worker[w].upload /\ new.overlap = worker[w].overlap
      BY <1>3 DEF WorkerRecords, WorkerSteps
    <2>2. worker' = [worker EXCEPT ![w] = new]
      BY <1>9
    <2> QED BY <1>4, <2>1, <2>2
  <1>10. CASE Answer(w) \/ AbandonDelivery(w)
    <2>1. worker' = [worker EXCEPT ![w] = Idle]
      BY <1>10 DEF Answer, AbandonDelivery, EndDelivery
    <2> QED BY <1>1, <1>3, <2>1 DEF Active
  <1>11. CASE Download(w)
    BY <1>3, <1>5, <1>7, <1>8, <1>11 DEF WorkerSteps
  <1>12. CASE Verify(w)
    BY <1>3, <1>5, <1>9, <1>12 DEF Verify, WorkerSteps
  <1> QED BY <1>3, <1>5, <1>6, <1>10, <1>11, <1>12 DEF Running, WorkerStep

(* A delivery begins; those beside it are marked as overlapped, and so is  *)
(* it if there are any.                                                    *)
LEMMA Delivers ==
  ASSUME TypeOK, NEW w \in Workers, NEW u \in Uploads, Deliver(w, u)
  PROVE  /\ worker' \in [Workers -> {Idle} \cup WorkerRecords]
         /\ ~Active(w) /\ Active(w)' /\ u \in queue
         /\ worker'[w].at = "get" /\ worker'[w].upload = u
         /\ worker'[w].overlap <=> \E x \in Workers : Working(x, u)
         /\ \A x \in Workers \ {w} :
              /\ Active(x)' <=> Active(x)
              /\ Active(x) => /\ worker'[x].at = worker[x].at
                              /\ worker'[x].upload = worker[x].upload
                              /\ worker'[x].saw = worker[x].saw
                              /\ worker'[x].overlap <=> worker[x].overlap \/ Working(x, u)
  <1> DEFINE others == {x \in Workers : Working(x, u)}
             new == [at |-> "get", upload |-> u, saw |-> NoUpload,
                     flagged |-> FALSE, overlap |-> others # {}]
  <1>1. worker \in [Workers -> {Idle} \cup WorkerRecords]
    BY Shapes
  <1>2. /\ worker[w] = Idle /\ u \in queue
        /\ worker' = [x \in Workers |->
                        IF x = w THEN new
                        ELSE IF x \in others THEN [worker[x] EXCEPT !.overlap = TRUE]
                        ELSE worker[x]]
    BY DEF Deliver
  <1>3. new \in WorkerRecords
    BY DEF WorkerRecords, WorkerSteps
  <1>4. \A c \in WorkerRecords : c # Idle
    BY DEF WorkerRecords, Idle, WorkerSteps
  <1>5. ASSUME NEW x \in others
        PROVE  /\ worker[x] \in WorkerRecords
               /\ [worker[x] EXCEPT !.overlap = TRUE] \in WorkerRecords
               /\ [worker[x] EXCEPT !.overlap = TRUE].at = worker[x].at
               /\ [worker[x] EXCEPT !.overlap = TRUE].upload = worker[x].upload
               /\ [worker[x] EXCEPT !.overlap = TRUE].saw = worker[x].saw
               /\ [worker[x] EXCEPT !.overlap = TRUE].overlap = TRUE
    <2>1. worker[x] \in WorkerRecords
      BY <1>1 DEF Working
    <2> QED BY <2>1 DEF WorkerRecords
  <1>6. worker'[w] = new
    BY <1>2
  <1>7. /\ new.at = "get" /\ new.upload = u /\ new.overlap = (others # {})
    OBVIOUS
  <1>8. w \notin others
    BY <1>2 DEF Working
  <1>9. ASSUME NEW x \in Workers \ {w}
        PROVE  /\ worker'[x] \in {Idle} \cup WorkerRecords
               /\ Active(x)' <=> Active(x)
               /\ Active(x) => /\ worker'[x].at = worker[x].at
                               /\ worker'[x].upload = worker[x].upload
                               /\ worker'[x].saw = worker[x].saw
                               /\ worker'[x].overlap <=> worker[x].overlap \/ Working(x, u)
    <2>1. CASE x \in others
      <3>1. worker'[x] = [worker[x] EXCEPT !.overlap = TRUE]
        BY <1>2, <2>1
      <3>2. Working(x, u)
        BY <2>1
      <3> QED BY <1>4, <1>5, <2>1, <3>1, <3>2 DEF Active
    <2>2. CASE x \notin others
      <3>1. worker'[x] = worker[x]
        BY <1>2, <2>2
      <3>2. ~Working(x, u)
        BY <2>2
      <3> QED BY <1>1, <3>1, <3>2 DEF Active
    <2> QED BY <2>1, <2>2
  <1>10. worker' \in [Workers -> {Idle} \cup WorkerRecords]
    <2>1. worker' = [x \in Workers |-> worker'[x]]
      BY <1>2
    <2> HIDE DEF new
    <2> QED BY <1>3, <1>6, <1>9, <2>1
  <1> HIDE DEF new
  <1> QED BY <1>2, <1>3, <1>4, <1>6, <1>7, <1>9, <1>10 DEF Active

-----------------------------------------------------------------------------
(* Types.                                                                  *)

LEMMA TypeInit == ASSUME Init PROVE TypeOK /\ Known
  BY UploadAssumption DEF Init, TypeOK, Known, New, Idle, NoCheck, Active, Statuses

LEMMA PostTypes ==
  ASSUME TypeOK, Known, NEW u \in Uploads, Posting(u)
  PROVE  (TypeOK /\ Known)'
  <1>1. post' \in [Uploads -> {New} \cup PostRecords]
    BY Posts
  <1>2. UNCHANGED <<attempts, worker>> /\ queue' \subseteq queue \cup {u}
    BY DEF Posting, Begin, PostStep, StoreBlob, CreateUpload, CreatePending, Enqueue, AbandonPost
  <1>3. row' \in [Uploads -> {"none", "stored", "unlinked", "gone"}]
    BY Shapes DEF Posting, Begin, PostStep, StoreBlob, CreateUpload, CreatePending, Enqueue,
                  AbandonPost
  <1>4. blob' \in [Names -> Uploads \cup {NoUpload}]
    BY Shapes DEF Posting, Begin, PostStep, StoreBlob, CreateUpload, CreatePending, Enqueue,
                  AbandonPost
  <1>5. check' \in [Uploads -> CheckRecords]
    BY Shapes, CheckShapes DEF Posting, Begin, PostStep, StoreBlob, CreateUpload, CreatePending,
                               Enqueue, AbandonPost
  <1>6. \A v \in Uploads : Begun(v) => Begun(v)'
    BY Posts DEF Begun
  <1>7. Begun(u)'
    BY Posts DEF Begun
  <1>8. Known'
    <2>1. \A v \in queue' : Begun(v)'
      BY <1>2, <1>6, <1>7, Shapes DEF Known
    <2>2. \A w \in Workers : Active(w) => worker[w].upload \in Uploads
      BY Shapes DEF Active, WorkerRecords
    <2>3. \A w \in Workers : Active(w)' => Begun(worker[w].upload)'
      BY <1>2, <1>6, <2>2 DEF Known, Active
    <2> QED BY <1>2, <2>1, <2>3 DEF Known, Begun
  <1> QED
    BY <1>1, <1>2, <1>3, <1>4, <1>5, <1>8
    DEF TypeOK, PostRecords, CheckRecords

LEMMA RowTypes ==
  ASSUME TypeOK, Known, NEW u \in Uploads, Deleting(u) \/ Rating(u)
  PROVE  (TypeOK /\ Known)'
  <1>1. UNCHANGED <<post, queue, attempts, worker>>
    BY DEF Deleting, Rating, DeleteUpload, DeleteBlob, AbandonDelete, RecordFeedback
  <1>2. /\ row' \in [Uploads -> {"none", "stored", "unlinked", "gone"}]
        /\ blob' \in [Names -> Uploads \cup {NoUpload}]
    BY Shapes DEF Deleting, Rating, DeleteUpload, DeleteBlob, AbandonDelete, RecordFeedback
  <1>3. check' \in [Uploads -> CheckRecords]
    <2>1. CASE Rating(u)
      <3>1. PICK f \in Feedbacks : check' = [check EXCEPT ![u].feedback = f]
        BY <2>1 DEF Rating, RecordFeedback
      <3>2. [check[u] EXCEPT !.feedback = f] \in CheckRecords
        BY Shapes DEF CheckRecords
      <3> QED BY <3>1, <3>2, Shapes
    <2>2. CASE Deleting(u)
      BY <2>2, Shapes, CheckShapes DEF Deleting, DeleteUpload, DeleteBlob, AbandonDelete
    <2> QED BY <2>1, <2>2
  <1>4. Known'
    BY <1>1 DEF Known, Begun, Active
  <1> QED BY <1>1, <1>2, <1>3, <1>4 DEF TypeOK, CheckRecords

(* The verification of one upload is given a verdict, or none.             *)
LEMMA Verdicts ==
  ASSUME TypeOK, Known, NEW w \in Workers, Running(w)
  PROVE  /\ check' \in [Uploads -> CheckRecords]
         /\ check' # check =>
              /\ MarkSucceeded(w) \/ MarkFailed(w)
              /\ \A v \in Uploads \ {worker[w].upload} : check'[v] = check[v]
              /\ check[worker[w].upload] # NoCheck
  <1> DEFINE u == worker[w].upload
             good == [check[u] EXCEPT !.status = "succeeded", !.of = worker[w].saw,
                                      !.flagged = worker[w].flagged]
             bad == [check[u] EXCEPT !.status = "failed"]
  <1>1. check \in [Uploads -> CheckRecords] /\ u \in Uploads
    BY Runs, Shapes DEF WorkerRecords
  <1>2. good \in CheckRecords /\ bad \in CheckRecords
    <2>1. check[u] \in CheckRecords /\ worker[w] \in WorkerRecords
      BY <1>1, Runs
    <2>2. worker[w].saw \in Uploads \cup {NoUpload} /\ worker[w].flagged \in BOOLEAN
      BY <2>1 DEF WorkerRecords
    <2>3. bad \in CheckRecords
      BY <2>1 DEF CheckRecords, Statuses
    <2>4. good \in CheckRecords
      BY <2>1, <2>2 DEF CheckRecords, Statuses
    <2> QED BY <2>3, <2>4
  <1>3. ASSUME MarkSucceeded(w)
        PROVE  \/ check' = check
               \/ check[u] # NoCheck /\ check' = [check EXCEPT ![u] = good]
    BY <1>3 DEF MarkSucceeded
  <1>4. ASSUME MarkFailed(w)
        PROVE  \/ check' = check
               \/ check[u] # NoCheck /\ check' = [check EXCEPT ![u] = bad]
    BY <1>4 DEF MarkFailed
  <1>5. ASSUME ~MarkSucceeded(w), ~MarkFailed(w) PROVE check' = check
    BY <1>5 DEF Running, WorkerStep, GetByUpload, LoadContext, Download, Verify, Answer,
                AbandonDelivery
  <1> QED BY <1>1, <1>2, <1>3, <1>4, <1>5

LEMMA WorkerTypes ==
  ASSUME TypeOK, Known, NEW w \in Workers, Delivering(w) \/ Running(w)
  PROVE  (TypeOK /\ Known)'
  <1>1. CASE Delivering(w)
    <2>1. PICK u \in Uploads : Deliver(w, u)
      BY <1>1 DEF Delivering
    <2>2. attempts' \in [Uploads -> 0..MaxAttempts]
      BY <2>1, Shapes, UploadAssumption DEF Deliver
    <2>3. UNCHANGED <<post, row, blob, check, queue>>
      BY <2>1 DEF Deliver
    <2>4. worker' \in [Workers -> {Idle} \cup WorkerRecords]
      BY <2>1, Delivers
    <2>5. \A x \in Workers : Active(x)' => Begun(worker'[x].upload)
      BY <2>1, Delivers DEF Known
    <2>6. Known'
      BY <2>3, <2>5 DEF Known, Begun
    <2> QED BY <2>2, <2>3, <2>4, <2>6 DEF TypeOK, WorkerRecords
  <1>2. CASE Running(w)
    <2>1. UNCHANGED <<post, row, blob, attempts>> /\ queue' \subseteq queue
      BY <1>2 DEF Running, WorkerStep, GetByUpload, LoadContext, Download, Verify,
                  MarkSucceeded, MarkFailed, Answer, AbandonDelivery, EndDelivery
    <2>2. check' \in [Uploads -> CheckRecords]
      BY <1>2, Verdicts
    <2>3. worker' \in [Workers -> {Idle} \cup WorkerRecords]
      BY <1>2, Runs
    <2>4. \A x \in Workers : Active(x)' => Begun(worker'[x].upload)
      BY <1>2, Runs DEF Known, Active
    <2>5. Known'
      BY <2>1, <2>4 DEF Known, Begun
    <2> QED BY <2>1, <2>2, <2>3, <2>5 DEF TypeOK, WorkerRecords, CheckRecords
  <1> QED BY <1>1, <1>2

LEMMA TypeNext ==
  ASSUME TypeOK, Known, [Next]_vars
  PROVE  (TypeOK /\ Known)'
  <1>1. CASE UNCHANGED vars
    BY <1>1 DEF TypeOK, Known, Begun, Active, vars
  <1> QED BY <1>1, Steps, PostTypes, RowTypes, WorkerTypes

(* Requests, rows, files, verifications and deliveries keep their types.   *)
THEOREM VerificationTypes == Spec => []TypeOK
  <1>1. Init => TypeOK /\ Known BY TypeInit
  <1>2. TypeOK /\ Known /\ [Next]_vars => (TypeOK /\ Known)' BY TypeNext
  <1> QED BY <1>1, <1>2, PTL DEF Spec

-----------------------------------------------------------------------------
(* Verdicts.  A verification is created once; a delivery that never had    *)
(* another beside it has its task to itself, and once it is past the       *)
(* status check there is no verdict until it gives one.                    *)

CheckedOnce == \A u \in Uploads : check[u] # NoCheck => post[u].at \in {"enqueue", "done"}

RunsAlone ==
  \A w, x \in Workers, u \in Uploads :
    Working(w, u) /\ Working(x, u) /\ w # x => worker[w].overlap

Checked == {"load", "download", "ask", "succeed", "fail"}

UndecidedTill ==
  \A w \in Workers :
    Active(w) /\ worker[w].at \in Checked /\ ~worker[w].overlap =>
      check[worker[w].upload].status \notin Final

VerdictInv == TypeOK /\ Known /\ CheckedOnce /\ RunsAlone /\ UndecidedTill

LEMMA VerdictInit == ASSUME Init PROVE VerdictInv
  BY TypeInit DEF Init, VerdictInv, CheckedOnce, RunsAlone, UndecidedTill, Working, Active

(* A request creates no more than its own verification, which is pending.  *)
LEMMA PostChecks ==
  ASSUME TypeOK, NEW u \in Uploads, Posting(u)
  PROVE  /\ \A v \in Uploads \ {u} : check'[v] = check[v]
         /\ check'[u] # check[u] =>
              check'[u].status = "pending" /\ post[u].at = "pend" /\ post'[u].at = "enqueue"
  <1>1. CASE CreatePending(u)
    <2>1. CASE UNCHANGED check
      BY <2>1
    <2>2. CASE check' = [check EXCEPT ![u] = Pending] /\ PostGoTo(u, "enqueue")
      <3>1. Begun(u) /\ post[u].at = "pend"
        BY <1>1 DEF CreatePending, PostAt, Begun, New
      <3>2. post'[u].at = "enqueue"
        BY <2>2, <3>1, PostGoes DEF PostSteps
      <3>3. Pending.status = "pending"
        BY DEF Pending, NoCheck
      <3> QED BY <2>2, <3>1, <3>2, <3>3, Shapes
    <2> QED BY <1>1, <2>1, <2>2 DEF CreatePending
  <1>2. CASE ~CreatePending(u)
    BY <1>2 DEF Posting, Begin, PostStep, StoreBlob, CreateUpload, Enqueue, AbandonPost
  <1> QED BY <1>1, <1>2

LEMMA CheckedOnceStep ==
  ASSUME VerdictInv, [Next]_vars
  PROVE  CheckedOnce'
  <1>1. ASSUME NEW u \in Uploads, Posting(u)
        PROVE  CheckedOnce'
    <2>1. SUFFICES ASSUME NEW v \in Uploads, check'[v] # NoCheck
                   PROVE  post'[v].at \in {"enqueue", "done"}
      BY DEF CheckedOnce
    <2>2. CASE v # u
      BY <1>1, <2>1, <2>2, PostChecks, Posts DEF VerdictInv, CheckedOnce
    <2>3. CASE v = u /\ check'[u] # check[u]
      BY <1>1, <2>3, PostChecks DEF VerdictInv
    <2>4. CASE v = u /\ check'[u] = check[u]
      <3>1. post[u].at \in {"enqueue", "done"}
        BY <2>1, <2>4 DEF VerdictInv, CheckedOnce
      <3>2. PostGoTo(u, "done") /\ Begun(u)
        BY <1>1, <3>1 DEF Posting, Begin, PostStep, StoreBlob, CreateUpload, CreatePending,
                          Enqueue, AbandonPost, PostAt, New, Begun
      <3> QED BY <2>4, <3>2, PostGoes DEF VerdictInv, PostSteps
    <2> QED BY <2>2, <2>3, <2>4
  <1>2. ASSUME NEW u \in Uploads, Deleting(u) \/ Rating(u)
        PROVE  CheckedOnce'
    <2>1. \A v \in Uploads : check'[v] # NoCheck => check[v] # NoCheck
      BY <1>2, Shapes DEF Deleting, Rating, DeleteUpload, DeleteBlob, AbandonDelete,
                          RecordFeedback, VerdictInv
    <2>2. UNCHANGED post
      BY <1>2 DEF Deleting, Rating, DeleteUpload, DeleteBlob, AbandonDelete, RecordFeedback
    <2> QED BY <2>1, <2>2 DEF VerdictInv, CheckedOnce
  <1>3. ASSUME NEW w \in Workers, Delivering(w)
        PROVE  CheckedOnce'
    BY <1>3 DEF Delivering, Deliver, VerdictInv, CheckedOnce
  <1>4. ASSUME NEW w \in Workers, Running(w)
        PROVE  CheckedOnce'
    <2>1. \A v \in Uploads : check'[v] # NoCheck => check[v] # NoCheck
      BY <1>4, Verdicts DEF VerdictInv
    <2>2. UNCHANGED post
      BY <1>4 DEF Running, WorkerStep, GetByUpload, LoadContext, Download, Verify,
                  MarkSucceeded, MarkFailed, Answer, AbandonDelivery
    <2> QED BY <2>1, <2>2 DEF VerdictInv, CheckedOnce
  <1>5. CASE UNCHANGED vars
    BY <1>5 DEF vars, VerdictInv, CheckedOnce
  <1> QED BY <1>1, <1>2, <1>3, <1>4, <1>5, Steps

LEMMA RunsAloneStep ==
  ASSUME VerdictInv, [Next]_vars
  PROVE  RunsAlone'
  <1>1. ASSUME NEW w \in Workers, NEW u \in Uploads, Deliver(w, u)
        PROVE  RunsAlone'
    <2>1. SUFFICES ASSUME NEW x \in Workers, NEW y \in Workers, NEW v \in Uploads,
                          Working(x, v)', Working(y, v)', x # y
                   PROVE  worker'[x].overlap
      BY DEF RunsAlone
    <2>2. CASE x = w
      <3>1. v = u /\ Working(y, u)
        BY <1>1, <2>1, <2>2, Delivers DEF VerdictInv, Working, Active
      <3> QED BY <1>1, <2>2, <3>1, Delivers DEF VerdictInv
    <2>3. CASE y = w
      <3>1. v = u /\ Working(x, u)
        BY <1>1, <2>1, <2>3, Delivers DEF VerdictInv, Working, Active
      <3> QED BY <1>1, <2>1, <2>3, <3>1, Delivers DEF VerdictInv, Working, Active
    <2>4. CASE x # w /\ y # w
      <3>1. Working(x, v) /\ Working(y, v)
        BY <1>1, <2>1, <2>4, Delivers DEF VerdictInv, Working, Active
      <3>2. worker[x].overlap
        BY <2>1, <3>1 DEF VerdictInv, RunsAlone
      <3> QED BY <1>1, <2>4, <3>1, <3>2, Delivers DEF VerdictInv, Working, Active
    <2> QED BY <2>2, <2>3, <2>4
  <1>2. ASSUME NEW w \in Workers, Running(w)
        PROVE  RunsAlone'
    BY <1>2, Runs DEF VerdictInv, RunsAlone, Working, Active
  <1>3. CASE UNCHANGED worker
    BY <1>3 DEF VerdictInv, RunsAlone, Working
  <1>4. ASSUME NEW u \in Uploads, Posting(u) \/ Deleting(u) \/ Rating(u)
        PROVE  UNCHANGED worker
    BY <1>4 DEF Posting, Begin, PostStep, StoreBlob, CreateUpload, CreatePending, Enqueue,
                AbandonPost, Deleting, Rating, DeleteUpload, DeleteBlob, AbandonDelete,
                RecordFeedback
  <1> QED BY <1>1, <1>2, <1>3, <1>4, Steps DEF Delivering, vars

(* Only a delivery past the status check gives a verdict or changes one.   *)
LEMMA VerdictGiver ==
  ASSUME VerdictInv, [Next]_vars, NEW u \in Uploads,
         check'[u].status \in Final,
         check'[u].status # check[u].status \/ ~SameVerdict(u)
  PROVE  \E w \in Workers : /\ Active(w) /\ worker[w].upload = u
                           /\ worker[w].at \in Checked
                           /\ worker'[w].at = "answer" /\ Running(w)
  <1>1. check' # check
    BY DEF SameVerdict
  <1>2. ASSUME NEW v \in Uploads, Posting(v) PROVE FALSE
    BY <1>2, PostChecks DEF VerdictInv, SameVerdict, Final
  <1>3. ASSUME NEW v \in Uploads, Deleting(v) \/ Rating(v) PROVE FALSE
    <2>1. check[u] \in CheckRecords
      BY Shapes DEF VerdictInv
    <2>2. CASE DeleteUpload(v)
      BY <2>1, <2>2, Shapes DEF DeleteUpload, VerdictInv, SameVerdict, NoCheck, Final
    <2>3. ASSUME NEW g \in Feedbacks, RecordFeedback(v, g) PROVE FALSE
      <3>1. check' = [check EXCEPT ![v] = [check[v] EXCEPT !.feedback = g]]
        BY <2>3 DEF RecordFeedback
      <3>2. u = v /\ check'[u] = [check[u] EXCEPT !.feedback = g]
        BY <3>1, Shapes DEF VerdictInv, SameVerdict
      <3> QED BY <2>1, <3>2 DEF CheckRecords, SameVerdict
    <2> QED BY <1>1, <1>3, <2>2, <2>3 DEF Deleting, Rating, DeleteBlob, AbandonDelete
  <1>4. PICK w \in Workers : Running(w)
    BY <1>1, <1>2, <1>3, Steps DEF Delivering, Deliver, vars
  <1>5. worker[w].upload = u
    BY <1>4, Verdicts DEF VerdictInv, SameVerdict
  <1>6. MarkSucceeded(w) \/ MarkFailed(w)
    BY <1>1, <1>4, Verdicts DEF VerdictInv
  <1>7. worker \in [Workers -> {Idle} \cup WorkerRecords] /\ worker[w] \in WorkerRecords /\ Active(w)
    BY <1>4, Runs, Shapes DEF VerdictInv
  <1>8. worker'[w].at = "answer" /\ worker[w].at \in Checked
    BY <1>6, <1>7 DEF MarkSucceeded, MarkFailed, WorkerGoTo, WorkerAt, WorkerRecords, Checked
  <1> QED BY <1>4, <1>5, <1>7, <1>8

LEMMA UndecidedStep ==
  ASSUME VerdictInv, [Next]_vars
  PROVE  UndecidedTill'
  <1>1. RunsAlone'
    BY RunsAloneStep
  <1>2. SUFFICES ASSUME NEW w \in Workers, Active(w)', worker'[w].at \in Checked,
                        ~worker'[w].overlap, check'[worker'[w].upload].status \in Final
                 PROVE  FALSE
    BY DEF UndecidedTill
  <1> DEFINE u == worker'[w].upload
  <1>3. u \in Uploads
    BY <1>2, TypeNext, Shapes DEF VerdictInv, Active, TypeOK, WorkerRecords
  <1>4. ASSUME Active(w), worker[w].upload = u, worker[w].at \in Checked,
               ~worker[w].overlap
        PROVE  FALSE
    <2>1. check[u].status \notin Final
      BY <1>4 DEF VerdictInv, UndecidedTill
    <2>2. PICK x \in Workers : /\ Active(x) /\ worker[x].upload = u
                               /\ worker'[x].at = "answer" /\ Running(x)
      BY <1>2, <1>3, <2>1, VerdictGiver
    <2>3. x # w
      BY <1>2, <2>2 DEF Checked
    <2> QED BY <1>3, <1>4, <2>2, <2>3 DEF VerdictInv, RunsAlone, Working, Active
  <1>5. ASSUME NEW v \in Uploads, Posting(v) \/ Deleting(v) \/ Rating(v)
        PROVE  FALSE
    <2>1. UNCHANGED worker
      BY <1>5 DEF Posting, Begin, PostStep, StoreBlob, CreateUpload, CreatePending, Enqueue,
                  AbandonPost, Deleting, Rating, DeleteUpload, DeleteBlob, AbandonDelete,
                  RecordFeedback
    <2> QED BY <1>2, <1>4, <2>1 DEF Active
  <1>6. ASSUME NEW x \in Workers, NEW v \in Uploads, Deliver(x, v)
        PROVE  FALSE
    <2>1. w # x
      BY <1>2, <1>6, Delivers DEF VerdictInv, Checked
    <2> QED BY <1>2, <1>4, <1>6, <2>1, Delivers DEF VerdictInv
  <1>7. ASSUME NEW x \in Workers, Running(x)
        PROVE  FALSE
    <2>1. /\ Active(w) /\ worker[w].upload = u /\ ~worker[w].overlap
      BY <1>2, <1>7, Runs DEF VerdictInv, Active
    <2>2. worker[w].at \notin Checked
      BY <1>4, <2>1
    <2>3. x = w
      BY <1>2, <1>7, <2>2, Runs DEF VerdictInv
    <2>4. GetByUpload(w)
      <3>1. worker[w].at \in {"get", "answer"}
        BY <2>1, <2>2, Shapes DEF VerdictInv, Active, WorkerRecords, WorkerSteps, Checked
      <3>2. ~Answer(w) /\ ~AbandonDelivery(w)
        BY <1>2, Shapes DEF Answer, AbandonDelivery, EndDelivery, Active, VerdictInv
      <3> QED BY <1>7, <2>3, <3>1, <3>2
              DEF Running, WorkerStep, LoadContext, Download, Verify, MarkSucceeded, MarkFailed,
                  WorkerAt
    <2>5. check[u].status = "pending" /\ check' = check
      <3>1. worker \in [Workers -> {Idle} \cup WorkerRecords] /\ worker[w] \in WorkerRecords
        BY <2>1, Shapes DEF VerdictInv, Active
      <3>2. ~WorkerGoTo(w, "answer")
        BY <1>2, <3>1 DEF WorkerGoTo, WorkerRecords, Checked
      <3> QED BY <2>1, <2>4, <3>2 DEF GetByUpload
    <2> QED BY <1>2, <2>5 DEF Final
  <1>8. CASE UNCHANGED vars
    BY <1>2, <1>4, <1>8 DEF vars, Active
  <1> QED BY <1>5, <1>6, <1>7, <1>8, Steps DEF Delivering

LEMMA VerdictNext ==
  ASSUME VerdictInv, [Next]_vars
  PROVE  VerdictInv'
  BY TypeNext, CheckedOnceStep, RunsAloneStep, UndecidedStep DEF VerdictInv

(* Only a delivery that ran beside another of its task writes over a       *)
(* verdict (verification/handler.go, the comment on Process).              *)
THEOREM VerdictsStand == Spec => VerdictStands
  <1>1. ASSUME VerdictInv, [Next]_vars
        PROVE  [\A u \in Uploads :
                  check[u].status \in Final /\ check'[u] # NoCheck /\ ~SameVerdict(u) =>
                    \E w \in Workers : /\ Working(w, u) /\ worker[w].overlap
                                       /\ worker'[w] # worker[w]]_vars
    <2>1. SUFFICES ASSUME NEW u \in Uploads, check[u].status \in Final,
                          check'[u] # NoCheck, ~SameVerdict(u)
                   PROVE  \E w \in Workers : /\ Working(w, u) /\ worker[w].overlap
                                             /\ worker'[w] # worker[w]
      OBVIOUS
    <2>2. check'[u].status \in Final
      <3>1. check'[u] # check[u]
        BY <2>1 DEF SameVerdict
      <3>2. check[u] # NoCheck
        BY <2>1 DEF NoCheck, Final
      <3>3. ASSUME NEW v \in Uploads, Posting(v) PROVE FALSE
        BY <1>1, <3>1, <3>2, <3>3, PostChecks DEF VerdictInv, CheckedOnce
      <3>4. ASSUME NEW v \in Uploads, Deleting(v) \/ Rating(v) PROVE FALSE
        <4>1. check[u] \in CheckRecords
          BY <1>1, Shapes DEF VerdictInv
        <4>2. CASE DeleteUpload(v)
          BY <1>1, <2>1, <3>1, <4>2, Shapes DEF DeleteUpload, VerdictInv
        <4>3. ASSUME NEW g \in Feedbacks, RecordFeedback(v, g) PROVE FALSE
          <5>1. check' = [check EXCEPT ![v] = [check[v] EXCEPT !.feedback = g]]
            BY <4>3 DEF RecordFeedback
          <5>2. u = v /\ check'[u] = [check[u] EXCEPT !.feedback = g]
            BY <1>1, <3>1, <5>1, Shapes DEF VerdictInv
          <5> QED BY <2>1, <4>1, <5>2 DEF CheckRecords, SameVerdict
        <4> QED BY <3>1, <3>4, <4>2, <4>3 DEF Deleting, Rating, DeleteBlob, AbandonDelete
      <3>5. PICK w \in Workers : MarkSucceeded(w) \/ MarkFailed(w)
        BY <1>1, <3>1, <3>3, <3>4, Steps, Verdicts DEF Delivering, Deliver, vars, VerdictInv
      <3>6. check \in [Uploads -> CheckRecords]
        BY <1>1, Shapes DEF VerdictInv
      <3> QED BY <3>1, <3>5, <3>6 DEF MarkSucceeded, MarkFailed, CheckRecords, Final
    <2>3. PICK w \in Workers : /\ Active(w) /\ worker[w].upload = u
                               /\ worker[w].at \in Checked
                               /\ worker'[w].at = "answer"
      BY <1>1, <2>1, <2>2, VerdictGiver
    <2>4. worker[w].overlap
      BY <1>1, <2>1, <2>3, Shapes DEF VerdictInv, UndecidedTill, WorkerRecords, Active
    <2> QED BY <2>3, <2>4 DEF Working, Active, Checked
  <1> QED BY <1>1, VerdictInit, VerdictNext, PTL DEF Spec, VerdictStands

-----------------------------------------------------------------------------
(* Files.  What a key holds was posted under that name; a row is written   *)
(* after its file; from the file's writing to the row's removal the file   *)
(* is the upload's own, and so is what a delivery read and what a verdict  *)
(* is about, unless another upload has the name.                           *)

BlobsNamed == \A n \in Names : blob[n] # NoUpload => Begun(blob[n]) /\ post[blob[n]].name = n

RowsLater == \A u \in Uploads : row[u] # "none" => post[u].at \in {"pend", "enqueue", "done"}

Kept(u) == post[u].at = "create" \/ row[u] = "stored"

OwnFile == \A u \in Uploads : Kept(u) => blob[post[u].name] = u \/ SharesName(u)

OwnContent ==
  \A w \in Workers :
    Active(w) /\ worker[w].at \in {"ask", "succeed"} =>
      worker[w].saw = worker[w].upload \/ SharesName(worker[w].upload)

OwnVerdict ==
  \A u \in Uploads : check[u].status = "succeeded" => check[u].of = u \/ SharesName(u)

FileInv == VerdictInv /\ BlobsNamed /\ RowsLater /\ OwnFile /\ OwnContent /\ OwnVerdict

LEMMA FileInit == ASSUME Init PROVE FileInv
  BY VerdictInit DEF Init, FileInv, BlobsNamed, RowsLater, OwnFile, Kept, OwnContent, OwnVerdict,
                     New, Idle, NoCheck, Active

(* A request keeps its name, and so whatever shares it.                    *)
LEMMA NamesStay ==
  ASSUME TypeOK, [Next]_vars, NEW u \in Uploads, Begun(u)
  PROVE  /\ Begun(u)' /\ post'[u].name = post[u].name
         /\ SharesName(u) => SharesName(u)'
  <1>1. \A v \in Uploads : Begun(v) => Begun(v)' /\ post'[v].name = post[v].name
    <2>1. ASSUME NEW v \in Uploads, Posting(v)
          PROVE  \A x \in Uploads : Begun(x) => Begun(x)' /\ post'[x].name = post[x].name
      BY <2>1, Posts DEF Begun
    <2>2. CASE UNCHANGED post
      BY <2>2 DEF Begun
    <2>3. ASSUME NEW v \in Uploads, Deleting(v) \/ Rating(v)
          PROVE  UNCHANGED post
      BY <2>3 DEF Deleting, Rating, DeleteUpload, DeleteBlob, AbandonDelete, RecordFeedback
    <2>4. ASSUME NEW w \in Workers, Delivering(w) \/ Running(w)
          PROVE  UNCHANGED post
      BY <2>4 DEF Delivering, Deliver, Running, WorkerStep, GetByUpload, LoadContext, Download,
                  Verify, MarkSucceeded, MarkFailed, Answer, AbandonDelivery
    <2> QED BY <2>1, <2>2, <2>3, <2>4, Steps DEF vars
  <1> QED BY <1>1 DEF SharesName, Begun

LEMMA Earlier ==
  ASSUME TypeOK, NEW u \in Uploads, post[u].at \in PostSteps
  PROVE  Begun(u) /\ post[u] \in PostRecords
  BY Shapes DEF Begun, New, PostSteps

(* What a request's step does to the bucket and the rows.                  *)
LEMMA PostFiles ==
  ASSUME FileInv, [Next]_vars, NEW u \in Uploads, Posting(u)
  PROVE  (BlobsNamed /\ RowsLater /\ OwnFile)'
  <1>1. TypeOK /\ post \in [Uploads -> {New} \cup PostRecords] /\ TypeOK'
    BY Shapes, VerdictNext DEF FileInv, VerdictInv
  <1>2. \A v \in Uploads \ {u} : post'[v] = post[v]
    BY <1>1, Posts
  <1>3. CASE StoreBlob(u)
    <2>1. Begun(u) /\ post[u] \in PostRecords /\ post[u].at = "store"
      BY <1>1, <1>3, Earlier DEF StoreBlob, PostAt, PostSteps
    <2>2. post'[u].at = "create" /\ post'[u].name = post[u].name /\ Begun(u)'
      BY <1>1, <1>3, <2>1, PostGoes DEF StoreBlob, PostSteps, Begun
    <2>3. /\ blob'[post[u].name] = u
          /\ \A n \in Names \ {post[u].name} : blob'[n] = blob[n]
      BY <1>1, <1>3, <2>1, Shapes DEF StoreBlob, PostRecords
    <2>4. UNCHANGED row
      BY <1>3 DEF StoreBlob
    <2>5. BlobsNamed'
      <3>1. SUFFICES ASSUME NEW n \in Names, blob'[n] # NoUpload
                     PROVE  Begun(blob[n])' /\ post'[blob'[n]].name = n
        BY DEF BlobsNamed, Begun
      <3>2. CASE n = post[u].name
        BY <2>2, <2>3, <3>2 DEF Begun
      <3>3. CASE n # post[u].name
        <4>1. blob'[n] = blob[n] /\ Begun(blob[n]) /\ post[blob[n]].name = n
          BY <2>3, <3>1, <3>3 DEF FileInv, BlobsNamed
        <4>2. blob[n] \in Uploads
          BY <1>1, <3>1, <4>1, Shapes
        <4> QED BY <1>1, <4>1, <4>2, NamesStay DEF Begun
      <3> QED BY <3>2, <3>3
    <2>6. RowsLater'
      <3>1. row[u] = "none"
        BY <2>1 DEF FileInv, RowsLater
      <3> QED BY <1>2, <2>4, <3>1 DEF FileInv, RowsLater
    <2>7. OwnFile'
      <3>1. SUFFICES ASSUME NEW v \in Uploads, Kept(v)', v # u
                     PROVE  blob'[post'[v].name] = v \/ SharesName(v)'
        BY <2>2, <2>3 DEF OwnFile
      <3>2. Kept(v) /\ post'[v] = post[v]
        BY <1>2, <2>4, <3>1 DEF Kept
      <3>3. Begun(v) /\ post[v] \in PostRecords
        BY <1>1, <3>2, Earlier DEF FileInv, RowsLater, Kept, PostSteps
      <3>4. CASE post[v].name = post[u].name
        BY <2>2, <3>1, <3>2, <3>4 DEF SharesName, Begun
      <3>5. CASE post[v].name # post[u].name
        <4>1. blob'[post[v].name] = blob[post[v].name]
          BY <2>3, <3>3, <3>5 DEF PostRecords
        <4> QED BY <1>1, <3>2, <3>3, <4>1, NamesStay DEF FileInv, OwnFile
      <3> QED BY <3>4, <3>5
    <2> QED BY <2>5, <2>6, <2>7
  <1>4. CASE ~StoreBlob(u)
    <2>1. UNCHANGED blob
      BY <1>4 DEF Posting, Begin, PostStep, CreateUpload, CreatePending, Enqueue, AbandonPost
    <2>2. BlobsNamed'
      <3>1. \A n \in Names : blob[n] # NoUpload => blob[n] \in Uploads
        BY <1>1, Shapes
      <3> QED BY <1>1, <2>1, <3>1, NamesStay DEF FileInv, BlobsNamed, Begun
    <2>3. /\ \A v \in Uploads \ {u} : row'[v] = row[v]
          /\ post'[u].at \in {"pend", "enqueue", "done"} \/ row'[u] = "none"
          /\ Kept(u)' => Kept(u)
      <3>1. CASE CreateUpload(u)
        <4>1. Begun(u) /\ post[u].at = "create"
          BY <1>1, <3>1, Earlier DEF CreateUpload, PostAt, PostSteps
        <4>2. post'[u].at \in {"pend", "done"}
          BY <1>1, <3>1, <4>1, PostGoes DEF CreateUpload, PostSteps
        <4>3. \A v \in Uploads \ {u} : row'[v] = row[v]
          BY <1>1, <3>1, Shapes DEF CreateUpload
        <4> QED BY <4>1, <4>2, <4>3 DEF Kept
      <3>2. CASE ~CreateUpload(u)
        <4>1. UNCHANGED row
          BY <1>4, <3>2 DEF Posting, Begin, PostStep, CreatePending, Enqueue, AbandonPost
        <4>2. CASE \E n \in Names, ai \in BOOLEAN : Begin(u, n, ai)
          <5>1. post[u].at = "new" /\ post'[u].at = "store"
            BY <1>1, <4>2 DEF Begin, New
          <5>2. row[u] = "none"
            BY <5>1 DEF FileInv, RowsLater
          <5> QED BY <4>1, <5>1, <5>2 DEF Kept
        <4>3. CASE \E step \in {"enqueue", "done"} : PostGoTo(u, step) /\ Begun(u)
          <5>1. post'[u].at \in {"enqueue", "done"}
            BY <1>1, <4>3, PostGoes DEF PostSteps
          <5> QED BY <4>1, <5>1 DEF Kept
        <4> QED BY <1>4, <3>2, <4>2, <4>3
                DEF Posting, PostStep, CreatePending, Enqueue, AbandonPost, PostAt, Begun, New,
                    PostSteps
      <3> QED BY <3>1, <3>2
    <2>4. RowsLater'
      BY <1>2, <2>3 DEF FileInv, RowsLater
    <2>5. OwnFile'
      <3>1. SUFFICES ASSUME NEW v \in Uploads, Kept(v)'
                     PROVE  blob'[post'[v].name] = v \/ SharesName(v)'
        BY DEF OwnFile
      <3>2. Kept(v)
        BY <1>2, <2>3, <3>1 DEF Kept
      <3>3. Begun(v)
        BY <1>1, <3>2, Earlier DEF FileInv, RowsLater, Kept, PostSteps
      <3> QED BY <1>1, <2>1, <3>2, <3>3, NamesStay DEF FileInv, OwnFile
    <2> QED BY <2>2, <2>4, <2>5
  <1> QED BY <1>3, <1>4

(* Deleting a file takes it from the key's other uploads only.             *)
LEMMA DeleteFiles ==
  ASSUME FileInv, [Next]_vars, NEW u \in Uploads, Deleting(u) \/ Rating(u)
  PROVE  (BlobsNamed /\ RowsLater /\ OwnFile)'
  <1>1. TypeOK
    BY DEF FileInv, VerdictInv
  <1>2. UNCHANGED post
    BY DEF Deleting, Rating, DeleteUpload, DeleteBlob, AbandonDelete, RecordFeedback
  <1>3. \A v \in Uploads : /\ row'[v] # "none" => row[v] # "none"
                           /\ row'[v] = "stored" => row[v] = "stored"
    BY <1>1, Shapes DEF Deleting, Rating, DeleteUpload, DeleteBlob, AbandonDelete, RecordFeedback
  <1>4. RowsLater'
    BY <1>2, <1>3 DEF FileInv, RowsLater
  <1>5. \A v \in Uploads : Kept(v)' => Kept(v) /\ Begun(v) /\ post[v] \in PostRecords
    BY <1>1, <1>2, <1>3, Earlier DEF Kept, FileInv, RowsLater, PostSteps
  <1>6. CASE DeleteBlob(u)
    <2>1. row[u] = "unlinked" /\ row'[u] = "gone" /\ post[u].at \in {"pend", "enqueue", "done"}
      BY <1>1, <1>6, Shapes DEF DeleteBlob, FileInv, RowsLater
    <2>2. Begun(u) /\ post[u] \in PostRecords
      BY <1>1, <2>1, Earlier DEF PostSteps
    <2>3. /\ \A n \in Names \ {post[u].name} : blob'[n] = blob[n]
          /\ blob'[post[u].name] = NoUpload
      BY <1>1, <1>6, <2>2, Shapes DEF DeleteBlob, PostRecords
    <2>4. BlobsNamed'
      BY <1>2, <2>3 DEF FileInv, BlobsNamed, Begun
    <2>5. OwnFile'
      <3>1. SUFFICES ASSUME NEW v \in Uploads, Kept(v)'
                     PROVE  blob'[post[v].name] = v \/ SharesName(v)
        BY <1>2 DEF OwnFile, SharesName
      <3>2. v # u
        BY <1>2, <2>1, <3>1 DEF Kept
      <3>3. CASE post[v].name = post[u].name
        BY <2>2, <3>2, <3>3 DEF SharesName, Begun
      <3>4. CASE post[v].name # post[u].name
        BY <1>5, <2>3, <3>1, <3>4 DEF FileInv, OwnFile, PostRecords
      <3> QED BY <3>3, <3>4
    <2> QED BY <1>4, <2>4, <2>5
  <1>7. CASE ~DeleteBlob(u)
    <2>1. UNCHANGED blob
      BY <1>7 DEF Deleting, Rating, DeleteUpload, AbandonDelete, RecordFeedback
    <2> QED BY <1>2, <1>4, <1>5, <2>1 DEF FileInv, BlobsNamed, OwnFile, Begun, SharesName
  <1> QED BY <1>6, <1>7

LEMMA FilesStep ==
  ASSUME FileInv, [Next]_vars
  PROVE  (BlobsNamed /\ RowsLater /\ OwnFile)'
  <1>1. CASE UNCHANGED <<post, row, blob>>
    BY <1>1 DEF FileInv, BlobsNamed, RowsLater, OwnFile, Kept, Begun, SharesName
  <1>2. ASSUME NEW w \in Workers, Delivering(w) \/ Running(w)
        PROVE  UNCHANGED <<post, row, blob>>
    BY <1>2 DEF Delivering, Deliver, Running, WorkerStep, GetByUpload, LoadContext, Download,
                Verify, MarkSucceeded, MarkFailed, Answer, AbandonDelivery
  <1> QED BY <1>1, <1>2, PostFiles, DeleteFiles, Steps DEF vars

(* A download reads what the key of its upload holds.                      *)
LEMMA ContentStep ==
  ASSUME FileInv, [Next]_vars
  PROVE  OwnContent'
  <1>1. TypeOK /\ Known /\ worker \in [Workers -> {Idle} \cup WorkerRecords]
    BY Shapes DEF FileInv, VerdictInv
  <1>2. SUFFICES ASSUME NEW w \in Workers, Active(w)', worker'[w].at \in {"ask", "succeed"},
                        NEW u \in Uploads, worker'[w].upload = u
                 PROVE  worker'[w].saw = u \/ SharesName(u)'
    <2>1. \A w \in Workers : Active(w)' => worker'[w].upload \in Uploads
      BY VerdictNext, Shapes DEF FileInv, VerdictInv, TypeOK, Active, WorkerRecords
    <2> QED BY <2>1 DEF OwnContent, Active, SharesName
  <1>3. ASSUME Active(w), worker[w].at \in {"ask", "succeed"},
               worker'[w].saw = worker[w].saw, worker[w].upload = u
        PROVE  worker'[w].saw = u \/ SharesName(u)'
    <2>1. Begun(u)
      BY <1>1, <1>3 DEF Known
    <2>2. worker[w].saw = u \/ SharesName(u)
      BY <1>3 DEF FileInv, OwnContent
    <2> QED BY <1>1, <1>3, <2>1, <2>2, NamesStay
  <1>4. CASE UNCHANGED worker
    BY <1>2, <1>3, <1>4 DEF Active
  <1>5. ASSUME NEW v \in Uploads, Posting(v) \/ Deleting(v) \/ Rating(v)
        PROVE  UNCHANGED worker
    BY <1>5 DEF Posting, Begin, PostStep, StoreBlob, CreateUpload, CreatePending, Enqueue,
                AbandonPost, Deleting, Rating, DeleteUpload, DeleteBlob, AbandonDelete,
                RecordFeedback
  <1>6. ASSUME NEW x \in Workers, NEW v \in Uploads, Deliver(x, v)
        PROVE  worker'[w].saw = u \/ SharesName(u)'
    BY <1>1, <1>2, <1>3, <1>6, Delivers
  <1>7. ASSUME NEW x \in Workers, Running(x)
        PROVE  worker'[w].saw = u \/ SharesName(u)'
    <2>1. CASE w # x
      BY <1>1, <1>2, <1>3, <1>7, <2>1, Runs DEF Active
    <2>2. CASE w = x /\ Download(w)
      <3>1. Active(w) /\ worker[w] \in WorkerRecords /\ worker[w].upload = u
        BY <1>1, <1>2, <1>7, <2>2, Runs
      <3>2. Begun(u) /\ post[u] \in PostRecords
        BY <1>1, <3>1, Shapes DEF Known, Begun
      <3>3. Content(w) # NoUpload /\ worker'[w].saw = Content(w)
        <4>1. ~WorkerGoTo(w, "fail")
          BY <1>1, <1>2, <3>1 DEF WorkerGoTo, WorkerRecords
        <4>2. /\ Content(w) # NoUpload
              /\ worker' = [worker EXCEPT ![w].at = "ask", ![w].saw = Content(w)]
          BY <2>2, <4>1 DEF Download
        <4> QED BY <1>1, <3>1, <4>2 DEF WorkerRecords
      <3>4. Content(w) \in Uploads /\ Begun(Content(w)) /\ post[Content(w)].name = post[u].name
        BY <1>1, <3>1, <3>2, <3>3, Shapes DEF Content, PostRecords, FileInv, BlobsNamed
      <3>5. Content(w) = u \/ SharesName(u)
        BY <3>4 DEF SharesName, Begun
      <3> QED BY <1>1, <3>2, <3>3, <3>5, NamesStay
    <2>3. CASE w = x /\ Verify(w)
      <3>1. Active(w) /\ worker[w] \in WorkerRecords /\ worker[w].upload = u
        BY <1>1, <1>2, <1>7, <2>3, Runs
      <3>2. worker[w].at = "ask" /\ worker'[w].saw = worker[w].saw
        BY <1>1, <2>3, <3>1 DEF Verify, WorkerAt, WorkerGoTo, WorkerRecords
      <3> QED BY <1>3, <3>1, <3>2
    <2>4. CASE w = x /\ ~Download(w) /\ ~Verify(w)
      <3>1. \E step \in WorkerSteps \ {"ask", "succeed"} :
              WorkerGoTo(w, step) \/ worker' = [worker EXCEPT ![w] = Idle]
        BY <1>7, <2>4
        DEF Running, WorkerStep, GetByUpload, LoadContext, MarkSucceeded, MarkFailed, Answer,
            AbandonDelivery, EndDelivery, WorkerSteps
      <3>2. worker[w] \in WorkerRecords
        BY <1>1, <1>7, <2>4, Runs
      <3> QED BY <1>1, <1>2, <3>1, <3>2 DEF WorkerGoTo, WorkerRecords, Active
    <2> QED BY <2>1, <2>2, <2>3, <2>4
  <1> QED BY <1>4, <1>5, <1>6, <1>7, Steps DEF Delivering, vars

LEMMA VerdictsOwn ==
  ASSUME FileInv, [Next]_vars
  PROVE  OwnVerdict'
  <1>1. TypeOK /\ Known /\ check \in [Uploads -> CheckRecords]
    BY Shapes DEF FileInv, VerdictInv
  <1>2. SUFFICES ASSUME NEW u \in Uploads, check'[u].status = "succeeded"
                 PROVE  check'[u].of = u \/ SharesName(u)'
    BY DEF OwnVerdict, SharesName
  <1>3. ASSUME check[u].status = "succeeded", check'[u].of = check[u].of
        PROVE  check'[u].of = u \/ SharesName(u)'
    <2>1. check[u] # NoCheck
      BY <1>3 DEF NoCheck
    <2>2. Begun(u)
      BY <2>1 DEF FileInv, VerdictInv, CheckedOnce, Begun, New
    <2> QED BY <1>1, <1>3, <2>2, NamesStay DEF FileInv, OwnVerdict
  <1>4. CASE SameVerdict(u)
    BY <1>2, <1>3, <1>4 DEF SameVerdict
  <1>5. CASE ~SameVerdict(u)
    <2>1. PICK w \in Workers : Active(w) /\ worker[w].upload = u /\ Running(w)
      BY <1>2, <1>5, VerdictGiver DEF FileInv, Final
    <2>2. MarkSucceeded(w) \/ MarkFailed(w)
      BY <1>1, <1>5, <2>1, Verdicts DEF SameVerdict
    <2>3. CASE MarkFailed(w)
      BY <1>1, <1>2, <1>5, <2>1, <2>3 DEF MarkFailed, CheckRecords, SameVerdict
    <2>4. CASE MarkSucceeded(w)
      <3>1. check'[u].of = worker[w].saw
        BY <1>1, <1>5, <2>1, <2>4 DEF MarkSucceeded, CheckRecords, SameVerdict
      <3>2. worker[w].saw = u \/ SharesName(u)
        BY <2>1, <2>4 DEF MarkSucceeded, WorkerAt, FileInv, OwnContent
      <3>3. Begun(u)
        BY <1>1, <2>1 DEF Known
      <3> QED BY <1>1, <3>1, <3>2, <3>3, NamesStay
    <2> QED BY <2>2, <2>3, <2>4
  <1> QED BY <1>4, <1>5

LEMMA FileNext ==
  ASSUME FileInv, [Next]_vars
  PROVE  FileInv'
  BY VerdictNext, FilesStep, ContentStep, VerdictsOwn DEF FileInv

(* Whatever stops half way, an upload on record has its own file and its   *)
(* verdict is about that file, unless another upload has the same key      *)
(* (task/handler.go, UploadFile and DeleteUpload).                         *)
THEOREM OwnFiles == Spec => []OwnFileUnlessNameShared
  <1>1. Init => FileInv
    BY FileInit
  <1>2. FileInv /\ [Next]_vars => FileInv'
    BY FileNext
  <1>3. FileInv => OwnFileUnlessNameShared
    BY DEF FileInv, OwnFile, OwnVerdict, Kept, OwnFileUnlessNameShared
  <1> QED BY <1>1, <1>2, <1>3, PTL DEF Spec

-----------------------------------------------------------------------------
(* Files nobody accounts for.                                              *)

LEMMA FilesLeftStep ==
  ASSUME TypeOK, Known, [Next]_vars, NEW n \in Names, AccountedFor(n), ~AccountedFor(n)'
  PROVE  \E u \in Uploads :
           /\ post[u] # New /\ post[u].name = n /\ blob' = blob
           /\ \/ post[u].at = "create" /\ post'[u].at = "done" /\ row' = row
              \/ row[u] = "unlinked" /\ row'[u] = "gone"
  <1>1. /\ blob'[n] # NoUpload
        /\ \A u \in Uploads : /\ post'[u] # New /\ post'[u].name = n
                              => /\ row'[u] \notin {"stored", "unlinked"}
                                 /\ post'[u].at # "create"
    BY DEF AccountedFor
  <1>2. /\ post \in [Uploads -> {New} \cup PostRecords]
        /\ row \in [Uploads -> {"none", "stored", "unlinked", "gone"}]
        /\ blob \in [Names -> Uploads \cup {NoUpload}]
    BY Shapes
  <1>3. blob[n] # NoUpload
    <2>1. SUFFICES ASSUME blob[n] = NoUpload PROVE FALSE
      OBVIOUS
    <2>2. PICK u \in Uploads : StoreBlob(u)
      BY <1>1, <1>2, <2>1, Steps
      DEF vars, Posting, Begin, PostStep, CreateUpload, CreatePending, Enqueue, AbandonPost,
          Deleting, Rating, DeleteUpload, DeleteBlob, AbandonDelete, RecordFeedback,
          Delivering, Deliver, Running, WorkerStep, GetByUpload, LoadContext, Download, Verify,
          MarkSucceeded, MarkFailed, Answer, AbandonDelivery
    <2>3. Begun(u) /\ post[u].name = n
      BY <1>1, <1>2, <2>1, <2>2 DEF StoreBlob, PostAt, Begun, New
    <2>4. post'[u] # New /\ post'[u].name = n /\ post'[u].at = "create"
      BY <2>2, <2>3, PostGoes DEF StoreBlob, PostSteps
    <2> QED BY <1>1, <2>4
  <1>4. PICK u \in Uploads : /\ Begun(u) /\ post[u].name = n
                             /\ row[u] \in {"stored", "unlinked"} \/ post[u].at = "create"
    BY <1>3 DEF AccountedFor, Begun
  <1>5. /\ row'[u] \notin {"stored", "unlinked"} /\ post'[u].at # "create"
        /\ post'[u] # New /\ post'[u].name = n
    BY <1>1, <1>4, NamesStay DEF Begun
  <1>6. CASE Posting(u)
    <2>1. ~CreateUpload(u)
      BY <1>2, <1>5 DEF CreateUpload
    <2>2. row' = row
      BY <1>6, <2>1 DEF Posting, Begin, PostStep, StoreBlob, CreatePending, Enqueue, AbandonPost
    <2>3. post[u].at = "create"
      BY <1>4, <1>5, <2>2
    <2>4. AbandonPost(u)
      BY <1>4, <1>6, <2>1, <2>3 DEF Posting, Begin, PostStep, StoreBlob, CreatePending,
                                    Enqueue, PostAt, Begun
    <2>5. post'[u].at = "done" /\ blob' = blob
      BY <1>4, <2>4, PostGoes DEF AbandonPost, PostSteps
    <2> QED BY <1>4, <2>2, <2>3, <2>5 DEF Begun
  <1>7. CASE Deleting(u)
    <2>1. post' = post /\ row[u] \in {"stored", "unlinked"}
      BY <1>4, <1>5, <1>7 DEF Deleting, DeleteUpload, DeleteBlob, AbandonDelete
    <2>2. ~DeleteUpload(u)
      BY <1>2, <1>5 DEF DeleteUpload
    <2>3. ~DeleteBlob(u)
      BY <1>1, <1>2, <1>4 DEF DeleteBlob
    <2>4. row[u] = "unlinked" /\ row'[u] = "gone" /\ blob' = blob
      BY <1>2, <1>7, <2>2, <2>3 DEF Deleting, AbandonDelete
    <2> QED BY <1>4, <2>4 DEF Begun
  <1>8. CASE ~Posting(u) /\ ~Deleting(u)
    <2>1. ASSUME NEW v \in Uploads, Posting(v) PROVE post'[u] = post[u]
      BY <1>8, <2>1, Posts
    <2>2. ASSUME NEW v \in Uploads, Deleting(v) \/ Rating(v) PROVE post'[u] = post[u]
      BY <2>2 DEF Deleting, Rating, DeleteUpload, DeleteBlob, AbandonDelete, RecordFeedback
    <2>3. ASSUME NEW w \in Workers, Delivering(w) \/ Running(w) PROVE UNCHANGED <<post, row>>
      BY <2>3 DEF Delivering, Deliver, Running, WorkerStep, GetByUpload, LoadContext, Download,
                  Verify, MarkSucceeded, MarkFailed, Answer, AbandonDelivery
    <2>4. ASSUME NEW v \in Uploads, Posting(v) \/ Deleting(v) \/ Rating(v)
          PROVE  row'[u] = row[u]
      BY <1>2, <1>8, <2>4
      DEF Posting, Begin, PostStep, StoreBlob, CreateUpload, CreatePending, Enqueue,
          AbandonPost, Deleting, Rating, DeleteUpload, DeleteBlob, AbandonDelete, RecordFeedback
    <2>5. post'[u] = post[u] /\ row'[u] = row[u]
      BY <2>1, <2>2, <2>3, <2>4, Steps DEF vars
    <2> QED BY <1>4, <1>5, <2>5
  <1> QED BY <1>6, <1>7, <1>8

(* A file is left in the bucket without a row only by an upload that       *)
(* stopped before its row, or a deletion that stopped after it             *)
(* (task/handler.go, UploadFile and DeleteUpload).                         *)
THEOREM FilesLeft == Spec => FilesLeftOnlyBy
  <1>1. ASSUME TypeOK /\ Known, [Next]_vars
        PROVE  [\A n \in Names : AccountedFor(n) /\ ~AccountedFor(n)' =>
                  \E u \in Uploads :
                    /\ post[u] # New /\ post[u].name = n /\ blob' = blob
                    /\ \/ post[u].at = "create" /\ post'[u].at = "done" /\ row' = row
                       \/ row[u] = "unlinked" /\ row'[u] = "gone"]_vars
    BY <1>1, FilesLeftStep
  <1>2. Init => TypeOK /\ Known BY TypeInit
  <1>3. TypeOK /\ Known /\ [Next]_vars => (TypeOK /\ Known)' BY TypeNext
  <1> QED BY <1>1, <1>2, <1>3, PTL DEF Spec, FilesLeftOnlyBy

-----------------------------------------------------------------------------
(* Verifications nobody will decide.  Until its request is over an upload  *)
(* has no task, so the first delivery finds every attempt left.            *)

NotYetQueued ==
  \A u \in Uploads : post[u].at # "done" =>
    /\ u \notin queue /\ attempts[u] = 0
    /\ \A w \in Workers : ~Working(w, u)

QueueInv == TypeOK /\ Known /\ NotYetQueued

LEMMA QueueInit == ASSUME Init PROVE QueueInv
  BY TypeInit DEF Init, QueueInv, NotYetQueued, Working

LEMMA QueueNext ==
  ASSUME QueueInv, [Next]_vars
  PROVE  QueueInv'
  <1>1. TypeOK /\ Known /\ (TypeOK /\ Known)'
    BY TypeNext DEF QueueInv
  <1>2. SUFFICES ASSUME NEW u \in Uploads, post'[u].at # "done"
                 PROVE  /\ u \notin queue' /\ attempts'[u] = 0
                        /\ \A w \in Workers : ~Working(w, u)'
    BY <1>1 DEF QueueInv, NotYetQueued, Working
  <1>3. post[u].at # "done"
    <2>1. SUFFICES ASSUME post[u].at = "done" PROVE post'[u] = post[u]
      BY <1>2
    <2>2. ASSUME NEW v \in Uploads, Posting(v) PROVE post'[u] = post[u]
      <3>1. ~Posting(u)
        BY <2>1 DEF Posting, Begin, PostStep, StoreBlob, CreateUpload, CreatePending, Enqueue,
                    AbandonPost, PostAt, New
      <3> QED BY <1>1, <2>2, <3>1, Posts
    <2>3. ASSUME NEW v \in Uploads, Deleting(v) \/ Rating(v) PROVE post' = post
      BY <2>3 DEF Deleting, Rating, DeleteUpload, DeleteBlob, AbandonDelete, RecordFeedback
    <2>4. ASSUME NEW w \in Workers, Delivering(w) \/ Running(w) PROVE post' = post
      BY <2>4 DEF Delivering, Deliver, Running, WorkerStep, GetByUpload, LoadContext, Download,
                  Verify, MarkSucceeded, MarkFailed, Answer, AbandonDelivery
    <2> QED BY <2>2, <2>3, <2>4, Steps DEF vars
  <1>4. /\ u \notin queue /\ attempts[u] = 0
        /\ \A w \in Workers : ~Working(w, u)
    BY <1>3 DEF QueueInv, NotYetQueued
  <1>5. ASSUME UNCHANGED <<attempts, worker>>, u \notin queue'
        PROVE  /\ u \notin queue' /\ attempts'[u] = 0
               /\ \A w \in Workers : ~Working(w, u)'
    BY <1>4, <1>5 DEF Working
  <1>6. ASSUME NEW v \in Uploads, Posting(v)
        PROVE  UNCHANGED <<attempts, worker>> /\ u \notin queue'
    <2>1. ASSUME Enqueue(u) PROVE FALSE
      <3>1. Begun(u)
        BY <2>1 DEF Enqueue, PostAt, Begun, New
      <3> QED BY <1>1, <1>2, <2>1, <3>1, PostGoes DEF Enqueue, PostSteps
    <2> QED BY <1>4, <1>6, <2>1 DEF Posting, Begin, PostStep, StoreBlob, CreateUpload,
                                    CreatePending, Enqueue, AbandonPost
  <1>7. ASSUME NEW v \in Uploads, Deleting(v) \/ Rating(v)
        PROVE  UNCHANGED <<attempts, worker>> /\ u \notin queue'
    BY <1>4, <1>7 DEF Deleting, Rating, DeleteUpload, DeleteBlob, AbandonDelete, RecordFeedback
  <1>8. ASSUME NEW w \in Workers, NEW v \in Uploads, Deliver(w, v)
        PROVE  /\ u \notin queue' /\ attempts'[u] = 0
               /\ \A x \in Workers : ~Working(x, u)'
    <2>1. v # u /\ queue' = queue
      BY <1>4, <1>8 DEF Deliver
    <2>2. attempts'[u] = attempts[u]
      BY <1>1, <1>8, <2>1, Shapes DEF Deliver
    <2>3. \A x \in Workers : ~Working(x, u)'
      BY <1>1, <1>4, <1>8, <2>1, Delivers DEF Working, Active
    <2> QED BY <1>4, <2>1, <2>2, <2>3
  <1>9. ASSUME NEW w \in Workers, Running(w)
        PROVE  /\ u \notin queue' /\ attempts'[u] = 0
               /\ \A x \in Workers : ~Working(x, u)'
    <2>1. attempts' = attempts /\ queue' \subseteq queue
      BY <1>9 DEF Running, WorkerStep, GetByUpload, LoadContext, Download, Verify,
                  MarkSucceeded, MarkFailed, Answer, AbandonDelivery, EndDelivery
    <2>2. \A x \in Workers : ~Working(x, u)'
      BY <1>1, <1>4, <1>9, Runs DEF Working, Active
    <2> QED BY <1>4, <2>1, <2>2
  <1> QED BY <1>4, <1>5, <1>6, <1>7, <1>8, <1>9, Steps DEF Delivering, vars, Working

(* A verification becomes pending only when its request creates it.        *)
LEMMA PendingBegins ==
  ASSUME TypeOK, Known, [Next]_vars, NEW u \in Uploads,
         check[u].status # "pending", check'[u].status = "pending"
  PROVE  post'[u].at = "enqueue"
  <1>1. check \in [Uploads -> CheckRecords]
    BY Shapes
  <1>2. ASSUME NEW v \in Uploads, Posting(v) PROVE post'[u].at = "enqueue"
    BY <1>2, PostChecks
  <1>3. ASSUME NEW v \in Uploads, Deleting(v) \/ Rating(v) PROVE FALSE
    <2>1. CASE DeleteUpload(v)
      BY <1>1, <2>1 DEF DeleteUpload, NoCheck
    <2>2. ASSUME NEW g \in Feedbacks, RecordFeedback(v, g) PROVE FALSE
      <3>1. check' = [check EXCEPT ![v] = [check[v] EXCEPT !.feedback = g]]
        BY <2>2 DEF RecordFeedback
      <3>2. u = v /\ check'[u] = [check[u] EXCEPT !.feedback = g]
        BY <1>1, <3>1
      <3> QED BY <1>1, <3>2 DEF CheckRecords
    <2>3. CASE check' = check
      BY <2>3
    <2> QED BY <1>3, <2>1, <2>2, <2>3 DEF Deleting, Rating, DeleteBlob, AbandonDelete
  <1>4. ASSUME NEW w \in Workers, Running(w) PROVE FALSE
    <2>1. check'[u] # check[u]
      OBVIOUS
    <2>2. MarkSucceeded(w) \/ MarkFailed(w)
      BY <1>4, <2>1, Verdicts
    <2>3. check'[u].status \in {"succeeded", "failed"}
      BY <1>1, <2>1, <2>2 DEF MarkSucceeded, MarkFailed, CheckRecords
    <2> QED BY <2>3
  <1> QED BY <1>2, <1>3, <1>4, Steps DEF Delivering, Deliver, vars

(* A delivery of a verification that stays pending is still under way, is  *)
(* over, or comes to its answer because MarkFailed's error was dropped.    *)
LEMMA PendingRuns ==
  ASSUME TypeOK, Known, NEW w \in Workers, Running(w), NEW u \in Uploads,
         Working(w, u), worker[w].at # "answer",
         check[u].status = "pending", check'[u].status = "pending"
  PROVE  \/ Working(w, u)' /\ worker'[w].at # "answer"
         \/ worker'[w] = Idle /\ AbandonDelivery(w)
         \/ worker[w].at = "fail" /\ worker'[w].at = "answer" /\ check' = check
  <1>1. /\ worker \in [Workers -> {Idle} \cup WorkerRecords]
        /\ worker[w] \in WorkerRecords /\ worker[w].upload = u
        /\ check \in [Uploads -> CheckRecords]
    BY Runs, Shapes DEF Working
  <1>2. ASSUME worker'[w] # Idle PROVE Working(w, u)'
    BY <1>1, <1>2, Runs DEF Working, Active
  <1>3. ASSUME NEW step \in WorkerSteps, WorkerGoTo(w, step)
        PROVE  worker'[w] # Idle /\ worker'[w].at = step
    <2>1. worker'[w] = [worker[w] EXCEPT !.at = step]
      BY <1>1, <1>3 DEF WorkerGoTo
    <2>2. worker'[w].at = step
      BY <1>1, <2>1 DEF WorkerRecords
    <2> QED BY <2>2 DEF Idle, WorkerSteps
  <1>4. CASE GetByUpload(w) \/ LoadContext(w)
    <2>1. \E step \in {"load", "download", "fail"} : WorkerGoTo(w, step)
      BY <1>1, <1>4 DEF GetByUpload, LoadContext
    <2> QED BY <1>2, <1>3, <2>1 DEF WorkerSteps
  <1>5. CASE Download(w)
    <2>1. CASE WorkerGoTo(w, "fail")
      BY <1>2, <1>3, <2>1 DEF WorkerSteps
    <2>2. CASE worker' = [worker EXCEPT ![w].at = "ask", ![w].saw = Content(w)]
      <3>1. worker'[w] = [worker[w] EXCEPT !.at = "ask", !.saw = Content(w)]
        BY <1>1, <2>2
      <3>2. worker'[w].at = "ask"
        BY <1>1, <3>1 DEF WorkerRecords
      <3> QED BY <1>2, <3>2 DEF Idle
    <2> QED BY <1>5, <2>1, <2>2 DEF Download
  <1>6. CASE Verify(w)
    <2>1. CASE WorkerGoTo(w, "fail")
      BY <1>2, <1>3, <2>1 DEF WorkerSteps
    <2>2. ASSUME NEW f \in BOOLEAN,
                 worker' = [worker EXCEPT ![w].at = "succeed", ![w].flagged = f]
          PROVE  Working(w, u)' /\ worker'[w].at # "answer"
      <3>1. worker'[w] = [worker[w] EXCEPT !.at = "succeed", !.flagged = f]
        BY <1>1, <2>2
      <3>2. worker'[w].at = "succeed"
        BY <1>1, <3>1 DEF WorkerRecords
      <3> QED BY <1>2, <3>2 DEF Idle
    <2> QED BY <1>6, <2>1, <2>2 DEF Verify
  <1>7. CASE MarkSucceeded(w)
    <2>1. check[u] # NoCheck
      BY DEF NoCheck
    <2>2. check'[u].status = "succeeded"
      BY <1>1, <1>7, <2>1 DEF MarkSucceeded, CheckRecords
    <2> QED BY <2>2
  <1>8. CASE MarkFailed(w)
    <2>1. check[u] # NoCheck
      BY DEF NoCheck
    <2>2. check' = check
      <3>1. ASSUME check' = [check EXCEPT ![u].status = "failed"] PROVE FALSE
        <4>1. check'[u] = [check[u] EXCEPT !.status = "failed"] /\ check[u] \in CheckRecords
          BY <1>1, <3>1
        <4>2. check'[u].status = "failed"
          BY <4>1 DEF CheckRecords
        <4> QED BY <4>2
      <3> QED BY <1>1, <1>8, <2>1, <3>1 DEF MarkFailed
    <2>3. worker[w].at = "fail" /\ worker'[w].at = "answer"
      BY <1>3, <1>8 DEF MarkFailed, WorkerAt, WorkerSteps
    <2> QED BY <2>2, <2>3
  <1>9. CASE AbandonDelivery(w)
    <2>1. worker'[w] = Idle
      BY <1>1, <1>9 DEF AbandonDelivery, EndDelivery
    <2> QED BY <1>9, <2>1
  <1> QED BY <1>4, <1>5, <1>6, <1>7, <1>8, <1>9 DEF Running, WorkerStep, Answer, WorkerAt

(* While the task is in the queue with an attempt left and no delivery is  *)
(* about to end it, a delivery that stops half way leaves it there.        *)
LEMMA PendingLeftStep ==
  ASSUME QueueInv, [Next]_vars, NEW u \in Uploads, InHand(u), ~InHand(u)'
  PROVE  \/ post[u].at = "enqueue" /\ queue' = queue
         \/ \E w \in Workers :
              /\ Working(w, u)
              /\ \/ /\ worker'[w] = Idle
                    /\ u \notin queue \/ attempts[u] = MaxAttempts \/ Answering(u)
                 \/ worker[w].at = "fail" /\ worker'[w].at = "answer" /\ check' = check
  <1>1. TypeOK /\ Known /\ (TypeOK /\ Known)'
    BY TypeNext DEF QueueInv
  <1>2. /\ check'[u].status = "pending" /\ post'[u].at # "enqueue"
        /\ ~(u \in queue' /\ attempts'[u] < MaxAttempts /\ ~Answering(u)')
        /\ \A w \in Workers : Working(w, u)' => worker'[w].at = "answer"
    BY DEF InHand, Working
  <1>3. check[u].status = "pending"
    BY <1>1, <1>2, PendingBegins
  <1>4. /\ attempts \in [Uploads -> 0..MaxAttempts] /\ MaxAttempts \in Nat \ {0}
        /\ worker \in [Workers -> {Idle} \cup WorkerRecords]
    BY <1>1, Shapes, UploadAssumption
  <1>5. CASE post[u].at = "enqueue"
    <2>1. u \notin queue /\ attempts[u] = 0 /\ \A w \in Workers : ~Working(w, u)
      BY <1>5 DEF QueueInv, NotYetQueued
    <2>2. Begun(u)
      BY <1>5 DEF Begun, New
    <2>3. CASE Enqueue(u)
      <3>1. u \in queue' /\ attempts' = attempts /\ worker' = worker
        BY <2>3 DEF Enqueue
      <3>2. ~Answering(u)'
        BY <2>1, <3>1 DEF Answering, Working
      <3> QED BY <1>2, <1>4, <2>1, <3>1, <3>2
    <2>4. CASE AbandonPost(u)
      BY <1>5, <2>4 DEF AbandonPost
    <2>5. CASE ~Enqueue(u) /\ ~AbandonPost(u)
      <3>1. ~Posting(u)
        BY <1>5, <2>2, <2>5 DEF Posting, Begin, PostStep, StoreBlob, CreateUpload,
                                CreatePending, PostAt, Begun
      <3>2. ASSUME NEW v \in Uploads, Posting(v) PROVE post'[u] = post[u]
        BY <1>1, <3>1, <3>2, Posts
      <3>3. ASSUME NEW v \in Uploads, Deleting(v) \/ Rating(v) PROVE post' = post
        BY <3>3 DEF Deleting, Rating, DeleteUpload, DeleteBlob, AbandonDelete, RecordFeedback
      <3>4. ASSUME NEW w \in Workers, Delivering(w) \/ Running(w) PROVE post' = post
        BY <3>4 DEF Delivering, Deliver, Running, WorkerStep, GetByUpload, LoadContext,
                    Download, Verify, MarkSucceeded, MarkFailed, Answer, AbandonDelivery
      <3> QED BY <1>2, <1>5, <3>2, <3>3, <3>4, Steps DEF vars
    <2> QED BY <2>3, <2>4, <2>5
  <1>6. ASSUME NEW v \in Uploads, Posting(v) \/ Deleting(v) \/ Rating(v), post[u].at # "enqueue"
        PROVE  FALSE
    <2>1. worker' = worker /\ attempts' = attempts /\ queue \subseteq queue'
      BY <1>6 DEF Posting, Begin, PostStep, StoreBlob, CreateUpload, CreatePending, Enqueue,
                  AbandonPost, Deleting, Rating, DeleteUpload, DeleteBlob, AbandonDelete,
                  RecordFeedback
    <2> QED BY <1>2, <1>3, <1>6, <2>1 DEF InHand, Answering, Working
  <1>7. ASSUME NEW w \in Workers, NEW v \in Uploads, Deliver(w, v), post[u].at # "enqueue"
        PROVE  FALSE
    <2>1. CASE v = u
      BY <1>1, <1>2, <1>7, <2>1, Delivers DEF Working, Active
    <2>2. CASE v # u
      <3>1. queue' = queue /\ attempts'[u] = attempts[u]
        BY <1>4, <1>7, <2>2 DEF Deliver
      <3>2. \A x \in Workers : /\ Working(x, u)' <=> Working(x, u)
                               /\ Working(x, u) => worker'[x].at = worker[x].at
        BY <1>1, <1>7, <2>2, Delivers DEF Working, Active
      <3> QED BY <1>2, <1>3, <1>7, <3>1, <3>2 DEF InHand, Answering
    <2> QED BY <2>1, <2>2
  <1>8. ASSUME NEW w \in Workers, Running(w), post[u].at # "enqueue"
        PROVE  \E x \in Workers :
                 /\ Working(x, u)
                 /\ \/ /\ worker'[x] = Idle
                       /\ u \notin queue \/ attempts[u] = MaxAttempts \/ Answering(u)
                    \/ worker[x].at = "fail" /\ worker'[x].at = "answer" /\ check' = check
    <2>1. /\ \A x \in Workers \ {w} : worker'[x] = worker[x]
          /\ attempts' = attempts /\ Active(w)
      BY <1>1, <1>8, Runs DEF Running, WorkerStep, GetByUpload, LoadContext, Download, Verify,
                              MarkSucceeded, MarkFailed, Answer, AbandonDelivery
    <2>2. CASE worker[w].upload # u
      <3>1. u \in queue => u \in queue'
        BY <1>8, <2>2 DEF Running, WorkerStep, GetByUpload, LoadContext, Download, Verify,
                          MarkSucceeded, MarkFailed, Answer, AbandonDelivery, EndDelivery
      <3>2. \A x \in Workers : /\ Working(x, u)' <=> Working(x, u)
                               /\ Working(x, u) => worker'[x].at = worker[x].at
        BY <1>1, <1>8, <2>1, <2>2, Runs DEF Working, Active
      <3> QED BY <1>2, <1>3, <1>8, <2>1, <3>1, <3>2 DEF InHand, Answering
    <2>3. CASE Working(w, u) /\ worker[w].at = "answer"
      <3>1. Answering(u)
        BY <2>3 DEF Answering
      <3>2. PICK x \in Workers : Working(x, u) /\ worker[x].at # "answer"
        BY <1>3, <1>8, <3>1 DEF InHand
      <3>3. Working(x, u)' /\ worker'[x].at # "answer"
        BY <2>1, <2>3, <3>2 DEF Working
      <3> QED BY <1>2, <3>3
    <2>4. CASE Working(w, u) /\ worker[w].at # "answer"
      <3>1. \/ worker'[w] = Idle /\ AbandonDelivery(w)
            \/ worker[w].at = "fail" /\ worker'[w].at = "answer" /\ check' = check
        BY <1>1, <1>2, <1>3, <1>8, <2>4, PendingRuns
      <3>2. ASSUME worker'[w] = Idle, AbandonDelivery(w),
                   u \in queue, attempts[u] # MaxAttempts, ~Answering(u)
            PROVE  FALSE
        <4>1. queue' = queue
          BY <3>2, <2>4 DEF AbandonDelivery, EndDelivery, Working
        <4>2. ~Answering(u)'
          BY <2>1, <3>2 DEF Answering, Working
        <4> QED BY <1>2, <1>4, <2>1, <3>2, <4>1, <4>2
      <3> QED BY <2>4, <3>1, <3>2
    <2> QED BY <2>1, <2>2, <2>3, <2>4 DEF Working, Active
  <1>9. CASE UNCHANGED vars
    BY <1>2, <1>9 DEF vars, InHand, Answering, Working
  <1> QED BY <1>5, <1>6, <1>7, <1>8, <1>9, Steps DEF Delivering

(* A verification is left pending with nobody to decide it only when       *)
(* enqueueing it fails, when a delivery that will not be repeated stops    *)
(* half way, or when MarkFailed's error is dropped                         *)
(* (verification/handler.go, Process; task/handler.go, UploadFile).        *)
THEOREM PendingLeft == Spec => PendingLeftOnlyBy
  <1>1. ASSUME QueueInv, [Next]_vars
        PROVE  [\A u \in Uploads : InHand(u) /\ ~InHand(u)' =>
                  \/ post[u].at = "enqueue" /\ queue' = queue
                  \/ \E w \in Workers :
                       /\ Working(w, u)
                       /\ \/ /\ worker'[w] = Idle
                             /\ u \notin queue \/ attempts[u] = MaxAttempts \/ Answering(u)
                          \/ worker[w].at = "fail" /\ worker'[w].at = "answer" /\ check' = check
               ]_vars
    BY <1>1, PendingLeftStep
  <1> QED BY <1>1, QueueInit, QueueNext, PTL DEF Spec, PendingLeftOnlyBy
=============================================================================
