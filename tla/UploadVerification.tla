------------------------- MODULE UploadVerification -------------------------
(***************************************************************************)
(* Files uploaded for a task and their verification by the AI: the blobs   *)
(* in the bucket, the rows of task_uploads and upload_verifications, the   *)
(* verification queue (Cloud Tasks) and its workers.                       *)
(*                                                                         *)
(* A handler or worker runs one statement, or one call of the bucket, the  *)
(* queue or the model, at a time; everything else runs in between.  The    *)
(* queue delivers a task at least once: again after an answer other than   *)
(* 200, up to MaxAttempts deliveries, and, when Overlap is TRUE, also      *)
(* while an earlier delivery is still being processed.                     *)
(*                                                                         *)
(* A file's content is identified with the upload that wrote it.  The AI   *)
(* usage counters, which no decision here reads, are left out.             *)
(***************************************************************************)
EXTENDS Naturals

CONSTANTS
  Uploads,      \* upload requests, and the rows they make
  NoUpload,
  Names,        \* file names, which are storage keys within a completion
  Workers,      \* slots for deliveries being processed
  MaxAttempts,  \* deliveries of one task (retry_config: max_attempts)
  Overlap,      \* whether deliveries of one task may overlap
  Faults        \* whether requests and workers may stop or fail half way

ASSUME UploadAssumption ==
  /\ NoUpload \notin Uploads
  /\ MaxAttempts \in Nat \ {0}
  /\ Overlap \in BOOLEAN
  /\ Faults \in BOOLEAN

VARIABLES
  post,      \* the upload requests
  row,       \* task_uploads, and the progress of a row's deletion
  blob,      \* the bucket: which upload's content a key holds
  check,     \* upload_verifications
  queue,     \* uploads with a verification task
  attempts,  \* deliveries of that task so far
  worker     \* the deliveries being processed

vars == <<post, row, blob, check, queue, attempts, worker>>

PostSteps == {"store", "create", "pend", "enqueue", "done"}
WorkerSteps == {"get", "load", "download", "ask", "succeed", "fail", "answer"}
Statuses == {"pending", "succeeded", "failed"}
Final == {"succeeded", "failed"}
Feedbacks == {"correct", "incorrect"}

New == [at |-> "new"]
Idle == [at |-> "idle"]

(* of: the content the verdict is about (a history field).                 *)
NoCheck == [status |-> "none", flagged |-> FALSE, of |-> NoUpload,
            feedback |-> "none"]
Pending == [NoCheck EXCEPT !.status = "pending"]

TypeOK ==
  /\ post \in [Uploads -> {New} \cup [at : PostSteps, name : Names, ai : BOOLEAN]]
  /\ row \in [Uploads -> {"none", "stored", "unlinked", "gone"}]
  /\ blob \in [Names -> Uploads \cup {NoUpload}]
  /\ check \in [Uploads -> [status : Statuses \cup {"none"}, flagged : BOOLEAN,
                            of : Uploads \cup {NoUpload},
                            feedback : Feedbacks \cup {"none"}]]
  /\ queue \subseteq Uploads
  /\ attempts \in [Uploads -> 0..MaxAttempts]
  /\ worker \in [Workers -> {Idle} \cup [at : WorkerSteps, upload : Uploads,
                   saw : Uploads \cup {NoUpload}, flagged : BOOLEAN,
                   overlap : BOOLEAN]]

Init ==
  /\ post = [u \in Uploads |-> New]
  /\ row = [u \in Uploads |-> "none"]
  /\ blob = [n \in Names |-> NoUpload]
  /\ check = [u \in Uploads |-> NoCheck]
  /\ queue = {}
  /\ attempts = [u \in Uploads |-> 0]
  /\ worker = [w \in Workers |-> Idle]

-----------------------------------------------------------------------------
(* UploadFile.                                                             *)

PostAt(u, step) == post[u].at = step
PostGoTo(u, step) == post' = [post EXCEPT ![u].at = step]

(* The file passed the type, size and malware checks; ai says whether the  *)
(* requirement it is for has verification criteria.                        *)
Begin(u, n, ai) ==
  /\ post[u] = New
  /\ post' = [post EXCEPT ![u] = [at |-> "store", name |-> n, ai |-> ai]]
  /\ UNCHANGED <<row, blob, check, queue, attempts, worker>>

(* The storage key names the completion and the file, not the requirement  *)
(* nor the upload: an earlier file of that name is overwritten.            *)
StoreBlob(u) ==
  /\ PostAt(u, "store")
  /\ blob' = [blob EXCEPT ![post[u].name] = u]
  /\ PostGoTo(u, "create")
  /\ UNCHANGED <<row, check, queue, attempts, worker>>

(* Mutant: the handler goes on when storage.Upload fails.                  *)
CreateUploadUnstored(u) ==
  /\ post[u].at \in {"store", "create"}
  /\ row' = [row EXCEPT ![u] = "stored"]
  /\ PostGoTo(u, IF post[u].ai THEN "pend" ELSE "done")
  /\ UNCHANGED <<blob, check, queue, attempts, worker>>

CreateUpload(u) ==
  /\ PostAt(u, "create")
  /\ row' = [row EXCEPT ![u] = "stored"]
  /\ PostGoTo(u, IF post[u].ai THEN "pend" ELSE "done")
  /\ UNCHANGED <<blob, check, queue, attempts, worker>>

(* The foreign key refuses the row when the upload was deleted meanwhile.  *)
CreatePending(u) ==
  /\ PostAt(u, "pend")
  /\ IF row[u] = "stored"
       THEN /\ check' = [check EXCEPT ![u] = Pending]
            /\ PostGoTo(u, "enqueue")
       ELSE /\ PostGoTo(u, "done")
            /\ UNCHANGED check
  /\ UNCHANGED <<row, blob, queue, attempts, worker>>

Enqueue(u) ==
  /\ PostAt(u, "enqueue")
  /\ queue' = queue \cup {u}
  /\ PostGoTo(u, "done")
  /\ UNCHANGED <<row, blob, check, attempts, worker>>

(* A statement or call fails or the instance stops.  A failure to create   *)
(* or to enqueue the verification is logged only, and the client gets 201. *)
AbandonPost(u) ==
  /\ Faults
  /\ post[u].at \in PostSteps \ {"done"}
  /\ PostGoTo(u, "done")
  /\ UNCHANGED <<row, blob, check, queue, attempts, worker>>

-----------------------------------------------------------------------------
(* DeleteUpload: the row and, by ON DELETE CASCADE, its verification; then *)
(* the file.  A second request finds no row and answers 404.               *)

(* Mutant: the handler returns without handing the key to the bucket.      *)
DeleteUploadKeepsFile(u) ==
  /\ row[u] = "stored"
  /\ row' = [row EXCEPT ![u] = "gone"]
  /\ check' = [check EXCEPT ![u] = NoCheck]
  /\ UNCHANGED <<post, blob, queue, attempts, worker>>

DeleteUpload(u) ==
  /\ row[u] = "stored"
  /\ row' = [row EXCEPT ![u] = "unlinked"]
  /\ check' = [check EXCEPT ![u] = NoCheck]
  /\ UNCHANGED <<post, blob, queue, attempts, worker>>

DeleteBlob(u) ==
  /\ row[u] = "unlinked"
  /\ row' = [row EXCEPT ![u] = "gone"]
  /\ blob' = [blob EXCEPT ![post[u].name] = NoUpload]
  /\ UNCHANGED <<post, check, queue, attempts, worker>>

(* storage.Delete failed, which is logged only, or was never reached.      *)
AbandonDelete(u) ==
  /\ Faults
  /\ row[u] = "unlinked"
  /\ row' = [row EXCEPT ![u] = "gone"]
  /\ UNCHANGED <<post, blob, check, queue, attempts, worker>>

(* An admin rates the verdict.  The look-up before the UPDATE only checks  *)
(* the tenant, and neither looks at the status.                            *)
RecordFeedback(u, f) ==
  /\ check[u] # NoCheck
  /\ check' = [check EXCEPT ![u].feedback = f]
  /\ UNCHANGED <<post, row, blob, queue, attempts, worker>>

-----------------------------------------------------------------------------
(* The queue.                                                              *)

Working(w, u) == worker[w] # Idle /\ worker[w].upload = u

(* overlap, a history field: another delivery was under way beside it.     *)
Deliver(w, u) ==
  LET others == {x \in Workers : Working(x, u)} IN
  /\ worker[w] = Idle
  /\ u \in queue
  /\ attempts[u] < MaxAttempts
  /\ others # {} => Overlap
  /\ attempts' = [attempts EXCEPT ![u] = @ + 1]
  /\ worker' = [x \in Workers |->
                  IF x = w THEN [at |-> "get", upload |-> u, saw |-> NoUpload,
                                 flagged |-> FALSE, overlap |-> others # {}]
                  ELSE IF x \in others THEN [worker[x] EXCEPT !.overlap = TRUE]
                  ELSE worker[x]]
  /\ UNCHANGED <<post, row, blob, check, queue>>

(* The delivery is over: 200 ends the task, and so does the last attempt.  *)
EndDelivery(w, ok) ==
  LET u == worker[w].upload IN
  /\ worker' = [worker EXCEPT ![w] = Idle]
  /\ queue' = IF ok \/ attempts[u] = MaxAttempts THEN queue \ {u} ELSE queue

(* The worker answers 500 (GetByUpload or MarkSucceeded failed), its       *)
(* instance stops, or its answer is lost.                                  *)
AbandonDelivery(w) ==
  /\ Faults
  /\ worker[w].at \in {"get", "load", "download", "ask", "succeed", "answer"}
  /\ EndDelivery(w, FALSE)
  /\ UNCHANGED <<post, row, blob, check, attempts>>

-----------------------------------------------------------------------------
(* Process.                                                                *)

WorkerAt(w, step) == worker[w].at = step
WorkerGoTo(w, step) == worker' = [worker EXCEPT ![w].at = step]

(* Mutant: a finished verification is processed again.                     *)
GetByUploadAnyStatus(w) ==
  /\ WorkerAt(w, "get")
  /\ WorkerGoTo(w, IF check[worker[w].upload] # NoCheck THEN "load" ELSE "answer")
  /\ UNCHANGED <<post, row, blob, check, queue, attempts>>

(* A missing or finished verification is skipped.                          *)
GetByUpload(w) ==
  /\ WorkerAt(w, "get")
  /\ WorkerGoTo(w, IF check[worker[w].upload].status = "pending" THEN "load"
                                                                 ELSE "answer")
  /\ UNCHANGED <<post, row, blob, check, queue, attempts>>

LoadContext(w) ==
  /\ WorkerAt(w, "load")
  /\ \/ row[worker[w].upload] = "stored" /\ WorkerGoTo(w, "download")
     \/ /\ Faults \/ row[worker[w].upload] # "stored"
        /\ WorkerGoTo(w, "fail")
  /\ UNCHANGED <<post, row, blob, check, queue, attempts>>

Content(w) == blob[post[worker[w].upload].name]

(* Mutant: a failed download returns without MarkFailed.                   *)
DownloadFailureSkipped(w) ==
  /\ WorkerAt(w, "download")
  /\ \/ /\ Content(w) # NoUpload
        /\ worker' = [worker EXCEPT ![w].at = "ask", ![w].saw = Content(w)]
     \/ /\ Faults \/ Content(w) = NoUpload
        /\ WorkerGoTo(w, "answer")
  /\ UNCHANGED <<post, row, blob, check, queue, attempts>>

Download(w) ==
  /\ WorkerAt(w, "download")
  /\ \/ /\ Content(w) # NoUpload
        /\ worker' = [worker EXCEPT ![w].at = "ask", ![w].saw = Content(w)]
     \/ /\ Faults \/ Content(w) = NoUpload
        /\ WorkerGoTo(w, "fail")
  /\ UNCHANGED <<post, row, blob, check, queue, attempts>>

(* The model answers with a verdict, or gives none that can be used.       *)
Verify(w) ==
  /\ WorkerAt(w, "ask")
  /\ \/ \E f \in BOOLEAN :
          worker' = [worker EXCEPT ![w].at = "succeed", ![w].flagged = f]
     \/ WorkerGoTo(w, "fail")
  /\ UNCHANGED <<post, row, blob, check, queue, attempts>>

(* UPDATE ... WHERE upload_id: any status, or no row any more.             *)
MarkSucceeded(w) ==
  LET u == worker[w].upload IN
  /\ WorkerAt(w, "succeed")
  /\ check' = IF check[u] = NoCheck THEN check
              ELSE [check EXCEPT ![u] =
                     [@ EXCEPT !.status = "succeeded", !.of = worker[w].saw,
                               !.flagged = worker[w].flagged]]
  /\ WorkerGoTo(w, "answer")
  /\ UNCHANGED <<post, row, blob, queue, attempts>>

(* Mutant: the failure is logged and not persisted.                        *)
MarkFailedLoggedOnly(w) ==
  /\ WorkerAt(w, "fail")
  /\ WorkerGoTo(w, "answer")
  /\ UNCHANGED <<post, row, blob, check, queue, attempts>>

(* Mutant: a status the table's CHECK does not know.                       *)
MarkFailedError(w) ==
  /\ WorkerAt(w, "fail")
  /\ check' = IF check[worker[w].upload] = NoCheck THEN check
              ELSE [check EXCEPT ![worker[w].upload].status = "error"]
  /\ WorkerGoTo(w, "answer")
  /\ UNCHANGED <<post, row, blob, queue, attempts>>

(* The same WHERE; flagged is left alone.  An error is ignored.            *)
MarkFailed(w) ==
  LET u == worker[w].upload IN
  /\ WorkerAt(w, "fail")
  /\ \/ check' = IF check[u] = NoCheck THEN check
                 ELSE [check EXCEPT ![u].status = "failed"]
     \/ Faults /\ UNCHANGED check
  /\ WorkerGoTo(w, "answer")
  /\ UNCHANGED <<post, row, blob, queue, attempts>>

Answer(w) ==
  /\ WorkerAt(w, "answer")
  /\ EndDelivery(w, TRUE)
  /\ UNCHANGED <<post, row, blob, check, attempts>>

-----------------------------------------------------------------------------
PostStep(u) == StoreBlob(u) \/ CreateUpload(u) \/ CreatePending(u) \/ Enqueue(u)

WorkerStep(w) ==
  \/ GetByUpload(w) \/ LoadContext(w) \/ Download(w) \/ Verify(w)
  \/ MarkSucceeded(w) \/ MarkFailed(w) \/ Answer(w)

Next ==
  \/ \E u \in Uploads :
       \/ \E n \in Names, ai \in BOOLEAN : Begin(u, n, ai)
       \/ PostStep(u)
       \/ AbandonPost(u)
       \/ DeleteUpload(u) \/ DeleteBlob(u) \/ AbandonDelete(u)
       \/ \E f \in Feedbacks : RecordFeedback(u, f)
  \/ \E w \in Workers :
       \/ \E u \in Uploads : Deliver(w, u)
       \/ WorkerStep(w)
       \/ AbandonDelivery(w)

Spec == Init /\ [][Next]_vars

(* Requests and workers get to their next statement; the queue delivers.   *)
Fairness ==
  /\ \A u \in Uploads : WF_vars(PostStep(u)) /\ WF_vars(DeleteBlob(u))
  /\ \A w \in Workers : WF_vars(WorkerStep(w))
  /\ \A u \in Uploads : SF_vars(\E w \in Workers : Deliver(w, u))

FairSpec == Spec /\ Fairness

-----------------------------------------------------------------------------
(* Correctness.                                                            *)

SharesName(u) ==
  \E v \in Uploads \ {u} : post[v] # New /\ post[v].name = post[u].name

(* The file is stored before its row and unlinked after it: whatever stops *)
(* half way, an upload on record has its own file, and its verdict is      *)
(* about that file, unless another upload used the same storage key.       *)
OwnFileUnlessNameShared ==
  \A u \in Uploads :
    /\ row[u] = "stored" => blob[post[u].name] = u \/ SharesName(u)
    /\ check[u].status = "succeeded" => check[u].of = u \/ SharesName(u)

(* A key holds a file that some row, or some request still at work on that *)
(* key, accounts for.                                                      *)
AccountedFor(n) ==
  blob[n] # NoUpload =>
    \E u \in Uploads :
      /\ post[u] # New /\ post[u].name = n
      /\ row[u] \in {"stored", "unlinked"} \/ post[u].at = "create"

(* Files nobody can reach any more are only left by a request that stopped *)
(* between the bucket and the database.                                    *)
FilesLeftOnlyBy ==
  [][\A n \in Names : AccountedFor(n) /\ ~AccountedFor(n)' =>
       \E u \in Uploads :
         /\ post[u] # New /\ post[u].name = n /\ blob' = blob
         /\ \/ post[u].at = "create" /\ post'[u].at = "done" /\ row' = row
            \/ row[u] = "unlinked" /\ row'[u] = "gone"]_vars

(* Somebody will still give a pending verification its verdict.  A task    *)
(* some delivery is about to answer with 200 will not be delivered again.  *)
Answering(u) == \E w \in Workers : Working(w, u) /\ worker[w].at = "answer"

InHand(u) ==
  check[u].status = "pending" =>
    \/ post[u].at = "enqueue"
    \/ u \in queue /\ attempts[u] < MaxAttempts /\ ~Answering(u)
    \/ \E w \in Workers : Working(w, u) /\ worker[w].at # "answer"

(* The steps after which a verification stays pending for ever: enqueueing *)
(* it fails; its last delivery stops half way, be it the last attempt or   *)
(* one whose task another delivery beside it has answered, or is about to; *)
(* or MarkFailed's error is dropped and the delivery answers 200.          *)
PendingLeftOnlyBy ==
  [][\A u \in Uploads : InHand(u) /\ ~InHand(u)' =>
       \/ post[u].at = "enqueue" /\ queue' = queue
       \/ \E w \in Workers :
            /\ Working(w, u)
            /\ \/ /\ worker'[w] = Idle
                  /\ u \notin queue \/ attempts[u] = MaxAttempts \/ Answering(u)
               \/ worker[w].at = "fail" /\ worker'[w].at = "answer" /\ check' = check
     ]_vars

(* The comment on Process calls it idempotent, and the queue's retries are *)
(* configured on that ground: a verdict once given, possibly rated by an   *)
(* admin, is not changed by another delivery after a lost answer, a crash  *)
(* or an error.  Only a delivery that ran beside another of its task, and  *)
(* so may have read the verification before the verdict, writes over it.   *)
SameVerdict(u) ==
  /\ check'[u].status = check[u].status
  /\ check'[u].flagged = check[u].flagged
  /\ check'[u].of = check[u].of

VerdictStands ==
  [][\A u \in Uploads :
       check[u].status \in Final /\ check'[u] # NoCheck /\ ~SameVerdict(u) =>
         \E w \in Workers : /\ Working(w, u) /\ worker[w].overlap
                            /\ worker'[w] # worker[w]]_vars

(* Without faults every verification gets its verdict, unless its upload   *)
(* is deleted first.                                                       *)
EveryPendingDecided ==
  \A u \in Uploads : check[u].status = "pending" ~> check[u].status # "pending"
=============================================================================
