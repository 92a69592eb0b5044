-------------------------------- MODULE Mail --------------------------------
(***************************************************************************)
(* The way of a mail from the service that sends it to the provider that   *)
(* delivers it: a task is created in a queue, which posts it back to the   *)
(* program, which calls the provider.  The sender knows only whether the   *)
(* task was created.  What the provider may do is in mix: "transient" for  *)
(* an overload or error of its own, "astray" for a refusal or a call that  *)
(* comes to nothing, "again" for an answer that does not reach the queue.  *)
(***************************************************************************)
EXTENDS Handlers, Bags

CONSTANT MaxMails  \* bound on the tasks in the queue

VARIABLE outbox  \* the tasks in the queue

MailInit == outbox = EmptyBag

(* The retry_config of the queue.                                          *)
MaxAttempts == 5

Letter(kind, about) == [kind |-> kind, about |-> about, retries |-> 0]
Letters(kinds, subjects) ==
  [kind : kinds, about : SUBSET subjects, retries : 0..MaxAttempts - 1]

SendToQueue(letter) ==
  /\ BagCardinality(outbox) < MaxMails
  /\ outbox' = outbox (+) SetToBag({letter})

(* The handler answers 200: the queue forgets the task.                    *)
Answered(letter) == outbox' = outbox (-) SetToBag({letter})

(* Any other answer, or none: the task is posted again, a few times.       *)
Unanswered(letter) ==
  LET rest == outbox (-) SetToBag({letter}) IN
  outbox' = IF letter.retries + 1 < MaxAttempts
             THEN rest (+) SetToBag({[letter EXCEPT !.retries = @ + 1]})
             ELSE rest

(* A failure at the last attempt is for the log (email_dead_letter).       *)
DeadLetter(letter) == letter.retries >= 4

(* The provider accepts the mail.                                          *)
HandleSendTask(letter) ==
  \/ Answered(letter)
  \/ "again" \in mix /\ Unanswered(letter)

(* It does not; a failure that is not the provider's own is not retried.   *)
HandleSendTaskFails(letter) ==
  \/ "transient" \in mix /\ ~DeadLetter(letter) /\ Unanswered(letter)
  \/ "transient" \in mix /\ DeadLetter(letter) /\ Answered(letter)
  \/ "astray" \in mix /\ Answered(letter)
=============================================================================
