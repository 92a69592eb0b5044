-------------------------------- MODULE Chat --------------------------------
(***************************************************************************)
(* The daily limit on one user's calls of the assistant: a call is counted *)
(* before the model is asked and recorded after it has answered.  The      *)
(* messages kept of the conversation are not modelled; saving them never   *)
(* changes what a request does next.                                       *)
(*                                                                         *)
(* calls and broken are history variables: today's calls of the model, and *)
(* those that will never be recorded.                                      *)
(***************************************************************************)
EXTENDS Handlers

CONSTANTS
  DailyLimit,  \* chatDailyMessageLimit
  MaxCalls     \* bound on the calls in a day

ASSUME ChatAssumption ==
  DailyLimit \in Nat \ {0} /\ MaxCalls \in Nat /\ IsFiniteSet(Requests)

VARIABLES used, calls, broken

chatVars == <<used, calls, broken>>

ChatOK ==
  /\ used \in 0..(DailyLimit + Cardinality(Requests))
  /\ calls \in 0..MaxCalls /\ broken \in 0..(MaxCalls + Cardinality(Requests))

ChatInit == used = 0 /\ calls = 0 /\ broken = 0

-----------------------------------------------------------------------------
(* Mutant: the last call of the day is let through once more.              *)
MayCallOneMore == used <= DailyLimit

MayCall == used < DailyLimit

(* CountUserSince; 429 once the limit is reached.                          *)
CountUser(r) ==
  /\ MayCall
  /\ Begin(r, [op |-> "chat", at |-> "ask"])
  /\ UNCHANGED <<mix, chatVars>>

(* GetHistory, SaveMessage, GenerateContentStream.                         *)
Ask(r) ==
  /\ At(r, "chat", "ask") /\ calls < MaxCalls
  /\ calls' = calls + 1
  /\ GoTo(r, "stream")
  /\ UNCHANGED <<mix, used, broken>>

(* The stream ends, or breaks: the client is gone, the model failed.       *)
Stream(r) ==
  /\ At(r, "chat", "stream")
  /\ \/ GoTo(r, "record") /\ UNCHANGED broken
     \/ Faults /\ broken' = broken + 1 /\ Done(r)
  /\ UNCHANGED <<mix, used, calls>>

(* On a context of its own; an error is logged.                            *)
Record(r) ==
  /\ At(r, "chat", "record")
  /\ \/ used' = used + 1 /\ UNCHANGED broken
     \/ Faults /\ broken' = broken + 1 /\ UNCHANGED used
  /\ Done(r)
  /\ UNCHANGED <<mix, calls>>

MidnightUTC ==
  /\ used' = 0 /\ calls' = 0 /\ broken' = 0
  /\ UNCHANGED <<mix, req>>

ChatNext ==
  \/ \E r \in Requests :
       \/ CountUser(r) \/ Ask(r) \/ Stream(r) \/ Record(r)
       \/ /\ Abandon(r) /\ req[r].op = "chat"
          /\ broken' = broken + (IF req[r].at = "ask" THEN 0 ELSE 1)
          /\ UNCHANGED <<used, calls>>
  \/ "chat" \in mix /\ MidnightUTC

(* The assistant alone.                                                    *)
ChatSpec ==
  /\ HandlersInit /\ ChatInit
  /\ [][ChatNext]_<<mix, req, chatVars>>

-----------------------------------------------------------------------------
(* A day's calls of the model exceed the limit by no more than the other   *)
(* requests that were counted before they were recorded, and by the calls  *)
(* that broke off, which count for nothing; the calls recorded by no more  *)
(* than the former, also over midnight (chat/handler.go:137).              *)
LimitExceededOnlyByOverlap ==
  LET most == DailyLimit + Cardinality(Requests) - 1 IN
  used <= most /\ calls <= most + broken
=============================================================================
