-------------------------------- MODULE MCLive --------------------------------
(***************************************************************************)
(* What must eventually happen, in one run for the three parts whose code  *)
(* promises it: the review of task completions, the verification of        *)
(* uploads and the debriefs of foreign travel.  A behaviour exercises one  *)
(* part; the others stay in their initial states, in which none of their   *)
(* fair steps is enabled, so that each part's fairness is the conjunct it  *)
(* contributes.  Instances are small, without faults, and without symmetry *)
(* because of the leads-to properties.                                     *)
(***************************************************************************)
EXTENDS Naturals

CONSTANTS c1, r1, r2, u1, n1, w1, w2, e1, k1, NoUpload

VARIABLES
  part,                                                       \* the part in use
  status, item, req, filed, verdict,                          \* Review
  post, row, blob, check, queue, attempts, worker,            \* Verification
  reported, legs, marked, plan, torn, edit, debrief, debriefItem, answer, cron,
  today                                                       \* Travel

reviewVars == <<status, item, req, filed, verdict>>
verificationVars == <<post, row, blob, check, queue, attempts, worker>>
travelVars == <<reported, legs, marked, plan, torn, edit, debrief, debriefItem,
                answer, cron, today>>

Review == INSTANCE TaskReview WITH
  Completions <- {c1}, Requests <- {r1, r2}, MaxSubmissions <- 2, Faults <- FALSE,
  Operations <- {"view", "save", "submit", "approve", "reject", "item"}

Verification == INSTANCE UploadVerification WITH
  Uploads <- {u1}, Names <- {n1}, Workers <- {w1, w2}, MaxAttempts <- 2,
  Overlap <- TRUE, Faults <- FALSE

(* A day trip for each of two reports, edited one at a time, and a run of  *)
(* the cron each day.                                                      *)
Travel == INSTANCE TravelDebrief WITH
  Reports <- {r1, r2}, Edits <- {e1}, Crons <- {k1}, MaxDebriefs <- 1,
  LastDay <- 2, Plans <- {{1}}, Faults <- FALSE, status <- reported, item <- debriefItem

Init ==
  /\ part \in {"review", "verification", "travel"}
  /\ Review!Init /\ Verification!Init /\ Travel!Init

ReviewNext ==
  /\ part = "review"
  /\ Review!Next
  /\ UNCHANGED <<part, verificationVars, travelVars>>

VerificationNext ==
  /\ part = "verification"
  /\ Verification!Next
  /\ UNCHANGED <<part, reviewVars, travelVars>>

TravelNext ==
  /\ part = "travel"
  /\ Travel!Next
  /\ UNCHANGED <<part, reviewVars, verificationVars>>

Next == ReviewNext \/ VerificationNext \/ TravelNext

FairSpec ==
  /\ Init /\ [][Next]_<<part, reviewVars, verificationVars, travelVars>>
  /\ Review!Fairness /\ Verification!Fairness /\ Travel!Fairness

-----------------------------------------------------------------------------
(* Every submission of a completion gets a review item of its own          *)
(* (task/handler.go, SubmitCompletion).                                    *)
EverySubmissionSurfaces == Review!EverySubmissionSurfaces

(* Every verification on record gets its verdict, or its upload is deleted *)
(* (verification/handler.go, Process, and the queue's retries).            *)
EveryPendingDecided == Verification!EveryPendingDecided

(* Every approved trip that is over gets its debrief (travel/cron.go).     *)
EveryTripDebriefed == Travel!EveryTripDebriefed

(* The answers to every debrief reach the FSO's board (travel/handler.go,  *)
(* SubmitDebrief).                                                         *)
EveryAnswerSurfaces == Travel!EveryAnswerSurfaces
=============================================================================
