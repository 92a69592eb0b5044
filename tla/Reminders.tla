------------------------------ MODULE Reminders ------------------------------
(***************************************************************************)
(* The daily reminders about one clearance record or DD254 form that comes *)
(* due: a pass lists it with the FSOs who cover it, notifies them one by   *)
(* one and records after each that the record was reminded of.             *)
(*                                                                         *)
(* left counts the days to the due date and ago those since the record was *)
(* last reminded of; MaxAgo stands for never, too.  A pass may run several *)
(* times a day, at any time of the day.  Passes overlap in the behaviours  *)
(* with "overlap" in mix, stop or fail to record in those with "stop", and *)
(* FSOs change in those with "change".                                     *)
(***************************************************************************)
EXTENDS Handlers, Integers

CONSTANTS
  FSOs,     \* FSOs of the sub-organisations the record belongs to
  MaxLate   \* bound on the days past the due date

ASSUME RemindersAssumption == MaxLate \in Nat

VARIABLES left, ago, covers, summary, passed, mails

reminderVars == <<left, ago, covers, summary, passed, mails>>

Buckets == {"d90", "d30", "overdue"}
MaxAgo == 61
FirstDays == {91, 31, 0}  \* days to the due date of a new record

RemindersOK ==
  /\ left \in -MaxLate..91 /\ ago \in 0..MaxAgo
  /\ covers \subseteq FSOs /\ summary \subseteq FSOs
  /\ passed \in BOOLEAN
  /\ mails \in [FSOs -> 0..3]

(* covers: who is primary FSO, has an address and is not suspended, while  *)
(* the person is not suspended and the form active.  summary: who has      *)
(* chosen daily_summary.  mails: how often each was told in the current    *)
(* bucket, or, once overdue, today.                                        *)
RemindersInit ==
  /\ left \in FirstDays /\ ago = MaxAgo
  /\ covers = FSOs /\ summary \in SUBSET FSOs
  /\ passed = FALSE
  /\ mails = [f \in FSOs |-> 0]

-----------------------------------------------------------------------------
BucketOf(days) ==
  CASE days < 0 -> "overdue"
    [] days \in 0..30 -> "d30"
    [] days \in 31..90 -> "d90"
    [] OTHER -> "none"

(* Mutant: the gate of the 30-day bucket is as long as the bucket.         *)
GateLong(b) == IF b = "d90" THEN 60 ELSE 31

(* Days for which a reminder silences the bucket; the overdue bucket goes  *)
(* by calendar days instead.                                               *)
Gate(b) == IF b = "d90" THEN 60 ELSE 20

(* On the last day of the gate it depends on the time of the day.          *)
MayList(b) ==
  IF b = "overdue" THEN ago >= 1 ELSE b # "none" /\ ago >= Gate(b)
MayPass(b) ==
  IF b = "overdue" THEN ago < 1 ELSE b = "none" \/ ago <= Gate(b)

Running == \E r \in Requests : req[r].op = "remind"

(* ListClearanceReminders and ListDd254Reminders, which differ in nothing  *)
(* but the table.                                                          *)
List(r) ==
  /\ MayList(BucketOf(left)) /\ covers # {}
  /\ Running => "overlap" \in mix
  /\ Begin(r, [op |-> "remind", at |-> "notify", todo |-> covers])
  /\ UNCHANGED <<mix, reminderVars>>

ListNothing ==
  /\ "remind" \in mix /\ ~passed /\ ~Running
  /\ MayPass(BucketOf(left)) \/ covers = {}
  /\ passed' = TRUE
  /\ UNCHANGED <<mix, req, left, ago, covers, summary, mails>>

AddMail(n) == IF n < 3 THEN n + 1 ELSE n

ShouldSendNow(f) == f \notin summary

(* The notifier skips those on daily summaries, unless the lookup fails,   *)
(* and waits for no mail.                                                  *)
NotifyDue(r, f) ==
  /\ At(r, "remind", "notify") /\ f \in req[r].todo
  /\ \E send \in {ShouldSendNow(f)} \cup {Faults} :
       mails' = IF send \/ ShouldSendNow(f)
                  THEN [mails EXCEPT ![f] = AddMail(@)] ELSE mails
  /\ req' = [req EXCEPT ![r] = [op |-> "remind", at |-> "mark",
                                todo |-> @.todo \ {f}]]
  /\ UNCHANGED <<mix, left, ago, covers, summary, passed>>

(* MarkClearanceReminded, MarkDd254Reminded: whether or not a mail went.   *)
(* An error is logged.                                                     *)
MarkReminded(r) ==
  /\ At(r, "remind", "mark")
  /\ ago' = 0 \/ ("stop" \in mix /\ UNCHANGED ago)
  /\ IF req[r].todo = {} THEN Done(r) /\ passed' = TRUE
     ELSE GoTo(r, "notify") /\ UNCHANGED passed
  /\ UNCHANGED <<mix, left, covers, summary, mails>>

(* A pass runs every day and takes less than one.                          *)
NextDay ==
  /\ passed /\ ~Running /\ left > -MaxLate
  /\ left' = left - 1
  /\ ago' = IF ago < MaxAgo THEN ago + 1 ELSE ago
  /\ passed' = FALSE
  /\ mails' = IF BucketOf(left') # BucketOf(left) \/ left' < 0
                THEN [f \in FSOs |-> 0] ELSE mails
  /\ UNCHANGED <<mix, req, covers, summary>>

(* An FSO is assigned or relieved; suspending one has the same effect.     *)
SetPrimaryFSO(f) ==
  /\ "change" \in mix
  /\ covers' = (covers \ {f}) \cup ({f} \ covers)
  /\ UNCHANGED <<mix, req, left, ago, summary, passed, mails>>

ChooseFrequency(f) ==
  /\ "change" \in mix
  /\ summary' = (summary \ {f}) \cup ({f} \ summary)
  /\ UNCHANGED <<mix, req, left, ago, covers, passed, mails>>

RemindersNext ==
  \/ \E r \in Requests :
       \/ List(r)
       \/ \E f \in FSOs : NotifyDue(r, f)
       \/ MarkReminded(r)
       \/ "stop" \in mix /\ Abandon(r) /\ passed' = TRUE
            /\ UNCHANGED <<left, ago, covers, summary, mails>>
  \/ ListNothing \/ NextDay
  \/ \E f \in FSOs : SetPrimaryFSO(f) \/ ChooseFrequency(f)

(* The reminders about one record alone.                                   *)
RemindersSpec ==
  /\ HandlersInit /\ RemindersInit
  /\ [][RemindersNext]_<<mix, req, reminderVars>>

-----------------------------------------------------------------------------
(* While passes neither overlap nor stop and FSOs stay, an FSO who wants   *)
(* mails is told once in the 90-day bucket, once or twice in the 30-day    *)
(* bucket, though a late reminder in one silences the start of the next,   *)
(* and once a day when the date is past; at most that often in any case    *)
(* but overlapping and stopped passes (reminders/reminders.go:187).        *)
LastDayOf(b) == IF b = "d90" THEN left = 31 ELSE left <= 0

AtMost(b) == IF b = "d30" THEN 2 ELSE 1

ToldInEveryBucket ==
  LET b == BucketOf(left) IN
  /\ mix \cap {"overlap", "stop"} = {} => \A f \in FSOs : mails[f] <= AtMost(b)
  /\ b # "none" /\ LastDayOf(b) /\ passed /\ mix \cap {"stop", "change"} = {} =>
       \A f \in covers \ summary : mails[f] > 0

(* migrations/000037: "90-day reminders go out once, 30-day once".         *)
ThirtyDayOnce ==
  BucketOf(left) = "d30" => \A f \in FSOs : mails[f] <= 1
=============================================================================
