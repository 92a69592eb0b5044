------------------------------- MODULE Digest -------------------------------
(***************************************************************************)
(* How one FSO hears of review items: by a mail of its own when an item is *)
(* created for or reassigned to them, or, if they chose so, by a daily     *)
(* digest that counts the items created since the last one.  Items are     *)
(* numbered in the order of their creation, and a time is the number of    *)
(* items created before it.                                                *)
(*                                                                         *)
(* The 24 hours a first digest looks back are rounded to calendar days: it *)
(* counts from the beginning of the day before.                            *)
(*                                                                         *)
(* What is left out: items taken up before the digest counts them, which   *)
(* it no longer counts, and the standing counts of contributors.           *)
(* Behaviours with "stop" in mix have requests that stop half way, those   *)
(* with "retry" overlapping runs of the digest; what may happen to a mail  *)
(* on its way is in Mail.                                                  *)
(***************************************************************************)
EXTENDS Mail

CONSTANT MaxItems  \* bound on the items created

ASSUME DigestAssumption == MaxItems \in Nat

VARIABLES
  holder,  \* whose each item is
  made,    \* items created so far
  daily,   \* notification_frequency is daily_summary
  first,   \* last_digest_sent_at is null
  marker,  \* last_digest_sent_at if it is not
  due,     \* it is null or more than 23 hours ago
  dayAgo,  \* the time 24 hours ago
  today,   \* the time the current day began
  news     \* how many mails and digests that arrived announced each item

digestVars == <<holder, made, daily, first, marker, due, dayAgo, today, news, outbox>>

Items == 1..MaxItems

DigestOK ==
  /\ holder \in [Items -> {"none", "us", "others"}]
  /\ made \in 0..MaxItems /\ \A n \in Items : holder[n] # "none" <=> n <= made
  /\ daily \in BOOLEAN /\ due \in BOOLEAN
  /\ first \in BOOLEAN /\ marker \in 0..made
  /\ dayAgo \in 0..today /\ today \in 0..made
  /\ news \in [Items -> [mail : 0..1, digest : 0..2]]
  /\ IsABag(outbox) /\ BagToSet(outbox) \subseteq Letters({"mail", "digest"}, Items)

DigestInit ==
  /\ holder = [n \in Items |-> "none"]
  /\ made = 0
  /\ daily \in BOOLEAN
  /\ first = TRUE /\ marker = 0 /\ due = TRUE
  /\ dayAgo = 0 /\ today = 0
  /\ news = [n \in Items |-> [mail |-> 0, digest |-> 0]]
  /\ MailInit

(* Mutant: always the last 24 hours.                                       *)
SinceDayAgo == dayAgo

(* COALESCE(last_digest_sent_at, NOW() - INTERVAL '24 hours').             *)
Since == IF first THEN dayAgo ELSE marker

AddOne(count, max) == IF count < max THEN count + 1 ELSE count

-----------------------------------------------------------------------------
(* An item is created, or reassigned to us; then its holder is notified.   *)
CreateItem(r, who) ==
  /\ made < MaxItems
  /\ Begin(r, [op |-> "announce", at |-> "notify", item |-> made + 1, new |-> {}])
  /\ made' = made + 1
  /\ holder' = [holder EXCEPT ![made + 1] = who]
  /\ UNCHANGED <<mix, daily, first, marker, due, dayAgo, today, news, outbox>>

UpdateAssignedTo(n, who) == holder' = [holder EXCEPT ![n] = who]

Reassign(r, n) ==
  /\ "reassign" \in mix /\ holder[n] = "others"
  /\ Begin(r, [op |-> "announce", at |-> "notify", item |-> n, new |-> {}])
  /\ UpdateAssignedTo(n, "us")
  /\ UNCHANGED <<mix, made, daily, first, marker, due, dayAgo, today, news, outbox>>

(* Whoever wants a digest gets no mail, unless that cannot be looked up.   *)
MailsNow == ~daily \/ Faults

(* The mail is sent in the background; its failure is logged.              *)
NotifyActionItemAssigned(r) ==
  LET n == req[r].item IN
  /\ At(r, "announce", "notify")
  /\ \/ holder[n] = "us" /\ MailsNow /\ SendToQueue(Letter("mail", {n}))
     \/ UNCHANGED outbox /\ (holder[n] = "us" /\ ~daily => Faults)
  /\ Done(r)
  /\ UNCHANGED <<mix, holder, made, daily, first, marker, due, dayAgo, today, news>>

(* The queue posts a mail; if the provider accepts it, it arrives.         *)
DeliverMail(letter) ==
  /\ \/ /\ HandleSendTask(letter)
        /\ news' = [n \in Items |->
              IF n \notin letter.about THEN news[n]
              ELSE IF letter.kind = "mail"
                THEN [news[n] EXCEPT !.mail = AddOne(@, 1)]
                ELSE [news[n] EXCEPT !.digest = AddOne(@, 2)]]
     \/ HandleSendTaskFails(letter) /\ UNCHANGED news
  /\ UNCHANGED <<mix, req, holder, made, daily, first, marker, due, dayAgo, today>>

SetFrequency ==
  /\ "switch" \in mix
  /\ daily' = ~daily
  /\ UNCHANGED <<mix, req, holder, made, first, marker, due, dayAgo, today, news, outbox>>

(* A request takes less than a day, and so do the attempts of the queue.   *)
DayPasses ==
  /\ \A r \in Requests : req[r] = Idle
  /\ outbox = EmptyBag
  /\ due' = TRUE
  /\ dayAgo' = today /\ today' = made
  /\ UNCHANGED <<mix, req, holder, made, daily, first, marker, news, outbox>>

-----------------------------------------------------------------------------
(* A run of the digest: recipients, counts, mail, last_digest_sent_at.     *)
ListEligible(r) ==
  /\ daily /\ due
  /\ "retry" \in mix \/ \A q \in Requests : req[q].op # "digest"
  /\ Begin(r, [op |-> "digest", at |-> "count", item |-> 0, new |-> {}])
  /\ UNCHANGED <<mix, digestVars>>

CountForFSO(r) ==
  LET new == {n \in Items : holder[n] = "us" /\ n > Since} IN
  /\ At(r, "digest", "count")
  /\ req' = [req EXCEPT ![r].at = IF new = {} THEN "mark" ELSE "send",
                        ![r].new = new]
  /\ UNCHANGED <<mix, digestVars>>

(* Mutant: the failure of the mail is only counted.                        *)
AfterFailedMailMark == "mark"

(* The user is left to the next run.                                       *)
AfterFailedMail == "none"

SendDailySummary(r) ==
  /\ At(r, "digest", "send")
  /\ \/ SendToQueue(Letter("digest", req[r].new)) /\ GoTo(r, "mark")
     \/ /\ Faults /\ UNCHANGED outbox
        /\ IF AfterFailedMail = "none" THEN Done(r) ELSE GoTo(r, AfterFailedMail)
  /\ UNCHANGED <<mix, holder, made, daily, first, marker, due, dayAgo, today, news>>

MarkSent(r) ==
  /\ At(r, "digest", "mark")
  /\ first' = FALSE /\ marker' = made /\ due' = FALSE
  /\ Done(r)
  /\ UNCHANGED <<mix, holder, made, daily, dayAgo, today, news, outbox>>

DigestNext ==
  \/ \E r \in Requests :
       \/ \E who \in {"us", "others"} : CreateItem(r, who)
       \/ \E n \in Items : Reassign(r, n)
       \/ NotifyActionItemAssigned(r)
       \/ ListEligible(r) \/ CountForFSO(r) \/ SendDailySummary(r) \/ MarkSent(r)
       \/ "stop" \in mix /\ Abandon(r) /\ UNCHANGED digestVars
  \/ \E letter \in BagToSet(outbox) : DeliverMail(letter)
  \/ SetFrequency \/ DayPasses

(* The mails of one FSO alone.                                             *)
DigestSpec ==
  /\ HandlersInit /\ DigestInit
  /\ [][DigestNext]_<<mix, req, digestVars>>

-----------------------------------------------------------------------------
Heard(n) == news[n].mail > 0 \/ news[n].digest > 0

(* The next digest counts it, unless a run that has is about to be marked. *)
WaitsForDigest(n) ==
  /\ daily /\ n > Since
  /\ \A r \in Requests : ~(At(r, "digest", "mark") /\ n \in req[r].new)

(* Our item that no mail or digest has announced and none will.            *)
Missed(n) ==
  /\ holder[n] = "us" /\ ~Heard(n) /\ ~WaitsForDigest(n)
  /\ \A letter \in BagToSet(outbox) : n \notin letter.about
  /\ \A r \in Requests :
       /\ ~(At(r, "digest", "send") /\ n \in req[r].new)
       /\ At(r, "announce", "notify") /\ req[r].item = n => daily

(* A mail that is not to be tried again and was refused by the provider,   *)
(* or failed five times.                                                   *)
DropsMailAbout(n) ==
  \E letter \in BagToSet(outbox) :
    /\ n \in letter.about
    /\ ~BagIn(letter, outbox') /\ ("astray" \in mix \/ letter.retries = 4)

(* An item is missed only if it came after the digest in progress had      *)
(* counted and before it was marked as sent, was handed over after a       *)
(* digest had passed it, or the FSO changed the frequency while it waited; *)
(* or if its mail could not be queued or was given up; or else if the      *)
(* first digest failed for a day, or a stopped or an overlapping run was   *)
(* marked by another (digest/digest.go:247, :280, email/handler.go:29).    *)
MissedOnlyBy ==
  [][\A n \in Items :
       ~Missed(n) /\ Missed(n)' =>
         \/ daily # daily'
         \/ first /\ dayAgo # dayAgo'
         \/ holder[n] = "others" /\ n <= Since
         \/ DropsMailAbout(n)
         \/ \E r \in Requests :
              /\ Moves(r)
              /\ \/ At(r, "announce", "notify") /\ req[r].item = n /\ outbox' = outbox
                 \/ At(r, "digest", "mark") /\ n \notin req[r].new
                 \/ At(r, "digest", "send") /\ ("retry" \in mix \/ ~daily)]_<<mix, req, digestVars>>

(* No item is announced by two digests unless runs overlap, a run stops    *)
(* between mail and mark, or the queue posts a mail once more that had     *)
(* been accepted (digest/digest.go:280).                                   *)
NoSecondDigest ==
  mix \cap {"stop", "retry", "again"} = {} => \A n \in Items : news[n].digest <= 1
=============================================================================
