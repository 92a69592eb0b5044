# FastFSO in TLA+

FastFSO is a web application for facility security officers (FSOs) and the
people they look after: individual contributors (ICs) complete assigned tasks,
report foreign travel, visits and incidents, hold clearances and access to
contracts; FSOs and admins review what they submit.  A Go backend
(`src/backend`) serves a React client from PostgreSQL, a file bucket and queues;
schedulers call its cron endpoints.

This directory specifies the backend's core logic in TLA+, checks small
instances with TLC and proves theorems for all instances with TLAPS.

## 1. What makes this program hard

One fact of the source shapes every module: **each store method is one SQL
statement and no handler opens a transaction**.  A request is therefore a
little process, and anything may happen between two of its statements: another
request's statement, the end of the request (client gone and context cancelled,
statement failed, server instance replaced), the midnight after which a trip is
over or a reminder due.  Most handlers log a failed follow-up statement and
answer 200.  Guards live in the `WHERE` clauses of the updates, and where such a
clause is missing, or the follow-up selects more than it should, interleavings
matter.

The modules say for each component which promises survive all interleavings,
and for those that do not, *exactly which steps* can break them.  The latter
properties are named `...OnlyBy` or `...Unless`; each of them has one direction
to refute: a step or state that breaks the promise and is not on the list.
Where the repository itself says that such a thing cannot happen, there is a
finding (section 6).

## 2. The system

Paths are relative to `src/backend/internal`.

| Component | State | Operations | Hard behaviour | Where |
|---|---|---|---|---|
| requests in progress | what each handler has read and is about to do | begin, next statement, stop | interleaving between any two statements | `Handlers` |
| `task`: submission and review | `task_completions.status` | EnsureCompletion, SaveResponses, Submit, Approve, Reject | racing reviewers, late `ResolveBySource`, half-done requests | `TaskReview` |
| `task`: creation, assignment | task, requirements, rules | Create, Archive, Unarchive, move between sub-orgs | a task appears before it is complete, or unannounced | `Assignments` |
| `task`: uploads; `storage` | `task_uploads`, bucket | UploadFile, DeleteUpload | bucket and database in two steps, shared keys | `UploadVerification` |
| `verification` | `upload_verifications`, queue | CreatePending, Process, HandleFeedback | at-least-once and overlapping deliveries, dropped errors | `UploadVerification` |
| `actionitem` | `action_items` | Create, UpdateStatus with cascade, ResolveBySource, Reassign | items and sources drift apart | `TaskReview`, `TravelDebrief`, `Board`, `Digest` |
| `travel` | reports, countries, `travel_debriefs` | Create, Update, Submit, decide, DebriefCron, SubmitDebrief | non-atomic edits beside each other, overlapping crons, items out of order | `TravelDebrief`, `Board` |
| `visitrequest`, `report` | status, review item | create, cancel, decide, cascade | unconditional updates, words that differ between tables | `Board`, `Contracts` |
| `session` | `sessions` | create, bind, renew, revoke, clean up | revocation races everything that prolongs | `Sessions` |
| `auth`: login, reset, middleware; `invite`; `sso` | identity, tokens | Login, SSO callback, accept, reset, change, suspend | checks made before, sessions created after a revocation | `SignIn` |
| `totp`, `emailcode`, `passkey` | secrets, codes, challenges | enrol, confirm, verify, remove | secret replaced between check and use | `SecondFactor` |
| `auth`: tenant selection | tenant bound to a session | select, switch, administration, log out | mixed contexts of one session | `TenantContext` |
| `auth`: members, identities | memberships, identities | invite, provision, remove, delete | count-then-delete against add | `People` |
| `auth`: super admins | flag, suspension | promote, demote, suspend, delete | count-then-act on the last one | `SuperAdmins` |
| `suborg` | sub-orgs, members, session scope | create, rename, delete, assign | move-then-delete against assign | `SubOrgs` |
| `team`: clearances | records, pointer | SetClearance | three statements, not one | `Clearances` |
| `dd254` | forms, read-on access, links | upload, supersede, grant, revoke, link | a checked contract ends before it is named; links past the panel | `Contracts`, `Documents` |
| files of forms, posts, travel reports | blob and row | upload, discard | one of the two steps fails | `Documents` |
| `reminders` | `last_*_reminder_at` of records and forms | the FSOs' daily passes | recorded but not sent, overlapping passes | `Reminders` |
| `digest`, `notify` | `last_digest_sent_at` | daily run, single mails | sent but not marked, counted too early | `Digest` |
| `email` | the mail queue | Send, HandleSendTask | retries, refusals, repeated deliveries, dead letters | `Mail` |
| `chat`, `aiusage` | usage rows | chat | counted before, recorded after | `Chat` |

Components interact through shared tables and direct calls: task, travel, visit
and report handlers call `actionitem.Create` and `ResolveBySource`; the board
(`actionitem.UpdateStatus`) calls back through the updaters wired in
`router/router.go`; uploads enqueue verification tasks that come back as HTTP
requests; sign-in, second factors, tenant selection, suspension and the
administration of members all act on the same `sessions` rows, which the
middleware reads before every handler; crons walk over travel reports,
clearances, forms and settings; a visit names a form, and an endpoint links any
form of the tenant in its place.

## 3. Modules

```
TaskReview --implements--> SubmissionLedger        MCTaskReview
UploadVerification                                 MCUploadVerification
TravelDebrief                                      MCTravelDebrief
TaskReview, UploadVerification, TravelDebrief      MCLive (with fairness)

Handlers <- Sessions <- SignIn, SecondFactor, TenantContext <- Access    MCAccess
Handlers <- People, SuperAdmins, SubOrgs                                 MCPeople
Handlers <- Mail <- Digest
Handlers <- Board, Clearances, Documents, Reminders, Assignments,
            Chat, Contracts, and Digest                                  MCServices
```

`X_proofs` holds the theorems about `X`; those about the services are in
`Visits_proofs` (board, contracts), `Records_proofs` (clearances, documents,
assignments) and `Notices_proofs` (digest, reminders, chat, and all together).  Many definitions have a plausible bug
beside them (comments `Mutant:`); each property fails for at least one of these,
in the very run that checks it.

**Mixes.**  In the modules on `Handlers`, a behaviour draws its operations from
one set, `mix`, chosen in the initial state from the constant `Mixes`.  Access,
People and the services have dozens of endpoints; the interesting races are
between the few that touch the same rows, and a run explores the sum of these
instances instead of their product.  The sets are in the MC modules.  They are
part of the instance, not of the specification: the proofs about the components
hold for any `Mixes`, with one premise for the board (section 5).

### SubmissionLedger: what submission and review promise

An assignee *files* submission after submission; the latest one is *decided*
once, approved or rejected; a further one is filed only after a rejection, none
after an approval.  Two variables, two actions.

### TaskReview: the handlers

| TLA+ | Code |
|---|---|
| `status[c]` | `task_completions.status` of a task and assignee (`"none"`: no row yet) |
| `item[c][n]` | status of the `task_submission` item created for submission `n` |
| `req[r]` | a running request: endpoint, next statement, completion, submission |
| `filed`, `verdict` | history variables: submissions so far, the verdict of each |
| `EnsureCompletion`, `SaveResponses`, `Submit`, `CreateItem` | the statements of GetMyTask, SaveResponses and SubmitTask |
| `ReviewSubmission`, `ReviewRefused`, `ResolveBySource` | ApproveSubmission and RejectSubmission |
| `UpdateItem`, `Cascade` | `actionitem.UpdateStatus`, then the updater of `router.go` |
| `Abandon` | a request stops between two statements |

`TaskReview` implements `SubmissionLedger` (property `LedgerSpec`): although the
program keeps only a status column, it behaves as if it kept the ledger.  The
refinement mapping gives the ledger the history variables of the same names;
what ties these to the code's column is the invariant `StatusAgreesWithLedger`.

### UploadVerification: files, rows, queue, workers

| TLA+ | Code |
|---|---|
| `post[u]` | an UploadFile request: bucket, row, verification, queue |
| `row[u]` | the `task_uploads` row; `"unlinked"` between DeleteUpload's statement and the bucket's delete |
| `blob[n]` | the bucket; the key is completion and file name, content is named after the upload that wrote it |
| `check[u]` | the `upload_verifications` row, with the content the verdict is about |
| `queue`, `attempts` | the verification queue, deliveries so far |
| `worker[w]` | one run of `Process`, step by step |

`MaxAttempts` is the queue's `max_attempts` (5 in `src/infra/modules/compute/main.tf`);
the development enqueuer (`local_enqueuer.go`) is the case `MaxAttempts = 1`.
`Overlap` says whether the queue may deliver a task that is being processed.
Checks of type, size and malware come before any state change.

### TravelDebrief: trips, cron, debriefs

| TLA+ | Code |
|---|---|
| `status`, `legs`, `marked` | `travel_reports.status`, end dates in `travel_report_countries`, `debrief_created_at` |
| `edit[e]` | a create or update request, which deletes and inserts countries one by one; several may be at one report |
| `plan` | history: the countries of the edit whose `UPDATE` was accepted last |
| `edit[e].late`, `torn` | history: a newer edit of the report was accepted since; the last accepted edit stopped half way, or a late one wrote beside it after it had removed the old countries |
| `cron[k]` | a run of DebriefCron: the list it read, the report it is at; `overlap`: another ran beside it |
| `debrief`, `item`, `answer` | `travel_debriefs`, the two items of each, the SubmitDebrief request |
| `today` | `CURRENT_DATE` |

`Update` has neither lock nor transaction: of two requests for one draft, the row
may be left with one's fields and the other's countries, or both's.

An item's `pending`/`under_review` is *open*, `processed`/`rejected` is
*closed*; no statement of this component tells them apart further.  The reports'
own review items are in `Board`.

### Handlers and the modules on it

`req[r]` is a record: the endpoint (`op`), the next statement (`at`) and what
the handler has read so far.  `Begin` is a request that is admitted, `GoTo` its
next statement, `Done` its answer, `Abandon` its end half way.

`Sessions`, `SignIn`, `SecondFactor` and `TenantContext` are about one person
with several sessions; `Access` composes them.  `session[s]` is the row
(state, tenant, super administration, revoked, expired, the password it was
opened with), `account` the identity's password number, activation, suspension,
failed attempts and lock.  The session states from which the router admits an
endpoint are `AdmittedStates`, the guard `Admitted` of every request.  `excused`,
a history variable, holds the sessions that ought to be over but live on for a
known reason; `NoSessionOutlives` says there are no others, but for those whose
revocation is still under way.

`People` is one e-mail address across tenants: the identity may be deleted and
created again while other requests still hold its old id.  `SuperAdmins` are
several administrators acting on one another.  `SubOrgs` is one tenant's tree
with members and the scope cached in their sessions.

`Board` is one source (visit, report or travel report) with its review item and
the two ways to decide it; `since` remembers what has happened since they last
agreed.  `Clearances`, `Documents`, `Digest`, `Reminders`, `Assignments`, `Chat`
and `Contracts` are the remaining services, each a handful of variables; their
header comments name the tables.

`Mail` is the way of a mail to its reader: the sender only creates a task in a
queue (`outbox`, a bag of letters with the number of their retries), the queue
posts it back, the handler calls the provider and answers so that the queue
forgets it or tries again.  `Digest` sends by it: `news` counts what *arrived*,
while `last_digest_sent_at` is written as soon as the task exists.  That is why a
refused or given-up mail takes what it announced with it (`DropsMailAbout`).
The 24 hours that a first digest looks back are rounded to whole calendar days
(`dayAgo` is the beginning of yesterday).

In `Contracts`, the panel that suggests forms and the endpoint that links one are
independent: the endpoint only asks whether the form exists, so a link past the
panel may name a superseded form, or one the author was never read on to.
`UnauthorisedOnlyBy` names this way; what it adds is that links from a panel, and
visits a contributor declares, go wrong only by a race.

The history variables are `lone` and `doubt`
(clearances), `torn` and `late` (edits of a report), `mixed` (sub-organisations), `joined` (memberships), `lost`
(contracts), `unlocks` (locks that ran out), `confirmed` (secrets shown to
work), `calls` and `broken` (chat): no guard of the code's actions reads them.

## 4. Runs

Runs without faults are `live` and nothing else; all others let requests stop
and statements fail wherever the code can.

| Run | Instance | Shows |
|---|---|---|
| `review` | 1 completion, 3 requests, 2 submissions | the handlers implement the ledger; the only ways to hide a waiting submission from the board or leave a stale item there |
| `verify` | 2 uploads, 2 names, 2 workers, 3 attempts, overlap | rows and files agree unless uploads share a key; the only ways to strand a file, leave a verification pending, write over a verdict |
| `debrief` | 1 report with any of three trips, 2 edits, 2 cron runs, 2 debriefs, 3 days | when a trip gets a second debrief; the only ways to an early one; the board shows whether the answer has come |
| `live` | small instances of these three, fair | submissions surface, verifications are decided, trips debriefed, answers surface |
| `access` | 2 sessions, 2 requests, 2 tenants, 15 mixes | no session outlives suspension, reset or a closed tenant but for the excused; lock-out bounds guesses; contexts and TOTP secrets mix in the named ways only |
| `people` | 2 requests, 2 tenants, 3 identities; 3 administrators; 3 sub-orgs | how the last super admin, a membership, an identity or a place in a sub-organisation can be lost |
| `services` | 2 requests, a few rows of each table | board, clearances, files, digest, reminders, assignment, chat limit, contracts |

Five runs expect a violation; they belong to the findings of section 6.

### Bounds, and why they are enough

* *Requests.*  Three on one completion: the deepest interleavings need a
  submitter, a reviewer and a late reviewer or board user.  Elsewhere two: the
  races are between a check-then-act request and one that changes what was
  checked; actions of other actors that take a single statement (suspending a
  tenant, removing a member, superseding a form, moving somebody) need no
  request slot and may come any number of times.
* *Two submissions*: an earlier and a later one; every statement treats all
  earlier submissions alike.  At the bound `Submit` counts as a failed statement.
* *Two uploads*, sharing a name or not.  *Two workers*: a delivery and one beside
  it.  *Three attempts*: the two of them, and one left, which a delivery that stops
  loses if the one beside it was answered; more attempts repeat the third.
* *Two edits* of a report: one, and one that overtakes it; a statement of a third
  is like one of the late edit.  `MCTravelDebrief` splits the behaviours: either
  edits run beside each other and nobody answers a debrief, or debriefs are
  answered and edits come one at a time.  No guard and no property reads both
  sides.  `live` has one edit at a time; its properties do not depend on them.
* *Two debriefs* to see a second; *three days*: before, during and after a trip
  of two legs.  The plans are a day trip, two countries, and a country without
  an end date.  Liveness has one debrief for each of two reports.
* *Numbers* of passwords, tokens, secrets and digest items (2), identities and
  files (3), records (4): an old and a new one, and one more where an entity may
  be deleted and made anew.  *Three mails* in the queue: one about each item and
  a digest, or the digests of overlapping runs.  A mail is tried five times, as
  the code and the queue have it.  At a bound the insert is not enabled; that only
  cuts behaviours short.
* *Reminders* count days down from outside the first bucket to two days past due,
  with the code's bucket and gate lengths, so that the numeric edges are the
  code's own.
* *Chat*: a limit of 3 and two requests reach the limit from below, at it, and
  beyond.  *Lock*: 2 failures lock, one lock runs out.
* Instances whose rows run out say `CHECK_DEADLOCK FALSE` in the `.cfg`: when
  everything has been dealt with the system rightly does nothing.  `review` and
  `debrief` never stop, and deadlock is checked there.
* Symmetry of interchangeable model values is used in safety runs only.

### Fairness, and why the code justifies it

Weak fairness on a running request's or worker's next statement: the Go
scheduler runs every goroutine and statements return.  The verification queue
delivers (strong fairness: all slots may be taken for a while); Cloud Scheduler
calls the cron every day.  No client owes anything: no fairness on requests
beginning, on decisions, answers or board updates, nor on faults or midnight.
`live` excludes faults, since a request that stops never goes on; what is left
over then is what the `OnlyBy` properties of the other runs are about.  In
`MCLive` a behaviour exercises one of the three parts.

## 5. Proofs

The theorems hold for any constants that satisfy the modules' named
assumptions, with and without faults; TLC evaluates these assumptions in every
run of the module.  Every safety and action property that a passing run checks
is stated by a theorem; `Spec` is the specification the run checks, except that
`debrief` checks `MCSpec`, the part of `Spec` described above.

| Module | Theorem | Statement |
|---|---|---|
| `TaskReview_proofs` | `TypeCorrect`, `Invariance`, `LedgerAgreement`, `ResolversDecided` | `Spec => []TypeOK`, `[]Inv` and its parts |
| | `ImplementsLedger` | `Spec => LedgerSpec` |
| | `WaitingHidden`, `StaleLeft` | `Spec => WaitingHiddenOnlyBy`, `StaleLeftOnlyBy` |
| `TravelDebrief_proofs` | `DebriefTypes` | `Spec => []TypeOK` |
| | `SecondDebriefs`, `TripsOver`, `BoardFollows` | `Spec => SecondDebriefOnlyBy`, `ListedTripsAreOver`, `BoardFollowsAnswer` |
| `UploadVerification_proofs` | `VerificationTypes`, `OwnFiles` | `Spec => []TypeOK`, `[]OwnFileUnlessNameShared` |
| | `VerdictsStand`, `FilesLeft`, `PendingLeft` | `Spec => VerdictStands`, `FilesLeftOnlyBy`, `PendingLeftOnlyBy` |
| `Access_proofs` | `AccessTypes`, `FailuresBounded`, `SessionsEnd` | `Spec => []TypeOK`, `[]LockBoundsFailures`, `[]NoSessionOutlives` |
| | `OnlyConfirmedSecrets`, `ContextsApart` | `Spec => VerifiedUnless`, `OneContextUnless` |
| `People_proofs` | `MembersStay`, `NoPhantomLeft` | `PeopleSpec => MembershipLostOnlyBy`, `PhantomLeftOnlyBy` |
| | `LastAdminStays` | `AdminsSpec => LastAdminLostOnlyBy` |
| | `ScopesFollow`, `PlacedUnless` | `OrgsSpec => []ScopeFollows`, `UnplacedOnlyBy` |
| | `PeopleTypes`, `PeoplePromises` | the run's `Spec => []TypeOK`, and all of the above |
| `Visits_proofs` (`Board`, `Contracts`) | `BoardAgrees` | `BoardSpec => []PartedOnlySince` |
| | `AuthorisedWhenNamed` | `ContractsSpec => UnauthorisedOnlyBy` |
| `Records_proofs` (`Clearances`, `Documents`, `Assignments`) | `LoneChangeRestores` | `ClearancesSpec => []OneCurrentUnlessDoubt` |
| | `ContentStays`, `BlobsFollowRows` | `DocumentsSpec => ContentLostOnlyBy`, `OrphanLeftOnlyBy` |
| | `ReadyUnless` | `AssignmentsSpec => UnreadyOnlyBy` |
| `Notices_proofs` (`Digest`, `Reminders`, `Chat`) | `DigestsApart`, `NoItemMissed` | `DigestSpec => []NoSecondDigest`, `MissedOnlyBy` |
| | `RemindersReach`, `CallsBounded` | `RemindersSpec => []ToldInEveryBucket`, `ChatSpec => []LimitExceededOnlyByOverlap` |
| | `ServicesTypes`, `ServicesPromises` | the run's `Spec => []TypeOK`, and all of `Visits`, `Records` and the above |

Type invariants are not inductive by themselves where a handler acts on what it
read earlier, so each proof starts from one that also says what a request in
progress holds (`AllRequests`, `PersonRequests`, `FileTypes` and so on).  What
each argument adds:

**TaskReview.**  `Inv` (`TypeOK`, `StatusAgreesWithLedger`,
`ResolverFollowsVerdict`) is inductive as it stands: every guard reads the
status column only, which is what the invariant ties to the history, and
`filed` never shrinks and verdicts are never withdrawn (`LedgerGrows`).  For
`ImplementsLedger`, a recording step maps to `Decide`, a submission to `File`,
anything else to a stutter.  For `WaitingHidden` it is shown that one request
moves at a time, which step takes the last open item, and that a submission that
begins to wait is announced by its own request.  `StaleLeft` turns this around:
a submission stops waiting by a verdict, whose request is then about to resolve
the items (`ReviewResolves`), so that what is left open was created afterwards,
reopened, or left by a request that failed.

**TravelDebrief.**  `SecondDebriefOnlyBy` says that a run that was alone only
debriefs again if requests may stop.  The invariant adds that a run without
`overlap` really is alone (`RunsAlone`), that its list holds unmarked reports
only but for the one it is at (`ListUnmarked`), and that without faults a report
with a debrief is marked or about to be (`DebriefMarked`).  `PlanStored` says
how far the stored countries of a report are from its plan: at most one edit of
it is not late, and the countries stored and those that this edit has in hand
are the plan's, unless the report is torn.  An overtaken edit may write before
the newer one removes the countries, which then go too; if it does so later, or
the newer one stops, the report is torn.  `AnsweredOnce` says that an item asking for review exists only once
the answer is in, so that closing the items of a debrief that awaits its answer
never closes that one.

**UploadVerification.**  `TypeOK` alone is not inductive: a delivery looks up
the name of its upload, so what is queued must have been posted (`Known`).
`VerdictInv` adds that a verification is created once, that deliveries without
`overlap` have their task to themselves, and that past its status check such a
delivery finds no verdict until it gives one.  `FileInv` follows the content from
the bucket (`OwnFile`) through what a worker downloaded (`OwnContent`) to the
verdict (`OwnVerdict`).  `PendingLeft` needs `NotYetQueued`: an upload whose
request is not over has no task, so the first delivery finds every attempt left.
An earlier form of `PendingLeftOnlyBy` could not be proved, and rightly so: with
three attempts or more, a delivery can stop that has attempts left while one
beside it was answered 200 after `MarkFailed`'s error was dropped; the task is
gone and the verification pending.  Two attempts hid this from TLC.  The property
now names the case and the run has three attempts.

**Access.**  While the account is locked, failures counted plus logins still on
their way to being counted are at most `MaxFailedLogins - 1` plus one for each
request and lock; while it is not locked the failures alone are.  All other
operations (`AllQuiet`) neither fail logins nor touch the account's counters.
For `SessionsEnd`, `OutInv` is the property itself, apart for the account and
for the tenant, and that a switch is under way only for a session that was
begun.  Each operation either revokes (`Revokes`), and then what it covered is
over; or leaves account and tenants as they are and creates, binds or prolongs
one session (`Prolongs`), which is then in order or was overtaken; or changes
account or tenant, and then a revocation is under way or `Remembered` says why
not.  `ContextsApart` and `OnlyConfirmedSecrets` follow from the types, one
operation at a time.

**People.**  What a request relies on stays true whatever others do (`Relies`,
`Keeps`): ids grow and are not used again, so a membership that is still the one
found belongs to the identity found with it; and what joined an identity since
it was counted is among the `joined`.  *Super admins*: a removal about to act
has counted more than one active super admin or has not counted (`Counted`); so
a removal that counted what is there now leaves one.  *Sub-organisations*: as
long as a member is not among the `mixed`, at most one request concerns it
(`Apart`), that request knows where the member is (`InOrder`), and the scope is
that of its row or about to be (`Scoped`).  Any overlap puts the member among
the `mixed`, so this is about requests that come one after another.

**Visits.**  While nothing is noted in `since` (`OneWay`), a request that files
is alone, all requests want the same verdict, and each has still to do what
brings source and item together.  The theorem presupposes that every mix names a
kind of source.  *Contracts*: what a request names or a panel offers authorised
the author when it was looked up, and still does unless it is among the `lost`
(`Named`).  A link is either of such a form or past the panel.

**Records.**  *Clearances*: half-way states of the one lone change: nothing is
current before its insert, exactly its record before its repoint (`HalfWay`),
unless the member is gone, whose records went too (`GoneWithMember`).
*Documents*: a file on its way to being stored is nobody else's and in no row, so
that its clean-up takes only its own (`Fresh`).  *Assignments*: there is one
creation, and rules come after all requirements (`OneCreation`, `Creating`).

**Notices.**  *Digest*: a digest counts our items only (`CountsOurs`); without
retries runs do not overlap and a run's items came after the mark it counts from
(`RunsApart`); if nothing stops, is retried or posted again, an item that was or
is being announced is not counted again (`CountedOnce`) and the queue holds one
letter about it at most (`Sealed`).  The lemmas about bags at the beginning say
what posting, taking and trying a letter again do to the queue.  For
`NoItemMissed`, each step that makes an item missed is one of the `Excused`.
*Reminders*: how many mails an FSO may have had is a function of the days left
and the days since the last reminder (`Quota`), and a reminder silences the next
pass only if it was given in this bucket or late in the one before (`Audible`).
*Chat*: recorded calls plus requests past the count stay within
`DailyLimit + |Requests| - 1`; calls exceed the recorded ones by those under way
and those that broke off.  Midnight only lowers the counts.

**The runs' own specifications.**  The component theorems are about a component
by itself (`DigestSpec` and so on), for any `Mixes`.  A behaviour of `MCPeople` or
`MCServices` uses one component: it is a behaviour of that component's
specification, and the others stay as they began (`PartUsed`, `Selected`).
`PeoplePromises` and `ServicesPromises` conclude that the specifications the runs
check have all the properties, provided `Mixes` are among the `Operations`
listed there, which keep the components apart.  `ServicesInv` and `OneUsed` do
the same for the types.

**Only model-checked** are the four liveness properties of `live`: the prover
cannot reason about fairness and ENABLED.  No module needs recursion or
induction over data.

## 6. Where the code and the repository's words differ

| Run | Sentence | What happens |
|---|---|---|
| `review_cascade` | `actionitem/handler.go:166`: status changes cascade to the source | the handler passes `approved`, the updater waits for `processed`: the submission stays undecided |
| `suborg_names` | `suborg/suborg.go:13`: a sub-organization with that name already exists | no constraint makes names unique, so the refusal never comes |
| `visit_level` | `dd254/store.go:361`: the classification must meet or exceed the visit's access level | `top_secret_sci` is not among the ranked words and requires nothing |
| `reminders_once` | `migrate/migrations/000037`: 30-day reminders go out once | the bucket is 31 days long and its gate 20: they go out twice |
| `clearance_single_tx` | `team/store.go:311`: in a single tx | three statements: two requests leave two current records |

The `OnlyBy` properties name further races which no sentence of the repository
excludes: see the comments above them and the hazards in `PROJECT.json`.

## 7. Not modelled

* *Answers, notes, texts, names, titles, list queries, exports*: written once or
  only read; no decision depends on them.  For this reason `actionitem`,
  `visitrequest`, `team`, `wiki`, `notify` and the tenant settings are modelled in
  part only.
* *Reminders of contributors* (`reminders.Run` before the passes for FSOs): they
  keep nothing from one day to the next.
* *The way of other mails*: invitations, codes, reset tokens and reminders are
  handed over in their modules; what `Mail` says of refused and given-up mails
  holds for them, but is followed through for the digest and items only.
* *A new address for an identity not yet activated* (`AdminChangeEmail`) and the
  settings of single sign-on: `People` is about one address of one tenant's
  provider.
* *The protocols of external parties*: OIDC and SAML, WebAuthn, mail delivery,
  the malware scanner, the language model.  The modules have their outcomes
  (succeeds, refuses, fails, does not answer).
* *Cryptography*: passwords, secrets and tokens are numbered; a right code is
  right.
* *The rate limiters* (of sign-in, counted from the audit log, and of error
  reports, in memory): they only refuse requests, which a client that does not
  ask covers.
* *Expiry of invitation and reset tokens*: an expired token behaves like one
  nobody presents.
* *Audit, logging, telemetry, error reports*: append-only; the rate limiter of
  sign-in is the only decision that reads them.
* *Two invitations accepted at once* (`invite/handler.go:143`) is modelled in
  `SignIn`, but the outcome, the later password, is what two password changes
  give as well: no property names it.
* *Frontend, Terraform, developer tools, end-to-end tests*: the modules let
  clients call any endpoint at any time, and take the queue's retries and the
  schedules from the infrastructure as constants and fairness.
