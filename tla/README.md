# A TLA+ model of Zoora's server

Zoora is a multi-tenant classroom platform: a Go API server, an asynq worker on
Redis, Postgres at READ COMMITTED through gorm, Redis caches, LiveKit for the
media of live rooms, S3 for files, a payment gateway, and a React frontend.
What is hard in it is not one algorithm. Most handlers **read a row, talk to
somebody, and write the row back**, and API requests, webhooks, delayed tasks
and periodic sweeps do so at the same time on the same rows. The modules here
model those handlers statement by statement and ask what survives.

## 1. Inventory

| component | state | operations | what is hard | what makes it correct |
|---|---|---|---|---|
| live rooms (`internal/livesessions`) | `live_rooms.status`, `host_last_seen_at`, participation rows, the LiveKit room, one delayed close task | start, join, leave, kick, heartbeat, end, webhooks, close task, stale sweep | five closers race; LiveKit answers before the row is written; webhooks are lost, late or doubled | a room finishes once, its teardown runs once and to the end, a present host keeps it, an absent host loses it |
| live recordings (same package) | `live_recordings` rows, LiveKit egresses | start, stop, the teardown's stop, `egress_ended` | four writers save whole stale rows; a start takes up to 15 s between check and insert | a row is over only once somebody asked the egress to stop or it ended, and stays over; a finished room leaves nothing running |
| billing (`internal/billing`) | invoices, payments, `organizations.plan` and `plan_expires_at` | checkout, callback, settlement, mark paid, cancel, refund, issue, receipt, expiry | repeated callbacks, the row lock on the invoice only, whole-header saves | an invoice activates once, one that says "paid" has activated, nobody gets unpaid time |
| billing reminders | `billing_reminders` | sweep | check, send, mark | at most one reminder, except after a crash |
| recording retention | recordings and S3 objects | sweep | object first, row second | no row without its object |
| quizzes and AI grading (`internal/quizzes`, `internal/ai`) | submissions, grading jobs and their tasks | start, save answer, submit, lazy finalize, grade, AI job and tasks | whole-row saves by student, deadline, teacher and worker; tasks that are retried, lost or repeated | what is handed in stays as it is, totals add up, a job completes and stays so |
| chat hub and presence (`internal/chathub`) | rooms and sockets under the hub lock, the command queue, the Redis loop, presence counters | join, leave, connect, disconnect, pong, reconnect | hooks queue commands for another goroutine; wakeups; TTLs; dead instances | subscribed exactly while somebody listens, online exactly while somebody is |
| notifications (`internal/notifications`) | recipients, deliveries, the fan-out and delivery tasks | send, fan out, deliver, mark, read | crashes between row and task, retries of the whole task | everyone gets a row, a message is repeated only after a fault |
| attendance | attendance marks | mark, auto-mark | fed by participation rows | present by the share of time attended |
| polls, Q&A, conversations, room chat | rows of content | answer, close, post | an answer against a close | nothing lands in a closed poll |
| entitlements | counts per organization | check before insert | check then act | limits hold |
| authentication | user cache, revocation marks | login, revoke | cached callers | a revoked session ends |
| the rest (organizations, users, roles, classes, calendar, gradebook, media, imports, tickets, connectors, audit, ...) | single rows | create, read, update, delete | little | permissions |

They interact through the rows (attendance adds up participation rows; every
request reads the plan billing writes), through the queue (the teardown of a
room enqueues auto-marking), through LiveKit's webhooks, and through direct
calls (the teardown stops the recording, archives the chat, closes the polls).

`PROJECT.json` lists the components with their status and 40 hazards at the
line where each bites.

## 2. Modules

| module | models | used by |
|---|---|---|
| `RoomLifecycle` | the abstract promise: created, active, finished, and never back | refined by `LiveRoom` |
| `LiveRoom` | one room with its participation rows, LiveKit, webhooks, timer, closers | `MCLiveRoom`, `LiveRoomProofs` |
| `LiveRoomProofs` | the theorems about `LiveRoom` | |
| `RecordingLifecycle` | the abstract promise: entered once, over once and only after it was asked to stop or ended, never brought back | refined by `LiveRecording` |
| `LiveRecording` | recordings of several rooms and the fleet-wide cap | `MCLiveRecording`, `LiveRecordingProofs` |
| `LiveRecordingProofs` | the theorems about `LiveRecording` | |
| `PlanPurchases` | the abstract promise: the plan changes only when an open, paid-for invoice is settled, once | refined by `Billing` |
| `Billing` | invoices and the plan of one organization | `MCBilling`, `BillingProofs` |
| `BillingProofs` | the theorems about `Billing` | |
| `QuizSubmission` | submissions of several students, handlers, one room's window, AI grading jobs | `MCQuizSubmission`, `QuizSubmissionProofs` |
| `QuizSubmissionProofs` | the theorems about `QuizSubmission` | |
| `ChatHub` | the hub of one instance, its Redis loop, the presence counters of all | `MCChatHub`, `ChatHubProofs` |
| `ChatHubProofs` | the theorems about `ChatHub` | |
| `Notifications` | one notification, its fan-out, its delivery rows and tasks | `MCNotifications`, `NotificationsProofs` |
| `NotificationsProofs` | the theorems about `Notifications` | |

Three modules state an abstract promise and are refined. `LiveRoom` maps its `status`
to `RoomLifecycle`. `LiveRecording` maps LiveKit's egress, the row, and the egresses
the teardown left behind (`unstopped`) to `RecordingLifecycle`; a row that is gone, or
that was never written while its room was deleted, is "gone" there, so a late
`CreateRow` into a deleted room would have to bring it back. `Billing` maps the
invoices that buy a plan to `PlanPurchases`: an invoice is open while its status is
payable, its money is seen once the gateway captured it or an administrator said so,
and it is settled when it has applied its plan. What these promise is no more than the
code does: `Recall` is there because the receipt job may save "paid" over "refunded".
The components share no variable: what one sees of another (the recordings of a room,
the plan a request reads) is an input.

The modules share one convention. `proc[p]` is a handler in flight: its stage, and
**the values it has read**. One action is what happens between two points where
another handler can observe or change something: a statement, a call to LiveKit,
the gateway or the queue. A handler that fails returns to `Idle`; a process that
dies does too, by `Crash`. Variables under *history* are not in the code: they
remember what a property needs. An operator under a comment `variant:` is a
plausible mistake in the operator that follows it, used to see that a property
notices it.

### LiveRoom and the code

| state | code |
|---|---|
| `status`, `hostStale` | `live_rooms.status`; `host_last_seen_at` older than the grace period |
| `rows`, `open` | rows of `live_participants`, and those with `left_at` NULL |
| `lkRoom`, `connected`, `tokens`, `events` | LiveKit's room, its participants, the join tokens handed out, the webhooks on their way |
| `timer` | the task with ID `closeTaskID(room)`: none, scheduled, running |
| `proc[p]` | `p` in `Requests`: an API request or webhook; in `Sweepers`: `AutoCloseStaleRooms`; `CloseTask`: `CloseRoomIfNoHost` |

`JoinRoom`, `LkCreate`, `Activate`, `Reload`, `LkEnsure`, `FindRow`, `InsertRow`
are the statements of `service.JoinRoom` with `startRoomInternal` inlined;
`CloseRoom` is the guarded transition of `endRoomInternal` and `Teardown` its
remaining calls, in the order of the code (the recording comes first there and is
modelled in `LiveRecording`). `Answer` is what each of the four callers does with
`hostPresent`, in a step after it asked. LiveKit (`Connect`, `Disconnect`,
`LiveKitDropsRoom`) and asynq (`Retry`, `Complete`) are external and modelled
from how the code uses them: a token opens the room and recreates it if it is
gone, a webhook may be lost or repeated, a task whose handler failed is kept.

Abstracted: wall-clock time is `GraceExpires` and the freedom of `FireTimer` to
fire at any time after arming; permissions are membership of `Hosts`; a failing
query is a handler that dies. Left out: `UpdateRoomConfig`, roles and raised
hands, the whiteboard, and the organization's limit on concurrent rooms.

### LiveRecording and the code

`row[e]` is the row of egress `e` (`egress_id` is unique, so one per egress),
`egress[e]` what LiveKit did with it, `sized` the rows that carry the webhook's
size. `StartRecording` → `FindActive` → `CountActive` → `StartEgress` →
`CreateRow` are the statements of `service.StartRecording`. The stopping handlers
`StopRecording`, `EndRoom` and `OnEgressEnded` meet in `SaveRow`, gorm's `Save` of
every column of the copy in `proc[p]`. `StartEgress` may take effect and still
miss its deadline. `EndRoom` stands for every caller of `endRoomInternal`.

A stop is a request and no more (`client.go:198-215`; the comment at
`service.go:1102-1104` says so). `StopEgress` leaves the egress "ending", and only
`EgressEnds` gives LiveKit's verdict, which may be a failure and reaches the row by
the webhook, if that comes. The handler that asked saves the row "completed" all the
same, so meanwhile a row may be over, its room free to record again and its slot of
the cap free, with an egress that still winds up. `OverMeansStopped` claims no more
than that the stop was asked for, the end has come, or a teardown could not reach LiveKit.

### Billing and the code

`inv[i]` is the header that `UpdateInvoice` writes as a whole, cut down to status
and number; `plan[i]` is the rank of the plan its line item buys (0 for a custom
invoice), `org` the organization's row. `LockInvoice` is the locking read and the
decision of `markPaidAndActivate`, `Commit` its writes becoming visible. The code reads
the organization a statement after the lock; nothing about the invoice can change in
between, so a lock taken only at that read gives the same runs, and two settlements of
different invoices may still both read before either writes. Every
other writer goes through `Rewrite` and `SaveHeader`: read, decide, later write the
whole header, waiting for a row lock but not for its reason. `Verify` lets the
gateway confirm, refuse or not answer. Simplified: one organization, one gateway
attempt per invoice, all intervals of length one, no perpetual plans, the
callback's clock read when the row is locked, and no change of plan by an
administrator.

### QuizSubmission and the code

`row[s]` is the submission of student `s`: status, the room it was started in,
what each question was answered and scored, who scored it, and the stored total.
Every handler of `submissionService` is the same two steps: `Load`, then, past
the deadline, `FinalizeExpired` (lazily, since nothing else enforces it), else
its own work, `SaveAnswer`, `SubmitQuiz` or `GradeSubmission`. All end in
`Update`, gorm's `Save` of the whole copy in `proc[p]`; `overwritten` remembers
the students one of whose rows was saved over a newer one. `StartAIGrading`
makes a job with one task due per finished submission, and its loop enqueues them one by
one (`EnqueueAIGrade`) with the first already running; `StartDies` is a request that
dies in the loop, whose remaining tasks are lost. A task ends at once when the model
was switched off in the meantime (`SkipDisabled`); else it reads the row
(`LoadSubmission`), works on its copy (`SaveScores`), and counts itself in the job
(`Report`). `WorkFails`, `ReportFails` and `AckLost` are the failures, and asynq's
retries with the last attempt that counts as failed. Time is what the code asks
of it: the room is planned, open, ended, or past the grace period, and a
student's own duration is up or not. Left out: the questions' composition, types
of automatic marking (a value has a mark), anti-cheat, redaction and AI quotas.

### ChatHub and the code

`rooms`, `userSockets` and `joined` are the maps of `Hub`; `pending` and `wake` the
queue and the one-token channel of `Bridge`; `loop`, `batch` and `refs` the state of
`Bridge.Run`; `asked` and `live` what its PubSub remembers and what Redis delivers.
`holder` is the hub lock where it is held across steps: from the command that
`Enqueue` appends to the non-blocking send (`Wakeup`), and while `removeSocket`
goes through a socket's rooms. `TakePending`, `ApplyCmd`, `Woken`, `Receive`,
`Deliver`, `PubSubCloses` and `Rebuild` are the branches of the loop. `count[u]` is the
key `presence:online:<user>`, changed by the scripts of `Connect` and `Disconnect`
and dropped by its TTL once no pong renews it: `Expire` when none of the user's sockets is
open, though some may still be closing, as the TTL equals the read deadline;
`RefreshFails` over an open socket, when Redis refused the renewals for a whole TTL,
which counts as one fault. Other instances appear through their sockets in that
counter. Left out are the loop's own read-modify of a delivery's payload, typing and
presence events, and what becomes of a single message: a socket whose send buffer is
full misses it (`hub.go:143-147`) and stays open.

### Notifications and the code

One notification is followed, as nothing in the pipeline relates two. `fan` is its
fan-out task and where it stands in `enqueueDeliveries`; `task[k][r]` a
delivery task enqueued by attempt `k` of the fan-out, named by one of its rows;
`row` the delivery rows; `sends` how often a provider took a message.
`FanoutFails`, `DeliverFails` and `MarkFails` let a task fail or its worker
die at any step; asynq starts it over, up to `MaxRetry` times. `Deliver` is the
provider's answer: FCM may turn down single tokens, which `SendMulticast`
ignores (`refused`) or reports as unregistered.

`Target[r]` is the token of a row. Tokens are unique per user only, so two users of one
browser have rows with one token, and `DeliverPush` maps FCM's answer back through
`byToken`, which keeps one row of each (`OnePerToken`, any, as the rows come in no
order). FCM answers for every message and the handler keeps the bad tokens. A bad token
fails the row `byToken` has of it (`Blamed`); the other rows of that token are marked
sent, those that were turned down too (`spared`).

## 3. Runs

Passing runs:

| run | instance | shows |
|---|---|---|
| `live_room` | a host and a student, two request slots, a sweeper and the close task, two handlers in flight, one webhook in flight, one crash, one row per user | `TypeOK`, `OneCloser`, `OnlyLateJoinersStayOpen`, `SteadyHostKeepsRoom`, `TeardownOnce`, and that `LiveRoom` implements `RoomLifecycle` |
| `live_room_ends` | one host, one request, three handlers in flight | `HostlessRoomCloses`, `TeardownCompletes` |
| `recording` | two rooms, two egresses, two handlers, cap 1, one webhook in flight, one fault | `TypeOK`, `OverMeansStopped`, `QuietRoomReleased`, `NeverReopened`, and that `LiveRecording` implements `RecordingLifecycle` |
| `billing` | two invoices, two handlers, one paid plan, one tick of the clock | `TypeOK`, `ActivatedOnce`, `PaidMeansGranted`, `NeverOverGranted`, and that `Billing` implements `PlanPurchases` |
| `quiz` | two students, one descriptive question, two requests, one job, one retry, two faults | `TypeOK`, `TotalAgrees`, `SheetIsFinal`, `AnswerIsLocked`, `OnlyFinishedGraded`, `CompletedMeansOver`, `JobNotStuck`, `CompletedIsFinal` |
| `chathub` | two sockets of one user here and one elsewhere, one room, two queued commands, one fault | `TypeOK`, `QueueKeepsCount`, `SubscribedToWanted`, `NoLostWakeup`, `OnlyOpenSockets`, `NeverUndercounted`, `Listening`, `NotPinned` |
| `notifications` | one recipient, a batch of two push rows of one token and one row of a channel without a sender, one retry, two faults | `TypeOK`, `DuplicatesAreFaults`, `SentWasSent`, `PendingIsCarried`, `RetryUndoesNothing`, `ReachesEveryone` |

Runs that end in a counterexample, each against a sentence of the repository
(quoted under "findings" in `PROJECT.json`):

| run | what happens |
|---|---|
| `live_room_duplicate` | two joins of one user both find no open row and both insert; attendance counts the user twice |
| `recording_verdict` | `StopRecording` reads the row, the webhook writes size and verdict, `StopRecording` saves its copy over them |
| `recording_double` | two starts in one room pass the check together and both record |
| `billing_plan` | two settlements read the organization before either writes; the lower plan wins, or an extension is lost |
| `quiz_manual` | `GradeSubmission` does not mark the score as manual, so an AI task in apply mode scores the answer again |

What the properties exclude is as telling as what they show. `SheetIsFinal`,
`AnswerIsLocked` and `OnlyFinishedGraded` exempt students in `overwritten`: a save
over a newer row does undo it, and the code has no version column to prevent
that; nothing else does. `CompletedMeansOver` exempts a job whose worker died
between the report and its acknowledgement, `JobNotStuck` one with a task that was
never enqueued or never reported. `QuietRoomReleased` promises that a finished room leaves no
recording nobody asked to stop, not that its egress is over already, and exempts rooms with
overlapping starts or a failed call: their egress may run on. `NeverUndercounted`
exempts users whose `Connect` failed, or whose key expired with a socket still counted:
silent, closing, or open with its renewals refused. The next disconnect may report
such a user offline, and nothing here shows that it does not. `SentWasSent` lets a row be
marked sent whose token FCM reported gone, in the one case where the code does it: another
row of that token took the blame.

**Bounds and why they are enough.** The races are between two handlers over one
row, so two slots per instance reach each of them; in `live_room` the close task and
the sweep have slots of their own, so every pair of closers meets. A third handler in flight is
allowed in the liveness run, where only the host acts. `MaxRows = 1` in `live_room`
makes a second insert of a user fail, which loses the rejoin after a leave there; the
duplicate run has two rows, and the theorems hold for any number. `MaxEvents` and
`MaxWebhooks` limit webhooks in flight, not in all, and one that stays in flight
after it was handled is its own duplicate. `MaxCrashes` and `MaxFaults` of one are
enough to cut any one handler at any step; of two in `quiz` and
`notifications`, to fail the last attempt of a task that has one retry, which is also
what brings two fan-outs over the same rows. In `billing`, `MaxNumber = 2` numbers two
invoices, and `MaxTime = 1` lets a plan expire. In `quiz`, `MaxRequests = 2` bounds the
requests that read a submission, not those that start one: two copies of one row
are in flight together with the task's. One question is enough, as the handlers
treat questions alike and one at a time; the theorems have any number. In `chathub`,
`MaxPending = 2` holds sockets back only while two commands wait, more than
the loop needs to be overtaken; two sockets of one user and one room give every
first and last join and leave. Symmetry is used in
the safety runs only. `VIEW Read` in the billing runs identifies
states that differ in what no later step and no checked property but the type
invariant reads: the status of an existing payment, and what a handler still holds
of a row after its last use of it. Deadlock checking
is on in `chathub` and off elsewhere because the system may stop: the room is gone, its
invoices are settled, the message is delivered.

**Fairness.** `live_room_ends`: a handler that runs keeps running (`WF` of
`Continue`): goroutines and worker threads are scheduled. The sweep is
started again and again (`WF` of `SweepStart`): asynq's scheduler enqueues it
every five minutes. LiveKit answers a sweep that keeps asking (`SF` of
`CheckHost`), as otherwise nothing can be known of the host. Nothing is assumed of
users, webhooks, the delayed task or crashes.
`chathub`: the loop, a started removal and the handler's `Connect` and `Disconnect`
go on (`WF`), a command's wakeup follows (`WF`), go-redis reconnects (`WF`), keys
expire where no socket is open (`WF` of `Expire`; `RefreshFails` is a fault, bounded and
never owed), and the loop's read lock is granted in the end (`SF` of `Deliver`: Go's
`RWMutex` lets a waiting reader in between two writers). Nobody has to connect, join,
leave or fall silent. `notifications`: asynq hands every queued task to a worker
(`WF` of the fan-out's and each task's steps); failures are not fair, and bounded.

## 4. Proofs

Every safety property of every passing run, and each of the three refinements, is also
a theorem: it holds for every value of the constants that the module's named
assumption allows.

Two kinds of theorems go beyond the runs. Where TLC checks a liveness property, the
prover cannot; it proves the invariant that makes it plausible, its **safety core**: what
must hold so that nothing stands between the state and the goal but steps that
fairness takes. Where a run shows that a sentence of the repository is violated, a
theorem says **what does hold** of it, and so how far the violation can go:

| what the run checks | what is proved beside it |
|---|---|
| `TeardownCompletes` (holds) | `TeardownHasOwner`: the rest of a teardown is always in a handler's hands |
| `ReachesEveryone` (holds) | `QuietMeansReached`: when all tasks are over, nobody was forgotten |
| `NotPinned` (holds) | `OvercountBounded`: presence overstates a user only by what faults cut off |
| `OneOpenRow` (violated) | `OpenRowsBounded`: no more open rows than requests in flight |
| `OneActivePerRoom` (violated) | `OneActiveUnlessRushed`: only overlapping starts make two; `CapOvershoot` bounds the excess over the cap |
| `WebhookIsFinal` (violated) | `OnlyStopsErase`: only the save of a stop takes the size back |

These seven, and `PlanInvoiceClosesOnce`, which the refinement of `PlanPurchases`
implies, are proved and in no configuration. Before they were proved, TLC
checked each (but `CapOvershoot`, which two handlers cannot exceed) on the instance of
its component's run, with the bounds of the violation run where there is one.

`LiveRoomProofs` holds for every finite or infinite set of users and slots and
every value of the bounds, from `ConstantsAssumption` alone (the sets of slots
are disjoint, bounds are naturals, hosts are users):

| theorem | statement |
|---|---|
| `TypeCorrect` | `Spec => []TypeOK` |
| `AtMostOneCloser` | `Spec => []OneCloser` |
| `SteadyHostIsSafe` | `Spec => []SteadyHostKeepsRoom` |
| `LateRowsBelongToLateJoiners` | `Spec => []OnlyLateJoinersStayOpen` |
| `TeardownRunsOnce` | `Spec => TeardownOnce` |
| `TeardownIsOwned` | `Spec => []TeardownHasOwner` |
| `DuplicatesBounded` | `Spec => []OpenRowsBounded`, assuming `IsFiniteSet(Requests)` |
| `Refinement` | `Spec => ImplementsLifecycle` |

None of the safety properties is inductive. `IndInv` adds four facts to them.
`JoinsHaveUsers`: a join in flight knows its user and its slot.
`TeardownInOrder`: a handler past the transition has the room finished or
deleted, and every step from its own on has not run; this is what makes a second
closer impossible after a crash as well, since the transition needs an active
room and an active room has no teardown step behind it. `SteadyMeansHost`:
while a handler is marked steady a host is connected, so an answer "no host"
cannot reach it. `LateJoinersKnown`: a handler that may still insert
a row in a finished room belongs to a user recorded when the room finished. Each
action is a lemma of its own; `TeardownOnce` and the refinement are then
properties of one step from a state where `IndInv` holds.

`OwnerInv` sharpens `TeardownHasOwner`: short of a crash, some handler stands at a
teardown step, and exactly the steps before it have run. `OpenRowsBounded` counts:
`RowsInv` bounds a user's open rows and the handlers about to insert another, together,
by the number of requests. A lookup that makes a handler an inserter found no open row,
and an insert moves one from the second set to the first.
Only here a count of requests is needed, hence the extra assumption.

`LiveRecordingProofs` holds for every set of rooms, every finite set of egress IDs
and of handlers, every cap and every value of the bounds, from
`RecordingAssumption` alone:

| theorem | statement |
|---|---|
| `TypeCorrect` | `Spec => []TypeOK` |
| `OverWasAsked` | `Spec => []OverMeansStopped` |
| `OverStaysOver` | `Spec => NeverReopened` |
| `CapOvershootBounded` | `Spec => []CapOvershoot` |
| `QuietRoomsReleased` | `Spec => []QuietRoomReleased` |
| `Refinement` | `Spec => ImplementsLifecycle` |
| `OneActiveRecording` | `Spec => []OneActiveUnlessRushed` |
| `OnlyAStopErases` | `Spec => OnlyStopsErase` |

A `CreateRow` that met a row already marked over would reopen the recording. Its
`IndInv` excludes that: the handler about to create a row is the only one that
knows its egress (`OwnsEgress`), as a new row is created for a new egress
(`EgressKnown`, `StagesAgree`), so no other handler holds a copy of that row. The
stale saves that remain can only exchange one terminal status for another, and
`SaversAsked` says that each of them comes after the egress was asked to stop, had
ended, or could not be reached. The
cap needs a count instead: `CapBound` bounds the active recordings and the
starts past their check together; the check itself establishes it, the
insert moves one from the second set to the first. `CapOvershoot` is proved and not
run: an instance with two handlers exceeds a cap by one at most anyway.
`QuietRoomReleased` needs, of every room without overlapping starts or faults
(`QuietParts`): one start at a time and none after the end (`OneStarter`), so its
check still holds when it creates the row and there is one active row at most
(`OneActive`); an egress that runs, asked by nobody to stop, has that row or is about to (`RunningIsKnown`);
hence the one recording the teardown finds is all there is (`EndFoundAll`).

The refinement needs one fact more, that an egress has no room before it starts
(`RoomComesWithStart`). Each action that the abstract state sees is a lemma `Map...`
that names its abstract step, the others are `Unseen`. `SoloInv` is the part of
`QuietParts` that survives faults: one start at a time, one active row. `SizeInv` says
that only a completed egress has a size, and that a webhook's copy of one carries it;
`VerdictStays`, that an egress keeps its verdict.

`BillingProofs` holds for every finite set of invoices, every set of handlers, every
number of plans and every value of the bounds, from `BillingAssumption` alone:

| theorem | statement |
|---|---|
| `TypeCorrect` | `Spec => []TypeOK` |
| `AppliedOnce` | `Spec => []ActivatedOnce` |
| `PaidIsGranted` | `Spec => []PaidMeansGranted` |
| `ClosedForGood` | `Spec => PlanInvoiceClosesOnce` |
| `OnlyPaidTime` | `Spec => []NeverOverGranted` |
| `Refinement` | `Spec => ImplementsPurchases` |

`LockedIsPayable` is the heart of the first two: from the locking read to the commit the
transaction holds the lock and the invoice is payable, since every other writer of
an existing invoice waits for the lock. An activated invoice is closed
(`ActivatedIsClosed`), so nobody locks it again, provided no save reopens it:
`CopiesKeepClosed` says that only a draft is ever saved as pending, and a draft
buys no plan (`DraftsBuyNothing`). `CreatorsAlone` keeps two checkouts from
creating one invoice. `PaidCopies` carries "paid means granted" through the stale
copies that say "paid". `OnlyPaidTime` counts: `TimeCounted` bounds the expiry by one
interval per applied plan, and what a commit under way will write by one more.
The refinement adds `CommitBuys`: what a commit will write to the organization is the
plan its invoice buys, decided when it took the lock. A commit is then the
abstract `Settle`, every save of a header a `Close`, a `Recall` or nothing
(lemmas `Sell...`).

`QuizSubmissionProofs` holds for any questions, values, scores and marks, any finite set of
students, any rooms, handlers, jobs, retries and faults, from `QuizAssumption` alone:

| theorem | statement |
|---|---|
| `TypeCorrect` | `Spec => []TypeOK` |
| `TotalsAgree` | `Spec => []TotalAgrees` |
| `SheetsAreFinal` | `Spec => SheetIsFinal` |
| `AnswersAreLocked` | `Spec => AnswerIsLocked` |
| `FinishedAreGraded` | `Spec => OnlyFinishedGraded` |
| `CompletedIsOver` | `Spec => []CompletedMeansOver` |
| `NeverStuck` | `Spec => []JobNotStuck` |
| `CompletedStays` | `Spec => CompletedIsFinal` |

`IndInv` says of every copy in flight what the properties say of the rows: a
finished copy carries its sum (`Agrees`), a copy a handler will save is of a row that
exists, and a task waits only on a student whose row is finished or was
overwritten. `Saving` is the one lemma about `Update`: saved over the row it was
made of, a copy changes only what its handler changed; saved over a newer one, its
student is in `overwritten`. The counters need `CountInv`, about each job without a
repeated report: what it has counted and the tasks that have yet to report, those due
included, add up to its total, or fall short of it only if a task was dropped. A start
that dies makes the tasks still due over, all at once, which is where the sum falls short
by more than one.

`ChatHubProofs` holds for any sockets here and elsewhere (finitely many), any users,
conversations and bounds, from `HubAssumption` alone:

| theorem | statement |
|---|---|
| `TypeCorrect` | `Spec => []TypeOK` |
| `QueueKeeps` | `Spec => []QueueKeepsCount` |
| `WakeupsKept` | `Spec => []NoLostWakeup` |
| `OnlyOpen` | `Spec => []OnlyOpenSockets` |
| `Undercount` | `Spec => []NeverUndercounted` |
| `SubscriptionsExact` | `Spec => []SubscribedToWanted` |
| `OvercountIsFaults` | `Spec => []OvercountBounded` |

`TypeOK` alone is hard here: `refs` is 0 or 1, because a hook fires only on the first
join and the last leave, and the loop applies the commands in order. `QueueInv`
states that order: for each channel there is a trace of counts along the
queue, which starts with `refs`, which each command moves from 0 to 1 or back,
and which ends with what the sockets need. A command appended prolongs the trace, one
applied cuts its first element off. `LockInv`, `SocketInv` and `WakeInv` say who
holds the lock between steps and that the maps of the hub agree with the sockets.
`CountInv` bounds the counted sockets of a user by the counter.
For `SubscribedToWanted`, `AskedInv` ties what the PubSub remembers to `refs` through
failed calls, reconnects and rebuilds; with an empty queue the trace of `QueueInv`
ties `refs` to the sockets.

`NotificationsProofs` holds for any users, channels, batch sizes and bounds and any
finite set of rows, from `NotificationsAssumption` alone:

| theorem | statement |
|---|---|
| `TypeCorrect` | `Spec => []TypeOK` |
| `DuplicatesBounded` | `Spec => []DuplicatesAreFaults` |
| `SentWasTaken` | `Spec => []SentWasSent` |
| `PendingCarried` | `Spec => []PendingIsCarried` |
| `RetriesUndoNothing` | `Spec => RetryUndoesNothing` |
| `NobodyForgotten` | `Spec => []QuietMeansReached` |

That a message goes out at most `1 + faults` times does not follow from any one task, as
a repeated fan-out enqueues the same row again. `LoadInv` counts for each row what may
still go out: its sends so far, the queued tasks that hold it, and one if the fan-out at
hand has it ahead (`Ahead`), together at most `1 + faults`. Enqueueing moves one from
the last term to the second, a send from the second to the first, and only a fault adds
one. `SentWasTaken` needs `SparedShares`: a row spared has another row of its token,
namely the one blamed. `QuietMeansReached` adds `InboxInv`: a fan-out past its
recipients, or over and not archived, has filled every inbox.

Only model-checked, because the prover does no liveness: `HostlessRoomCloses`,
`TeardownCompletes`, `Listening`, `NotPinned`, `ReachesEveryone`.

## 5. Not modelled

What is left has no protocol between actors, or one whose shape is modelled
elsewhere:

- **Reminders, recording retention** are loops on a timer, each visible whole in
  a few lines; what can go wrong is a crash between two of them (a reminder sent
  and not marked). Retention counts days from a recording's start, so
  no handler in `LiveRecording` still holds a copy of what it deletes.
- **Entitlement limits** are a count followed by an insert, the shape of the egress cap,
  whose excess is bounded by a proof.
- **Attendance** adds up the rows of `LiveRoom`; the race it suffers from is the
  finding of `live_room_duplicate`. Its arithmetic is covered by the
  repository's unit tests.
- **Polls, Q&A, conversations, room chat** write single rows and publish. The one
  race, an answer stored after the close, is listed.
- **Authentication**: tokens, passwords and cached lookups with short lives.
- **In modelled components**: the room's configuration, roles, raised hands and
  whiteboard; prices, totals, discounts and plan changes by an administrator; quiz
  composition, anti-cheat and redaction; presence and typing broadcasts; audience
  resolution, rate limits, and the cached unread count, which a
  TTL of 30 seconds keeps from being wrong for longer.
- The **chat and quiz clients** do interleave, and are the next thing to model. The
  message cache of a thread is written by optimistic sends, by uploads, by socket
  events and by refetches. Pinning a message refetches the thread
  (`use-pins.ts:65`); a bubble whose files are still uploading is not in the answer,
  so it and its attachments are gone, and `finalize` (`use-send-attachments.ts:151`)
  takes it for canceled. After a reconnect the list of conversations is fetched
  again (`chat-provider.tsx:78`), the open thread is not, and its `staleTime` is
  infinite (`use-messages.ts`): what was posted in between is missing. Both are listed as
  hazards. The quiz player (`play-area.tsx:124`) notes an answer as saved before the
  request succeeds; the final submit sends all answers again.
- The rest of the **frontend**, the videos, generated clients, parsing, rendering and
  single-row create, read, update and delete have nothing to interleave.
