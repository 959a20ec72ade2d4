---------------------------- MODULE Notifications ----------------------------
(***************************************************************************)
(* A notification in internal/notifications: the row, the fan-out task     *)
(* that writes the inbox and the delivery rows and enqueues the sends, and *)
(* the delivery tasks, all retried by Asynq. The cached unread count is    *)
(* left out.                                                               *)
(*                                                                         *)
(* One notification is followed; nothing in the pipeline relates two. A    *)
(* failing call and a worker that dies look the same to Asynq: the task    *)
(* runs again from its start.                                              *)
(***************************************************************************)
EXTENDS Integers, FiniteSets, Sequences

CONSTANTS
    Users,      \* the audience, without the sender
    Rows,       \* what delivery rows there can be: a connector of a recipient each
    Channel,    \* the channel of a row
    Target,     \* its chat, phone or push token; two users of a browser share a token
    Enabled,    \* the channels that have a sender
    BatchSize,  \* smsBatchSize, pushBatchSize
    MaxRetry,   \* asynq.MaxRetry of all the tasks
    MaxFaults   \* bound: failed calls and crashes

Stages == <<"telegram", "bale", "sms", "push">>

Bots == {"telegram", "bale"}

ASSUME NotificationsAssumption ==
    /\ Channel \in [Rows -> {"telegram", "bale", "sms", "push"}]
    /\ Enabled \subseteq {"telegram", "bale", "sms", "push"}
    /\ IsFiniteSet(Rows)
    /\ BatchSize \in Nat \ {0}
    /\ MaxRetry \in Nat
    /\ MaxFaults \in Nat

VARIABLES
    inbox,    \* notification_recipients
    fan,      \* the fan-out task
    row,      \* notification_deliveries
    task,     \* the delivery tasks a fan-out attempt enqueued, by one of their rows
    sends,    \* how often a provider took the message of a row
    refused,  \* history: rows for which FCM reported an error that is ignored
    spared,   \* history: rows FCM reported gone, another row of the token taking the blame
    archived, \* history: a task was out of retries
    faults

sendVars  == <<sends, refused, spared>>
vars == <<inbox, fan, row, task, sends, refused, spared, archived, faults>>

Attempts == 0..MaxRetry

Fan == [at : {"none", "created", "queued", "deliveries", "list", "enqueue", "over"},
        tries : Attempts, stage : 1..5, list : SUBSET Rows]

Task == [at : {"none", "queued", "sent"}, tries : Attempts, rows : SUBSET Rows,
         bad : SUBSET Rows]

FanAt(at, tries, stage, list) == [at |-> at, tries |-> tries, stage |-> stage, list |-> list]

TaskAt(at, tries, rows, bad) == [at |-> at, tries |-> tries, rows |-> rows, bad |-> bad]

NoTask == TaskAt("none", 0, {}, {})

TypeOK ==
    /\ inbox \in [Users -> {"none", "unread", "read"}]
    /\ fan \in Fan
    /\ row \in [Rows -> {"none", "pending", "sent", "failed"}]
    /\ task \in [Attempts -> [Rows -> Task]]
    /\ sends \in [Rows -> 0..(MaxFaults + 1)]
    /\ refused \subseteq Rows
    /\ spared \subseteq Rows
    /\ archived \in BOOLEAN
    /\ faults \in 0..MaxFaults

Init ==
    /\ inbox = [u \in Users |-> "none"]
    /\ fan = FanAt("none", 0, 1, {})
    /\ row = [r \in Rows |-> "none"]
    /\ task = [k \in Attempts |-> [r \in Rows |-> NoTask]]
    /\ sends = [r \in Rows |-> 0]
    /\ refused = {}
    /\ spared = {}
    /\ archived = FALSE
    /\ faults = 0

Fault == faults < MaxFaults /\ faults' = faults + 1

-----------------------------------------------------------------------------

\* MarkRead and MarkAllRead.
MarkRead(u) ==
    /\ inbox[u] = "unread"
    /\ inbox' = [inbox EXCEPT ![u] = "read"]
    /\ UNCHANGED <<fan, row, task, sendVars, archived, faults>>

-----------------------------------------------------------------------------
(* Fan-out *)

\* Send and SendSystem store the notification ...
Send ==
    /\ fan.at = "none"
    /\ fan' = FanAt("created", 0, 1, {})
    /\ UNCHANGED <<inbox, row, task, sendVars, archived, faults>>

\* ... and enqueue the fan-out. Nothing takes up a notification whose enqueue failed.
EnqueueFanout ==
    /\ fan.at = "created"
    /\ fan' = FanAt("queued", 0, 1, {})
    /\ UNCHANGED <<inbox, row, task, sendVars, archived, faults>>

EnqueueFanoutFails ==
    /\ fan.at = "created"
    /\ Fault
    /\ fan' = FanAt("none", 0, 1, {})
    /\ UNCHANGED <<inbox, row, task, sendVars, archived>>

\* variant: an upsert that resets what is there.
InsertAll(old) == [u \in Users |-> "unread"]

\* ON CONFLICT DO NOTHING.
Insert(old) == [u \in Users |-> IF old[u] = "none" THEN "unread" ELSE old[u]]

CreateRecipients ==
    /\ fan.at = "queued"
    /\ inbox' = Insert(inbox)
    /\ fan' = FanAt("deliveries", fan.tries, 1, {})
    /\ UNCHANGED <<row, task, sendVars, archived, faults>>

\* Rows for the connectors that are verified and enabled by now.
CreateDeliveries ==
    /\ fan.at = "deliveries"
    /\ \E S \in SUBSET Rows :
         row' = [r \in Rows |-> IF r \in S /\ row[r] = "none" THEN "pending" ELSE row[r]]
    /\ fan' = FanAt("list", fan.tries, 1, {})
    /\ UNCHANGED <<inbox, task, sendVars, archived, faults>>

ListPendingDeliveries(ch) == {r \in Rows : Channel[r] = ch /\ row[r] = "pending"}

\* variant: a last batch that is not full is skipped.
OnwardFullBatches(S) ==
    IF Cardinality(S) < BatchSize THEN FanAt("list", fan.tries, fan.stage + 1, {})
                                  ELSE FanAt("enqueue", fan.tries, fan.stage, S)

\* The channel at hand when S is left of it to enqueue.
Onward(S) ==
    IF S = {} THEN FanAt("list", fan.tries, fan.stage + 1, {})
              ELSE FanAt("enqueue", fan.tries, fan.stage, S)

\* enqueueDeliveries goes through the channels.
ListChannel ==
    /\ fan.at = "list" /\ fan.stage <= 4
    /\ fan' = Onward(ListPendingDeliveries(Stages[fan.stage]))
    /\ UNCHANGED <<inbox, row, task, sendVars, archived, faults>>

\* One task per row for the bots, one per batch for the others.
Batch(S) ==
    /\ S \subseteq fan.list
    /\ IF Stages[fan.stage] \in Bots
       THEN Cardinality(S) = 1
       ELSE Cardinality(S) = BatchSize \/ (S = fan.list /\ Cardinality(S) < BatchSize)

\* The row a task goes by.
First(S) == CHOOSE r \in S : TRUE

\* variant: the next batch starts one row after this one's start.
EnqueueOverlapping ==
    /\ fan.at = "enqueue"
    /\ \E S \in (SUBSET Rows) \ {{}} :
         /\ Batch(S)
         /\ task' = [task EXCEPT ![fan.tries][First(S)] = TaskAt("queued", 0, S, {})]
         /\ fan' = Onward(fan.list \ {First(S)})
    /\ UNCHANGED <<inbox, row, sendVars, archived, faults>>

EnqueueDelivery ==
    /\ fan.at = "enqueue"
    /\ \E S \in (SUBSET Rows) \ {{}} :
         /\ Batch(S)
         /\ task' = [task EXCEPT ![fan.tries][First(S)] = TaskAt("queued", 0, S, {})]
         /\ fan' = Onward(fan.list \ S)
    /\ UNCHANGED <<inbox, row, sendVars, archived, faults>>

FanoutDone ==
    /\ fan.at = "list" /\ fan.stage = 5
    /\ fan' = FanAt("over", fan.tries, 1, {})
    /\ UNCHANGED <<inbox, row, task, sendVars, archived, faults>>

\* Any step fails, or the worker dies, also before the acknowledgement.
FanoutFails ==
    /\ fan.at \in {"queued", "deliveries", "list", "enqueue"}
    /\ Fault
    /\ IF fan.tries < MaxRetry
       THEN fan' = FanAt("queued", fan.tries + 1, 1, {}) /\ UNCHANGED archived
       ELSE fan' = FanAt("over", fan.tries, 1, {}) /\ archived' = TRUE
    /\ UNCHANGED <<inbox, row, task, sendVars>>

-----------------------------------------------------------------------------
(* Delivery *)

Mark(S, status) == row' = [r \in Rows |-> IF r \in S THEN status ELSE row[r]]

Taken(S) == sends' = [r \in Rows |-> IF r \in S THEN sends[r] + 1 ELSE sends[r]]

SetTask(k, r, t) == task' = [task EXCEPT ![k][r] = t]

\* A channel without a sender.
ChannelDisabled(k, r) ==
    LET t == task[k][r] IN
    /\ t.at = "queued" /\ Channel[r] \notin Enabled
    /\ Mark(t.rows, "failed")
    /\ SetTask(k, r, NoTask)
    /\ UNCHANGED <<inbox, fan, sendVars, archived, faults>>

\* byToken remembers one row of each token, whichever was listed last.
OnePerToken(S) ==
    {K \in SUBSET S : \A r \in S : Cardinality({q \in K : Target[q] = Target[r]}) = 1}

\* The rows FCM's bad tokens are mapped back to.
Blamed(gone, kept) == {q \in kept : \E g \in gone : Target[g] = Target[q]}

\* The provider takes the message of every row. FCM answers for each row's token: some
\* are unregistered, and for some it reports another error, which is ignored. Two rows
\* of one token (it is unique per user only) are told apart no more: one is blamed.
Deliver(k, r) ==
    LET t == task[k][r] IN
    /\ t.at = "queued" /\ Channel[r] \in Enabled
    /\ \E gone, ignored \in SUBSET t.rows, kept \in OnePerToken(t.rows) :
         /\ Channel[r] # "push" => gone = {} /\ ignored = {}
         /\ gone \cap ignored = {}
         /\ Taken(t.rows \ (gone \cup ignored))
         /\ refused' = refused \cup ignored
         /\ spared' = spared \cup (gone \ Blamed(gone, kept))
         /\ SetTask(k, r, TaskAt("sent", t.tries, t.rows, Blamed(gone, kept)))
    /\ UNCHANGED <<inbox, fan, row, archived, faults>>

\* variant: the whole batch is marked sent.
MarkBatch(k, r) ==
    LET t == task[k][r] IN
    /\ t.at = "sent"
    /\ Mark(t.rows, "sent")
    /\ SetTask(k, r, NoTask)
    /\ UNCHANGED <<inbox, fan, sendVars, archived, faults>>

\* MarkDeliveries, after the connectors of bad tokens are deleted.
MarkDeliveries(k, r) ==
    LET t == task[k][r] IN
    /\ t.at = "sent"
    /\ row' = [q \in Rows |-> IF q \in t.bad THEN "failed"
                              ELSE IF q \in t.rows THEN "sent" ELSE row[q]]
    /\ SetTask(k, r, NoTask)
    /\ UNCHANGED <<inbox, fan, sendVars, archived, faults>>

\* variant: one retry more than the task has.
RetryPastLimit(k, r) ==
    LET t == task[k][r] IN
    /\ SetTask(k, r, TaskAt("queued", t.tries + 1, t.rows, {}))
    /\ UNCHANGED archived

\* variant: the error is logged and the task acknowledged.
SwallowError(k, r) == SetTask(k, r, NoTask) /\ UNCHANGED archived

Retry(k, r) ==
    LET t == task[k][r] IN
    IF t.tries < MaxRetry
    THEN SetTask(k, r, TaskAt("queued", t.tries + 1, t.rows, {})) /\ UNCHANGED archived
    ELSE SetTask(k, r, NoTask) /\ archived' = TRUE

\* The provider reports an error, having taken none, some or all of the batch; or
\* rows of a disabled channel are marked or not before the worker dies.
DeliverFails(k, r) ==
    LET t == task[k][r] IN
    /\ t.at = "queued"
    /\ Fault
    /\ \/ Channel[r] \in Enabled /\ UNCHANGED row /\ \E S \in SUBSET t.rows : Taken(S)
       \/ Channel[r] \notin Enabled /\ Mark(t.rows, "failed") /\ UNCHANGED sends
       \/ UNCHANGED <<row, sends>>
    /\ Retry(k, r)
    /\ UNCHANGED <<inbox, fan, refused, spared>>

\* Sent, but pruning a connector or marking the rows fails, or the worker dies
\* before the acknowledgement.
MarkFails(k, r) ==
    LET t == task[k][r] IN
    /\ t.at = "sent"
    /\ Fault
    /\ \/ UNCHANGED row
       \/ Mark(t.bad, "failed")
       \/ row' = [q \in Rows |-> IF q \in t.bad THEN "failed"
                                 ELSE IF q \in t.rows THEN "sent" ELSE row[q]]
    /\ Retry(k, r)
    /\ UNCHANGED <<inbox, fan, sendVars>>

-----------------------------------------------------------------------------

FanoutStep ==
    \/ EnqueueFanout
    \/ CreateRecipients \/ CreateDeliveries
    \/ ListChannel \/ EnqueueDelivery \/ FanoutDone

TaskStep(k, r) == ChannelDisabled(k, r) \/ Deliver(k, r) \/ MarkDeliveries(k, r)

Next ==
    \/ Send \/ FanoutStep \/ EnqueueFanoutFails \/ FanoutFails
    \/ \E k \in Attempts, r \in Rows : TaskStep(k, r) \/ DeliverFails(k, r) \/ MarkFails(k, r)
    \/ \E u \in Users : MarkRead(u)

Spec == Init /\ [][Next]_vars

\* Asynq hands every task to a worker.
Fairness ==
    /\ WF_vars(FanoutStep)
    /\ \A k \in Attempts, r \in Rows : WF_vars(TaskStep(k, r))

FairSpec == Spec /\ Fairness

-----------------------------------------------------------------------------
(* Properties *)

\* A message goes out once, and once more for each failure and crash at most,
\* though neither the tasks nor a repeated fan-out ask what has been sent.
DuplicatesAreFaults == \A r \in Rows : sends[r] <= 1 + faults

\* Some other row goes to the same token: two users, one browser.
SharesToken(r) == \E q \in Rows \ {r} : Target[q] = Target[r]

\* A provider took the message, or reported an error that SendMulticast ignores, or
\* reported the token gone while byToken remembered another row of it.
Answered(r) == sends[r] > 0 \/ r \in refused \/ (r \in spared /\ SharesToken(r))

\* A row is marked sent only after an answer of its provider that the code takes for
\* good. A row whose token FCM reported gone is among them only when another row has
\* that token, and takes the blame.
SentWasSent == \A r \in Rows : row[r] = "sent" => Answered(r)

\* A pending row is never forgotten: some task holds it, the fan-out has its channel
\* still ahead, or a task ran out of retries.
PendingIsCarried ==
    \A r \in Rows : row[r] = "pending" =>
        \/ archived
        \/ fan.at \in {"queued", "deliveries"}
        \/ fan.at \in {"list", "enqueue"} /\ \E i \in fan.stage..4 : Channel[r] = Stages[i]
        \/ \E k \in Attempts, q \in Rows : r \in task[k][q].rows

\* A retry of the fan-out undoes nothing: what was read stays read, and a row that
\* was sent or given up is never pending again.
RetryUndoesNothing ==
    [][/\ \A u \in Users : inbox[u] = "read" => inbox'[u] = "read"
       /\ \A r \in Rows : row[r] \in {"sent", "failed"} => row'[r] \in {"sent", "failed"}]_vars

\* Nothing is forgotten when everything is done: with the fan-out over and no task
\* left, every inbox has the notification and no delivery is pending, unless some
\* task ran out of retries.
QuietMeansReached ==
    fan.at = "over" /\ ~archived /\ (\A k \in Attempts, r \in Rows : task[k][r] = NoTask) =>
        /\ \A u \in Users : inbox[u] # "none"
        /\ \A r \in Rows : row[r] # "pending"

\* Once its fan-out is enqueued, a notification reaches every inbox and no delivery
\* is left pending, unless some task ran out of retries.
ReachesEveryone ==
    fan.at = "queued" ~> \/ archived
                         \/ /\ \A u \in Users : inbox[u] # "none"
                            /\ \A r \in Rows : row[r] # "pending"
                            /\ fan.at = "over"
=============================================================================
