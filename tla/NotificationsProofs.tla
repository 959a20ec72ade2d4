------------------------ MODULE NotificationsProofs ------------------------
(***************************************************************************)
(* Proofs about Notifications for any users, rows, batches, retries and    *)
(* bounds: no message is lost without a task that ran out of retries, and  *)
(* each goes out at most once more than there were faults.  The bound      *)
(* counts what may still be sent: what has been, what waits in a task, and *)
(* what the fan-out has yet to enqueue.                                    *)
(***************************************************************************)
EXTENDS Notifications, FiniteSetTheorems, TLAPS

USE NotificationsAssumption

-----------------------------------------------------------------------------
(* The inductive invariant *)

\* Where the channel of a row comes in a fan-out.
Turn(r) == CHOOSE i \in 1..4 : Channel[r] = Stages[i]

\* The fan-out at hand has yet to enqueue the row.
Ahead(r) ==
    \/ fan.at \in {"none", "created", "queued", "deliveries"}
    \/ fan.at = "list" /\ fan.stage <= Turn(r)
    \/ fan.at = "enqueue" /\ (fan.stage < Turn(r) \/ r \in fan.list)

Types ==
    /\ inbox \in [Users -> {"none", "unread", "read"}]
    /\ fan \in Fan
    /\ row \in [Rows -> {"none", "pending", "sent", "failed"}]
    /\ task \in [Attempts -> [Rows -> Task]]
    /\ sends \in [Rows -> Nat]
    /\ refused \subseteq Rows
    /\ spared \subseteq Rows
    /\ archived \in BOOLEAN
    /\ faults \in 0..MaxFaults

\* Nothing is there before the fan-out, and a listed row has its turn.
FanInv ==
    /\ fan.at \in {"none", "created"} => fan.tries = 0 /\ \A r \in Rows : row[r] = "none"
    /\ fan.at = "enqueue" => /\ fan.stage \in 1..4
                             /\ \A r \in fan.list : Turn(r) = fan.stage

\* A task belongs to an attempt that was, holds its first row, and no row that the
\* attempt still has ahead; what is not bad in a task that has sent was taken.
TaskOK(k, q) ==
    /\ task[k][q].bad \subseteq task[k][q].rows
    /\ task[k][q].at = "none" => task[k][q].rows = {}
    /\ task[k][q].at # "none" =>
         /\ k <= fan.tries
         /\ q \in task[k][q].rows
         /\ k = fan.tries => \A r \in task[k][q].rows : ~Ahead(r)
    /\ task[k][q].at = "sent" =>
         \A r \in task[k][q].rows \ task[k][q].bad : Answered(r)

TaskInv == \A k \in Attempts, q \in Rows : TaskOK(k, q)

Held(r) == \E k \in Attempts, q \in Rows : r \in task[k][q].rows

CarryInv == \A r \in Rows : row[r] = "pending" => archived \/ Ahead(r) \/ Held(r)

IndInv == Types /\ FanInv /\ TaskInv /\ SentWasSent /\ CarryInv

-----------------------------------------------------------------------------
(* What the steps do *)

LEMMA TurnFacts ==
    ASSUME NEW r \in Rows
    PROVE  /\ Turn(r) \in 1..4
           /\ \A i \in 1..4 : Channel[r] = Stages[i] <=> i = Turn(r)
<1>1. \A i, j \in 1..4 : Stages[i] = Stages[j] => i = j
  BY DEF Stages
<1>2. Channel[r] \in {"telegram", "bale", "sms", "push"}
  OBVIOUS
<1>3. \E i \in 1..4 : Channel[r] = Stages[i]
  BY <1>2 DEF Stages
<1>4. Turn(r) \in 1..4 /\ Channel[r] = Stages[Turn(r)]
  BY <1>3 DEF Turn
<1>5. QED
  BY <1>1, <1>4

LEMMA FanValue ==
    ASSUME NEW at \in {"none", "created", "queued", "deliveries", "list", "enqueue", "over"},
           NEW tries \in Attempts, NEW stage \in 1..5, NEW S \in SUBSET Rows
    PROVE  /\ FanAt(at, tries, stage, S) \in Fan
           /\ FanAt(at, tries, stage, S).at = at
           /\ FanAt(at, tries, stage, S).tries = tries
           /\ FanAt(at, tries, stage, S).stage = stage
           /\ FanAt(at, tries, stage, S).list = S
BY DEF FanAt, Fan

LEMMA TaskValue ==
    ASSUME NEW at \in {"none", "queued", "sent"},
           NEW tries \in Attempts, NEW S \in SUBSET Rows, NEW bad \in SUBSET Rows
    PROVE  /\ TaskAt(at, tries, S, bad) \in Task
           /\ TaskAt(at, tries, S, bad).at = at
           /\ TaskAt(at, tries, S, bad).tries = tries
           /\ TaskAt(at, tries, S, bad).rows = S
           /\ TaskAt(at, tries, S, bad).bad = bad
BY DEF TaskAt, Task

LEMMA TaskSet ==
    ASSUME Types, NEW k \in Attempts, NEW q \in Rows, NEW t \in Task, SetTask(k, q, t)
    PROVE  /\ task' \in [Attempts -> [Rows -> Task]]
           /\ task'[k][q] = t
           /\ \A l \in Attempts, r \in Rows :
                <<l, r>> # <<k, q>> => task'[l][r] = task[l][r]
BY DEF Types, SetTask

\* A step of the fan-out that enqueues nothing.
FanoutMoves ==
    /\ UNCHANGED <<task, sends, refused, spared>>
    /\ inbox' \in [Users -> {"none", "unread", "read"}]
    /\ \A u \in Users : inbox[u] = "read" => inbox'[u] = "read"
    /\ fan' \in Fan
    /\ fan'.tries >= fan.tries
    /\ fan'.tries = fan.tries => \A r \in Rows : Ahead(r)' => Ahead(r)
    /\ \/ faults' = faults /\ \A r \in Rows : Ahead(r)' => Ahead(r)
       \/ faults' = faults + 1
    /\ faults' \in 0..MaxFaults
    /\ row' \in [Rows -> {"none", "pending", "sent", "failed"}]
    /\ \A r \in Rows : \/ row'[r] = row[r]
                       \/ row[r] = "none" /\ row'[r] = "pending"
    /\ \A r \in Rows : row'[r] = "pending" =>
          Ahead(r)' \/ archived' \/ (row[r] = "pending" /\ ~Ahead(r))
    /\ archived' \in BOOLEAN
    /\ archived => archived'
    /\ FanInv'

LEMMA FanoutFacts ==
    ASSUME IndInv,
           \/ Send \/ EnqueueFanout \/ EnqueueFanoutFails \/ CreateRecipients
           \/ CreateDeliveries \/ ListChannel \/ FanoutDone \/ FanoutFails
           \/ \E u \in Users : MarkRead(u)
    PROVE  FanoutMoves
<1> USE DEF IndInv, Types, FanInv, sendVars
<1>1. /\ fan.tries \in Attempts /\ fan.stage \in 1..5 /\ fan.list \in SUBSET Rows
      /\ fan.at \in {"none", "created", "queued", "deliveries", "list", "enqueue", "over"}
      /\ faults \in Nat
  BY DEF Fan
<1>2. 0 \in Attempts /\ {} \in SUBSET Rows /\ 1 \in 1..5
  BY DEF Attempts
<1>3. CASE Send
  <2>1. fan' \in Fan /\ fan'.at = "created" /\ fan'.tries = 0
    BY <1>3, <1>2, FanValue DEF Send
  <2>2. fan.at = "none"
    BY <1>3 DEF Send
  <2>3. QED
    BY <1>1, <1>3, <2>1, <2>2 DEF Send, FanoutMoves, Ahead, Attempts
<1>4. CASE EnqueueFanout
  BY <1>1, <1>2, <1>4, FanValue DEF EnqueueFanout, FanoutMoves, Ahead, Attempts
<1>5. CASE EnqueueFanoutFails
  BY <1>1, <1>2, <1>5, FanValue DEF EnqueueFanoutFails, Fault, FanoutMoves, Ahead, Attempts
<1>6. CASE CreateRecipients
  <2>1. inbox' \in [Users -> {"none", "unread", "read"}]
        /\ \A u \in Users : inbox[u] = "read" => inbox'[u] = "read"
    BY <1>6 DEF CreateRecipients, Insert
  <2>2. fan' \in Fan /\ fan'.at = "deliveries" /\ fan'.tries = fan.tries
    BY <1>1, <1>2, <1>6, FanValue DEF CreateRecipients
  <2>3. QED
    BY <1>1, <1>6, <2>1, <2>2 DEF CreateRecipients, FanoutMoves, Ahead, Attempts
<1>7. CASE CreateDeliveries
  <2>1. fan' \in Fan /\ fan'.at = "list" /\ fan'.tries = fan.tries /\ fan'.stage = 1
    BY <1>1, <1>2, <1>7, FanValue DEF CreateDeliveries
  <2>2. \A r \in Rows : Turn(r) \in 1..4
    BY TurnFacts
  <2>3. \A r \in Rows : Ahead(r) /\ Ahead(r)'
    BY <1>7, <2>1, <2>2 DEF CreateDeliveries, Ahead
  <2>4. PICK S \in SUBSET Rows :
          row' = [r \in Rows |-> IF r \in S /\ row[r] = "none" THEN "pending" ELSE row[r]]
    BY <1>7 DEF CreateDeliveries
  <2>5. /\ row' \in [Rows -> {"none", "pending", "sent", "failed"}]
        /\ \A r \in Rows : row'[r] = row[r] \/ (row[r] = "none" /\ row'[r] = "pending")
    BY <2>4
  <2>6. QED
    BY <1>1, <1>7, <2>1, <2>3, <2>5 DEF CreateDeliveries, FanoutMoves, Attempts
<1>8. CASE ListChannel
  <2> DEFINE L == ListPendingDeliveries(Stages[fan.stage])
  <2>1. fan.at = "list" /\ fan.stage \in 1..4
    BY <1>1, <1>8 DEF ListChannel
  <2>2. \A r \in Rows : r \in L <=> row[r] = "pending" /\ Turn(r) = fan.stage
    BY <2>1, TurnFacts DEF ListPendingDeliveries
  <2>3. L \in SUBSET Rows
    BY DEF ListPendingDeliveries
  <2>4. fan' = Onward(L)
    BY <1>8 DEF ListChannel
  <2>5. \A r \in Rows : Turn(r) \in 1..4
    BY TurnFacts
  <2> HIDE DEF L
  <2>6. CASE L = {}
    <3>1. /\ fan' \in Fan /\ fan'.at = "list" /\ fan'.tries = fan.tries
          /\ fan'.stage = fan.stage + 1
      BY <1>1, <2>1, <2>4, <2>6, FanValue DEF Onward
    <3>2. QED
      <4>1. \A r \in Rows : Ahead(r)' => Ahead(r)
        BY <1>1, <2>1, <2>5, <3>1 DEF Ahead
      <4>2. \A r \in Rows : Ahead(r) => Ahead(r)' \/ row[r] # "pending"
        BY <1>1, <2>1, <2>2, <2>5, <2>6, <3>1 DEF Ahead
      <4>3. UNCHANGED <<inbox, row, task, sends, refused, spared, archived, faults>>
        BY <1>8 DEF ListChannel
      <4>4. QED
        BY <1>1, <3>1, <4>1, <4>2, <4>3 DEF FanoutMoves, Attempts
  <2>7. CASE L # {}
    <3>1. /\ fan' \in Fan /\ fan'.at = "enqueue" /\ fan'.tries = fan.tries
          /\ fan'.stage = fan.stage /\ fan'.list = L
      BY <1>1, <2>1, <2>3, <2>4, <2>7, FanValue DEF Onward
    <3>2. QED
      <4>1. \A r \in Rows : Ahead(r)' => Ahead(r)
        BY <1>1, <2>1, <2>2, <2>5, <3>1 DEF Ahead
      <4>2. \A r \in Rows : Ahead(r) => Ahead(r)' \/ row[r] # "pending"
        BY <1>1, <2>1, <2>2, <2>5, <3>1 DEF Ahead
      <4>3. UNCHANGED <<inbox, row, task, sends, refused, spared, archived, faults>>
        BY <1>8 DEF ListChannel
      <4>4. FanInv'
        BY <2>1, <2>2, <2>3, <3>1
      <4>5. QED
        BY <1>1, <3>1, <4>1, <4>2, <4>3, <4>4 DEF FanoutMoves, Attempts
  <2>8. QED
    BY <2>6, <2>7
<1>9. CASE FanoutDone
  <2>1. fan' \in Fan /\ fan'.at = "over" /\ fan'.tries = fan.tries
    BY <1>1, <1>2, <1>9, FanValue DEF FanoutDone
  <2>2. \A r \in Rows : Turn(r) \in 1..4
    BY TurnFacts
  <2>3. QED
    <3>1. fan.at = "list" /\ fan.stage = 5
          /\ UNCHANGED <<inbox, row, task, sends, refused, spared, archived, faults>>
      BY <1>9 DEF FanoutDone
    <3>2. \A r \in Rows : ~Ahead(r) /\ ~Ahead(r)'
      BY <2>1, <2>2, <3>1 DEF Ahead
    <3>3. QED
      BY <1>1, <2>1, <3>1, <3>2 DEF FanoutMoves, Attempts
<1>10. CASE FanoutFails
  <2>1. CASE fan.tries < MaxRetry
    <3>1. /\ fan' \in Fan /\ fan'.at = "queued" /\ fan'.tries = fan.tries + 1
          /\ archived' = archived
      <4>1. fan.tries + 1 \in Attempts
        BY <1>1, <2>1 DEF Attempts
      <4>2. QED
        BY <1>2, <1>10, <2>1, <4>1, FanValue DEF FanoutFails
    <3>2. QED
      BY <1>1, <1>10, <3>1 DEF FanoutFails, Fault, FanoutMoves, Ahead, Attempts
  <2>2. CASE ~(fan.tries < MaxRetry)
    <3>1. /\ fan' \in Fan /\ fan'.at = "over" /\ fan'.tries = fan.tries
          /\ archived' = TRUE
      BY <1>1, <1>2, <1>10, <2>2, FanValue DEF FanoutFails
    <3>2. QED
      BY <1>1, <1>10, <3>1 DEF FanoutFails, Fault, FanoutMoves, Ahead, Attempts
  <2>3. QED
    BY <2>1, <2>2
<1>11. CASE \E u \in Users : MarkRead(u)
  BY <1>1, <1>11 DEF MarkRead, FanoutMoves, Ahead, Attempts
<1>12. QED
  BY <1>3, <1>4, <1>5, <1>6, <1>7, <1>8, <1>9, <1>10, <1>11

\* A batch is taken off what the attempt has ahead.
LEMMA EnqueueFacts ==
    ASSUME IndInv, EnqueueDelivery
    PROVE  \E S \in SUBSET Rows : \E r \in S :
             /\ SetTask(fan.tries, r, TaskAt("queued", 0, S, {}))
             /\ fan' \in Fan /\ fan'.tries = fan.tries /\ FanInv'
             /\ \A q \in Rows : Ahead(q)' <=> Ahead(q) /\ q \notin S
             /\ \A q \in S : Ahead(q)
             /\ UNCHANGED <<inbox, row, sends, refused, spared, archived, faults>>
<1> USE DEF IndInv, Types, FanInv
<1>1. /\ fan.tries \in Attempts /\ fan.list \in SUBSET Rows
      /\ fan.at = "enqueue" /\ fan.stage \in 1..4
      /\ \A r \in fan.list : Turn(r) = fan.stage
  BY DEF Fan, EnqueueDelivery
<1>2. PICK S \in SUBSET Rows, r \in Rows :
         /\ r \in S
         /\ S \subseteq fan.list
         /\ SetTask(fan.tries, r, TaskAt("queued", 0, S, {}))
         /\ fan' = Onward(fan.list \ S)
  <2>0. PICK S \in (SUBSET Rows) \ {{}} :
          /\ Batch(S)
          /\ task' = [task EXCEPT ![fan.tries][First(S)] = TaskAt("queued", 0, S, {})]
          /\ fan' = Onward(fan.list \ S)
    BY DEF EnqueueDelivery
  <2> DEFINE r == First(S)
  <2>1. r \in S /\ r \in Rows
    BY DEF First
  <2>2. S \subseteq fan.list
    BY <2>0 DEF Batch
  <2>3. SetTask(fan.tries, r, TaskAt("queued", 0, S, {}))
    BY <2>0 DEF SetTask
  <2> HIDE DEF r
  <2>4. QED
    BY <2>0, <2>1, <2>2, <2>3
<1>3. UNCHANGED <<inbox, row, sends, refused, spared, archived, faults>>
  BY DEF EnqueueDelivery, sendVars
<1>4. \A q \in Rows : Turn(q) \in 1..4
  BY TurnFacts
<1>5. \A q \in S : Ahead(q)
  BY <1>1, <1>2 DEF Ahead
<1>6. /\ fan' \in Fan /\ fan'.tries = fan.tries /\ FanInv'
      /\ \A q \in Rows : Ahead(q)' <=> Ahead(q) /\ q \notin S
  <2>1. CASE fan.list \ S = {}
    <3>1. /\ fan' \in Fan /\ fan'.tries = fan.tries
          /\ fan'.at = "list" /\ fan'.stage = fan.stage + 1
      <4>1. fan.stage + 1 \in 1..5 /\ {} \in SUBSET Rows
        BY <1>1
      <4>2. fan' = FanAt("list", fan.tries, fan.stage + 1, {})
        BY <1>2, <2>1 DEF Onward
      <4>3. QED
        BY <1>1, <4>1, <4>2, FanValue
    <3>2. FanInv'
      BY <3>1
    <3>3. \A q \in Rows : q \in S <=> q \in fan.list
      BY <1>2, <2>1
    <3>4. \A q \in Rows : Ahead(q)' <=> Ahead(q) /\ q \notin S
      BY <1>1, <1>4, <3>1, <3>3 DEF Ahead
    <3>5. QED
      BY <3>1, <3>2, <3>4
  <2>2. CASE fan.list \ S # {}
    <3>1. /\ fan' \in Fan /\ fan'.tries = fan.tries
          /\ fan'.at = "enqueue" /\ fan'.stage = fan.stage /\ fan'.list = fan.list \ S
      <4>1. fan.stage \in 1..5 /\ fan.list \ S \in SUBSET Rows
        BY <1>1
      <4>2. fan' = FanAt("enqueue", fan.tries, fan.stage, fan.list \ S)
        BY <1>2, <2>2 DEF Onward
      <4>3. QED
        BY <1>1, <4>1, <4>2, FanValue
    <3>2. FanInv'
      BY <1>1, <3>1
    <3>3. \A q \in S : Turn(q) = fan.stage
      BY <1>1, <1>2
    <3>4. \A q \in Rows : Ahead(q)' <=> Ahead(q) /\ q \notin S
      BY <1>1, <1>4, <3>1, <3>3 DEF Ahead
    <3>5. QED
      BY <3>1, <3>2, <3>4
  <2>3. QED
    BY <2>1, <2>2
<1>7. QED
  BY <1>2, <1>3, <1>5, <1>6

\* A step of a delivery task.
TaskMoves(k, q) ==
    LET t == task[k][q]
        u == task'[k][q]
    IN  /\ UNCHANGED <<inbox, fan>>
        /\ t.at # "none"
        /\ task' \in [Attempts -> [Rows -> Task]]
        /\ \A l \in Attempts, r \in Rows :
             <<l, r>> # <<k, q>> => task'[l][r] = task[l][r]
        /\ u.bad \subseteq u.rows
        /\ u.at = "none" => u.rows = {}
        /\ u.at # "none" => u.rows = t.rows
        /\ u.at = "sent" => \A r \in t.rows \ u.bad : Answered(r)'
        /\ row' \in [Rows -> {"none", "pending", "sent", "failed"}]
        /\ \A r \in Rows : \/ row'[r] = row[r]
                           \/ r \in t.rows /\ row'[r] = "failed"
                           \/ r \in t.rows \ t.bad /\ t.at = "sent" /\ row'[r] = "sent"
        /\ u.at = "none" => archived' \/ \A r \in t.rows : row'[r] # "pending"
        /\ archived' \in BOOLEAN /\ (archived => archived')
        /\ refused \subseteq refused' /\ refused' \subseteq Rows
        /\ spared \subseteq spared' /\ spared' \subseteq Rows
        /\ sends' \in [Rows -> Nat]
        /\ \A r \in Rows : \/ sends'[r] = sends[r]
                           \/ sends'[r] = sends[r] + 1 /\ t.at = "queued" /\ r \in t.rows
        /\ faults' \in 0..MaxFaults
        /\ \/ faults' = faults /\ u.at # "queued"
           \/ faults' = faults + 1

\* The task is done with.
LEMMA NoTaskFacts ==
    ASSUME Types, NEW k \in Attempts, NEW q \in Rows, SetTask(k, q, NoTask)
    PROVE  /\ task' \in [Attempts -> [Rows -> Task]]
           /\ \A l \in Attempts, r \in Rows :
                <<l, r>> # <<k, q>> => task'[l][r] = task[l][r]
           /\ task'[k][q].at = "none" /\ task'[k][q].rows = {} /\ task'[k][q].bad = {}
<1> DEFINE u == NoTask
<1>1. {} \in SUBSET Rows /\ 0 \in Attempts
  BY DEF Attempts
<1>2. u \in Task /\ u.at = "none" /\ u.rows = {} /\ u.bad = {}
  BY <1>1, TaskValue DEF NoTask
<1>3. SetTask(k, q, u)
  OBVIOUS
<1> HIDE DEF u
<1>4. QED
  BY <1>2, <1>3, TaskSet

\* A task that failed is queued again, or archived.
LEMMA RetryFacts ==
    ASSUME Types, NEW k \in Attempts, NEW q \in Rows, Retry(k, q)
    PROVE  /\ task' \in [Attempts -> [Rows -> Task]]
           /\ \A l \in Attempts, r \in Rows :
                <<l, r>> # <<k, q>> => task'[l][r] = task[l][r]
           /\ task'[k][q].bad = {}
           /\ \/ task'[k][q].at = "queued" /\ task'[k][q].rows = task[k][q].rows
              \/ task'[k][q].at = "none" /\ task'[k][q].rows = {}
           /\ archived' \in BOOLEAN
           /\ archived => archived'
           /\ task'[k][q].at = "none" => archived'
<1> DEFINE t == task[k][q]
<1>1. t \in Task /\ archived \in BOOLEAN
  BY DEF Types
<1>2. t.tries \in Attempts /\ t.rows \in SUBSET Rows /\ {} \in SUBSET Rows
  BY <1>1 DEF Task
<1>3. CASE t.tries < MaxRetry
  <2>1. t.tries + 1 \in Attempts
    BY <1>2, <1>3 DEF Attempts
  <2> DEFINE u == TaskAt("queued", t.tries + 1, t.rows, {})
  <2>2. SetTask(k, q, u)
    BY <1>3 DEF Retry
  <2>3. archived' = archived
    BY <1>3 DEF Retry
  <2>4. u \in Task /\ u.at = "queued" /\ u.rows = t.rows /\ u.bad = {}
    BY <1>2, <2>1, TaskValue
  <2>5. archived' \in BOOLEAN /\ (archived => archived')
    BY <1>1, <2>3
  <2> HIDE DEF u
  <2>6. QED
    BY <2>2, <2>4, <2>5, TaskSet
<1>4. CASE ~(t.tries < MaxRetry)
  <2>1. SetTask(k, q, NoTask)
    BY <1>4 DEF Retry
  <2>2. archived' = TRUE
    BY <1>4 DEF Retry
  <2>3. archived' \in BOOLEAN /\ archived'
    BY <2>2
  <2>4. QED
    BY <2>1, <2>3, NoTaskFacts
<1>5. QED
  BY <1>3, <1>4

\* What marking the rows of a task does to a row.
LEMMA MarkFacts ==
    ASSUME Types, NEW S \in SUBSET Rows, NEW status \in {"sent", "failed"}, Mark(S, status)
    PROVE  /\ row' \in [Rows -> {"none", "pending", "sent", "failed"}]
           /\ \A r \in Rows : row'[r] = IF r \in S THEN status ELSE row[r]
BY DEF Types, Mark

LEMMA TakenFacts ==
    ASSUME Types, NEW S \in SUBSET Rows, Taken(S)
    PROVE  /\ sends' \in [Rows -> Nat]
           /\ \A r \in Rows : sends'[r] = IF r \in S THEN sends[r] + 1 ELSE sends[r]
BY DEF Types, Taken

\* A row that is gone and not blamed has its token from another row, which was.
LEMMA SparedShares ==
    ASSUME NEW S \in SUBSET Rows, NEW gone \in SUBSET S, NEW kept \in OnePerToken(S),
           NEW r \in gone, r \notin Blamed(gone, kept)
    PROVE  SharesToken(r)
<1> DEFINE K == {q \in kept : Target[q] = Target[r]}
<1>1. Cardinality(K) = 1
  BY DEF OnePerToken
<1>2. K # {}
  BY <1>1, FS_EmptySet
<1>3. PICK q \in kept : Target[q] = Target[r]
  BY <1>2
<1>4. q \in Blamed(gone, kept)
  BY <1>3 DEF Blamed
<1>5. q # r /\ q \in Rows
  BY <1>4 DEF OnePerToken
<1>6. QED
  BY <1>3, <1>5 DEF SharesToken

LEMMA TaskFacts ==
    ASSUME IndInv, NEW k \in Attempts, NEW q \in Rows,
           TaskStep(k, q) \/ DeliverFails(k, q) \/ MarkFails(k, q)
    PROVE  TaskMoves(k, q)
<1> DEFINE t == task[k][q]
           u == task'[k][q]
<1>1. Types /\ t \in Task
  BY DEF IndInv, Types
<1>2. /\ t.at \in {"none", "queued", "sent"} /\ t.tries \in Attempts
      /\ t.rows \in SUBSET Rows /\ t.bad \in SUBSET Rows /\ faults \in 0..MaxFaults
  BY <1>1 DEF Task, Types
<1>3. t.at = "sent" => \A r \in t.rows \ t.bad : Answered(r)
  BY DEF IndInv, TaskInv, TaskOK
<1>4. /\ row \in [Rows -> {"none", "pending", "sent", "failed"}]
      /\ sends \in [Rows -> Nat] /\ archived \in BOOLEAN
      /\ refused \subseteq Rows /\ spared \subseteq Rows
  BY <1>1 DEF Types
<1> t.bad \subseteq t.rows
  BY DEF IndInv, TaskInv, TaskOK
<1>5. CASE ChannelDisabled(k, q)
  <2>1. /\ t.at = "queued" /\ Mark(t.rows, "failed") /\ SetTask(k, q, NoTask)
        /\ UNCHANGED <<inbox, fan, sends, refused, spared, archived, faults>>
    BY <1>5 DEF ChannelDisabled, sendVars
  <2>2. QED
    BY <1>1, <1>2, <1>4, <2>1, MarkFacts, NoTaskFacts DEF TaskMoves
<1>6. CASE MarkDeliveries(k, q)
  <2>1. /\ t.at = "sent" /\ SetTask(k, q, NoTask)
        /\ row' = [r \in Rows |-> IF r \in t.bad THEN "failed"
                                  ELSE IF r \in t.rows THEN "sent" ELSE row[r]]
        /\ UNCHANGED <<inbox, fan, sends, refused, spared, archived, faults>>
    BY <1>6 DEF MarkDeliveries, sendVars
  <2>2. /\ task' \in [Attempts -> [Rows -> Task]]
        /\ \A l \in Attempts, r \in Rows :
             <<l, r>> # <<k, q>> => task'[l][r] = task[l][r]
        /\ u.at = "none" /\ u.rows = {} /\ u.bad = {}
    BY <1>1, <2>1, NoTaskFacts
  <2>3. /\ row' \in [Rows -> {"none", "pending", "sent", "failed"}]
        /\ \A r \in Rows : \/ r \notin t.bad /\ r \notin t.rows /\ row'[r] = row[r]
                           \/ r \in t.bad /\ row'[r] = "failed"
                           \/ r \in t.rows \ t.bad /\ row'[r] = "sent"
    BY <1>4, <2>1
  <2>4. QED
    BY <1>2, <1>4, <2>1, <2>2, <2>3 DEF TaskMoves
<1>7. CASE Deliver(k, q)
  <2>1. PICK gone \in SUBSET t.rows, ignored \in SUBSET t.rows, kept \in OnePerToken(t.rows) :
          /\ Taken(t.rows \ (gone \cup ignored))
          /\ refused' = refused \cup ignored
          /\ spared' = spared \cup (gone \ Blamed(gone, kept))
          /\ SetTask(k, q, TaskAt("sent", t.tries, t.rows, Blamed(gone, kept)))
    BY <1>7 DEF Deliver
  <2> DEFINE bad == Blamed(gone, kept)
  <2>0. bad \in SUBSET t.rows
    BY DEF Blamed, OnePerToken
  <2>2. t.at = "queued" /\ UNCHANGED <<inbox, fan, row, archived, faults>>
    BY <1>7 DEF Deliver
  <2>3. /\ sends' \in [Rows -> Nat]
        /\ \A r \in Rows : sends'[r] = IF r \in t.rows \ (gone \cup ignored)
                                       THEN sends[r] + 1 ELSE sends[r]
    BY <1>1, <1>2, <2>1, TakenFacts
  <2> DEFINE v == TaskAt("sent", t.tries, t.rows, bad)
  <2>4. v \in Task /\ v.at = "sent" /\ v.rows = t.rows /\ v.bad = bad
    BY <1>2, <2>0, TaskValue
  <2>5. SetTask(k, q, v)
    BY <2>1
  <2> HIDE DEF v, bad
  <2>6. /\ task' \in [Attempts -> [Rows -> Task]] /\ u = v
        /\ \A l \in Attempts, r \in Rows :
             <<l, r>> # <<k, q>> => task'[l][r] = task[l][r]
    BY <1>1, <2>4, <2>5, TaskSet
  <2>7. \A r \in t.rows \ bad : Answered(r)'
    <3> SUFFICES ASSUME NEW r \in t.rows \ bad PROVE Answered(r)'
      OBVIOUS
    <3>1. CASE r \in gone
      <4>1. r \in spared'
        BY <2>1, <3>1 DEF bad
      <4>2. SharesToken(r)
        BY <1>2, <3>1, SparedShares DEF bad
      <4>3. QED
        BY <4>1, <4>2 DEF Answered, SharesToken
    <3>2. CASE r \in ignored
      BY <2>1, <3>2 DEF Answered
    <3>3. CASE r \notin gone \cup ignored
      BY <1>2, <1>4, <2>3, <3>3 DEF Answered
    <3>4. QED
      BY <3>1, <3>2, <3>3
  <2>8. QED
    BY <1>2, <1>4, <2>0, <2>1, <2>2, <2>3, <2>4, <2>6, <2>7 DEF TaskMoves
<1>8. CASE DeliverFails(k, q)
  <2>1. /\ t.at = "queued" /\ Retry(k, q)
        /\ UNCHANGED <<inbox, fan, refused, spared>>
    BY <1>8 DEF DeliverFails
  <2>2. faults' = faults + 1 /\ faults' \in 0..MaxFaults
    BY <1>2, <1>8 DEF DeliverFails, Fault
  <2>3. /\ row' \in [Rows -> {"none", "pending", "sent", "failed"}]
        /\ \A r \in Rows : row'[r] = row[r] \/ (r \in t.rows /\ row'[r] = "failed")
    BY <1>1, <1>2, <1>4, <1>8, MarkFacts DEF DeliverFails
  <2>4. /\ sends' \in [Rows -> Nat]
        /\ \A r \in Rows : sends'[r] = sends[r] \/ (sends'[r] = sends[r] + 1 /\ r \in t.rows)
    <3>1. \/ sends' = sends
          \/ \E S \in SUBSET t.rows : Taken(S)
      BY <1>8 DEF DeliverFails
    <3>2. QED
      BY <1>1, <1>2, <1>4, <3>1, TakenFacts
  <2>5. /\ task' \in [Attempts -> [Rows -> Task]]
        /\ \A l \in Attempts, r \in Rows :
             <<l, r>> # <<k, q>> => task'[l][r] = task[l][r]
        /\ u.bad = {}
        /\ \/ u.at = "queued" /\ u.rows = t.rows
           \/ u.at = "none" /\ u.rows = {}
        /\ archived' \in BOOLEAN /\ (archived => archived') /\ (u.at = "none" => archived')
    BY <1>1, <2>1, RetryFacts
  <2>6. /\ u.at # "sent" /\ u.bad \subseteq u.rows
        /\ u.at = "none" => u.rows = {}
        /\ u.at # "none" => u.rows = t.rows
    BY <2>5
  <2>7. QED
    BY <1>4, <2>1, <2>2, <2>3, <2>4, <2>5, <2>6 DEF TaskMoves
<1>9. CASE MarkFails(k, q)
  <2>1. /\ t.at = "sent" /\ Retry(k, q)
        /\ UNCHANGED <<inbox, fan, sends, refused, spared>>
    BY <1>9 DEF MarkFails, sendVars
  <2>2. faults' = faults + 1 /\ faults' \in 0..MaxFaults
    BY <1>2, <1>9 DEF MarkFails, Fault
  <2>3. /\ row' \in [Rows -> {"none", "pending", "sent", "failed"}]
        /\ \A r \in Rows : \/ row'[r] = row[r]
                           \/ r \in t.rows /\ row'[r] = "failed"
                           \/ r \in t.rows \ t.bad /\ row'[r] = "sent"
    BY <1>1, <1>2, <1>4, <1>9, MarkFacts DEF MarkFails
  <2>4. /\ task' \in [Attempts -> [Rows -> Task]]
        /\ \A l \in Attempts, r \in Rows :
             <<l, r>> # <<k, q>> => task'[l][r] = task[l][r]
        /\ u.bad = {}
        /\ \/ u.at = "queued" /\ u.rows = t.rows
           \/ u.at = "none" /\ u.rows = {}
        /\ archived' \in BOOLEAN /\ (archived => archived') /\ (u.at = "none" => archived')
    BY <1>1, <2>1, RetryFacts
  <2>5. /\ u.at # "sent" /\ u.bad \subseteq u.rows
        /\ u.at = "none" => u.rows = {}
        /\ u.at # "none" => u.rows = t.rows
    BY <2>4
  <2>6. QED
    BY <1>4, <2>1, <2>2, <2>3, <2>4, <2>5 DEF TaskMoves
<1>10. QED
  BY <1>5, <1>6, <1>7, <1>8, <1>9 DEF TaskStep

-----------------------------------------------------------------------------
(* Every step preserves the invariant *)

LEMMA FanoutPreserves ==
    ASSUME IndInv, FanoutMoves
    PROVE  IndInv'
<1>1. Types'
  BY DEF IndInv, Types, FanoutMoves
<1>2. FanInv'
  BY DEF FanoutMoves
<1>3. TaskInv'
  <2> SUFFICES ASSUME NEW k \in Attempts, NEW q \in Rows
               PROVE  TaskOK(k, q)'
    BY DEF TaskInv
  <2>1. TaskOK(k, q) /\ k \in Nat /\ fan.tries \in Nat /\ fan'.tries \in Nat
    BY DEF IndInv, TaskInv, Types, Fan, FanoutMoves, Attempts
  <2>2. /\ UNCHANGED <<task, sends, refused, spared>> /\ fan'.tries >= fan.tries
        /\ fan'.tries = fan.tries => \A r \in Rows : Ahead(r)' => Ahead(r)
    BY DEF FanoutMoves
  <2>3. task[k][q].rows \subseteq Rows
    BY DEF IndInv, Types, Task
  <2>4. QED
    BY <2>1, <2>2, <2>3 DEF TaskOK, Answered, SharesToken
<1>4. SentWasSent'
  BY DEF IndInv, SentWasSent, Answered, SharesToken, FanoutMoves
<1>5. CarryInv'
  <2> SUFFICES ASSUME NEW r \in Rows, row'[r] = "pending"
               PROVE  archived' \/ Ahead(r)' \/ Held(r)'
    BY DEF CarryInv
  <2>1. Ahead(r)' \/ archived' \/ (row[r] = "pending" /\ ~Ahead(r))
    BY DEF FanoutMoves
  <2>2. row[r] = "pending" /\ ~Ahead(r) => archived \/ Held(r)
    BY DEF IndInv, CarryInv
  <2>3. archived => archived'
    BY DEF FanoutMoves
  <2>4. Held(r) => Held(r)'
    BY DEF FanoutMoves, Held
  <2>5. QED
    BY <2>1, <2>2, <2>3, <2>4
<1>6. QED
  BY <1>1, <1>2, <1>3, <1>4, <1>5 DEF IndInv

LEMMA EnqueuePreserves ==
    ASSUME IndInv, EnqueueDelivery
    PROVE  IndInv'
<1>1. PICK S \in SUBSET Rows, q \in Rows :
         /\ q \in S
         /\ SetTask(fan.tries, q, TaskAt("queued", 0, S, {}))
         /\ fan' \in Fan /\ fan'.tries = fan.tries /\ FanInv'
         /\ \A r \in Rows : Ahead(r)' <=> Ahead(r) /\ r \notin S
         /\ \A r \in S : Ahead(r)
         /\ UNCHANGED <<inbox, row, sends, refused, spared, archived, faults>>
  BY EnqueueFacts
<1> DEFINE k == fan.tries
           u == TaskAt("queued", 0, S, {})
<1>2. k \in Attempts /\ Types
  BY DEF IndInv, Types, Fan
<1>3. u \in Task /\ u.at = "queued" /\ u.rows = S /\ u.bad = {}
  BY TaskValue DEF Attempts
<1>4. SetTask(k, q, u)
  BY <1>1
<1> HIDE DEF u
<1>5. /\ task' \in [Attempts -> [Rows -> Task]] /\ task'[k][q] = u
      /\ \A l \in Attempts, r \in Rows :
           <<l, r>> # <<k, q>> => task'[l][r] = task[l][r]
  BY <1>2, <1>3, <1>4, TaskSet
<1>6. Types'
  BY <1>1, <1>2, <1>5 DEF Types
<1>7. task[k][q].at = "none" /\ task[k][q].rows = {}
  BY <1>1, <1>2 DEF IndInv, TaskInv, TaskOK, Types, Task
<1>8. TaskInv'
  <2> SUFFICES ASSUME NEW l \in Attempts, NEW r \in Rows
               PROVE  TaskOK(l, r)'
    BY DEF TaskInv
  <2>1. CASE <<l, r>> = <<k, q>>
    BY <1>1, <1>2, <1>3, <1>5, <2>1 DEF TaskOK, Attempts
  <2>2. CASE <<l, r>> # <<k, q>>
    <3>1. TaskOK(l, r)
      BY DEF IndInv, TaskInv
    <3>2. task'[l][r] = task[l][r]
      BY <1>5, <2>2
    <3>3. task[l][r].rows \subseteq Rows
      BY <1>2 DEF Types, Task
    <3>4. QED
      BY <1>1, <3>1, <3>2, <3>3 DEF TaskOK, Answered, SharesToken
  <2>3. QED
    BY <2>1, <2>2
<1>9. SentWasSent'
  BY <1>1 DEF IndInv, SentWasSent, Answered, SharesToken
<1>10. CarryInv'
  <2> SUFFICES ASSUME NEW r \in Rows, row[r] = "pending", ~archived
               PROVE  Ahead(r)' \/ Held(r)'
    BY <1>1 DEF CarryInv
  <2>1. Ahead(r) \/ Held(r)
    BY DEF IndInv, CarryInv
  <2>2. r \in S => Held(r)'
    BY <1>2, <1>3, <1>5 DEF Held
  <2>3. Held(r) => Held(r)'
    BY <1>5, <1>7 DEF Held
  <2>4. QED
    BY <1>1, <2>1, <2>2, <2>3
<1>11. QED
  BY <1>1, <1>6, <1>8, <1>9, <1>10 DEF IndInv

LEMMA TaskPreserves ==
    ASSUME IndInv, NEW k \in Attempts, NEW q \in Rows, TaskMoves(k, q)
    PROVE  IndInv'
<1>1. Types'
  BY DEF IndInv, Types, TaskMoves
<1>2. FanInv'
  <2> SUFFICES ASSUME fan.at \in {"none", "created"}, NEW r \in Rows
               PROVE  row'[r] = "none"
    BY DEF IndInv, FanInv, TaskMoves
  <2>1. row[r] = "none" /\ Ahead(r) /\ fan.tries = 0
    BY DEF IndInv, FanInv, Ahead
  <2>2. r \notin task[k][q].rows
    <3>1. task[k][q].at # "none" /\ TaskOK(k, q)
      BY DEF IndInv, TaskInv, TaskMoves
    <3>2. k = fan.tries
      BY <2>1, <3>1 DEF TaskOK, Attempts
    <3>3. QED
      BY <2>1, <3>1, <3>2 DEF TaskOK
  <2>3. QED
    BY <2>1, <2>2 DEF TaskMoves
<1>3. TaskInv'
  <2> SUFFICES ASSUME NEW l \in Attempts, NEW r \in Rows
               PROVE  TaskOK(l, r)'
    BY DEF TaskInv
  <2>1. TaskOK(l, r)
    BY DEF IndInv, TaskInv
  <2>2. fan' = fan /\ \A x \in Rows : Ahead(x)' <=> Ahead(x)
    BY DEF TaskMoves, Ahead
  <2>3. task[l][r].rows \subseteq Rows
    BY DEF IndInv, Types, Task
  <2>4. CASE <<l, r>> = <<k, q>>
    BY <2>1, <2>2, <2>3, <2>4 DEF TaskOK, TaskMoves
  <2>5. CASE <<l, r>> # <<k, q>>
    <3>1. task'[l][r] = task[l][r]
      BY <2>5 DEF TaskMoves
    <3>2. \A x \in Rows : Answered(x) => Answered(x)'
      BY DEF IndInv, Types, TaskMoves, Answered, SharesToken
    <3>3. QED
      BY <2>1, <2>2, <2>3, <3>1, <3>2 DEF TaskOK
  <2>6. QED
    BY <2>4, <2>5
<1>4. SentWasSent'
  <2> SUFFICES ASSUME NEW r \in Rows, row'[r] = "sent"
               PROVE  Answered(r)'
    BY DEF SentWasSent
  <2>1. Answered(r) => Answered(r)'
    BY DEF IndInv, Types, TaskMoves, Answered, SharesToken
  <2>2. \/ row[r] = "sent"
        \/ r \in task[k][q].rows \ task[k][q].bad /\ task[k][q].at = "sent"
    BY DEF TaskMoves
  <2>3. TaskOK(k, q)
    BY DEF IndInv, TaskInv
  <2>4. QED
    BY <2>1, <2>2, <2>3 DEF IndInv, SentWasSent, TaskOK
<1>5. CarryInv'
  <2> SUFFICES ASSUME NEW r \in Rows, row'[r] = "pending", ~archived'
               PROVE  Ahead(r)' \/ Held(r)'
    BY DEF CarryInv
  <2>1. row[r] = "pending" /\ ~archived
    BY DEF TaskMoves
  <2>2. Ahead(r) => Ahead(r)'
    BY DEF TaskMoves, Ahead
  <2>3. Held(r) => Held(r)'
    <3> SUFFICES ASSUME NEW l \in Attempts, NEW x \in Rows, r \in task[l][x].rows
                 PROVE  Held(r)'
      BY DEF Held
    <3>1. CASE <<l, x>> = <<k, q>>
      <4>1. task'[k][q].at # "none"
        BY <3>1 DEF TaskMoves
      <4>2. r \in task'[k][q].rows
        BY <3>1, <4>1 DEF TaskMoves
      <4>3. QED
        BY <4>2 DEF Held
    <3>2. CASE <<l, x>> # <<k, q>>
      BY <3>2 DEF TaskMoves, Held
    <3>3. QED
      BY <3>1, <3>2
  <2>4. QED
    BY <2>1, <2>2, <2>3 DEF IndInv, CarryInv
<1>6. QED
  BY <1>1, <1>2, <1>3, <1>4, <1>5 DEF IndInv

LEMMA InitIndInv == Init => IndInv
<1> SUFFICES ASSUME Init PROVE IndInv
  OBVIOUS
<1> DEFINE f == FanAt("none", 0, 1, {})
           u == NoTask
<1>1. {} \in SUBSET Rows /\ 0 \in Attempts /\ 1 \in 1..5
  BY DEF Attempts
<1>2. f \in Fan /\ f.at = "none" /\ f.tries = 0
  BY <1>1, FanValue
<1>3. u \in Task /\ u.at = "none" /\ u.rows = {} /\ u.bad = {}
  BY <1>1, TaskValue DEF NoTask
<1>4. /\ fan = f /\ row = [r \in Rows |-> "none"] /\ sends = [r \in Rows |-> 0]
      /\ task = [k \in Attempts |-> [r \in Rows |-> u]]
      /\ inbox = [x \in Users |-> "none"] /\ refused = {} /\ spared = {} /\ faults = 0
  BY DEF Init
<1>5. archived \in BOOLEAN
  BY DEF Init
<1> HIDE DEF f, u
<1>6. Types
  BY <1>2, <1>3, <1>4, <1>5 DEF Types
<1>7. FanInv
  BY <1>2, <1>4 DEF FanInv
<1>8. TaskInv
  BY <1>3, <1>4 DEF TaskInv, TaskOK
<1>9. SentWasSent /\ CarryInv
  BY <1>4 DEF SentWasSent, CarryInv
<1>10. QED
  BY <1>6, <1>7, <1>8, <1>9 DEF IndInv

\* A step is one of the fan-out that enqueues nothing, an enqueue, or one of a task.
LEMMA Steps ==
    ASSUME IndInv, Next
    PROVE  \/ FanoutMoves
           \/ EnqueueDelivery
           \/ \E k \in Attempts, q \in Rows : TaskMoves(k, q)
<1>1. CASE \/ Send \/ EnqueueFanout \/ EnqueueFanoutFails \/ CreateRecipients
           \/ CreateDeliveries \/ ListChannel \/ FanoutDone \/ FanoutFails
           \/ \E u \in Users : MarkRead(u)
  BY <1>1, FanoutFacts
<1>2. CASE \E k \in Attempts, q \in Rows :
             TaskStep(k, q) \/ DeliverFails(k, q) \/ MarkFails(k, q)
  BY <1>2, TaskFacts
<1>3. QED
  BY <1>1, <1>2 DEF Next, FanoutStep

LEMMA NextPreserves == IndInv /\ [Next]_vars => IndInv'
<1> SUFFICES ASSUME IndInv, [Next]_vars PROVE IndInv'
  OBVIOUS
<1>1. CASE Next
  BY <1>1, Steps, FanoutPreserves, EnqueuePreserves, TaskPreserves
<1>2. CASE UNCHANGED vars
  BY <1>2 DEF vars, sendVars, IndInv, Types, FanInv, TaskInv, TaskOK, SentWasSent, CarryInv,
              Answered, SharesToken, Ahead, Held
<1>3. QED
  BY <1>1, <1>2

LEMMA Invariance == Spec => []IndInv
<1>1. QED
  BY InitIndInv, NextPreserves, PTL DEF Spec

-----------------------------------------------------------------------------
(* How often a message goes out *)

\* The queued tasks that hold a row.
QueuedOf(r) == {x \in Attempts \X Rows :
                  task[x[1]][x[2]].at = "queued" /\ r \in task[x[1]][x[2]].rows}

\* The sends there were, and those that are to come without a further fault.
Load(r) == sends[r] + Cardinality(QueuedOf(r)) + (IF Ahead(r) THEN 1 ELSE 0)

LoadInv == \A r \in Rows : Load(r) <= 1 + faults

LEMMA QueuedFinite ==
    ASSUME NEW r \in Rows
    PROVE  /\ IsFiniteSet(QueuedOf(r)) /\ Cardinality(QueuedOf(r)) \in Nat
           /\ IsFiniteSet(QueuedOf(r)') /\ Cardinality(QueuedOf(r)') \in Nat
<1>1. IsFiniteSet(Attempts \X Rows)
  <2>1. IsFiniteSet(Attempts)
    BY FS_Interval DEF Attempts
  <2>2. QED
    BY <2>1, FS_Product
<1>2. QueuedOf(r) \subseteq Attempts \X Rows /\ QueuedOf(r)' \subseteq Attempts \X Rows
  BY DEF QueuedOf
<1>3. IsFiniteSet(QueuedOf(r)) /\ IsFiniteSet(QueuedOf(r)')
  BY <1>1, <1>2, FS_Subset
<1>4. QED
  BY <1>3, FS_CardinalityType

\* At most one more element.
LEMMA OneMore ==
    ASSUME NEW S, NEW T, NEW x, IsFiniteSet(S), T \subseteq S \cup {x}
    PROVE  Cardinality(T) <= Cardinality(S) + 1
<1>1. /\ IsFiniteSet(S \cup {x})
      /\ \/ Cardinality(S \cup {x}) = Cardinality(S)
         \/ Cardinality(S \cup {x}) = Cardinality(S) + 1
  BY FS_AddElement, Zenon
<1>2. IsFiniteSet(T) /\ Cardinality(T) <= Cardinality(S \cup {x})
  BY <1>1, FS_Subset
<1>3. Cardinality(T) \in Nat /\ Cardinality(S) \in Nat
  BY <1>2, FS_CardinalityType
<1>4. QED
  BY <1>1, <1>2, <1>3

LEMMA LoadPreserved == IndInv /\ LoadInv /\ [Next]_vars => LoadInv'
<1> SUFFICES ASSUME IndInv, LoadInv, [Next]_vars, NEW r \in Rows
             PROVE  Load(r)' <= 1 + faults'
  BY DEF LoadInv
<1> DEFINE Q == QueuedOf(r)
           c == Cardinality(Q)
           d == Cardinality(Q')
<1>1. IsFiniteSet(Q) /\ c \in Nat /\ IsFiniteSet(Q') /\ d \in Nat
  BY QueuedFinite
<1>2. /\ Load(r) <= 1 + faults
      /\ Load(r) = sends[r] + c + (IF Ahead(r) THEN 1 ELSE 0)
      /\ Load(r)' = sends'[r] + d + (IF Ahead(r)' THEN 1 ELSE 0)
  BY DEF LoadInv, Load
<1>3. IndInv'
  BY NextPreserves
<1>4. sends[r] \in Nat /\ sends'[r] \in Nat /\ faults \in Nat /\ faults' \in Nat
  BY <1>3 DEF IndInv, Types
<1> HIDE DEF c, d
<1>5. CASE FanoutMoves
  <2>1. Q' = Q
    BY <1>5 DEF FanoutMoves, QueuedOf
  <2>2. c = d
    BY <2>1 DEF c, d
  <2>3. sends'[r] = sends[r] /\ (\/ faults' = faults /\ (Ahead(r)' => Ahead(r))
                                 \/ faults' = faults + 1)
    BY <1>5 DEF FanoutMoves
  <2>4. QED
    BY <1>1, <1>2, <1>4, <2>2, <2>3
<1>6. CASE EnqueueDelivery
  <2>1. PICK S \in SUBSET Rows, q \in Rows :
           /\ SetTask(fan.tries, q, TaskAt("queued", 0, S, {}))
           /\ Ahead(r)' <=> Ahead(r) /\ r \notin S
           /\ r \in S => Ahead(r)
           /\ UNCHANGED <<sends, faults>>
    BY <1>6, EnqueueFacts
  <2> DEFINE k == fan.tries
             u == TaskAt("queued", 0, S, {})
  <2>2. k \in Attempts /\ Types
    BY DEF IndInv, Types, Fan
  <2>3. u \in Task /\ u.at = "queued" /\ u.rows = S
    BY TaskValue DEF Attempts
  <2>4. SetTask(k, q, u)
    BY <2>1
  <2> HIDE DEF u
  <2>5. /\ task'[k][q] = u
        /\ \A l \in Attempts, x \in Rows :
             <<l, x>> # <<k, q>> => task'[l][x] = task[l][x]
    BY <2>2, <2>3, <2>4, TaskSet
  <2>6. CASE r \in S
    <3>1. Q' \subseteq Q \cup {<<k, q>>}
      BY <2>5 DEF QueuedOf
    <3>2. d <= c + 1
      BY <1>1, <3>1, OneMore DEF c, d
    <3>3. QED
      BY <1>1, <1>2, <1>4, <2>1, <2>6, <3>2
  <2>7. CASE r \notin S
    <3>1. Q' \subseteq Q
      BY <2>3, <2>5, <2>7 DEF QueuedOf
    <3>2. d <= c
      BY <1>1, <3>1, FS_Subset DEF c, d
    <3>3. QED
      BY <1>1, <1>2, <1>4, <2>1, <2>7, <3>2
  <2>8. QED
    BY <2>6, <2>7
<1>7. CASE \E k \in Attempts, q \in Rows : TaskMoves(k, q)
  <2>1. PICK k \in Attempts, q \in Rows : TaskMoves(k, q)
    BY <1>7
  <2> DEFINE t == task[k][q]
             u == task'[k][q]
  <2>2. /\ \A l \in Attempts, x \in Rows :
             <<l, x>> # <<k, q>> => task'[l][x] = task[l][x]
        /\ t.at # "none" /\ (u.at # "none" => u.rows = t.rows)
        /\ \/ faults' = faults /\ u.at # "queued"
           \/ faults' = faults + 1
        /\ \/ sends'[r] = sends[r]
           \/ sends'[r] = sends[r] + 1 /\ t.at = "queued" /\ r \in t.rows
    BY <2>1 DEF TaskMoves
  <2>3. Ahead(r)' <=> Ahead(r)
    BY <2>1 DEF TaskMoves, Ahead
  <2>4. CASE t.at = "queued"
    <3>1. Q' \subseteq Q
      BY <2>2, <2>4 DEF QueuedOf
    <3>2. d <= c
      BY <1>1, <3>1, FS_Subset DEF c, d
    <3>3. u.at # "queued" /\ r \in t.rows => d <= c - 1
      <4> SUFFICES ASSUME u.at # "queued", r \in t.rows PROVE d <= c - 1
        OBVIOUS
      <4>1. <<k, q>> \in Q /\ Q' \subseteq Q \ {<<k, q>>}
        BY <2>2, <2>4 DEF QueuedOf
      <4>2. IsFiniteSet(Q \ {<<k, q>>}) /\ Cardinality(Q \ {<<k, q>>}) = c - 1
        BY <1>1, <4>1, FS_RemoveElement DEF c
      <4>3. QED
        BY <4>1, <4>2, FS_Subset DEF d
    <3>4. QED
      BY <1>1, <1>2, <1>4, <2>2, <2>3, <3>2, <3>3
  <2>5. CASE t.at # "queued"
    <3>1. Q' \subseteq Q \cup {<<k, q>>}
      BY <2>2 DEF QueuedOf
    <3>2. d <= c + 1
      BY <1>1, <3>1, OneMore DEF c, d
    <3>3. u.at # "queued" => d <= c
      <4> SUFFICES ASSUME u.at # "queued" PROVE d <= c
        OBVIOUS
      <4>1. Q' \subseteq Q
        BY <2>2 DEF QueuedOf
      <4>2. QED
        BY <1>1, <4>1, FS_Subset DEF c, d
    <3>4. QED
      BY <1>1, <1>2, <1>4, <2>2, <2>3, <2>5, <3>2, <3>3
  <2>6. QED
    BY <2>4, <2>5
<1>8. CASE UNCHANGED vars
  <2>1. Q' = Q /\ (Ahead(r)' <=> Ahead(r)) /\ sends' = sends /\ faults' = faults
    BY <1>8 DEF vars, sendVars, QueuedOf, Ahead
  <2>2. c = d
    BY <2>1 DEF c, d
  <2>3. QED
    BY <1>1, <1>2, <1>4, <2>1, <2>2
<1>9. QED
  BY <1>5, <1>6, <1>7, <1>8, Steps

LEMMA InitLoad == Init => LoadInv
<1> SUFFICES ASSUME Init, NEW r \in Rows PROVE Load(r) <= 1 + faults
  BY DEF LoadInv
<1>1. \A k \in Attempts, q \in Rows : task[k][q] = NoTask
  BY DEF Init
<1>2. NoTask.at = "none"
  BY DEF NoTask, TaskAt
<1>3. QueuedOf(r) = {}
  BY <1>1, <1>2 DEF QueuedOf
<1>4. Cardinality(QueuedOf(r)) = 0
  BY <1>3, FS_EmptySet
<1>5. sends[r] = 0 /\ faults = 0
  BY DEF Init
<1>6. QED
  BY <1>4, <1>5 DEF Load

LEMMA LoadInvariance == Spec => []LoadInv
<1>1. QED
  BY InitIndInv, InitLoad, NextPreserves, LoadPreserved, PTL DEF Spec

LEMMA LoadBounds ==
    ASSUME IndInv, LoadInv, NEW r \in Rows
    PROVE  sends[r] \in Nat /\ faults \in 0..MaxFaults /\ sends[r] <= 1 + faults
<1>1. sends[r] \in Nat /\ faults \in 0..MaxFaults
  BY DEF IndInv, Types
<1>2. Cardinality(QueuedOf(r)) \in Nat
  BY QueuedFinite
<1>3. sends[r] + Cardinality(QueuedOf(r)) + (IF Ahead(r) THEN 1 ELSE 0) <= 1 + faults
  BY DEF LoadInv, Load
<1>4. QED
  BY <1>1, <1>2, <1>3

-----------------------------------------------------------------------------
(* The theorems *)

\* The variables keep their types; a provider takes a message at most once for
\* each fault and once more.
THEOREM TypeCorrect == Spec => []TypeOK
<1>1. IndInv /\ LoadInv => TypeOK
  <2> SUFFICES ASSUME IndInv, LoadInv PROVE TypeOK
    OBVIOUS
  <2>1. \A r \in Rows : sends[r] \in 0..(MaxFaults + 1)
    BY LoadBounds
  <2>2. sends \in [Rows -> 0..(MaxFaults + 1)]
    BY <2>1 DEF IndInv, Types
  <2>3. QED
    BY <2>2 DEF IndInv, Types, TypeOK
<1>2. QED
  BY <1>1, Invariance, LoadInvariance, PTL

\* Notifications!DuplicatesAreFaults: a message goes out once, and once more for each
\* failure and crash at most, whatever fan-out attempts and tasks hold its row.
THEOREM DuplicatesBounded == Spec => []DuplicatesAreFaults
<1>1. IndInv /\ LoadInv => DuplicatesAreFaults
  BY LoadBounds DEF DuplicatesAreFaults
<1>2. QED
  BY <1>1, Invariance, LoadInvariance, PTL

\* Notifications!SentWasSent: a row is marked sent only when a provider took its
\* message or reported an error that SendMulticast ignores, or when FCM reported its
\* token gone and another row of that token took the blame.
THEOREM SentWasTaken == Spec => []SentWasSent
<1>1. IndInv => SentWasSent
  BY DEF IndInv
<1>2. QED
  BY <1>1, Invariance, PTL

\* Notifications!PendingIsCarried: a pending row is with some task, still ahead of
\* the fan-out, or there is a task that ran out of retries.
THEOREM PendingCarried == Spec => []PendingIsCarried
<1>1. IndInv => PendingIsCarried
  <2> SUFFICES ASSUME IndInv, NEW r \in Rows, row[r] = "pending", ~archived, ~Held(r)
               PROVE  \/ fan.at \in {"queued", "deliveries"}
                      \/ /\ fan.at \in {"list", "enqueue"}
                         /\ \E i \in fan.stage..4 : Channel[r] = Stages[i]
    BY DEF PendingIsCarried, Held
  <2>1. Ahead(r)
    BY DEF IndInv, CarryInv
  <2>2. fan.at \notin {"none", "created"}
    BY DEF IndInv, FanInv
  <2>3. Turn(r) \in 1..4 /\ Channel[r] = Stages[Turn(r)]
    BY TurnFacts
  <2>4. fan.stage \in 1..5
    BY DEF IndInv, Types, Fan
  <2>5. fan.at \in {"list", "enqueue"} => fan.stage <= Turn(r)
    BY <2>1, <2>3, <2>4 DEF Ahead, IndInv, FanInv
  <2>6. QED
    BY <2>1, <2>2, <2>3, <2>4, <2>5 DEF Ahead
<1>2. QED
  BY <1>1, Invariance, PTL

\* Notifications!RetryUndoesNothing: no step, a retried one included, makes a read
\* inbox entry unread or a settled delivery row pending.
THEOREM RetriesUndoNothing == Spec => RetryUndoesNothing
<1> DEFINE A == /\ \A u \in Users : inbox[u] = "read" => inbox'[u] = "read"
                /\ \A r \in Rows : row[r] \in {"sent", "failed"}
                                      => row'[r] \in {"sent", "failed"}
<1>1. IndInv /\ [Next]_vars => [A]_vars
  <2> SUFFICES ASSUME IndInv, Next PROVE A
    OBVIOUS
  <2>1. CASE FanoutMoves
    BY <2>1 DEF FanoutMoves
  <2>2. CASE EnqueueDelivery
    BY <2>2 DEF EnqueueDelivery
  <2>3. CASE \E k \in Attempts, q \in Rows : TaskMoves(k, q)
    BY <2>3 DEF TaskMoves
  <2>4. QED
    BY <2>1, <2>2, <2>3, Steps
<1>2. QED
  BY <1>1, Invariance, PTL DEF Spec, RetryUndoesNothing

-----------------------------------------------------------------------------
(* What is done when nothing is left to do *)

\* A fan-out past its first step, or over without having been given up, has filled
\* every inbox.
InboxInv ==
    fan.at \in {"deliveries", "list", "enqueue"} \/ (fan.at = "over" /\ ~archived)
        => \A u \in Users : inbox[u] # "none"

LEMMA InboxNext == IndInv /\ InboxInv /\ [Next]_vars => InboxInv'
<1> SUFFICES ASSUME IndInv, InboxInv, [Next]_vars PROVE InboxInv'
  OBVIOUS
<1>0. inbox \in [Users -> {"none", "unread", "read"}] /\ archived \in BOOLEAN
  BY DEF IndInv, Types
<1>1. CASE Send \/ EnqueueFanout \/ EnqueueFanoutFails
  BY <1>1 DEF Send, EnqueueFanout, EnqueueFanoutFails, FanAt, InboxInv
<1>2. CASE CreateRecipients
  <2>1. \A u \in Users : inbox'[u] # "none"
    BY <1>0, <1>2 DEF CreateRecipients, Insert
  <2>2. QED
    BY <2>1 DEF InboxInv
<1>3. CASE CreateDeliveries \/ ListChannel \/ EnqueueDelivery \/ FanoutDone
  <2>1. fan.at \in {"deliveries", "list", "enqueue"} /\ inbox' = inbox
    BY <1>3 DEF CreateDeliveries, ListChannel, EnqueueDelivery, FanoutDone
  <2>2. QED
    BY <2>1 DEF InboxInv
<1>4. CASE FanoutFails
  BY <1>0, <1>4 DEF FanoutFails, FanAt, InboxInv
<1>5. ASSUME NEW u \in Users, MarkRead(u)
      PROVE  InboxInv'
  <2>1. UNCHANGED <<fan, archived>> /\ \A w \in Users : inbox'[w] = "none" => inbox[w] = "none"
    BY <1>0, <1>5 DEF MarkRead
  <2>2. QED
    BY <2>1 DEF InboxInv
<1>6. ASSUME NEW k \in Attempts, NEW r \in Rows,
             TaskStep(k, r) \/ DeliverFails(k, r) \/ MarkFails(k, r)
      PROVE  InboxInv'
  <2>1. UNCHANGED <<fan, inbox>> /\ (archived => archived')
    BY <1>0, <1>6 DEF TaskStep, ChannelDisabled, Deliver, MarkDeliveries, DeliverFails,
                      MarkFails, Retry
  <2>2. QED
    BY <2>1 DEF InboxInv
<1>7. CASE UNCHANGED vars
  BY <1>7 DEF vars, InboxInv
<1>8. QED
  BY <1>1, <1>2, <1>3, <1>4, <1>5, <1>6, <1>7 DEF Next, FanoutStep

\* Notifications!QuietMeansReached: when the fan-out is over and no task is left, nobody
\* was forgotten and nothing is pending, short of a task that ran out of retries.
THEOREM NobodyForgotten == Spec => []QuietMeansReached
<1>1. Init => InboxInv
  BY DEF Init, FanAt, InboxInv
<1>2. IndInv /\ InboxInv => QuietMeansReached
  <2> SUFFICES ASSUME IndInv, InboxInv, fan.at = "over", ~archived,
                      \A k \in Attempts, r \in Rows : task[k][r] = NoTask
               PROVE  /\ \A u \in Users : inbox[u] # "none"
                      /\ \A r \in Rows : row[r] # "pending"
    BY DEF QuietMeansReached
  <2>1. \A r \in Rows : ~Ahead(r) /\ ~Held(r)
    BY DEF Ahead, Held, NoTask, TaskAt
  <2>2. \A r \in Rows : row[r] # "pending"
    BY <2>1 DEF IndInv, CarryInv
  <2>3. QED
    BY <2>2 DEF InboxInv
<1>3. QED
  BY <1>1, <1>2, InboxNext, Invariance, PTL DEF Spec
=============================================================================
