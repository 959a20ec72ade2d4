------------------------------ MODULE LiveRoom ------------------------------
(***************************************************************************)
(* One live room of internal/livesessions: the row in Postgres, the        *)
(* participation rows, the LiveKit room behind it, the webhooks LiveKit    *)
(* sends, the delayed no-host close task, and the handlers that run        *)
(* against them concurrently in the API server and in the worker.          *)
(*                                                                         *)
(* A handler is a sequence of steps, one per database statement or call to *)
(* LiveKit or Redis that another handler can observe.  What it has read is *)
(* kept in proc[p]; every other handler may run between two of its steps.  *)
(* A process may die between two steps.                                    *)
(***************************************************************************)
EXTENDS Naturals, FiniteSets

CONSTANTS
    Users,       \* accounts that may join the room
    Hosts,       \* those that manage it (or hold live_sessions:join_any)
    NoUser,
    Requests,    \* API request slots: what can be in flight at once
    Sweepers,    \* worker slots for the periodic stale-room sweep
    CloseTask,   \* the one delayed close task of the room (its task ID is unique)
    MaxInFlight, \* bound: handlers in flight at once
    MaxRows,     \* bound: participation rows per user
    MaxEvents,   \* bound: LiveKit webhooks in flight
    MaxCrashes   \* bound: processes that die in the middle of a handler

Procs == Requests \cup Sweepers \cup {CloseTask}

ASSUME ConstantsAssumption ==
    /\ Hosts \subseteq Users
    /\ NoUser \notin Users
    /\ Requests \cap Sweepers = {}
    /\ CloseTask \notin Requests \cup Sweepers
    /\ MaxInFlight \in Nat
    /\ MaxRows \in Nat \ {0}
    /\ MaxEvents \in Nat
    /\ MaxCrashes \in Nat

VARIABLES
    status,      \* live_rooms.status
    hostStale,   \* host_last_seen_at is older than the grace period
    lkRoom,      \* LiveKit has the room
    connected,   \* users connected to it
    tokens,      \* users holding a join token
    rows,        \* rows[u]: how many participation rows u ever got
    open,        \* open[u]: those with left_at NULL, numbered in creation order
    timer,       \* the delayed close task in asynq
    events,      \* LiveKit webhooks not yet delivered
    proc,        \* the handler each slot runs
    ran,         \* history: the teardown steps of endRoomInternal that have run
    rowsClosed,  \* history: MarkAllLeft succeeded
    lateJoiners, \* history: users whose JoinRoom was past its checks when the room finished
    crashes

roomVars   == <<status, hostStale>>
lkVars     == <<lkRoom, connected, tokens>>
rowVars    == <<rows, open>>
historyVars == <<ran, rowsClosed, lateJoiners>>
vars == <<status, hostStale, lkRoom, connected, tokens, rows, open, timer,
          events, proc, ran, rowsClosed, lateJoiners, crashes>>

-----------------------------------------------------------------------------
(* Types *)

\* The steps after the active -> finished transition, in order.
TeardownSteps == {"rows", "livekit", "content", "timer", "jobs"}

Stages == TeardownSteps \cup
    {"idle", "lkcreate", "activate", "reload", "lkensure", "find", "insert",
     "save", "close", "check", "touch", "arm", "disarm", "mark"}

Ops == {"idle", "join", "start", "leave", "remove", "end",
        "left", "joined", "finished", "sweep", "task"}

Handler == [op : Ops, at : Stages, user : Users \cup {NoUser},
            row : 0..MaxRows, steady : BOOLEAN]

Idle == [op |-> "idle", at |-> "idle", user |-> NoUser, row |-> 0, steady |-> FALSE]

Event == [type : {"joined", "left"}, user : Users] \cup [type : {"finished"}]

TypeOK ==
    /\ status \in {"created", "active", "finished", "deleted"}
    /\ hostStale \in BOOLEAN
    /\ lkRoom \in BOOLEAN
    /\ connected \subseteq Users
    /\ tokens \subseteq Users
    /\ rows \in [Users -> 0..MaxRows]
    /\ open \in [Users -> SUBSET (1..MaxRows)]
    /\ timer \in {"none", "scheduled", "running"}
    /\ events \subseteq Event
    /\ proc \in [Procs -> Handler]
    /\ ran \subseteq TeardownSteps
    /\ rowsClosed \in BOOLEAN
    /\ lateJoiners \subseteq Users
    /\ crashes \in 0..MaxCrashes

Init ==
    /\ status = "created"
    /\ hostStale = FALSE
    /\ lkRoom = FALSE
    /\ connected = {}
    /\ tokens = {}
    /\ rows = [u \in Users |-> 0]
    /\ open = [u \in Users |-> {}]
    /\ timer = "none"
    /\ events = {}
    /\ proc = [p \in Procs |-> Idle]
    /\ ran = {}
    /\ rowsClosed = FALSE
    /\ lateJoiners = {}
    /\ crashes = 0

-----------------------------------------------------------------------------
(* Helpers *)

\* What hostPresent learns from LiveKit; a room LiveKit no longer knows has no host.
HostConnected == connected \cap Hosts # {}

Begin(p, op, stage, u, row) ==
    /\ proc[p] = Idle
    /\ Cardinality({q \in Procs : proc[q] # Idle}) < MaxInFlight
    /\ proc' = [proc EXCEPT ![p] =
                   [op |-> op, at |-> stage, user |-> u, row |-> row,
                    steady |-> op \in {"sweep", "task"} /\ HostConnected]]

At(p, stage)   == proc[p].at = stage
MoveTo(p, stage) == proc' = [proc EXCEPT ![p].at = stage]
Finish(p)      == proc' = [proc EXCEPT ![p] = Idle]

\* history: the handlers that run while the last host drops out
Unsteady(h) == [h EXCEPT !.steady = FALSE]

\* LiveKit queues a webhook, or it is lost.
Emit(e) ==
    \/ events' = events
    \/ Cardinality(events) < MaxEvents /\ events' = events \cup {e}

\* A delivery consumes the webhook, or LiveKit will deliver it once more.
Receive(e) == e \in events /\ events' \in {events, events \ {e}}

\* JoinRoom has checked the status and will not look at it again.
PastJoinChecks == {"lkensure", "find", "insert"}
Joining(u) == \E p \in Procs : /\ proc[p].op = "join"
                               /\ proc[p].at \in PastJoinChecks
                               /\ proc[p].user = u

-----------------------------------------------------------------------------
(* Requests of the API server *)

\* variant: the check for a finished room is missing
JoinFinishedRoom(p, u) ==
    /\ status # "deleted"
    /\ Begin(p, "join", IF status = "created" THEN "lkcreate" ELSE "lkensure", u, 0)
    /\ UNCHANGED <<roomVars, lkVars, rowVars, timer, events, historyVars, crashes>>

JoinRoom(p, u) ==
    /\ \/ status = "active" /\ Begin(p, "join", "lkensure", u, 0)
       \/ status = "created" /\ u \in Hosts /\ Begin(p, "join", "lkcreate", u, 0)
    /\ UNCHANGED <<roomVars, lkVars, rowVars, timer, events, historyVars, crashes>>

StartRoom(p, u) ==
    /\ status = "created"
    /\ u \in Hosts
    /\ Begin(p, "start", "lkcreate", u, 0)
    /\ UNCHANGED <<roomVars, lkVars, rowVars, timer, events, historyVars, crashes>>

\* startRoomInternal, first half: LiveKit's CreateRoom is idempotent.
LkCreate(p) ==
    /\ At(p, "lkcreate")
    /\ lkRoom' = TRUE
    /\ MoveTo(p, "activate")
    /\ UNCHANGED <<roomVars, connected, tokens, rowVars, timer, events, historyVars, crashes>>

\* startRoomInternal, second half: the guarded created -> active transition.
Activate(p) ==
    /\ At(p, "activate")
    /\ \/ /\ status = "created"
          /\ status' = "active"
          /\ hostStale' = FALSE
          /\ IF proc[p].op = "join" THEN MoveTo(p, "lkensure") ELSE Finish(p)
       \/ /\ status # "created"
          /\ IF proc[p].op = "join" THEN MoveTo(p, "reload") ELSE Finish(p)
          /\ UNCHANGED roomVars
    /\ UNCHANGED <<lkVars, rowVars, timer, events, historyVars, crashes>>

\* JoinRoom lost the auto-start race.
Reload(p) ==
    /\ At(p, "reload")
    /\ IF status = "active" THEN MoveTo(p, "lkensure") ELSE Finish(p)
    /\ UNCHANGED <<roomVars, lkVars, rowVars, timer, events, historyVars, crashes>>

LkEnsure(p) ==
    /\ At(p, "lkensure")
    /\ lkRoom' = TRUE
    /\ MoveTo(p, "find")
    /\ UNCHANGED <<roomVars, connected, tokens, rowVars, timer, events, historyVars, crashes>>

\* An open row is reused; its owner only needs the token.
FindRow(p) ==
    /\ At(p, "find")
    /\ LET u == proc[p].user IN
       \/ open[u] # {} /\ tokens' = tokens \cup {u} /\ Finish(p)
       \/ open[u] = {} /\ tokens' = tokens /\ MoveTo(p, "insert")
    /\ UNCHANGED <<roomVars, lkRoom, connected, rowVars, timer, events, historyVars, crashes>>

\* participants.Create, which fails when the room row is gone (foreign key);
\* the token is only returned once the row is in.
InsertRow(p) ==
    /\ At(p, "insert")
    /\ Finish(p)
    /\ LET u == proc[p].user IN
       \/ /\ status # "deleted"
          /\ rows[u] < MaxRows
          /\ rows' = [rows EXCEPT ![u] = @ + 1]
          /\ open' = [open EXCEPT ![u] = @ \cup {rows[u] + 1}]
          /\ tokens' = tokens \cup {u}
       \/ /\ status = "deleted" \/ rows[u] = MaxRows
          /\ UNCHANGED <<rows, open, tokens>>
    /\ UNCHANGED <<roomVars, lkRoom, connected, timer, events, historyVars, crashes>>

\* FindActiveByRoomAndUser returns the first open row by primary key.
LeaveRoom(p, u) ==
    /\ \E r \in open[u] : /\ \A s \in open[u] : r <= s
                         /\ Begin(p, "leave", "save", u, r)
    /\ UNCHANGED <<roomVars, lkVars, rowVars, timer, events, historyVars, crashes>>

\* LeaveRoom saves the row it read, whatever happened to it since.
SaveLeft(p) ==
    /\ At(p, "save")
    /\ open' = [open EXCEPT ![proc[p].user] = @ \ {proc[p].row}]
    /\ Finish(p)
    /\ UNCHANGED <<roomVars, lkVars, rows, timer, events, historyVars, crashes>>

\* RemoveParticipant: LiveKit first, then the row (MarkLeft).  Hosts are immune.
RemoveParticipant(p, u) ==
    /\ u \notin Hosts
    /\ open[u] # {}
    /\ Begin(p, "remove", "mark", u, 0)
    /\ connected' = connected \ {u}
    /\ IF u \in connected THEN Emit([type |-> "left", user |-> u]) ELSE UNCHANGED events
    /\ UNCHANGED <<roomVars, lkRoom, tokens, rowVars, timer, historyVars, crashes>>

MarkLeft(p) ==
    /\ At(p, "mark")
    /\ open' = [open EXCEPT ![proc[p].user] = {}]
    /\ Finish(p)
    /\ UNCHANGED <<roomVars, lkVars, rows, timer, events, historyVars, crashes>>

\* Heartbeat and TouchHostLastSeen: one conditional UPDATE.
Heartbeat ==
    /\ status = "active"
    /\ hostStale
    /\ hostStale' = FALSE
    /\ UNCHANGED <<status, lkVars, rowVars, timer, events, proc, historyVars, crashes>>

\* EndRoom and AdminEndRoom
EndRoom(p) ==
    /\ status = "active"
    /\ Begin(p, "end", "close", NoUser, 0)
    /\ UNCHANGED <<roomVars, lkVars, rowVars, timer, events, historyVars, crashes>>

\* AdminHardDelete: the row, and its participants with it (ON DELETE CASCADE).
AdminHardDelete ==
    /\ status # "deleted"
    /\ status' = "deleted"
    /\ open' = [u \in Users |-> {}]
    /\ UNCHANGED <<hostStale, lkVars, rows, timer, events, proc, historyVars, crashes>>

-----------------------------------------------------------------------------
(* LiveKit webhooks *)

\* A webhook about a room that is not active is ignored.
IgnoreWebhook(e) ==
    /\ status # "active"
    /\ Receive(e)
    /\ UNCHANGED <<roomVars, lkVars, rowVars, timer, proc, historyVars, crashes>>

\* onParticipantLeft closes every open row of the identity, or logs that it could
\* not, then asks for a host.
OnParticipantLeft(p, u) ==
    /\ status = "active"
    /\ Receive([type |-> "left", user |-> u])
    /\ open' \in {open, [open EXCEPT ![u] = {}]}
    /\ Begin(p, "left", "check", u, 0)
    /\ UNCHANGED <<roomVars, lkVars, rows, timer, historyVars, crashes>>

OnParticipantJoined(p, u) ==
    /\ status = "active"
    /\ Receive([type |-> "joined", user |-> u])
    /\ Begin(p, "joined", "check", u, 0)
    /\ UNCHANGED <<roomVars, lkVars, rowVars, timer, historyVars, crashes>>

OnRoomFinished(p) ==
    /\ status = "active"
    /\ Receive([type |-> "finished"])
    /\ Begin(p, "finished", "close", NoUser, 0)
    /\ UNCHANGED <<roomVars, lkVars, rowVars, timer, historyVars, crashes>>

\* armCloseIfNoHost: a task ID that exists, even of a running task, is a conflict.
Arm(p) ==
    /\ At(p, "arm")
    /\ timer' = IF timer = "none" THEN "scheduled" ELSE timer
    /\ Finish(p)
    /\ UNCHANGED <<roomVars, lkVars, rowVars, events, historyVars, crashes>>

\* Cancel deletes a scheduled task; it cannot delete a running one.
Cancelled == IF timer = "scheduled" THEN "none" ELSE timer

Disarm(p) ==
    /\ At(p, "disarm")
    /\ timer' = Cancelled
    /\ Finish(p)
    /\ UNCHANGED <<roomVars, lkVars, rowVars, events, historyVars, crashes>>

-----------------------------------------------------------------------------
(* The worker: the periodic sweep and the delayed close task *)

SweepStart(p) ==
    /\ status = "active"
    /\ hostStale
    /\ Begin(p, "sweep", "check", NoUser, 0)
    /\ UNCHANGED <<roomVars, lkVars, rowVars, timer, events, historyVars, crashes>>

\* CloseRoomIfNoHost leaves a room that is gone or not active alone.
FireTimer ==
    /\ timer = "scheduled"
    /\ \/ /\ status = "active"
          /\ timer' = "running"
          /\ Begin(CloseTask, "task", "check", NoUser, 0)
       \/ /\ status # "active"
          /\ timer' = "none"
          /\ UNCHANGED proc
    /\ UNCHANGED <<roomVars, lkVars, rowVars, events, historyVars, crashes>>

\* variant: a failed task is archived at once instead of being retried
ArchiveAtOnce(p) == timer' = IF p = CloseTask THEN "archived" ELSE timer

\* asynq keeps the task when its handler returned an error, drops it otherwise.
Retry(p)    == timer' = IF p = CloseTask THEN "scheduled" ELSE timer
Complete(p) == timer' = IF p = CloseTask THEN "none" ELSE timer

\* variant: the sweep trusts the stale heartbeat and closes under a host
SweepWithoutCrossCheck(p) ==
    \/ proc[p].op = "sweep"  /\ MoveTo(p, "close")  /\ UNCHANGED timer
    \/ proc[p].op = "joined" /\ MoveTo(p, "disarm") /\ UNCHANGED timer
    \/ proc[p].op \in {"task", "left"} /\ Finish(p) /\ Complete(p)

\* What each caller of hostPresent does with the answer.
WithHost(p) ==
    \/ proc[p].op = "sweep"  /\ MoveTo(p, "touch")  /\ UNCHANGED timer
    \/ proc[p].op = "joined" /\ MoveTo(p, "disarm") /\ UNCHANGED timer
    \/ proc[p].op \in {"task", "left"} /\ Finish(p) /\ Complete(p)

WithoutHost(p) ==
    \/ proc[p].op \in {"sweep", "task"} /\ MoveTo(p, "close") /\ UNCHANGED timer
    \/ proc[p].op = "left"   /\ MoveTo(p, "arm") /\ UNCHANGED timer
    \/ proc[p].op = "joined" /\ Finish(p) /\ UNCHANGED timer

Answer(p) == IF HostConnected THEN WithHost(p) ELSE WithoutHost(p)

\* variant: a room LiveKit no longer knows is an error, not an absence of hosts
CheckKnownRoom(p) ==
    /\ At(p, "check")
    /\ lkRoom
    /\ Answer(p)
    /\ UNCHANGED <<roomVars, lkVars, rowVars, events, historyVars, crashes>>

\* The answer is used in a later step: the host may come or go in between.
CheckHost(p) ==
    /\ At(p, "check")
    /\ Answer(p)
    /\ UNCHANGED <<roomVars, lkVars, rowVars, events, historyVars, crashes>>

\* LiveKit does not answer: the sweep skips the room, the task is retried.
CheckFails(p) ==
    /\ At(p, "check")
    /\ Finish(p)
    /\ Retry(p)
    /\ UNCHANGED <<roomVars, lkVars, rowVars, events, historyVars, crashes>>

\* variant: the touch saves the whole row as the handler read it
TouchSavesRow(p) ==
    /\ At(p, "touch")
    /\ status' = "active"
    /\ hostStale' = FALSE
    /\ Finish(p)
    /\ UNCHANGED <<lkVars, rowVars, timer, events, historyVars, crashes>>

TouchHostLastSeen(p) ==
    /\ At(p, "touch")
    /\ hostStale' = IF status = "active" THEN FALSE ELSE hostStale
    /\ Finish(p)
    /\ UNCHANGED <<status, lkVars, rowVars, timer, events, historyVars, crashes>>

-----------------------------------------------------------------------------
(* endRoomInternal *)

\* variant: the UPDATE does not test the current status
UnguardedTransition(p) ==
    /\ status' = "finished"
    /\ lateJoiners' = {u \in Users : Joining(u)}
    /\ MoveTo(p, "rows")
    /\ UNCHANGED timer

\* The guarded active -> finished transition decides which closer tears down;
\* the others get ErrConflict, which asynq retries.
Transition(p) ==
    /\ status = "active"
    /\ status' = "finished"
    /\ lateJoiners' = {u \in Users : Joining(u)}
    /\ MoveTo(p, "rows")
    /\ UNCHANGED timer

\* variant: zero rows affected is not reported, the loser tears down as well
SilentConflict(p) ==
    /\ status # "active"
    /\ MoveTo(p, "rows")
    /\ UNCHANGED <<status, lateJoiners, timer>>

Conflict(p) ==
    /\ status # "active"
    /\ Finish(p)
    /\ Retry(p)
    /\ UNCHANGED <<status, lateJoiners>>

CloseRoom(p) ==
    /\ At(p, "close")
    /\ Transition(p) \/ Conflict(p)
    /\ UNCHANGED <<hostStale, lkVars, rowVars, events, ran, rowsClosed, crashes>>

\* Every teardown step may fail; the next one runs all the same.
Step(p, s, next) ==
    /\ At(p, s)
    /\ ran' = ran \cup {s}
    /\ MoveTo(p, next)

\* variant: a failure to mark the rows returns early
RowsFailureAborts(p) ==
    /\ At(p, "rows")
    /\ \/ rowsClosed' = TRUE /\ open' = [u \in Users |-> {}] /\ ran' = ran \cup {"rows"} /\ MoveTo(p, "livekit")
       \/ Finish(p) /\ UNCHANGED <<rowsClosed, open, ran>>
    /\ UNCHANGED <<roomVars, lkVars, rows, timer, events, lateJoiners, crashes>>

TeardownRows(p) ==
    /\ Step(p, "rows", "livekit")
    /\ \/ rowsClosed' = TRUE /\ open' = [u \in Users |-> {}]
       \/ UNCHANGED <<rowsClosed, open>>
    /\ UNCHANGED <<roomVars, lkVars, rows, timer, events, lateJoiners, crashes>>

\* DeleteRoom throws everybody out; it fails on a room that is gone.
TeardownLiveKit(p) ==
    /\ At(p, "livekit")
    /\ ran' = ran \cup {"livekit"}
    /\ \/ /\ lkRoom
          /\ lkRoom' = FALSE
          /\ connected' = {}
          /\ proc' = [q \in Procs |-> IF q = p THEN [proc[p] EXCEPT !.at = "content"]
                                               ELSE Unsteady(proc[q])]
          /\ Emit([type |-> "finished"])
       \/ /\ MoveTo(p, "content")
          /\ UNCHANGED <<lkRoom, connected, events>>
    /\ UNCHANGED <<roomVars, tokens, rowVars, timer, rowsClosed, lateJoiners, crashes>>

\* Chat archived, polls closed, whiteboard deleted: nothing here reads them.
TeardownContent(p) ==
    /\ Step(p, "content", "timer")
    /\ UNCHANGED <<roomVars, lkVars, rowVars, timer, events, rowsClosed, lateJoiners, crashes>>

TeardownTimer(p) ==
    /\ Step(p, "timer", "jobs")
    /\ timer' \in {timer, Cancelled}
    /\ UNCHANGED <<roomVars, lkVars, rowVars, events, rowsClosed, lateJoiners, crashes>>

\* The attendance auto-mark and the slides cleanup go to the queue.
TeardownJobs(p) ==
    /\ At(p, "jobs")
    /\ ran' = ran \cup {"jobs"}
    /\ Finish(p)
    /\ Complete(p)
    /\ UNCHANGED <<roomVars, lkVars, rowVars, events, rowsClosed, lateJoiners, crashes>>

Teardown(p) ==
    \/ TeardownRows(p) \/ TeardownLiveKit(p) \/ TeardownContent(p)
    \/ TeardownTimer(p) \/ TeardownJobs(p)

-----------------------------------------------------------------------------
(* The environment: LiveKit, its clients, time, and processes that die *)

\* A token opens the room, which LiveKit creates for it when it is gone.
Connect(u) ==
    /\ u \in tokens \ connected
    /\ lkRoom' = TRUE
    /\ connected' = connected \cup {u}
    /\ Emit([type |-> "joined", user |-> u])
    /\ UNCHANGED <<roomVars, tokens, rowVars, timer, proc, historyVars, crashes>>

Disconnect(u) ==
    /\ u \in connected
    /\ connected' = connected \ {u}
    /\ proc' = IF connected' \cap Hosts = {}
               THEN [p \in Procs |-> Unsteady(proc[p])] ELSE proc
    /\ Emit([type |-> "left", user |-> u])
    /\ UNCHANGED <<roomVars, lkRoom, tokens, rowVars, timer, historyVars, crashes>>

\* empty_timeout
LiveKitDropsRoom ==
    /\ lkRoom
    /\ connected = {}
    /\ lkRoom' = FALSE
    /\ Emit([type |-> "finished"])
    /\ UNCHANGED <<roomVars, connected, tokens, rowVars, timer, proc, historyVars, crashes>>

\* The grace period passes since host_last_seen_at.
GraceExpires ==
    /\ status = "active"
    /\ ~hostStale
    /\ hostStale' = TRUE
    /\ UNCHANGED <<status, lkVars, rowVars, timer, events, proc, historyVars, crashes>>

\* Nothing recovers a request or a sweep; asynq runs the task again.
Crash(p) ==
    /\ proc[p] # Idle
    /\ crashes < MaxCrashes
    /\ crashes' = crashes + 1
    /\ Finish(p)
    /\ Retry(p)
    /\ UNCHANGED <<roomVars, lkVars, rowVars, events, historyVars>>

-----------------------------------------------------------------------------

NewRequest(p) ==
    \/ EndRoom(p) \/ OnRoomFinished(p)
    \/ \E u \in Users : \/ JoinRoom(p, u) \/ StartRoom(p, u) \/ LeaveRoom(p, u)
                        \/ RemoveParticipant(p, u)
                        \/ OnParticipantLeft(p, u) \/ OnParticipantJoined(p, u)

\* The next step of a handler that is under way.
Continue(p) ==
    \/ LkCreate(p) \/ Activate(p) \/ Reload(p) \/ LkEnsure(p) \/ FindRow(p)
    \/ InsertRow(p) \/ SaveLeft(p) \/ MarkLeft(p) \/ Arm(p) \/ Disarm(p)
    \/ CheckHost(p) \/ TouchHostLastSeen(p) \/ CloseRoom(p) \/ Teardown(p)

Environment ==
    \/ \E u \in Users : Connect(u) \/ Disconnect(u)
    \/ LiveKitDropsRoom \/ GraceExpires
    \/ \E p \in Procs : Crash(p) \/ CheckFails(p)

Next ==
    \/ \E p \in Requests : NewRequest(p)
    \/ \E p \in Sweepers : SweepStart(p)
    \/ \E e \in events : IgnoreWebhook(e)
    \/ FireTimer \/ Heartbeat \/ AdminHardDelete
    \/ \E p \in Procs : Continue(p)
    \/ Environment

Spec == Init /\ [][Next]_vars

\* A handler runs on, the scheduler starts a sweep every five minutes, and
\* LiveKit answers a sweep that asks again and again.  Users owe nothing.
Fairness ==
    /\ \A p \in Procs : WF_vars(Continue(p))
    /\ \A p \in Sweepers : WF_vars(SweepStart(p)) /\ SF_vars(CheckHost(p))

FairSpec == Spec /\ Fairness

-----------------------------------------------------------------------------
(* Properties *)

Lifecycle == INSTANCE RoomLifecycle WITH status <- status

\* The room keeps the promise of RoomLifecycle: no heartbeat, sweep, webhook or
\* late start writes a finished room back to life ("a heartbeat racing a close
\* can never resurrect a finished room").
ImplementsLifecycle == Lifecycle!Spec

\* However many of EndRoom, the webhook, the close task and the sweep race to
\* close the room, at most one of them is past the transition.
OneCloser ==
    \A p, q \in Procs :
        proc[p].at \in TeardownSteps /\ proc[q].at \in TeardownSteps => p = q

\* No teardown step runs twice, so attendance is auto-marked at most once,
\* whichever closers raced and whichever of them died.
TeardownOnce ==
    [][\A p \in Procs, s \in TeardownSteps :
          (proc[p].at = s /\ proc'[p].at # s) => s \notin ran]_vars

\* A finished room whose teardown is not through has somebody at it: no step, whether
\* it fails or meets a room that is gone, drops the rest, unless a process died.
TeardownHasOwner ==
    status = "finished" /\ crashes = 0 =>
        ran = TeardownSteps \/ \E p \in Procs : proc[p].at \in TeardownSteps

\* Once a finished room has had its participation rows closed, a row is open
\* only for a user whose JoinRoom had passed its status checks before the room
\* finished: nobody else is billed attendance in a finished room.
OnlyLateJoinersStayOpen ==
    status = "finished" /\ rowsClosed =>
        \A u \in Users : open[u] # {} => u \in lateJoiners

\* A sweep or a close task that is about to close the room has outlived a
\* moment without a host: a host connected from its start to its end keeps the
\* room, whatever the heartbeat says.
SteadyHostKeepsRoom ==
    \A p \in Procs : proc[p].at = "close" => ~proc[p].steady

\* A room without a host cannot stay open: when the heartbeat has gone stale
\* the sweep closes it, even if every webhook was lost, the close task was never
\* armed and LiveKit dropped the room.
HostlessRoomCloses ==
    (status = "active" /\ hostStale /\ ~HostConnected)
        ~> (status # "active" \/ ~hostStale \/ HostConnected)

\* Teardown runs to its end although any of its steps may fail ("each failure
\* is logged but never blocks the rest"), unless the process dies.
TeardownCompletes ==
    status = "finished" ~> (crashes > 0 \/ ran = TeardownSteps)

\* Joins that race stack open rows, but never more than there are requests in
\* flight: joins one at a time stack none.
OpenRowsBounded == \A u \in Users : Cardinality(open[u]) <= Cardinality(Requests)

\* JoinRoom "reuses the open participation row instead of stacking a duplicate".
OneOpenRow == \A u \in Users : Cardinality(open[u]) <= 1
=============================================================================
