--------------------------- MODULE LiveRecording ---------------------------
(***************************************************************************)
(* Recordings of live rooms in internal/livesessions: the rows of          *)
(* live_recordings, the LiveKit egress behind each of them, the            *)
(* egress_ended webhooks, and the handlers that race for them.             *)
(*                                                                         *)
(* Every handler reads a row, talks to LiveKit, and then saves the whole   *)
(* row as it read it (gorm's Save), whatever happened to it since.         *)
(* LiveRoom models the rest of a room's life; here a room is what          *)
(* StartRecording and the teardown see of it.                              *)
(***************************************************************************)
EXTENDS Naturals, FiniteSets

CONSTANTS
    Rooms,
    NoRoom,
    Egresses,   \* bound: the egress IDs LiveKit may hand out
    NoEgress,
    Requests,   \* handlers in flight: API requests, webhooks, closers
    Cap,        \* LIVEKIT_EGRESS_MAX_CONCURRENT
    MaxWebhooks, \* bound: webhooks in flight
    MaxFaults   \* bound: failed calls and processes that die

ASSUME RecordingAssumption ==
    /\ NoRoom \notin Rooms
    /\ NoEgress \notin Egresses
    /\ IsFiniteSet(Egresses)
    /\ IsFiniteSet(Requests)
    /\ Requests # {}
    /\ Cap \in Nat \ {0}
    /\ MaxWebhooks \in Nat
    /\ MaxFaults \in Nat

VARIABLES
    status,    \* live_rooms.status of the rooms that got as far as "active"
    egress,    \* LiveKit: what became of each egress; "ending" once it was asked to stop
    roomOf,    \* the room an egress records
    row,       \* live_recordings.status, "none" without a row
    sized,     \* rows that carry the size and duration of the webhook
    webhooks,  \* egress_ended webhooks not yet delivered
    proc,
    faults,
    unstopped, \* history: egresses a teardown failed to stop
    settled,   \* history: rooms whose teardown is through with its recording
    rushed,    \* history: rooms where a StartRecording overlapped another or the end
    faulty     \* history: rooms one of whose handlers failed or died

roomVars == <<status, settled, rushed>>
lkVars   == <<egress, roomOf, webhooks>>
rowVars  == <<row, sized>>
vars == <<status, egress, roomOf, row, sized, webhooks, proc, faults,
          unstopped, settled, rushed, faulty>>

-----------------------------------------------------------------------------

Terminal == {"completed", "failed"}

Stages == {"idle", "find", "count", "egress", "create", "lookup", "stop", "save"}

Handler == [op : {"idle", "start", "stop", "end", "ended"}, at : Stages,
            room : Rooms \cup {NoRoom}, egress : Egresses \cup {NoEgress},
            status : Terminal, sized : BOOLEAN]

Idle == [op |-> "idle", at |-> "idle", room |-> NoRoom, egress |-> NoEgress,
         status |-> "completed", sized |-> FALSE]

TypeOK ==
    /\ status \in [Rooms -> {"active", "finished", "deleted"}]
    /\ egress \in [Egresses -> {"unused", "running", "ending"} \cup Terminal]
    /\ roomOf \in [Egresses -> Rooms \cup {NoRoom}]
    /\ row \in [Egresses -> {"none", "started"} \cup Terminal]
    /\ sized \subseteq Egresses
    /\ webhooks \subseteq Egresses
    /\ proc \in [Requests -> Handler]
    /\ faults \in 0..MaxFaults
    /\ unstopped \subseteq Egresses
    /\ settled \subseteq Rooms
    /\ rushed \subseteq Rooms
    /\ faulty \subseteq Rooms

Init ==
    /\ status = [r \in Rooms |-> "active"]
    /\ egress = [e \in Egresses |-> "unused"]
    /\ roomOf = [e \in Egresses |-> NoRoom]
    /\ row = [e \in Egresses |-> "none"]
    /\ sized = {}
    /\ webhooks = {}
    /\ proc = [p \in Requests |-> Idle]
    /\ faults = 0
    /\ unstopped = {}
    /\ settled = {}
    /\ rushed = {}
    /\ faulty = {}

-----------------------------------------------------------------------------
(* Helpers *)

At(p, op, stage) == proc[p].op = op /\ proc[p].at = stage

\* p goes on with the copy of e's row it has just read.
Hold(p, op, stage, r, e) ==
    proc' = [proc EXCEPT ![p] = [op |-> op, at |-> stage, room |-> r, egress |-> e,
                                 status |-> "completed", sized |-> e \in sized]]

Begin(p, op, stage, r, e) == proc[p] = Idle /\ Hold(p, op, stage, r, e)

MoveTo(p, stage) == proc' = [proc EXCEPT ![p].at = stage]
Finish(p)        == proc' = [proc EXCEPT ![p] = Idle]

\* FindActiveByRoom and CountActive
Active == {e \in Egresses : row[e] = "started"}
ActiveIn(r) == {e \in Active : roomOf[e] = r}

Starting(r) == \E p \in Requests : proc[p].op = "start" /\ proc[p].room = r

\* A call fails or a process dies; MaxFaults bounds how often.
Fault(r) ==
    /\ faults < MaxFaults
    /\ faults' = faults + 1
    /\ faulty' = faulty \cup {r}

\* LiveKit ends an egress and posts its verdict; the webhook may be lost.
Ends(e, verdict) ==
    /\ egress' = [egress EXCEPT ![e] = verdict]
    /\ \/ webhooks' = webhooks
       \/ Cardinality(webhooks) < MaxWebhooks /\ webhooks' = webhooks \cup {e}
    /\ UNCHANGED roomOf

-----------------------------------------------------------------------------
(* StartRecording *)

StartRecording(p, r) ==
    /\ status[r] = "active"
    /\ Begin(p, "start", "find", r, NoEgress)
    /\ rushed' = IF Starting(r) THEN rushed \cup {r} ELSE rushed
    /\ UNCHANGED <<status, lkVars, rowVars, faults, unstopped, settled, faulty>>

FindActive(p) ==
    /\ At(p, "start", "find")
    /\ IF ActiveIn(proc[p].room) = {} THEN MoveTo(p, "count") ELSE Finish(p)
    /\ UNCHANGED <<roomVars, lkVars, rowVars, faults, unstopped, faulty>>

\* variant: the cap itself passes the capacity check
CountOneTooMany(p) ==
    /\ At(p, "start", "count")
    /\ IF Cardinality(Active) <= Cap THEN MoveTo(p, "egress") ELSE Finish(p)
    /\ UNCHANGED <<roomVars, lkVars, rowVars, faults, unstopped, faulty>>

CountActive(p) ==
    /\ At(p, "start", "count")
    /\ IF Cardinality(Active) < Cap THEN MoveTo(p, "egress") ELSE Finish(p)
    /\ UNCHANGED <<roomVars, lkVars, rowVars, faults, unstopped, faulty>>

\* LiveKit starts the egress, and answers or not before the 15 second deadline.
StartEgress(p) ==
    /\ At(p, "start", "egress")
    /\ \E e \in Egresses :
        /\ egress[e] = "unused"
        /\ egress' = [egress EXCEPT ![e] = "running"]
        /\ roomOf' = [roomOf EXCEPT ![e] = proc[p].room]
        /\ \/ /\ proc' = [proc EXCEPT ![p].at = "create", ![p].egress = e]
              /\ UNCHANGED <<faults, faulty>>
           \/ Finish(p) /\ Fault(proc[p].room)
    /\ UNCHANGED <<roomVars, webhooks, rowVars, unstopped>>

\* No egress worker is available, or LiveKit has run out of IDs (the bound).
StartEgressFails(p) ==
    /\ At(p, "start", "egress")
    /\ Finish(p)
    /\ UNCHANGED <<roomVars, lkVars, rowVars, faults, unstopped, faulty>>

\* variant: no foreign key
CreateRowAnyway(p) ==
    /\ At(p, "start", "create")
    /\ row' = [row EXCEPT ![proc[p].egress] = "started"]
    /\ Finish(p)
    /\ UNCHANGED <<roomVars, lkVars, sized, faults, unstopped, faulty>>

\* The foreign key refuses the row of a room that is gone.
CreateRow(p) ==
    /\ At(p, "start", "create")
    /\ row' = IF status[proc[p].room] = "deleted" THEN row
              ELSE [row EXCEPT ![proc[p].egress] = "started"]
    /\ Finish(p)
    /\ UNCHANGED <<roomVars, lkVars, sized, faults, unstopped, faulty>>

-----------------------------------------------------------------------------
(* StopRecording, and the recording part of endRoomInternal *)

StopRecording(p, e) ==
    /\ row[e] = "started"
    /\ Begin(p, "stop", "stop", roomOf[e], e)
    /\ UNCHANGED <<roomVars, lkVars, rowVars, faults, unstopped, faulty>>

\* The guarded transition of endRoomInternal, whoever calls it.
EndRoom(p, r) ==
    /\ status[r] = "active"
    /\ status' = [status EXCEPT ![r] = "finished"]
    /\ Begin(p, "end", "lookup", r, NoEgress)
    /\ rushed' = IF Starting(r) THEN rushed \cup {r} ELSE rushed
    /\ UNCHANGED <<lkVars, rowVars, faults, unstopped, settled, faulty>>

\* One active recording of the room, if it has any.
Lookup(p) ==
    /\ At(p, "end", "lookup")
    /\ LET r == proc[p].room IN
       \/ \E e \in ActiveIn(r) : Hold(p, "end", "stop", r, e) /\ UNCHANGED settled
       \/ ActiveIn(r) = {} /\ Finish(p) /\ settled' = settled \cup {r}
    /\ UNCHANGED <<status, rushed, lkVars, rowVars, faults, unstopped, faulty>>

\* variant: the teardown marks the row without stopping the egress
SaveOnly(p) ==
    /\ proc[p].at = "stop"
    /\ MoveTo(p, "save")
    /\ UNCHANGED <<roomVars, lkVars, rowVars, faults, unstopped, faulty>>

\* StopEgress only asks: the egress ends later, and may still fail.  An egress that
\* is over (or, LiveKit willing, ending) refuses: StopRecording then marks the row
\* failed, and the teardown completed, as both do when the request is accepted.
StopEgress(p) ==
    /\ proc[p].at = "stop"
    /\ LET e == proc[p].egress IN
       \/ /\ egress[e] \in {"running", "ending"}
          /\ egress' = [egress EXCEPT ![e] = "ending"]
          /\ MoveTo(p, "save")
       \/ /\ egress[e] # "running"
          /\ proc' = [proc EXCEPT ![p].at = "save",
                         ![p].status = IF proc[p].op = "stop" THEN "failed" ELSE "completed"]
          /\ UNCHANGED egress
    /\ UNCHANGED <<roomVars, roomOf, webhooks, rowVars, faults, unstopped, faulty>>

\* variant: StopRecording goes on when LiveKit could not be asked
StopAnyway(p) ==
    /\ proc[p].at = "stop"
    /\ Fault(proc[p].room)
    /\ MoveTo(p, "save")
    /\ unstopped' = IF proc[p].op = "end" THEN unstopped \cup {proc[p].egress} ELSE unstopped
    /\ UNCHANGED <<roomVars, lkVars, rowVars>>

\* LiveKit cannot be asked: StopRecording gives up, the teardown goes on.  (Where
\* only the answer is lost, the egress ends as one that nobody asked: EgressEnds.)
StopEgressFails(p) ==
    /\ proc[p].at = "stop"
    /\ Fault(proc[p].room)
    /\ \/ proc[p].op = "stop" /\ Finish(p) /\ UNCHANGED unstopped
       \/ /\ proc[p].op = "end"
          /\ MoveTo(p, "save")
          /\ unstopped' = unstopped \cup {proc[p].egress}
    /\ UNCHANGED <<roomVars, lkVars, rowVars>>

\* recordings.Update writes every column of the copy the handler holds.  The
\* row of a deleted room is gone and its foreign key keeps it so.
SaveRow(p) ==
    /\ proc[p].at = "save"
    /\ LET e == proc[p].egress IN
       IF row[e] = "none" THEN UNCHANGED rowVars
       ELSE /\ row' = [row EXCEPT ![e] = proc[p].status]
            /\ sized' = IF proc[p].sized THEN sized \cup {e} ELSE sized \ {e}
    /\ Finish(p)
    /\ settled' = IF proc[p].op = "end" THEN settled \cup {proc[p].room} ELSE settled
    /\ UNCHANGED <<status, rushed, lkVars, faults, unstopped, faulty>>

-----------------------------------------------------------------------------
(* Webhooks, LiveKit, and everything that goes wrong *)

\* variant: the webhook only fills in the file and saves the status it read
OnEgressEndedKeepsStatus(p, e) ==
    /\ e \in webhooks
    /\ webhooks' \in {webhooks, webhooks \ {e}}
    /\ row[e] # "none"
    /\ proc[p] = Idle
    /\ proc' = [proc EXCEPT ![p] =
                   [op |-> "ended", at |-> "save", room |-> roomOf[e], egress |-> e,
                    status |-> row[e], sized |-> TRUE]]
    /\ UNCHANGED <<roomVars, egress, roomOf, rowVars, faults, unstopped, faulty>>

\* OnEgressEnded takes the verdict, and the size of the file if there is one.
OnEgressEnded(p, e) ==
    /\ e \in webhooks
    /\ webhooks' \in {webhooks, webhooks \ {e}}
    /\ row[e] # "none"
    /\ proc[p] = Idle
    /\ proc' = [proc EXCEPT ![p] =
                   [op |-> "ended", at |-> "save", room |-> roomOf[e], egress |-> e,
                    status |-> egress[e], sized |-> e \in sized \/ egress[e] = "completed"]]
    /\ UNCHANGED <<roomVars, egress, roomOf, rowVars, faults, unstopped, faulty>>

\* A webhook that overtakes the row is dropped for good.
DropWebhook(e) ==
    /\ e \in webhooks
    /\ row[e] = "none"
    /\ webhooks' = webhooks \ {e}
    /\ UNCHANGED <<roomVars, egress, roomOf, rowVars, proc, faults, unstopped, faulty>>

\* The composite aborts, its room closes, or it is through with the stop it was
\* asked for: the verdict is known only now.
EgressEnds(e) ==
    /\ egress[e] \in {"running", "ending"}
    /\ \E verdict \in Terminal : Ends(e, verdict)
    /\ UNCHANGED <<roomVars, rowVars, proc, faults, unstopped, faulty>>

\* AdminHardDelete: the rows go with the room, its egress is left running.
AdminHardDelete(r) ==
    /\ status[r] # "deleted"
    /\ status' = [status EXCEPT ![r] = "deleted"]
    /\ row' = [e \in Egresses |-> IF roomOf[e] = r THEN "none" ELSE row[e]]
    /\ sized' = {e \in sized : roomOf[e] # r}
    /\ UNCHANGED <<lkVars, proc, faults, unstopped, settled, rushed, faulty>>

\* A process dies, or a query of it fails and it returns.
Crash(p) ==
    /\ proc[p] # Idle
    /\ Fault(proc[p].room)
    /\ Finish(p)
    /\ UNCHANGED <<roomVars, lkVars, rowVars, unstopped>>

-----------------------------------------------------------------------------

Next ==
    \/ \E p \in Requests :
        \/ FindActive(p) \/ CountActive(p) \/ StartEgress(p) \/ StartEgressFails(p)
        \/ CreateRow(p) \/ Lookup(p) \/ StopEgress(p) \/ StopEgressFails(p)
        \/ SaveRow(p) \/ Crash(p)
        \/ \E r \in Rooms : StartRecording(p, r) \/ EndRoom(p, r)
        \/ \E e \in Egresses : StopRecording(p, e) \/ OnEgressEnded(p, e)
    \/ \E e \in Egresses : DropWebhook(e) \/ EgressEnds(e)
    \/ \E r \in Rooms : AdminHardDelete(r)

Spec == Init /\ [][Next]_vars

-----------------------------------------------------------------------------
(* Properties *)

\* What the list of recordings says; where a room is deleted its entries are gone.
Entry == [e \in Egresses |->
    IF row[e] \in Terminal THEN "over"
    ELSE IF row[e] = "none" /\ roomOf[e] # NoRoom /\ status[roomOf[e]] = "deleted" THEN "gone"
    ELSE row[e]]

Phase == [e \in Egresses |-> IF egress[e] \in Terminal THEN "over" ELSE egress[e]]

Lifecycle == INSTANCE RecordingLifecycle
    WITH Recordings <- Egresses, phase <- Phase, entry <- Entry, givenUp <- unstopped

\* The recordings keep the promise of RecordingLifecycle: whichever stale copies are
\* saved over which, a recording is entered once, is marked over only when it was
\* asked to stop or has ended, and is neither brought back by a late save nor entered
\* for a room that was deleted.
ImplementsLifecycle == Lifecycle!Spec

\* Handlers save stale copies over each other, yet a recording that is over
\* never counts as active again and so never blocks its room or a slot.
NeverReopened ==
    [][\A e \in Egresses : row[e] \in Terminal => row'[e] # "started"]_vars

\* What an egress is once somebody asked it to stop, or it ended.
Stopped == {"ending"} \cup Terminal

\* A row is over, and its room and slot free, only once LiveKit was asked to stop the
\* egress or it ended by itself, or a teardown could not reach LiveKit and went on
\* regardless.  More the row does not say: the egress may still be ending, and fail.
OverMeansStopped ==
    \A e \in Egresses : row[e] \in Terminal =>
        egress[e] \in Stopped \/ e \in unstopped

\* CountActive and Create are two steps: starts that race exceed the cap, but by
\* no more than the other handlers in flight.
CapOvershoot == Cardinality(Active) < Cap + Cardinality(Requests)

\* A finished room leaves no recording that nobody asked to stop and none marked
\* active, unless a StartRecording overlapped another one or the end of the room, or
\* a handler failed.
QuietRoomReleased ==
    \A r \in settled \ (rushed \cup faulty) :
        status[r] = "finished" =>
            \A e \in Egresses : roomOf[e] = r => row[e] # "started" /\ egress[e] # "running"

\* "One active egress per room: a double-start would record (and bill) twice".
OneActivePerRoom == \A r \in Rooms : Cardinality(ActiveIn(r)) <= 1

\* What holds of it: only a StartRecording that overlapped another one, or the end
\* of the room, can make two; a call that fails or a process that dies cannot.
OneActiveUnlessRushed == \A r \in Rooms \ rushed : Cardinality(ActiveIn(r)) <= 1

\* OnEgressEnded is "the authoritative source for file size, duration, and
\* failure status": nothing written later takes back what it saved.
WebhookIsFinal ==
    [][\A e \in Egresses : e \in sized /\ row'[e] # "none" => e \in sized']_vars

\* What holds of it: a second webhook, or the same one delivered again, never takes
\* the size back; only the save of StopRecording or of the teardown does.
OnlyStopsErase ==
    [][\A e \in Egresses : e \in sized /\ row'[e] # "none" /\ e \notin sized' =>
        \E p \in Requests : proc[p].op \in {"stop", "end"} /\ proc[p].at = "save"
                                /\ proc[p].egress = e]_vars
=============================================================================
