--------------------------- MODULE LiveRoomProofs ---------------------------
(***************************************************************************)
(* Proofs about LiveRoom for every set of users, hosts and processes and   *)
(* every bound.  The inductive invariant is IndInv: the type invariant and *)
(* four named parts, each proved to be kept by every step from those       *)
(* before it.                                                              *)
(***************************************************************************)
EXTENDS LiveRoom, FiniteSetTheorems, TLAPS

-----------------------------------------------------------------------------
(* The inductive invariant *)

\* A handler that will write a participation row is a JoinRoom of some user.
JoinsHaveUsers ==
    \A p \in Procs :
        /\ proc[p].op = "join" => proc[p].user \in Users
        /\ proc[p].at \in {"reload"} \cup PastJoinChecks => proc[p].op = "join"

\* The teardown steps that come before each of them.
Before == [rows    |-> {},
           livekit |-> {"rows"},
           content |-> {"rows", "livekit"},
           timer   |-> {"rows", "livekit", "content"},
           jobs    |-> {"rows", "livekit", "content", "timer"}]

\* Teardown belongs to a room that has left "active", and has only run the
\* steps before the one its only closer is at.
TeardownInOrder ==
    /\ status \in {"created", "active"} => ran = {} /\ ~rowsClosed
    /\ \A p \in Procs : proc[p].at \in TeardownSteps =>
            /\ status \in {"finished", "deleted"}
            /\ ran \subseteq Before[proc[p].at]

\* Whoever has seen a host all along is right that one is connected, and is
\* not tearing the room down.
SteadyMeansHost ==
    \A p \in Procs : proc[p].steady =>
        HostConnected /\ proc[p].at \notin TeardownSteps

\* lateJoiners holds everyone whose JoinRoom is still to write its row.
LateJoinersKnown ==
    status = "finished" =>
        \A p \in Procs : /\ proc[p].op = "join"
                         /\ proc[p].at \in PastJoinChecks
                         => proc[p].user \in lateJoiners

-----------------------------------------------------------------------------
(* Types *)

LEMMA IdleType == Idle \in Handler
BY ConstantsAssumption DEF Idle, Handler, Stages, Ops

LEMMA TypeInit == Init => TypeOK
<1> SUFFICES ASSUME Init PROVE TypeOK
  OBVIOUS
<1>1. rows \in [Users -> 0..MaxRows]
  BY ConstantsAssumption DEF Init
<1>2. proc \in [Procs -> Handler]
  BY IdleType DEF Init
<1>3. crashes \in 0..MaxCrashes
  BY ConstantsAssumption DEF Init
<1> QED
  BY <1>1, <1>2, <1>3 DEF Init, TypeOK

\* What Begin, MoveTo and Finish leave in proc.
LEMMA BeginType ==
    ASSUME TypeOK, NEW p \in Procs, NEW op \in Ops, NEW s \in Stages,
           NEW u \in Users \cup {NoUser}, NEW r \in 0..MaxRows, Begin(p, op, s, u, r)
    PROVE  proc' \in [Procs -> Handler]
BY DEF TypeOK, Begin, Handler

LEMMA MoveToType ==
    ASSUME TypeOK, NEW p \in Procs, NEW s \in Stages, MoveTo(p, s)
    PROVE  proc' \in [Procs -> Handler]
BY DEF TypeOK, MoveTo, Handler

LEMMA FinishType ==
    ASSUME TypeOK, NEW p \in Procs, Finish(p)
    PROVE  proc' \in [Procs -> Handler]
BY IdleType DEF TypeOK, Finish

LEMMA UnsteadyType ==
    \A h \in Handler : /\ Unsteady(h) \in Handler
                        /\ Unsteady(h).op = h.op
                        /\ Unsteady(h).at = h.at
                        /\ Unsteady(h).user = h.user
                        /\ Unsteady(h).steady = FALSE
BY DEF Unsteady, Handler

LEMMA ProcsMembers ==
    /\ \A p \in Requests : p \in Procs
    /\ \A p \in Sweepers : p \in Procs
    /\ CloseTask \in Procs
BY DEF Procs

\* The webhooks LiveKit queues and the ones a delivery leaves.
LEMMA EventTypes ==
    ASSUME TypeOK
    PROVE  /\ \A e \in Event : Emit(e) => events' \subseteq Event
           /\ \A e : Receive(e) => events' \subseteq Event
           /\ \A u \in Users, t \in {"joined", "left"} : [type |-> t, user |-> u] \in Event
           /\ [type |-> "finished"] \in Event
BY DEF TypeOK, Emit, Receive, Event

\* Only JoinRoom leads to the stages that write a participation row.
LEMMA JoinsNext ==
    TypeOK /\ JoinsHaveUsers /\ [Next]_vars => JoinsHaveUsers'
<1> SUFFICES ASSUME TypeOK, JoinsHaveUsers, [Next]_vars PROVE JoinsHaveUsers'
  OBVIOUS
<1> USE ProcsMembers
<1> USE DEF JoinsHaveUsers, PastJoinChecks
<1>1. ASSUME NEW p \in Requests, NEW u \in Users, JoinRoom(p, u) PROVE JoinsHaveUsers'
  BY <1>1 DEF JoinRoom, Begin, TypeOK, Handler
<1>2. ASSUME NEW p \in Requests, NEW u \in Users, StartRoom(p, u) PROVE JoinsHaveUsers'
  BY <1>2 DEF StartRoom, Begin, TypeOK, Handler
<1>3. ASSUME NEW p \in Requests, NEW u \in Users, LeaveRoom(p, u) PROVE JoinsHaveUsers'
  BY <1>3 DEF LeaveRoom, Begin, TypeOK, Handler
<1>4. ASSUME NEW p \in Requests, NEW u \in Users, RemoveParticipant(p, u) PROVE JoinsHaveUsers'
  BY <1>4 DEF RemoveParticipant, Begin, TypeOK, Handler
<1>5. ASSUME NEW p \in Requests, NEW u \in Users, OnParticipantLeft(p, u) PROVE JoinsHaveUsers'
  BY <1>5 DEF OnParticipantLeft, Begin, TypeOK, Handler
<1>6. ASSUME NEW p \in Requests, NEW u \in Users, OnParticipantJoined(p, u) PROVE JoinsHaveUsers'
  BY <1>6 DEF OnParticipantJoined, Begin, TypeOK, Handler
<1>7. ASSUME NEW p \in Requests, EndRoom(p) PROVE JoinsHaveUsers'
  BY <1>7 DEF EndRoom, Begin, TypeOK, Handler
<1>8. ASSUME NEW p \in Requests, OnRoomFinished(p) PROVE JoinsHaveUsers'
  BY <1>8 DEF OnRoomFinished, Begin, TypeOK, Handler
<1>9. ASSUME NEW p \in Sweepers, SweepStart(p) PROVE JoinsHaveUsers'
  BY <1>9 DEF SweepStart, Begin, TypeOK, Handler
<1>10. ASSUME NEW e \in events, IgnoreWebhook(e) PROVE JoinsHaveUsers'
  BY <1>10 DEF IgnoreWebhook
<1>11. ASSUME FireTimer PROVE JoinsHaveUsers'
  BY <1>11 DEF FireTimer, Begin, TypeOK, Handler
<1>12. ASSUME Heartbeat PROVE JoinsHaveUsers'
  BY <1>12 DEF Heartbeat
<1>13. ASSUME AdminHardDelete PROVE JoinsHaveUsers'
  BY <1>13 DEF AdminHardDelete
<1>14. ASSUME NEW p \in Procs, LkCreate(p) PROVE JoinsHaveUsers'
  BY <1>14 DEF LkCreate, At, MoveTo, TypeOK, Handler
<1>15. ASSUME NEW p \in Procs, Activate(p) PROVE JoinsHaveUsers'
  BY <1>15 DEF Activate, At, MoveTo, Finish, TypeOK, Handler, Idle
<1>16. ASSUME NEW p \in Procs, Reload(p) PROVE JoinsHaveUsers'
  BY <1>16 DEF Reload, At, MoveTo, Finish, TypeOK, Handler, Idle
<1>17. ASSUME NEW p \in Procs, LkEnsure(p) PROVE JoinsHaveUsers'
  BY <1>17 DEF LkEnsure, At, MoveTo, TypeOK, Handler
<1>18. ASSUME NEW p \in Procs, FindRow(p) PROVE JoinsHaveUsers'
  BY <1>18 DEF FindRow, At, MoveTo, Finish, TypeOK, Handler, Idle
<1>19. ASSUME NEW p \in Procs, InsertRow(p) PROVE JoinsHaveUsers'
  BY <1>19 DEF InsertRow, At, Finish, TypeOK, Handler, Idle
<1>20. ASSUME NEW p \in Procs, SaveLeft(p) PROVE JoinsHaveUsers'
  BY <1>20 DEF SaveLeft, At, Finish, TypeOK, Handler, Idle
<1>21. ASSUME NEW p \in Procs, MarkLeft(p) PROVE JoinsHaveUsers'
  BY <1>21 DEF MarkLeft, At, Finish, TypeOK, Handler, Idle
<1>22. ASSUME NEW p \in Procs, Arm(p) PROVE JoinsHaveUsers'
  BY <1>22 DEF Arm, At, Finish, TypeOK, Handler, Idle
<1>23. ASSUME NEW p \in Procs, Disarm(p) PROVE JoinsHaveUsers'
  BY <1>23 DEF Disarm, At, Finish, TypeOK, Handler, Idle
<1>24. ASSUME NEW p \in Procs, CheckHost(p) PROVE JoinsHaveUsers'
  BY <1>24 DEF CheckHost, Answer, WithHost, WithoutHost, At, MoveTo, Finish, TypeOK, Handler, Idle
<1>25. ASSUME NEW p \in Procs, TouchHostLastSeen(p) PROVE JoinsHaveUsers'
  BY <1>25 DEF TouchHostLastSeen, At, Finish, TypeOK, Handler, Idle
<1>26. ASSUME NEW p \in Procs, CloseRoom(p) PROVE JoinsHaveUsers'
  BY <1>26 DEF CloseRoom, Transition, Conflict, At, MoveTo, Finish, TypeOK, Handler, Idle
<1>27. ASSUME NEW p \in Procs, TeardownRows(p) PROVE JoinsHaveUsers'
  BY <1>27 DEF TeardownRows, Step, At, MoveTo, TypeOK, Handler
<1>28. ASSUME NEW p \in Procs, TeardownLiveKit(p) PROVE JoinsHaveUsers'
  BY <1>28 DEF TeardownLiveKit, Unsteady, At, MoveTo, TypeOK, Handler
<1>29. ASSUME NEW p \in Procs, TeardownContent(p) PROVE JoinsHaveUsers'
  BY <1>29 DEF TeardownContent, Step, At, MoveTo, TypeOK, Handler
<1>30. ASSUME NEW p \in Procs, TeardownTimer(p) PROVE JoinsHaveUsers'
  BY <1>30 DEF TeardownTimer, Step, At, MoveTo, TypeOK, Handler
<1>31. ASSUME NEW p \in Procs, TeardownJobs(p) PROVE JoinsHaveUsers'
  BY <1>31 DEF TeardownJobs, At, Finish, TypeOK, Handler, Idle
<1>32. ASSUME NEW u \in Users, Connect(u) PROVE JoinsHaveUsers'
  BY <1>32 DEF Connect
<1>33. ASSUME NEW u \in Users, Disconnect(u) PROVE JoinsHaveUsers'
  BY <1>33 DEF Disconnect, Unsteady, TypeOK, Handler
<1>34. ASSUME LiveKitDropsRoom PROVE JoinsHaveUsers'
  BY <1>34 DEF LiveKitDropsRoom
<1>35. ASSUME GraceExpires PROVE JoinsHaveUsers'
  BY <1>35 DEF GraceExpires
<1>36. ASSUME NEW p \in Procs, Crash(p) PROVE JoinsHaveUsers'
  BY <1>36 DEF Crash, Finish, TypeOK, Handler, Idle
<1>37. ASSUME NEW p \in Procs, CheckFails(p) PROVE JoinsHaveUsers'
  BY <1>37 DEF CheckFails, At, Finish, TypeOK, Handler, Idle
<1>38. CASE UNCHANGED vars
  BY <1>38 DEF vars
<1> QED
  BY <1>1, <1>2, <1>3, <1>4, <1>5, <1>6, <1>7, <1>8, <1>9, <1>10, <1>11, <1>12, <1>13, <1>14, <1>15, <1>16, <1>17, <1>18, <1>19,
     <1>20, <1>21, <1>22, <1>23, <1>24, <1>25, <1>26, <1>27, <1>28, <1>29, <1>30, <1>31, <1>32, <1>33, <1>34, <1>35, <1>36, <1>37, <1>38
     DEF Next, NewRequest, Continue, Teardown, Environment

LEMMA TypeNext == TypeOK /\ JoinsHaveUsers /\ [Next]_vars => TypeOK'
<1> SUFFICES ASSUME TypeOK, JoinsHaveUsers, [Next]_vars PROVE TypeOK'
  OBVIOUS
<1> USE ProcsMembers, EventTypes
<1> USE DEF roomVars, lkVars, rowVars, historyVars, Stages, Ops, TeardownSteps
<1>1. ASSUME NEW p \in Requests, NEW u \in Users, JoinRoom(p, u) PROVE TypeOK'
  <2>1. proc' \in [Procs -> Handler]
    BY <1>1, BeginType, ConstantsAssumption DEF JoinRoom
  <2> QED
    BY <1>1, <2>1, ConstantsAssumption DEF JoinRoom, TypeOK
<1>2. ASSUME NEW p \in Requests, NEW u \in Users, StartRoom(p, u) PROVE TypeOK'
  <2>1. proc' \in [Procs -> Handler]
    BY <1>2, BeginType, ConstantsAssumption DEF StartRoom
  <2> QED
    BY <1>2, <2>1, ConstantsAssumption DEF StartRoom, TypeOK
<1>3. ASSUME NEW p \in Requests, NEW u \in Users, LeaveRoom(p, u) PROVE TypeOK'
  <2>1. proc' \in [Procs -> Handler]
    BY <1>3, BeginType, ConstantsAssumption DEF LeaveRoom, TypeOK
  <2> QED
    BY <1>3, <2>1, ConstantsAssumption DEF LeaveRoom, TypeOK
<1>4. ASSUME NEW p \in Requests, NEW u \in Users, RemoveParticipant(p, u) PROVE TypeOK'
  <2>1. proc' \in [Procs -> Handler]
    BY <1>4, BeginType, ConstantsAssumption DEF RemoveParticipant
  <2> QED
    BY <1>4, <2>1, ConstantsAssumption DEF RemoveParticipant, TypeOK
<1>5. ASSUME NEW p \in Requests, NEW u \in Users, OnParticipantLeft(p, u) PROVE TypeOK'
  <2>1. proc' \in [Procs -> Handler]
    BY <1>5, BeginType, ConstantsAssumption DEF OnParticipantLeft
  <2> QED
    BY <1>5, <2>1, ConstantsAssumption DEF OnParticipantLeft, TypeOK
<1>6. ASSUME NEW p \in Requests, NEW u \in Users, OnParticipantJoined(p, u) PROVE TypeOK'
  <2>1. proc' \in [Procs -> Handler]
    BY <1>6, BeginType, ConstantsAssumption DEF OnParticipantJoined
  <2> QED
    BY <1>6, <2>1, ConstantsAssumption DEF OnParticipantJoined, TypeOK
<1>7. ASSUME NEW p \in Requests, EndRoom(p) PROVE TypeOK'
  <2>1. proc' \in [Procs -> Handler]
    BY <1>7, BeginType, ConstantsAssumption DEF EndRoom
  <2> QED
    BY <1>7, <2>1, ConstantsAssumption DEF EndRoom, TypeOK
<1>8. ASSUME NEW p \in Requests, OnRoomFinished(p) PROVE TypeOK'
  <2>1. proc' \in [Procs -> Handler]
    BY <1>8, BeginType, ConstantsAssumption DEF OnRoomFinished
  <2> QED
    BY <1>8, <2>1, ConstantsAssumption DEF OnRoomFinished, TypeOK
<1>9. ASSUME NEW p \in Sweepers, SweepStart(p) PROVE TypeOK'
  <2>1. proc' \in [Procs -> Handler]
    BY <1>9, BeginType, ConstantsAssumption DEF SweepStart
  <2> QED
    BY <1>9, <2>1, ConstantsAssumption DEF SweepStart, TypeOK
<1>10. ASSUME NEW e \in events, IgnoreWebhook(e) PROVE TypeOK'
  BY <1>10 DEF IgnoreWebhook, TypeOK
<1>11. ASSUME FireTimer PROVE TypeOK'
  <2>1. proc' \in [Procs -> Handler]
    <3>1. CASE Begin(CloseTask, "task", "check", NoUser, 0)
      BY <3>1, BeginType, ConstantsAssumption
    <3>2. CASE UNCHANGED proc
      BY <3>2 DEF TypeOK
    <3> QED
      BY <1>11, <3>1, <3>2 DEF FireTimer
  <2> QED
    BY <1>11, <2>1, ConstantsAssumption DEF FireTimer, TypeOK
<1>12. ASSUME Heartbeat PROVE TypeOK'
  BY <1>12 DEF Heartbeat, TypeOK
<1>13. ASSUME AdminHardDelete PROVE TypeOK'
  BY <1>13 DEF AdminHardDelete, TypeOK
<1>14. ASSUME NEW p \in Procs, LkCreate(p) PROVE TypeOK'
  <2>1. proc' \in [Procs -> Handler]
    BY <1>14, MoveToType DEF LkCreate
  <2> QED
    BY <1>14, <2>1 DEF LkCreate, TypeOK
<1>15. ASSUME NEW p \in Procs, Activate(p) PROVE TypeOK'
  <2>1. proc' \in [Procs -> Handler]
    BY <1>15, MoveToType, FinishType DEF Activate
  <2> QED
    BY <1>15, <2>1 DEF Activate, TypeOK
<1>16. ASSUME NEW p \in Procs, Reload(p) PROVE TypeOK'
  <2>1. proc' \in [Procs -> Handler]
    BY <1>16, MoveToType, FinishType DEF Reload
  <2> QED
    BY <1>16, <2>1 DEF Reload, TypeOK
<1>17. ASSUME NEW p \in Procs, LkEnsure(p) PROVE TypeOK'
  <2>1. proc' \in [Procs -> Handler]
    BY <1>17, MoveToType DEF LkEnsure
  <2> QED
    BY <1>17, <2>1 DEF LkEnsure, TypeOK
<1>18. ASSUME NEW p \in Procs, FindRow(p) PROVE TypeOK'
  <2>1. proc[p].user \in Users
    BY <1>18 DEF FindRow, At, JoinsHaveUsers, PastJoinChecks
  <2>2. proc' \in [Procs -> Handler]
    BY <1>18, MoveToType, FinishType DEF FindRow
  <2> QED
    BY <1>18, <2>1, <2>2, ConstantsAssumption DEF FindRow, TypeOK
<1>19. ASSUME NEW p \in Procs, InsertRow(p) PROVE TypeOK'
  <2>1. proc[p].user \in Users
    BY <1>19 DEF InsertRow, At, JoinsHaveUsers, PastJoinChecks
  <2>2. proc' \in [Procs -> Handler]
    BY <1>19, FinishType DEF InsertRow
  <2> QED
    BY <1>19, <2>1, <2>2, ConstantsAssumption DEF InsertRow, TypeOK
<1>20. ASSUME NEW p \in Procs, SaveLeft(p) PROVE TypeOK'
  <2>1. proc' \in [Procs -> Handler]
    BY <1>20, FinishType DEF SaveLeft
  <2> QED
    BY <1>20, <2>1 DEF SaveLeft, TypeOK
<1>21. ASSUME NEW p \in Procs, MarkLeft(p) PROVE TypeOK'
  <2>1. proc' \in [Procs -> Handler]
    BY <1>21, FinishType DEF MarkLeft
  <2> QED
    BY <1>21, <2>1 DEF MarkLeft, TypeOK
<1>22. ASSUME NEW p \in Procs, Arm(p) PROVE TypeOK'
  <2>1. proc' \in [Procs -> Handler]
    BY <1>22, FinishType DEF Arm
  <2> QED
    BY <1>22, <2>1 DEF Arm, TypeOK
<1>23. ASSUME NEW p \in Procs, Disarm(p) PROVE TypeOK'
  <2>1. proc' \in [Procs -> Handler]
    BY <1>23, FinishType DEF Disarm
  <2> QED
    BY <1>23, <2>1 DEF Disarm, Cancelled, TypeOK
<1>24. ASSUME NEW p \in Procs, CheckHost(p) PROVE TypeOK'
  <2>1. proc' \in [Procs -> Handler]
    BY <1>24, MoveToType, FinishType DEF CheckHost, Answer, WithHost, WithoutHost
  <2> QED
    BY <1>24, <2>1 DEF CheckHost, Answer, WithHost, WithoutHost, Complete, TypeOK
<1>25. ASSUME NEW p \in Procs, TouchHostLastSeen(p) PROVE TypeOK'
  <2>1. proc' \in [Procs -> Handler]
    BY <1>25, FinishType DEF TouchHostLastSeen
  <2> QED
    BY <1>25, <2>1 DEF TouchHostLastSeen, TypeOK
<1>26. ASSUME NEW p \in Procs, CloseRoom(p) PROVE TypeOK'
  <2>1. proc' \in [Procs -> Handler]
    BY <1>26, MoveToType, FinishType DEF CloseRoom, Transition, Conflict
  <2> QED
    BY <1>26, <2>1 DEF CloseRoom, Transition, Conflict, Retry, TypeOK
<1>27. ASSUME NEW p \in Procs, TeardownRows(p) PROVE TypeOK'
  <2>1. proc' \in [Procs -> Handler]
    BY <1>27, MoveToType DEF TeardownRows, Step
  <2> QED
    BY <1>27, <2>1 DEF TeardownRows, Step, TypeOK
<1>28. ASSUME NEW p \in Procs, TeardownLiveKit(p) PROVE TypeOK'
  <2>1. proc' \in [Procs -> Handler]
    <3>1. CASE proc' = [q \in Procs |-> IF q = p THEN [proc[p] EXCEPT !.at = "content"]
                                                 ELSE Unsteady(proc[q])]
      <4>1. [proc[p] EXCEPT !.at = "content"] \in Handler
        BY DEF TypeOK, Handler
      <4> QED
        BY <3>1, <4>1, UnsteadyType DEF TypeOK
    <3>2. CASE MoveTo(p, "content")
      BY <3>2, MoveToType
    <3> QED
      BY <1>28, <3>1, <3>2 DEF TeardownLiveKit
  <2> QED
    BY <1>28, <2>1 DEF TeardownLiveKit, Unsteady, TypeOK
<1>29. ASSUME NEW p \in Procs, TeardownContent(p) PROVE TypeOK'
  <2>1. proc' \in [Procs -> Handler]
    BY <1>29, MoveToType DEF TeardownContent, Step
  <2> QED
    BY <1>29, <2>1 DEF TeardownContent, Step, TypeOK
<1>30. ASSUME NEW p \in Procs, TeardownTimer(p) PROVE TypeOK'
  <2>1. proc' \in [Procs -> Handler]
    BY <1>30, MoveToType DEF TeardownTimer, Step
  <2> QED
    BY <1>30, <2>1 DEF TeardownTimer, Step, Cancelled, TypeOK
<1>31. ASSUME NEW p \in Procs, TeardownJobs(p) PROVE TypeOK'
  <2>1. proc' \in [Procs -> Handler]
    BY <1>31, FinishType DEF TeardownJobs
  <2> QED
    BY <1>31, <2>1 DEF TeardownJobs, Complete, TypeOK
<1>32. ASSUME NEW u \in Users, Connect(u) PROVE TypeOK'
  BY <1>32 DEF Connect, TypeOK
<1>33. ASSUME NEW u \in Users, Disconnect(u) PROVE TypeOK'
  <2>1. proc' \in [Procs -> Handler]
    BY <1>33, UnsteadyType DEF Disconnect, TypeOK
  <2> QED
    BY <1>33, <2>1 DEF Disconnect, TypeOK
<1>34. ASSUME LiveKitDropsRoom PROVE TypeOK'
  BY <1>34 DEF LiveKitDropsRoom, TypeOK
<1>35. ASSUME GraceExpires PROVE TypeOK'
  BY <1>35 DEF GraceExpires, TypeOK
<1>36. ASSUME NEW p \in Procs, Crash(p) PROVE TypeOK'
  <2>1. proc' \in [Procs -> Handler]
    BY <1>36, FinishType DEF Crash
  <2> QED
    BY <1>36, <2>1, ConstantsAssumption DEF Crash, Retry, TypeOK
<1>37. ASSUME NEW p \in Procs, CheckFails(p) PROVE TypeOK'
  <2>1. proc' \in [Procs -> Handler]
    BY <1>37, FinishType DEF CheckFails
  <2> QED
    BY <1>37, <2>1 DEF CheckFails, Retry, TypeOK
<1>38. CASE UNCHANGED vars
  BY <1>38 DEF vars, TypeOK
<1> QED
  BY <1>1, <1>2, <1>3, <1>4, <1>5, <1>6, <1>7, <1>8, <1>9, <1>10, <1>11, <1>12, <1>13, <1>14, <1>15, <1>16, <1>17, <1>18, <1>19,
     <1>20, <1>21, <1>22, <1>23, <1>24, <1>25, <1>26, <1>27, <1>28, <1>29, <1>30, <1>31, <1>32, <1>33, <1>34, <1>35, <1>36, <1>37, <1>38
     DEF Next, NewRequest, Continue, Teardown, Environment

-----------------------------------------------------------------------------
(* Closing the room *)

LEMMA ClosingNext ==
    TypeOK /\ OneCloser /\ TeardownInOrder /\ [Next]_vars
        => OneCloser' /\ TeardownInOrder'
<1> SUFFICES ASSUME TypeOK, OneCloser, TeardownInOrder, [Next]_vars
             PROVE  OneCloser' /\ TeardownInOrder'
  OBVIOUS
<1> USE ProcsMembers
<1> USE DEF OneCloser, TeardownInOrder, TeardownSteps, Before, roomVars, historyVars
<1>1. ASSUME NEW p \in Requests, NEW u \in Users, JoinRoom(p, u)
      PROVE  OneCloser' /\ TeardownInOrder'
  BY <1>1 DEF JoinRoom, Begin, TypeOK, Handler
<1>2. ASSUME NEW p \in Requests, NEW u \in Users, StartRoom(p, u)
      PROVE  OneCloser' /\ TeardownInOrder'
  BY <1>2 DEF StartRoom, Begin, TypeOK, Handler
<1>3. ASSUME NEW p \in Requests, NEW u \in Users, LeaveRoom(p, u)
      PROVE  OneCloser' /\ TeardownInOrder'
  BY <1>3 DEF LeaveRoom, Begin, TypeOK, Handler
<1>4. ASSUME NEW p \in Requests, NEW u \in Users, RemoveParticipant(p, u)
      PROVE  OneCloser' /\ TeardownInOrder'
  BY <1>4 DEF RemoveParticipant, Begin, TypeOK, Handler
<1>5. ASSUME NEW p \in Requests, NEW u \in Users, OnParticipantLeft(p, u)
      PROVE  OneCloser' /\ TeardownInOrder'
  BY <1>5 DEF OnParticipantLeft, Begin, TypeOK, Handler
<1>6. ASSUME NEW p \in Requests, NEW u \in Users, OnParticipantJoined(p, u)
      PROVE  OneCloser' /\ TeardownInOrder'
  BY <1>6 DEF OnParticipantJoined, Begin, TypeOK, Handler
<1>7. ASSUME NEW p \in Requests, EndRoom(p) PROVE OneCloser' /\ TeardownInOrder'
  BY <1>7 DEF EndRoom, Begin, TypeOK, Handler
<1>8. ASSUME NEW p \in Requests, OnRoomFinished(p) PROVE OneCloser' /\ TeardownInOrder'
  BY <1>8 DEF OnRoomFinished, Begin, TypeOK, Handler
<1>9. ASSUME NEW p \in Sweepers, SweepStart(p) PROVE OneCloser' /\ TeardownInOrder'
  BY <1>9 DEF SweepStart, Begin, TypeOK, Handler
<1>10. ASSUME NEW e \in events, IgnoreWebhook(e) PROVE OneCloser' /\ TeardownInOrder'
  BY <1>10 DEF IgnoreWebhook
<1>11. ASSUME FireTimer PROVE OneCloser' /\ TeardownInOrder'
  BY <1>11 DEF FireTimer, Begin, TypeOK, Handler
<1>12. ASSUME Heartbeat PROVE OneCloser' /\ TeardownInOrder'
  BY <1>12 DEF Heartbeat
<1>13. ASSUME AdminHardDelete PROVE OneCloser' /\ TeardownInOrder'
  BY <1>13 DEF AdminHardDelete
<1>14. ASSUME NEW p \in Procs, LkCreate(p) PROVE OneCloser' /\ TeardownInOrder'
  BY <1>14 DEF LkCreate, At, MoveTo, TypeOK, Handler
<1>15. ASSUME NEW p \in Procs, Activate(p) PROVE OneCloser' /\ TeardownInOrder'
  <2>1. CASE status = "created"
    BY <1>15, <2>1 DEF Activate, At, MoveTo, Finish, TypeOK, Handler, Idle
  <2>2. CASE status # "created"
    BY <1>15, <2>2 DEF Activate, At, MoveTo, Finish, TypeOK, Handler, Idle
  <2> QED
    BY <2>1, <2>2
<1>16. ASSUME NEW p \in Procs, Reload(p) PROVE OneCloser' /\ TeardownInOrder'
  BY <1>16 DEF Reload, At, MoveTo, Finish, TypeOK, Handler, Idle
<1>17. ASSUME NEW p \in Procs, LkEnsure(p) PROVE OneCloser' /\ TeardownInOrder'
  BY <1>17 DEF LkEnsure, At, MoveTo, TypeOK, Handler
<1>18. ASSUME NEW p \in Procs, FindRow(p) PROVE OneCloser' /\ TeardownInOrder'
  BY <1>18 DEF FindRow, At, MoveTo, Finish, TypeOK, Handler, Idle
<1>19. ASSUME NEW p \in Procs, InsertRow(p) PROVE OneCloser' /\ TeardownInOrder'
  BY <1>19 DEF InsertRow, At, Finish, TypeOK, Handler, Idle
<1>20. ASSUME NEW p \in Procs, SaveLeft(p) PROVE OneCloser' /\ TeardownInOrder'
  BY <1>20 DEF SaveLeft, At, Finish, TypeOK, Handler, Idle
<1>21. ASSUME NEW p \in Procs, MarkLeft(p) PROVE OneCloser' /\ TeardownInOrder'
  BY <1>21 DEF MarkLeft, At, Finish, TypeOK, Handler, Idle
<1>22. ASSUME NEW p \in Procs, Arm(p) PROVE OneCloser' /\ TeardownInOrder'
  BY <1>22 DEF Arm, At, Finish, TypeOK, Handler, Idle
<1>23. ASSUME NEW p \in Procs, Disarm(p) PROVE OneCloser' /\ TeardownInOrder'
  BY <1>23 DEF Disarm, At, Finish, TypeOK, Handler, Idle
<1>24. ASSUME NEW p \in Procs, CheckHost(p) PROVE OneCloser' /\ TeardownInOrder'
  BY <1>24 DEF CheckHost, Answer, WithHost, WithoutHost, At, MoveTo, Finish, TypeOK, Handler, Idle
<1>25. ASSUME NEW p \in Procs, TouchHostLastSeen(p) PROVE OneCloser' /\ TeardownInOrder'
  BY <1>25 DEF TouchHostLastSeen, At, Finish, TypeOK, Handler, Idle
<1>26. ASSUME NEW p \in Procs, CloseRoom(p) PROVE OneCloser' /\ TeardownInOrder'
  BY <1>26 DEF CloseRoom, Transition, Conflict, At, MoveTo, Finish, TypeOK, Handler, Idle
<1>27. ASSUME NEW p \in Procs, TeardownRows(p) PROVE OneCloser' /\ TeardownInOrder'
  BY <1>27 DEF TeardownRows, Step, At, MoveTo, TypeOK, Handler
<1>28. ASSUME NEW p \in Procs, TeardownLiveKit(p) PROVE OneCloser' /\ TeardownInOrder'
  BY <1>28, UnsteadyType DEF TeardownLiveKit, At, MoveTo, TypeOK, Handler
<1>29. ASSUME NEW p \in Procs, TeardownContent(p) PROVE OneCloser' /\ TeardownInOrder'
  BY <1>29 DEF TeardownContent, Step, At, MoveTo, TypeOK, Handler
<1>30. ASSUME NEW p \in Procs, TeardownTimer(p) PROVE OneCloser' /\ TeardownInOrder'
  BY <1>30 DEF TeardownTimer, Step, At, MoveTo, TypeOK, Handler
<1>31. ASSUME NEW p \in Procs, TeardownJobs(p) PROVE OneCloser' /\ TeardownInOrder'
  BY <1>31 DEF TeardownJobs, At, Finish, TypeOK, Handler, Idle
<1>32. ASSUME NEW u \in Users, Connect(u) PROVE OneCloser' /\ TeardownInOrder'
  BY <1>32 DEF Connect
<1>33. ASSUME NEW u \in Users, Disconnect(u) PROVE OneCloser' /\ TeardownInOrder'
  BY <1>33, UnsteadyType DEF Disconnect, TypeOK, Handler
<1>34. ASSUME LiveKitDropsRoom PROVE OneCloser' /\ TeardownInOrder'
  BY <1>34 DEF LiveKitDropsRoom
<1>35. ASSUME GraceExpires PROVE OneCloser' /\ TeardownInOrder'
  BY <1>35 DEF GraceExpires
<1>36. ASSUME NEW p \in Procs, Crash(p) PROVE OneCloser' /\ TeardownInOrder'
  BY <1>36 DEF Crash, Finish, TypeOK, Handler, Idle
<1>37. ASSUME NEW p \in Procs, CheckFails(p) PROVE OneCloser' /\ TeardownInOrder'
  BY <1>37 DEF CheckFails, At, Finish, TypeOK, Handler, Idle
<1>38. CASE UNCHANGED vars
  BY <1>38 DEF vars
<1> QED
  BY <1>1, <1>2, <1>3, <1>4, <1>5, <1>6, <1>7, <1>8, <1>9, <1>10, <1>11, <1>12, <1>13, <1>14, <1>15, <1>16, <1>17, <1>18, <1>19,
     <1>20, <1>21, <1>22, <1>23, <1>24, <1>25, <1>26, <1>27, <1>28, <1>29, <1>30, <1>31, <1>32, <1>33, <1>34, <1>35, <1>36, <1>37, <1>38
     DEF Next, NewRequest, Continue, Teardown, Environment

-----------------------------------------------------------------------------
(* A steady host *)

LEMMA SteadyNext ==
    TypeOK /\ SteadyMeansHost /\ SteadyHostKeepsRoom /\ [Next]_vars
        => SteadyMeansHost' /\ SteadyHostKeepsRoom'
<1> SUFFICES ASSUME TypeOK, SteadyMeansHost, SteadyHostKeepsRoom, [Next]_vars
             PROVE  SteadyMeansHost' /\ SteadyHostKeepsRoom'
  OBVIOUS
<1> USE ProcsMembers
<1> USE DEF SteadyMeansHost, SteadyHostKeepsRoom, HostConnected, TeardownSteps, lkVars
<1>1. ASSUME NEW p \in Requests, NEW u \in Users, JoinRoom(p, u)
      PROVE  SteadyMeansHost' /\ SteadyHostKeepsRoom'
  <2>1. \A q \in Procs : proc'[q] = proc[q] \/ (~proc'[q].steady /\ proc'[q].at # "close")
    <3>1. CASE Begin(p, "join", "lkensure", u, 0)
      BY <3>1 DEF Begin, TypeOK
    <3>2. CASE Begin(p, "join", "lkcreate", u, 0)
      BY <3>2 DEF Begin, TypeOK
    <3> QED
      BY <1>1, <3>1, <3>2 DEF JoinRoom
  <2> QED
    BY <1>1, <2>1 DEF JoinRoom
<1>2. ASSUME NEW p \in Requests, NEW u \in Users, StartRoom(p, u)
      PROVE  SteadyMeansHost' /\ SteadyHostKeepsRoom'
  BY <1>2 DEF StartRoom, Begin, TypeOK, Handler
<1>3. ASSUME NEW p \in Requests, NEW u \in Users, LeaveRoom(p, u)
      PROVE  SteadyMeansHost' /\ SteadyHostKeepsRoom'
  BY <1>3 DEF LeaveRoom, Begin, TypeOK, Handler
<1>4. ASSUME NEW p \in Requests, NEW u \in Users, RemoveParticipant(p, u)
      PROVE  SteadyMeansHost' /\ SteadyHostKeepsRoom'
  BY <1>4 DEF RemoveParticipant, Begin, TypeOK, Handler
<1>5. ASSUME NEW p \in Requests, NEW u \in Users, OnParticipantLeft(p, u)
      PROVE  SteadyMeansHost' /\ SteadyHostKeepsRoom'
  BY <1>5 DEF OnParticipantLeft, Begin, TypeOK, Handler
<1>6. ASSUME NEW p \in Requests, NEW u \in Users, OnParticipantJoined(p, u)
      PROVE  SteadyMeansHost' /\ SteadyHostKeepsRoom'
  BY <1>6 DEF OnParticipantJoined, Begin, TypeOK, Handler
<1>7. ASSUME NEW p \in Requests, EndRoom(p) PROVE SteadyMeansHost' /\ SteadyHostKeepsRoom'
  BY <1>7 DEF EndRoom, Begin, TypeOK, Handler
<1>8. ASSUME NEW p \in Requests, OnRoomFinished(p) PROVE SteadyMeansHost' /\ SteadyHostKeepsRoom'
  BY <1>8 DEF OnRoomFinished, Begin, TypeOK, Handler
<1>9. ASSUME NEW p \in Sweepers, SweepStart(p) PROVE SteadyMeansHost' /\ SteadyHostKeepsRoom'
  BY <1>9 DEF SweepStart, Begin, TypeOK, Handler
<1>10. ASSUME NEW e \in events, IgnoreWebhook(e) PROVE SteadyMeansHost' /\ SteadyHostKeepsRoom'
  BY <1>10 DEF IgnoreWebhook
<1>11. ASSUME FireTimer PROVE SteadyMeansHost' /\ SteadyHostKeepsRoom'
  BY <1>11 DEF FireTimer, Begin, TypeOK, Handler
<1>12. ASSUME Heartbeat PROVE SteadyMeansHost' /\ SteadyHostKeepsRoom'
  BY <1>12 DEF Heartbeat
<1>13. ASSUME AdminHardDelete PROVE SteadyMeansHost' /\ SteadyHostKeepsRoom'
  BY <1>13 DEF AdminHardDelete
<1>14. ASSUME NEW p \in Procs, LkCreate(p) PROVE SteadyMeansHost' /\ SteadyHostKeepsRoom'
  BY <1>14 DEF LkCreate, At, MoveTo, TypeOK, Handler
<1>15. ASSUME NEW p \in Procs, Activate(p) PROVE SteadyMeansHost' /\ SteadyHostKeepsRoom'
  BY <1>15 DEF Activate, At, MoveTo, Finish, TypeOK, Handler, Idle
<1>16. ASSUME NEW p \in Procs, Reload(p) PROVE SteadyMeansHost' /\ SteadyHostKeepsRoom'
  BY <1>16 DEF Reload, At, MoveTo, Finish, TypeOK, Handler, Idle
<1>17. ASSUME NEW p \in Procs, LkEnsure(p) PROVE SteadyMeansHost' /\ SteadyHostKeepsRoom'
  BY <1>17 DEF LkEnsure, At, MoveTo, TypeOK, Handler
<1>18. ASSUME NEW p \in Procs, FindRow(p) PROVE SteadyMeansHost' /\ SteadyHostKeepsRoom'
  BY <1>18 DEF FindRow, At, MoveTo, Finish, TypeOK, Handler, Idle
<1>19. ASSUME NEW p \in Procs, InsertRow(p) PROVE SteadyMeansHost' /\ SteadyHostKeepsRoom'
  BY <1>19 DEF InsertRow, At, Finish, TypeOK, Handler, Idle
<1>20. ASSUME NEW p \in Procs, SaveLeft(p) PROVE SteadyMeansHost' /\ SteadyHostKeepsRoom'
  BY <1>20 DEF SaveLeft, At, Finish, TypeOK, Handler, Idle
<1>21. ASSUME NEW p \in Procs, MarkLeft(p) PROVE SteadyMeansHost' /\ SteadyHostKeepsRoom'
  BY <1>21 DEF MarkLeft, At, Finish, TypeOK, Handler, Idle
<1>22. ASSUME NEW p \in Procs, Arm(p) PROVE SteadyMeansHost' /\ SteadyHostKeepsRoom'
  BY <1>22 DEF Arm, At, Finish, TypeOK, Handler, Idle
<1>23. ASSUME NEW p \in Procs, Disarm(p) PROVE SteadyMeansHost' /\ SteadyHostKeepsRoom'
  BY <1>23 DEF Disarm, At, Finish, TypeOK, Handler, Idle
<1>24. ASSUME NEW p \in Procs, CheckHost(p) PROVE SteadyMeansHost' /\ SteadyHostKeepsRoom'
  BY <1>24 DEF CheckHost, Answer, WithHost, WithoutHost, At, MoveTo, Finish, TypeOK, Handler, Idle
<1>25. ASSUME NEW p \in Procs, TouchHostLastSeen(p) PROVE SteadyMeansHost' /\ SteadyHostKeepsRoom'
  BY <1>25 DEF TouchHostLastSeen, At, Finish, TypeOK, Handler, Idle
<1>26. ASSUME NEW p \in Procs, CloseRoom(p) PROVE SteadyMeansHost' /\ SteadyHostKeepsRoom'
  BY <1>26 DEF CloseRoom, Transition, Conflict, At, MoveTo, Finish, TypeOK, Handler, Idle
<1>27. ASSUME NEW p \in Procs, TeardownRows(p) PROVE SteadyMeansHost' /\ SteadyHostKeepsRoom'
  BY <1>27 DEF TeardownRows, Step, At, MoveTo, TypeOK, Handler
<1>28. ASSUME NEW p \in Procs, TeardownLiveKit(p) PROVE SteadyMeansHost' /\ SteadyHostKeepsRoom'
  <2>1. \A q \in Procs : /\ proc'[q].steady => proc[q].steady /\ q # p
                         /\ proc'[q].at = "close" => proc[q].at = "close"
                         /\ q # p => proc'[q].at = proc[q].at
    BY <1>28, UnsteadyType DEF TeardownLiveKit, At, MoveTo, TypeOK, Handler
  <2>2. ~proc[p].steady
    BY <1>28 DEF TeardownLiveKit, At
  <2>3. CASE proc' = [q \in Procs |-> IF q = p THEN [proc[p] EXCEPT !.at = "content"]
                                               ELSE Unsteady(proc[q])]
    <3>1. [proc[p] EXCEPT !.at = "content"].steady = proc[p].steady
      BY DEF TypeOK, Handler
    <3>2. \A q \in Procs : ~proc'[q].steady
      BY <2>2, <2>3, <3>1, UnsteadyType DEF TypeOK
    <3> QED
      BY <3>2
  <2>4. CASE UNCHANGED connected
    BY <2>1, <2>4
  <2> QED
    BY <1>28, <2>3, <2>4 DEF TeardownLiveKit
<1>29. ASSUME NEW p \in Procs, TeardownContent(p) PROVE SteadyMeansHost' /\ SteadyHostKeepsRoom'
  BY <1>29 DEF TeardownContent, Step, At, MoveTo, TypeOK, Handler
<1>30. ASSUME NEW p \in Procs, TeardownTimer(p) PROVE SteadyMeansHost' /\ SteadyHostKeepsRoom'
  BY <1>30 DEF TeardownTimer, Step, At, MoveTo, TypeOK, Handler
<1>31. ASSUME NEW p \in Procs, TeardownJobs(p) PROVE SteadyMeansHost' /\ SteadyHostKeepsRoom'
  BY <1>31 DEF TeardownJobs, At, Finish, TypeOK, Handler, Idle
<1>32. ASSUME NEW u \in Users, Connect(u) PROVE SteadyMeansHost' /\ SteadyHostKeepsRoom'
  BY <1>32 DEF Connect
<1>33. ASSUME NEW u \in Users, Disconnect(u) PROVE SteadyMeansHost' /\ SteadyHostKeepsRoom'
  BY <1>33, UnsteadyType DEF Disconnect, TypeOK, Handler
<1>34. ASSUME LiveKitDropsRoom PROVE SteadyMeansHost' /\ SteadyHostKeepsRoom'
  BY <1>34 DEF LiveKitDropsRoom
<1>35. ASSUME GraceExpires PROVE SteadyMeansHost' /\ SteadyHostKeepsRoom'
  BY <1>35 DEF GraceExpires
<1>36. ASSUME NEW p \in Procs, Crash(p) PROVE SteadyMeansHost' /\ SteadyHostKeepsRoom'
  BY <1>36 DEF Crash, Finish, TypeOK, Handler, Idle
<1>37. ASSUME NEW p \in Procs, CheckFails(p) PROVE SteadyMeansHost' /\ SteadyHostKeepsRoom'
  BY <1>37 DEF CheckFails, At, Finish, TypeOK, Handler, Idle
<1>38. CASE UNCHANGED vars
  BY <1>38 DEF vars
<1> QED
  BY <1>1, <1>2, <1>3, <1>4, <1>5, <1>6, <1>7, <1>8, <1>9, <1>10, <1>11, <1>12, <1>13, <1>14, <1>15, <1>16, <1>17, <1>18, <1>19,
     <1>20, <1>21, <1>22, <1>23, <1>24, <1>25, <1>26, <1>27, <1>28, <1>29, <1>30, <1>31, <1>32, <1>33, <1>34, <1>35, <1>36, <1>37, <1>38
     DEF Next, NewRequest, Continue, Teardown, Environment

-----------------------------------------------------------------------------
(* Late joiners *)

LEMMA LateNext ==
    TypeOK /\ JoinsHaveUsers /\ TeardownInOrder /\ LateJoinersKnown
        /\ OnlyLateJoinersStayOpen /\ [Next]_vars
        => LateJoinersKnown' /\ OnlyLateJoinersStayOpen'
<1> SUFFICES ASSUME TypeOK, JoinsHaveUsers, TeardownInOrder, LateJoinersKnown,
                    OnlyLateJoinersStayOpen, [Next]_vars
             PROVE  LateJoinersKnown' /\ OnlyLateJoinersStayOpen'
  OBVIOUS
<1> USE ProcsMembers
<1> USE DEF LateJoinersKnown, OnlyLateJoinersStayOpen, TeardownInOrder, PastJoinChecks,
            roomVars, rowVars, historyVars
<1>1. ASSUME NEW p \in Requests, NEW u \in Users, JoinRoom(p, u)
      PROVE  LateJoinersKnown' /\ OnlyLateJoinersStayOpen'
  BY <1>1 DEF JoinRoom, Begin, TypeOK, Handler
<1>2. ASSUME NEW p \in Requests, NEW u \in Users, StartRoom(p, u)
      PROVE  LateJoinersKnown' /\ OnlyLateJoinersStayOpen'
  BY <1>2 DEF StartRoom, Begin, TypeOK, Handler
<1>3. ASSUME NEW p \in Requests, NEW u \in Users, LeaveRoom(p, u)
      PROVE  LateJoinersKnown' /\ OnlyLateJoinersStayOpen'
  BY <1>3 DEF LeaveRoom, Begin, TypeOK, Handler
<1>4. ASSUME NEW p \in Requests, NEW u \in Users, RemoveParticipant(p, u)
      PROVE  LateJoinersKnown' /\ OnlyLateJoinersStayOpen'
  BY <1>4 DEF RemoveParticipant, Begin, TypeOK, Handler
<1>5. ASSUME NEW p \in Requests, NEW u \in Users, OnParticipantLeft(p, u)
      PROVE  LateJoinersKnown' /\ OnlyLateJoinersStayOpen'
  BY <1>5 DEF OnParticipantLeft, Begin, TypeOK, Handler
<1>6. ASSUME NEW p \in Requests, NEW u \in Users, OnParticipantJoined(p, u)
      PROVE  LateJoinersKnown' /\ OnlyLateJoinersStayOpen'
  BY <1>6 DEF OnParticipantJoined, Begin, TypeOK, Handler
<1>7. ASSUME NEW p \in Requests, EndRoom(p) PROVE LateJoinersKnown' /\ OnlyLateJoinersStayOpen'
  BY <1>7 DEF EndRoom, Begin, TypeOK, Handler
<1>8. ASSUME NEW p \in Requests, OnRoomFinished(p)
      PROVE  LateJoinersKnown' /\ OnlyLateJoinersStayOpen'
  BY <1>8 DEF OnRoomFinished, Begin, TypeOK, Handler
<1>9. ASSUME NEW p \in Sweepers, SweepStart(p) PROVE LateJoinersKnown' /\ OnlyLateJoinersStayOpen'
  BY <1>9 DEF SweepStart, Begin, TypeOK, Handler
<1>10. ASSUME NEW e \in events, IgnoreWebhook(e) PROVE LateJoinersKnown' /\ OnlyLateJoinersStayOpen'
  BY <1>10 DEF IgnoreWebhook
<1>11. ASSUME FireTimer PROVE LateJoinersKnown' /\ OnlyLateJoinersStayOpen'
  BY <1>11 DEF FireTimer, Begin, TypeOK, Handler
<1>12. ASSUME Heartbeat PROVE LateJoinersKnown' /\ OnlyLateJoinersStayOpen'
  BY <1>12 DEF Heartbeat
<1>13. ASSUME AdminHardDelete PROVE LateJoinersKnown' /\ OnlyLateJoinersStayOpen'
  BY <1>13 DEF AdminHardDelete
<1>14. ASSUME NEW p \in Procs, LkCreate(p) PROVE LateJoinersKnown' /\ OnlyLateJoinersStayOpen'
  BY <1>14 DEF LkCreate, At, MoveTo, TypeOK, Handler
<1>15. ASSUME NEW p \in Procs, Activate(p) PROVE LateJoinersKnown' /\ OnlyLateJoinersStayOpen'
  BY <1>15 DEF Activate, At, MoveTo, Finish, TypeOK, Handler, Idle
<1>16. ASSUME NEW p \in Procs, Reload(p) PROVE LateJoinersKnown' /\ OnlyLateJoinersStayOpen'
  BY <1>16 DEF Reload, At, MoveTo, Finish, TypeOK, Handler, Idle
<1>17. ASSUME NEW p \in Procs, LkEnsure(p) PROVE LateJoinersKnown' /\ OnlyLateJoinersStayOpen'
  BY <1>17 DEF LkEnsure, At, MoveTo, TypeOK, Handler
<1>18. ASSUME NEW p \in Procs, FindRow(p) PROVE LateJoinersKnown' /\ OnlyLateJoinersStayOpen'
  BY <1>18 DEF FindRow, At, MoveTo, Finish, TypeOK, Handler, Idle
<1>19. ASSUME NEW p \in Procs, InsertRow(p) PROVE LateJoinersKnown' /\ OnlyLateJoinersStayOpen'
  <2>1. LateJoinersKnown'
    BY <1>19 DEF InsertRow, At, Finish, TypeOK, Handler, Idle
  <2>2. status = "finished" => proc[p].user \in lateJoiners
    BY <1>19 DEF InsertRow, At, JoinsHaveUsers
  <2>3. \A u \in Users : open'[u] # {} => open[u] # {} \/ u = proc[p].user
    BY <1>19 DEF InsertRow, TypeOK
  <2> QED
    BY <1>19, <2>1, <2>2, <2>3 DEF InsertRow
<1>20. ASSUME NEW p \in Procs, SaveLeft(p) PROVE LateJoinersKnown' /\ OnlyLateJoinersStayOpen'
  BY <1>20 DEF SaveLeft, At, Finish, TypeOK, Handler, Idle
<1>21. ASSUME NEW p \in Procs, MarkLeft(p) PROVE LateJoinersKnown' /\ OnlyLateJoinersStayOpen'
  BY <1>21 DEF MarkLeft, At, Finish, TypeOK, Handler, Idle
<1>22. ASSUME NEW p \in Procs, Arm(p) PROVE LateJoinersKnown' /\ OnlyLateJoinersStayOpen'
  BY <1>22 DEF Arm, At, Finish, TypeOK, Handler, Idle
<1>23. ASSUME NEW p \in Procs, Disarm(p) PROVE LateJoinersKnown' /\ OnlyLateJoinersStayOpen'
  BY <1>23 DEF Disarm, At, Finish, TypeOK, Handler, Idle
<1>24. ASSUME NEW p \in Procs, CheckHost(p) PROVE LateJoinersKnown' /\ OnlyLateJoinersStayOpen'
  BY <1>24 DEF CheckHost, Answer, WithHost, WithoutHost, At, MoveTo, Finish, TypeOK, Handler, Idle
<1>25. ASSUME NEW p \in Procs, TouchHostLastSeen(p)
      PROVE  LateJoinersKnown' /\ OnlyLateJoinersStayOpen'
  BY <1>25 DEF TouchHostLastSeen, At, Finish, TypeOK, Handler, Idle
<1>26. ASSUME NEW p \in Procs, CloseRoom(p) PROVE LateJoinersKnown' /\ OnlyLateJoinersStayOpen'
  <2>1. CASE Transition(p)
    <3>1. \A q \in Procs : proc'[q].at \in PastJoinChecks => proc'[q] = proc[q]
      BY <2>1 DEF Transition, MoveTo, TypeOK, Handler
    <3>2. LateJoinersKnown'
      BY <2>1, <3>1 DEF Transition, Joining, JoinsHaveUsers
    <3> QED
      BY <1>26, <2>1, <3>2 DEF CloseRoom, Transition
  <2>2. CASE Conflict(p)
    BY <1>26, <2>2 DEF CloseRoom, Conflict, Finish, TypeOK, Handler, Idle
  <2> QED
    BY <1>26, <2>1, <2>2 DEF CloseRoom
<1>27. ASSUME NEW p \in Procs, TeardownRows(p) PROVE LateJoinersKnown' /\ OnlyLateJoinersStayOpen'
  BY <1>27 DEF TeardownRows, Step, At, MoveTo, TypeOK, Handler
<1>28. ASSUME NEW p \in Procs, TeardownLiveKit(p)
      PROVE  LateJoinersKnown' /\ OnlyLateJoinersStayOpen'
  BY <1>28, UnsteadyType DEF TeardownLiveKit, At, MoveTo, TypeOK, Handler
<1>29. ASSUME NEW p \in Procs, TeardownContent(p)
      PROVE  LateJoinersKnown' /\ OnlyLateJoinersStayOpen'
  BY <1>29 DEF TeardownContent, Step, At, MoveTo, TypeOK, Handler
<1>30. ASSUME NEW p \in Procs, TeardownTimer(p) PROVE LateJoinersKnown' /\ OnlyLateJoinersStayOpen'
  BY <1>30 DEF TeardownTimer, Step, At, MoveTo, TypeOK, Handler
<1>31. ASSUME NEW p \in Procs, TeardownJobs(p) PROVE LateJoinersKnown' /\ OnlyLateJoinersStayOpen'
  BY <1>31 DEF TeardownJobs, At, Finish, TypeOK, Handler, Idle
<1>32. ASSUME NEW u \in Users, Connect(u) PROVE LateJoinersKnown' /\ OnlyLateJoinersStayOpen'
  BY <1>32 DEF Connect
<1>33. ASSUME NEW u \in Users, Disconnect(u) PROVE LateJoinersKnown' /\ OnlyLateJoinersStayOpen'
  BY <1>33, UnsteadyType DEF Disconnect, TypeOK, Handler
<1>34. ASSUME LiveKitDropsRoom PROVE LateJoinersKnown' /\ OnlyLateJoinersStayOpen'
  BY <1>34 DEF LiveKitDropsRoom
<1>35. ASSUME GraceExpires PROVE LateJoinersKnown' /\ OnlyLateJoinersStayOpen'
  BY <1>35 DEF GraceExpires
<1>36. ASSUME NEW p \in Procs, Crash(p) PROVE LateJoinersKnown' /\ OnlyLateJoinersStayOpen'
  BY <1>36 DEF Crash, Finish, TypeOK, Handler, Idle
<1>37. ASSUME NEW p \in Procs, CheckFails(p) PROVE LateJoinersKnown' /\ OnlyLateJoinersStayOpen'
  BY <1>37 DEF CheckFails, At, Finish, TypeOK, Handler, Idle
<1>38. CASE UNCHANGED vars
  BY <1>38 DEF vars
<1> QED
  BY <1>1, <1>2, <1>3, <1>4, <1>5, <1>6, <1>7, <1>8, <1>9, <1>10, <1>11, <1>12, <1>13, <1>14, <1>15, <1>16, <1>17, <1>18, <1>19,
     <1>20, <1>21, <1>22, <1>23, <1>24, <1>25, <1>26, <1>27, <1>28, <1>29, <1>30, <1>31, <1>32, <1>33, <1>34, <1>35, <1>36, <1>37, <1>38
     DEF Next, NewRequest, Continue, Teardown, Environment

-----------------------------------------------------------------------------
(* The theorems *)

IndInv ==
    /\ TypeOK
    /\ JoinsHaveUsers
    /\ OneCloser
    /\ TeardownInOrder
    /\ SteadyMeansHost
    /\ SteadyHostKeepsRoom
    /\ LateJoinersKnown
    /\ OnlyLateJoinersStayOpen

LEMMA IndInvInit == Init => IndInv
<1> SUFFICES ASSUME Init PROVE IndInv
  OBVIOUS
<1>1. \A p \in Procs : proc[p] = Idle
  BY DEF Init
<1>2. Idle.op = "idle" /\ Idle.at = "idle" /\ Idle.steady = FALSE
  BY DEF Idle
<1>3. JoinsHaveUsers /\ OneCloser /\ TeardownInOrder /\ SteadyMeansHost /\ SteadyHostKeepsRoom
  BY <1>1, <1>2 DEF Init, JoinsHaveUsers, PastJoinChecks, OneCloser, TeardownInOrder,
                    TeardownSteps, SteadyMeansHost, SteadyHostKeepsRoom
<1>4. LateJoinersKnown /\ OnlyLateJoinersStayOpen
  BY DEF Init, LateJoinersKnown, OnlyLateJoinersStayOpen
<1> QED
  BY <1>3, <1>4, TypeInit DEF IndInv

LEMMA IndInvNext == IndInv /\ [Next]_vars => IndInv'
BY JoinsNext, TypeNext, ClosingNext, SteadyNext, LateNext DEF IndInv

LEMMA Invariance == Spec => []IndInv
<1>1. Init => IndInv
  BY IndInvInit
<1>2. IndInv /\ [Next]_vars => IndInv'
  BY IndInvNext
<1> QED
  BY <1>1, <1>2, PTL DEF Spec

\* Every variable keeps its type, whatever the number of users and processes.
THEOREM TypeCorrect == Spec => []TypeOK
<1>1. IndInv => TypeOK
  BY DEF IndInv
<1> QED
  BY <1>1, Invariance, PTL

\* Of any number of requests, webhooks, sweeps and close tasks that race to end
\* the room, at most one is past the transition in endRoomInternal.
THEOREM AtMostOneCloser == Spec => []OneCloser
<1>1. IndInv => OneCloser
  BY DEF IndInv
<1> QED
  BY <1>1, Invariance, PTL

\* A host connected all through a sweep's or a close task's check keeps the room.
THEOREM SteadyHostIsSafe == Spec => []SteadyHostKeepsRoom
<1>1. IndInv => SteadyHostKeepsRoom
  BY DEF IndInv
<1> QED
  BY <1>1, Invariance, PTL

\* Rows that stay open in a finished room belong to users whose JoinRoom was
\* past its status checks when the room finished.
THEOREM LateRowsBelongToLateJoiners == Spec => []OnlyLateJoinersStayOpen
<1>1. IndInv => OnlyLateJoinersStayOpen
  BY DEF IndInv
<1> QED
  BY <1>1, Invariance, PTL

\* No teardown step of endRoomInternal runs a second time.
THEOREM TeardownRunsOnce == Spec => TeardownOnce
<1> DEFINE Once == \A p \in Procs, s \in TeardownSteps :
                     (proc[p].at = s /\ proc'[p].at # s) => s \notin ran
<1>1. IndInv => Once
  BY DEF IndInv, TeardownInOrder, Before, TeardownSteps
<1>2. IndInv /\ [Next]_vars => [Once]_vars
  BY <1>1
<1> QED
  BY <1>2, Invariance, PTL DEF Spec, TeardownOnce

\* The room implements RoomLifecycle: a start needs a created room, a finish an
\* active one, and nothing brings a finished room back.
THEOREM Refinement == Spec => ImplementsLifecycle
<1>1. Init => Lifecycle!Init
  BY DEF Init, Lifecycle!Init
<1>2. [Next]_vars => [Lifecycle!Next]_status
  <2> SUFFICES ASSUME [Next]_vars PROVE [Lifecycle!Next]_status
    OBVIOUS
  <2>1. ASSUME NEW p \in Requests, NewRequest(p) PROVE UNCHANGED status
    BY <2>1 DEF NewRequest, EndRoom, OnRoomFinished, JoinRoom, StartRoom, LeaveRoom,
                RemoveParticipant, OnParticipantLeft, OnParticipantJoined, roomVars
  <2>2. ASSUME NEW p \in Procs, Continue(p) PROVE [Lifecycle!Next]_status
    <3>1. CASE Activate(p)
      BY <3>1 DEF Activate, roomVars, Lifecycle!Next, Lifecycle!Start
    <3>2. CASE CloseRoom(p)
      BY <3>2 DEF CloseRoom, Transition, Conflict, Lifecycle!Next, Lifecycle!Finish
    <3>3. CASE Teardown(p)
      BY <3>3 DEF Teardown, TeardownRows, TeardownLiveKit, TeardownContent,
                  TeardownTimer, TeardownJobs, roomVars
    <3> QED
      BY <2>2, <3>1, <3>2, <3>3
         DEF Continue, LkCreate, Reload, LkEnsure, FindRow, InsertRow, SaveLeft, MarkLeft,
             Arm, Disarm, CheckHost, TouchHostLastSeen, roomVars
  <2>3. CASE AdminHardDelete
    BY <2>3 DEF AdminHardDelete, Lifecycle!Next, Lifecycle!Delete
  <2>4. CASE Environment
    BY <2>4 DEF Environment, Connect, Disconnect, LiveKitDropsRoom, GraceExpires, Crash,
                CheckFails, roomVars
  <2> QED
    BY <2>1, <2>2, <2>3, <2>4
       DEF Next, SweepStart, IgnoreWebhook, FireTimer, Heartbeat, vars, roomVars
<1> QED
  BY <1>1, <1>2, PTL DEF Spec, ImplementsLifecycle, Lifecycle!Spec

-----------------------------------------------------------------------------
(* The teardown has an owner *)

\* A finished room without crashes is torn down, or somebody is at the first step
\* that has not run.
OwnerInv ==
    status = "finished" /\ crashes = 0 =>
        \/ ran = TeardownSteps
        \/ \E p \in Procs : proc[p].at \in TeardownSteps /\ ran = Before[proc[p].at]

\* Nobody leaves the teardown, and nobody runs a step of it.
OwnersStay ==
    /\ UNCHANGED <<ran, crashes>>
    /\ status' = "finished" => status = "finished"
    /\ \A q \in Procs : proc[q].at \in TeardownSteps => proc'[q].at = proc[q].at

LEMMA OwnersMostlyStay ==
    ASSUME TypeOK, [Next]_vars
    PROVE  OwnersStay \/ \E p \in Procs : CloseRoom(p) \/ Teardown(p) \/ Crash(p)
<1> USE ProcsMembers
<1> USE DEF OwnersStay, TeardownSteps, roomVars, historyVars
<1>1. ASSUME NEW p \in Requests, NewRequest(p)
      PROVE  OwnersStay
  <2>1. proc[p] = Idle /\ (\A q \in Procs : q # p => proc'[q] = proc[q])
    BY <1>1 DEF NewRequest, EndRoom, OnRoomFinished, JoinRoom, StartRoom, LeaveRoom,
                RemoveParticipant, OnParticipantLeft, OnParticipantJoined, Begin, TypeOK
  <2>2. UNCHANGED <<status, ran, crashes>>
    BY <1>1 DEF NewRequest, EndRoom, OnRoomFinished, JoinRoom, StartRoom, LeaveRoom,
                RemoveParticipant, OnParticipantLeft, OnParticipantJoined
  <2>3. QED
    BY <2>1, <2>2 DEF Idle
<1>2. ASSUME NEW p \in Sweepers, SweepStart(p)
      PROVE  OwnersStay
  BY <1>2 DEF SweepStart, Begin, Idle, TypeOK
<1>3. CASE FireTimer
  BY <1>3 DEF FireTimer, Begin, Idle, TypeOK
<1>4. CASE (\E e \in events : IgnoreWebhook(e)) \/ Heartbeat \/ AdminHardDelete \/ UNCHANGED vars
  BY <1>4 DEF IgnoreWebhook, Heartbeat, AdminHardDelete, vars
<1>5. ASSUME NEW p \in Procs,
             \/ LkCreate(p) \/ Activate(p) \/ Reload(p) \/ LkEnsure(p) \/ FindRow(p)
             \/ InsertRow(p) \/ SaveLeft(p) \/ MarkLeft(p) \/ Arm(p) \/ Disarm(p)
             \/ CheckHost(p) \/ TouchHostLastSeen(p) \/ CheckFails(p)
      PROVE  OwnersStay
  <2>1. proc[p].at \notin TeardownSteps
    BY <1>5 DEF LkCreate, Activate, Reload, LkEnsure, FindRow, InsertRow, SaveLeft, MarkLeft,
                Arm, Disarm, CheckHost, TouchHostLastSeen, CheckFails, At
  <2>2. \A q \in Procs : q # p => proc'[q] = proc[q]
    BY <1>5 DEF LkCreate, Activate, Reload, LkEnsure, FindRow, InsertRow, SaveLeft, MarkLeft,
                Arm, Disarm, CheckHost, Answer, WithHost, WithoutHost, TouchHostLastSeen,
                CheckFails, MoveTo, Finish, TypeOK
  <2>3. UNCHANGED <<ran, crashes>> /\ (status' = "finished" => status = "finished")
    BY <1>5 DEF LkCreate, Activate, Reload, LkEnsure, FindRow, InsertRow, SaveLeft, MarkLeft,
                Arm, Disarm, CheckHost, TouchHostLastSeen, CheckFails
  <2>4. QED
    BY <2>1, <2>2, <2>3
<1>6. CASE (\E u \in Users : Connect(u)) \/ LiveKitDropsRoom \/ GraceExpires
  BY <1>6 DEF Connect, LiveKitDropsRoom, GraceExpires
<1>7. ASSUME NEW u \in Users, Disconnect(u)
      PROVE  OwnersStay
  BY <1>7, UnsteadyType DEF Disconnect, TypeOK
<1>8. QED
  BY <1>1, <1>2, <1>3, <1>4, <1>5, <1>6, <1>7 DEF Next, Continue, Environment

\* The step after s, or none after the last.
LEMMA OwnerStep ==
    ASSUME TypeOK, OneCloser, OwnerInv, NEW p \in Procs, Teardown(p),
           status = "finished", crashes = 0, ran # TeardownSteps
    PROVE  OwnerInv'
<1>1. proc[p].at \in TeardownSteps
  BY DEF Teardown, TeardownRows, TeardownLiveKit, TeardownContent, TeardownTimer,
         TeardownJobs, Step, At, TeardownSteps
<1>2. ran = Before[proc[p].at]
  BY <1>1 DEF OwnerInv, OneCloser
<1>3. proc[p] \in Handler
  BY DEF TypeOK
<1>4. CASE TeardownRows(p)
  BY <1>2, <1>3, <1>4 DEF OwnerInv, TeardownRows, Step, At, MoveTo, Before, TeardownSteps,
                          TypeOK, Handler
<1>5. CASE TeardownLiveKit(p)
  <2>1. proc'[p].at = "content" /\ ran' = ran \cup {"livekit"} /\ proc[p].at = "livekit"
    BY <1>3, <1>5 DEF TeardownLiveKit, At, MoveTo, TypeOK, Handler
  <2>2. QED
    BY <1>2, <2>1 DEF OwnerInv, Before, TeardownSteps
<1>6. CASE TeardownContent(p)
  BY <1>2, <1>3, <1>6 DEF OwnerInv, TeardownContent, Step, At, MoveTo, Before,
                          TeardownSteps, TypeOK, Handler
<1>7. CASE TeardownTimer(p)
  BY <1>2, <1>3, <1>7 DEF OwnerInv, TeardownTimer, Step, At, MoveTo, Before, TeardownSteps,
                          TypeOK, Handler
<1>8. CASE TeardownJobs(p)
  BY <1>2, <1>8 DEF OwnerInv, TeardownJobs, At, Before, TeardownSteps
<1>9. QED
  BY <1>4, <1>5, <1>6, <1>7, <1>8 DEF Teardown

LEMMA OwnerNext == IndInv /\ OwnerInv /\ [Next]_vars => OwnerInv'
<1> SUFFICES ASSUME IndInv, OwnerInv, [Next]_vars PROVE OwnerInv'
  OBVIOUS
<1>0. TypeOK /\ OneCloser /\ TeardownInOrder
  BY DEF IndInv
<1>1. CASE OwnersStay
  BY <1>1 DEF OwnersStay, OwnerInv
<1>2. ASSUME NEW p \in Procs, CloseRoom(p)
      PROVE  OwnerInv'
  <2>1. CASE status = "active"
    <3>1. ran' = {} /\ proc'[p].at = "rows"
      BY <1>0, <1>2, <2>1 DEF CloseRoom, Transition, Conflict, MoveTo, TypeOK, Handler,
                              TeardownInOrder
    <3>2. QED
      BY <3>1 DEF OwnerInv, Before, TeardownSteps
  <2>2. CASE status # "active"
    <3>1. At(p, "close") /\ Finish(p) /\ UNCHANGED <<status, ran, crashes>>
      BY <1>2, <2>2 DEF CloseRoom, Transition, Conflict
    <3>2. OwnersStay
      BY <1>0, <3>1 DEF OwnersStay, At, Finish, TypeOK, TeardownSteps
    <3>3. QED
      BY <3>2, <1>1
  <2>3. QED
    BY <2>1, <2>2
<1>3. ASSUME NEW p \in Procs, Teardown(p)
      PROVE  OwnerInv'
  <2>1. status' = status /\ crashes' = crashes
    BY <1>3 DEF Teardown, TeardownRows, TeardownLiveKit, TeardownContent, TeardownTimer,
                TeardownJobs, roomVars
  <2>2. CASE ran = TeardownSteps
    <3>1. ran' = TeardownSteps
      BY <1>3, <2>2 DEF Teardown, TeardownRows, TeardownLiveKit, TeardownContent,
                        TeardownTimer, TeardownJobs, Step, TeardownSteps
    <3>2. QED
      BY <3>1 DEF OwnerInv
  <2>3. CASE ~(status = "finished" /\ crashes = 0)
    BY <2>1, <2>3 DEF OwnerInv
  <2>4. QED
    BY <1>0, <1>3, <2>2, <2>3, OwnerStep
<1>4. ASSUME NEW p \in Procs, Crash(p)
      PROVE  OwnerInv'
  BY <1>0, <1>4, ConstantsAssumption DEF Crash, OwnerInv, TypeOK
<1>5. QED
  BY <1>0, <1>1, <1>2, <1>3, <1>4, OwnersMostlyStay

\* LiveRoom!TeardownHasOwner: whatever fails and whoever races, the rest of a teardown
\* that has begun is always in somebody's hands until it is through, short of a crash.
THEOREM TeardownIsOwned == Spec => []TeardownHasOwner
<1>1. Init => OwnerInv
  BY DEF Init, OwnerInv
<1>2. OwnerInv => TeardownHasOwner
  BY DEF OwnerInv, TeardownHasOwner
<1>3. QED
  BY <1>1, <1>2, OwnerNext, Invariance, PTL DEF Spec

-----------------------------------------------------------------------------
(* Open rows of one user *)

\* The requests about to insert a row for u.
Inserting(u) == {p \in Procs : proc[p].at = "insert" /\ proc[p].user = u}

\* Only requests join, and a row inserted takes the place of its request.
RowsInv ==
    /\ \A p \in Procs : proc[p].op = "join" => p \in Requests
    /\ \A u \in Users :
         Cardinality(open[u]) + Cardinality(Inserting(u)) <= Cardinality(Requests)

LEMMA RowsFinite ==
    ASSUME IsFiniteSet(Requests), TypeOK, JoinsHaveUsers, NEW u \in Users,
           \A p \in Procs : proc[p].op = "join" => p \in Requests
    PROVE  /\ IsFiniteSet(open[u]) /\ Cardinality(open[u]) \in Nat
           /\ IsFiniteSet(Inserting(u)) /\ Cardinality(Inserting(u)) \in Nat
           /\ Inserting(u) \subseteq Requests /\ Cardinality(Requests) \in Nat
<1>1. open[u] \subseteq 1..MaxRows /\ MaxRows \in Int /\ 1 \in Int
  BY ConstantsAssumption DEF TypeOK
<1>2. IsFiniteSet(1..MaxRows)
  BY <1>1, FS_Interval
<1>3. IsFiniteSet(open[u])
  BY <1>1, <1>2, FS_Subset
<1>4. Inserting(u) \subseteq Requests
  BY DEF Inserting, JoinsHaveUsers, PastJoinChecks
<1>5. IsFiniteSet(Inserting(u))
  BY <1>4, FS_Subset
<1>6. QED
  BY <1>3, <1>4, <1>5, FS_CardinalityType

\* A step that lets nobody find a user without a row and inserts none.
RowsShrink ==
    \A u \in Users : open'[u] \subseteq open[u] /\ Inserting(u)' \subseteq Inserting(u)

JoinsStayRequests ==
    \A p \in Procs : proc'[p].op = "join" => proc[p].op = "join" \/ p \in Requests

LEMMA RowSteps ==
    ASSUME TypeOK, [Next]_vars
    PROVE  /\ JoinsStayRequests
           /\ RowsShrink \/ \E p \in Procs : FindRow(p) \/ InsertRow(p)
<1> USE ProcsMembers
<1> USE DEF JoinsStayRequests, RowsShrink, Inserting, rowVars
<1>1. ASSUME NEW p \in Requests, NewRequest(p)
      PROVE  JoinsStayRequests /\ RowsShrink
  <2>0. \E op, s, u, r : Begin(p, op, s, u, r) /\ s # "insert"
    <3>1. CASE EndRoom(p) \/ OnRoomFinished(p)
      BY <3>1 DEF EndRoom, OnRoomFinished
    <3>2. ASSUME NEW u \in Users, JoinRoom(p, u) \/ StartRoom(p, u) \/ LeaveRoom(p, u)
          PROVE  \E op, s, x, r : Begin(p, op, s, x, r) /\ s # "insert"
      BY <3>2 DEF JoinRoom, StartRoom, LeaveRoom
    <3>3. ASSUME NEW u \in Users, \/ RemoveParticipant(p, u)
                                 \/ OnParticipantLeft(p, u) \/ OnParticipantJoined(p, u)
          PROVE  \E op, s, x, r : Begin(p, op, s, x, r) /\ s # "insert"
      BY <3>3 DEF RemoveParticipant, OnParticipantLeft, OnParticipantJoined
    <3>4. QED
      BY <1>1, <3>1, <3>2, <3>3 DEF NewRequest
  <2>1. /\ proc'[p].at # "insert" /\ \A q \in Procs : q # p => proc'[q] = proc[q]
    BY <2>0 DEF Begin, TypeOK
  <2>2. \A u \in Users : open'[u] \subseteq open[u]
    BY <1>1 DEF NewRequest, EndRoom, OnRoomFinished, JoinRoom, StartRoom, LeaveRoom,
                RemoveParticipant, OnParticipantLeft, OnParticipantJoined, TypeOK
  <2>3. QED
    BY <1>1, <2>1, <2>2
<1>2. ASSUME NEW p \in Sweepers, SweepStart(p)
      PROVE  JoinsStayRequests /\ RowsShrink
  BY <1>2 DEF SweepStart, Begin, TypeOK
<1>3. CASE FireTimer
  BY <1>3 DEF FireTimer, Begin, TypeOK
<1>4. CASE (\E e \in events : IgnoreWebhook(e)) \/ Heartbeat \/ AdminHardDelete \/ UNCHANGED vars
  BY <1>4 DEF IgnoreWebhook, Heartbeat, AdminHardDelete, vars
<1>5. ASSUME NEW p \in Procs, Continue(p) \/ Crash(p) \/ CheckFails(p)
      PROVE  JoinsStayRequests
  <2>1. CASE TeardownLiveKit(p)
    BY <2>1, UnsteadyType DEF TeardownLiveKit, MoveTo, TypeOK, Handler
  <2>2. CASE ~TeardownLiveKit(p)
    <3>1. Finish(p) \/ \E s : MoveTo(p, s)
      BY <1>5, <2>2
         DEF Continue, LkCreate, Activate, Reload, LkEnsure, FindRow, InsertRow, SaveLeft,
             MarkLeft, Arm, Disarm, CheckHost, Answer, WithHost, WithoutHost,
             TouchHostLastSeen, CloseRoom, Transition, Conflict, Teardown, TeardownRows,
             TeardownContent, TeardownTimer, TeardownJobs, Step, Crash, CheckFails
    <3>2. QED
      BY <3>1 DEF Finish, MoveTo, Idle, TypeOK, Handler
  <2>3. QED
    BY <2>1, <2>2
<1>6. ASSUME NEW p \in Procs, Continue(p) \/ Crash(p) \/ CheckFails(p)
      PROVE  RowsShrink \/ FindRow(p) \/ InsertRow(p)
  <2> SUFFICES ASSUME ~FindRow(p), ~InsertRow(p) PROVE RowsShrink
    OBVIOUS
  <2>1. \A u \in Users : open'[u] \subseteq open[u]
    BY <1>6
       DEF Continue, LkCreate, Activate, Reload, LkEnsure, SaveLeft, MarkLeft, Arm, Disarm,
           CheckHost, TouchHostLastSeen, CloseRoom, Teardown, TeardownRows, TeardownLiveKit,
           TeardownContent, TeardownTimer, TeardownJobs, Crash, CheckFails, TypeOK
  <2>2. \A q \in Procs : /\ proc'[q].at = "insert" => proc[q].at = "insert"
                         /\ proc'[q].at = "insert" => proc'[q].user = proc[q].user
    <3>1. CASE TeardownLiveKit(p)
      BY <3>1, UnsteadyType DEF TeardownLiveKit, MoveTo, TypeOK, Handler
    <3>2. CASE ~TeardownLiveKit(p)
      <4>1. Finish(p) \/ \E s : MoveTo(p, s) /\ s # "insert"
        <5>1. CASE LkCreate(p) \/ Activate(p) \/ Reload(p) \/ LkEnsure(p)
          BY <5>1 DEF LkCreate, Activate, Reload, LkEnsure
        <5>2. CASE \/ SaveLeft(p) \/ MarkLeft(p) \/ Arm(p) \/ Disarm(p)
                   \/ TouchHostLastSeen(p) \/ Crash(p) \/ CheckFails(p)
          BY <5>2 DEF SaveLeft, MarkLeft, Arm, Disarm, TouchHostLastSeen, Crash, CheckFails
        <5>3. CASE CheckHost(p)
          BY <5>3 DEF CheckHost, Answer, WithHost, WithoutHost
        <5>4. CASE CloseRoom(p)
          BY <5>4 DEF CloseRoom, Transition, Conflict
        <5>5. CASE TeardownRows(p) \/ TeardownContent(p) \/ TeardownTimer(p) \/ TeardownJobs(p)
          BY <5>5 DEF TeardownRows, TeardownContent, TeardownTimer, TeardownJobs, Step
        <5>6. QED
          BY <1>6, <3>2, <5>1, <5>2, <5>3, <5>4, <5>5 DEF Continue, Teardown
      <4>2. QED
        BY <4>1 DEF Finish, MoveTo, Idle, TypeOK, Handler
    <3>3. QED
      BY <3>1, <3>2
  <2>3. QED
    BY <2>1, <2>2
<1>7. CASE (\E u \in Users : Connect(u)) \/ LiveKitDropsRoom \/ GraceExpires
  BY <1>7 DEF Connect, LiveKitDropsRoom, GraceExpires
<1>8. ASSUME NEW u \in Users, Disconnect(u)
      PROVE  JoinsStayRequests /\ RowsShrink
  BY <1>8, UnsteadyType DEF Disconnect, TypeOK
<1>9. QED
  BY <1>1, <1>2, <1>3, <1>4, <1>5, <1>6, <1>7, <1>8 DEF Next, Environment

LEMMA RowsNext ==
    ASSUME IsFiniteSet(Requests)
    PROVE  IndInv /\ RowsInv /\ [Next]_vars => RowsInv'
<1> SUFFICES ASSUME IndInv, RowsInv, [Next]_vars PROVE RowsInv'
  OBVIOUS
<1>0. TypeOK /\ JoinsHaveUsers /\ TypeOK' /\ JoinsHaveUsers'
  BY IndInvNext DEF IndInv
<1>1. \A p \in Procs : proc'[p].op = "join" => p \in Requests
  BY <1>0, RowSteps DEF RowsInv, JoinsStayRequests
<1>2. ASSUME NEW u \in Users
      PROVE  /\ IsFiniteSet(open[u]) /\ Cardinality(open[u]) \in Nat
             /\ IsFiniteSet(Inserting(u)) /\ Cardinality(Inserting(u)) \in Nat
             /\ Cardinality(Requests) \in Nat
  BY <1>0, RowsFinite DEF RowsInv
<1>3. ASSUME NEW u \in Users
      PROVE  /\ IsFiniteSet(open'[u]) /\ Cardinality(open'[u]) \in Nat
             /\ IsFiniteSet(Inserting(u)') /\ Cardinality(Inserting(u)') \in Nat
             /\ Inserting(u)' \subseteq Requests
  <2>1. open'[u] \subseteq 1..MaxRows /\ MaxRows \in Int /\ 1 \in Int
    BY <1>0, ConstantsAssumption DEF TypeOK
  <2>2. IsFiniteSet(open'[u])
    BY <2>1, FS_Interval, FS_Subset
  <2>3. Inserting(u)' \subseteq Requests
    BY <1>0, <1>1 DEF Inserting, JoinsHaveUsers, PastJoinChecks
  <2>4. IsFiniteSet(Inserting(u)')
    BY <2>3, FS_Subset
  <2>5. QED
    BY <2>2, <2>3, <2>4, FS_CardinalityType
<1> DEFINE Bound(u) == Cardinality(open'[u]) + Cardinality(Inserting(u)') <= Cardinality(Requests)
<1>4. ASSUME NEW u \in Users, open'[u] \subseteq open[u], Inserting(u)' \subseteq Inserting(u)
      PROVE  Bound(u)
  <2>1. Cardinality(open[u]) + Cardinality(Inserting(u)) <= Cardinality(Requests)
    BY DEF RowsInv
  <2>2. Cardinality(open'[u]) <= Cardinality(open[u])
    BY <1>2, <1>4, FS_Subset
  <2>3. Cardinality(Inserting(u)') <= Cardinality(Inserting(u))
    BY <1>2, <1>4, FS_Subset
  <2>4. QED
    BY <1>2, <1>3, <2>1, <2>2, <2>3
<1>5. ASSUME NEW p \in Procs, FindRow(p), NEW u \in Users
      PROVE  Bound(u)
  <2>1. /\ open' = open
        /\ \A q \in Procs : q # p => proc'[q] = proc[q]
        /\ \/ proc'[p] = Idle
           \/ open[proc[p].user] = {} /\ proc'[p].user = proc[p].user
    BY <1>0, <1>5 DEF FindRow, Finish, MoveTo, TypeOK, Handler, rowVars
  <2>2. CASE Inserting(u)' \subseteq Inserting(u)
    BY <1>4, <2>1, <2>2
  <2>3. CASE ~(Inserting(u)' \subseteq Inserting(u))
    <3>1. open'[u] = {}
      BY <2>1, <2>3 DEF Inserting, Idle
    <3>2. Cardinality(open'[u]) = 0
      BY <3>1, FS_EmptySet
    <3>3. Cardinality(Inserting(u)') <= Cardinality(Requests)
      BY <1>3, FS_Subset
    <3>4. QED
      BY <1>2, <1>3, <3>2, <3>3
  <2>4. QED
    BY <2>2, <2>3
<1>6. ASSUME NEW p \in Procs, InsertRow(p), NEW u \in Users
      PROVE  Bound(u)
  <2> DEFINE w == proc[p].user
  <2>1. /\ proc[p].at = "insert" /\ proc'[p] = Idle
        /\ \A q \in Procs : q # p => proc'[q] = proc[q]
    BY <1>0, <1>6 DEF InsertRow, At, Finish, TypeOK
  <2>2. Inserting(u)' = Inserting(u) \ {p}
    BY <2>1 DEF Inserting, Idle
  <2>3. CASE u # w \/ open' = open
    <3>1. open'[u] = open[u]
      BY <1>0, <1>6, <2>3 DEF InsertRow, TypeOK
    <3>2. QED
      BY <1>4, <2>2, <3>1
  <2>4. CASE u = w /\ open' # open
    <3>1. open'[u] = open[u] \cup {rows[u] + 1}
      BY <1>0, <1>6, <2>4 DEF InsertRow, TypeOK
    <3>2. Cardinality(open'[u]) <= Cardinality(open[u]) + 1
      <4>1. \/ Cardinality(open[u] \cup {rows[u] + 1}) = Cardinality(open[u])
            \/ Cardinality(open[u] \cup {rows[u] + 1}) = Cardinality(open[u]) + 1
        BY <1>2, FS_AddElement, Zenon
      <4>2. QED
        BY <1>2, <3>1, <4>1
    <3>3. p \in Inserting(u)
      BY <2>1, <2>4 DEF Inserting
    <3>4. Cardinality(Inserting(u)') = Cardinality(Inserting(u)) - 1
      BY <1>2, <2>2, <3>3, FS_RemoveElement
    <3>5. Cardinality(open[u]) + Cardinality(Inserting(u)) <= Cardinality(Requests)
      BY DEF RowsInv
    <3>6. QED
      BY <1>2, <1>3, <3>2, <3>4, <3>5
  <2>5. QED
    BY <2>3, <2>4
<1>7. \A u \in Users : Bound(u)
  BY <1>0, <1>4, <1>5, <1>6, RowSteps DEF RowsShrink
<1>8. QED
  BY <1>1, <1>7 DEF RowsInv

\* LiveRoom!OpenRowsBounded: the duplicates that racing joins stack are at most as many
\* as there are requests in flight, so joins one at a time reuse the open row.
THEOREM DuplicatesBounded ==
    ASSUME IsFiniteSet(Requests)
    PROVE  Spec => []OpenRowsBounded
<1>1. Init => RowsInv
  <2> SUFFICES ASSUME Init PROVE RowsInv
    OBVIOUS
  <2>1. \A p \in Procs : proc[p].op # "join" /\ proc[p].at # "insert"
    BY DEF Init, Idle
  <2>2. \A u \in Users : open[u] = {} /\ Inserting(u) = {}
    BY <2>1 DEF Init, Inserting
  <2>3. Cardinality(Requests) \in Nat
    BY FS_CardinalityType
  <2>4. QED
    BY <2>1, <2>2, <2>3, FS_EmptySet DEF RowsInv
<1>2. IndInv /\ RowsInv => OpenRowsBounded
  <2> SUFFICES ASSUME IndInv, RowsInv, NEW u \in Users
               PROVE  Cardinality(open[u]) <= Cardinality(Requests)
    BY DEF OpenRowsBounded
  <2>1. Cardinality(open[u]) + Cardinality(Inserting(u)) <= Cardinality(Requests)
    BY DEF RowsInv
  <2>2. /\ Cardinality(open[u]) \in Nat /\ Cardinality(Inserting(u)) \in Nat
        /\ Cardinality(Requests) \in Nat
    BY RowsFinite DEF IndInv, RowsInv
  <2>3. QED
    BY <2>1, <2>2
<1>3. QED
  BY <1>1, <1>2, RowsNext, Invariance, PTL DEF Spec
=============================================================================
