------------------------ MODULE LiveRecordingProofs ------------------------
(***************************************************************************)
(* Proofs about LiveRecording for any rooms, egresses, handlers, cap and   *)
(* bounds.  Whoever is about to create a row is the only handler that      *)
(* knows its egress (StagesAgree and OwnsEgress): that is why no stale     *)
(* save can bring a recording back.  In a room without overlapping starts  *)
(* or faults there is one recording at most, so that the teardown finds    *)
(* all there is.                                                           *)
(***************************************************************************)
EXTENDS LiveRecording, FiniteSetTheorems, TLAPS

-----------------------------------------------------------------------------
(* The inductive invariant *)

\* LiveKit reports only what is over, and a row, a webhook or a handler names
\* only an egress that was started, for a room.
EgressKnown ==
    /\ \A e \in webhooks : egress[e] \in Terminal
    /\ \A e \in Egresses : egress[e] = "unused" => row[e] = "none"
    /\ \A e \in Egresses : egress[e] # "unused" => roomOf[e] \in Rooms
    /\ \A p \in Requests : proc[p].egress \in Egresses => egress[proc[p].egress] # "unused"

\* What a handler knows at each of its stages.
StagesAgree ==
    \A p \in Requests :
        /\ proc[p].op = "idle" => proc[p] = Idle
        /\ proc[p].op # "idle" => proc[p].room \in Rooms
        /\ proc[p].op = "start" <=> proc[p].at \in {"find", "count", "egress", "create"}
        /\ proc[p].at \in {"create", "stop", "save"} => proc[p].egress \in Egresses
        /\ proc[p].at = "create" => row[proc[p].egress] = "none"

\* Nobody else knows the egress of a row that is still to be created.
OwnsEgress ==
    \A p, q \in Requests :
        proc[p].at = "create" /\ proc[q].egress = proc[p].egress => p = q

\* A handler that will say "over" has asked the egress to stop, found it ended, or
\* could not reach LiveKit.
SaversAsked ==
    \A p \in Requests : proc[p].at = "save" =>
        egress[proc[p].egress] \in Stopped \/ proc[p].egress \in unstopped

IndInv ==
    /\ TypeOK
    /\ EgressKnown
    /\ StagesAgree
    /\ OwnsEgress
    /\ SaversAsked
    /\ OverMeansStopped

-----------------------------------------------------------------------------
(* The initial state, and the helpers *)

LEMMA IdleType == Idle \in Handler
BY DEF Idle, Handler, Stages, Terminal

LEMMA IndInit == Init => IndInv
<1> SUFFICES ASSUME Init PROVE IndInv
  OBVIOUS
<1> USE RecordingAssumption DEF Init
<1>1. TypeOK
  BY IdleType DEF TypeOK
<1>2. EgressKnown /\ SaversAsked /\ OverMeansStopped
  BY DEF EgressKnown, SaversAsked, OverMeansStopped, Idle, Terminal
<1>3. StagesAgree /\ OwnsEgress
  BY DEF StagesAgree, OwnsEgress, Idle
<1> QED
  BY <1>1, <1>2, <1>3 DEF IndInv

LEMMA FinishType ==
    ASSUME TypeOK, NEW p \in Requests, Finish(p)
    PROVE  proc' \in [Requests -> Handler]
BY IdleType DEF TypeOK, Finish

LEMMA MoveToType ==
    ASSUME TypeOK, NEW p \in Requests, NEW s \in Stages, MoveTo(p, s)
    PROVE  proc' \in [Requests -> Handler]
BY DEF TypeOK, MoveTo, Handler

LEMMA HoldType ==
    ASSUME TypeOK, NEW p \in Requests, NEW op \in {"start", "stop", "end", "ended"},
           NEW s \in Stages, NEW r \in Rooms, NEW e \in Egresses \cup {NoEgress},
           Hold(p, op, s, r, e)
    PROVE  proc' \in [Requests -> Handler]
BY DEF TypeOK, Hold, Handler, Terminal

LEMMA FaultType ==
    ASSUME TypeOK, NEW r \in Rooms, Fault(r)
    PROVE  faults' \in 0..MaxFaults /\ faulty' \subseteq Rooms
BY RecordingAssumption DEF TypeOK, Fault

\* An egress that ends stays known, and stays over.
LEMMA EndsKeeps ==
    ASSUME TypeOK, EgressKnown, NEW e \in Egresses, NEW v \in Terminal,
           egress[e] \in {"running", "ending"}, Ends(e, v)
    PROVE  /\ egress' \in [Egresses -> {"unused", "running", "ending"} \cup Terminal]
           /\ webhooks' \subseteq Egresses
           /\ \A x \in webhooks' : egress'[x] \in Terminal
           /\ \A x \in Egresses : egress[x] \in Stopped => egress'[x] \in Stopped
           /\ \A x \in Egresses : (egress'[x] = "unused") <=> (egress[x] = "unused")
           /\ roomOf' = roomOf
BY DEF TypeOK, EgressKnown, Ends, Stopped, Terminal

-----------------------------------------------------------------------------
(* Every step keeps the invariant *)

LEMMA StartSteps ==
    ASSUME IndInv, NEW p \in Requests,
           (\E r \in Rooms : StartRecording(p, r)) \/ FindActive(p) \/ CountActive(p)
             \/ StartEgressFails(p)
    PROVE  IndInv'
<1> USE DEF IndInv
<1>1. /\ UNCHANGED <<status, lkVars, rowVars, faults, unstopped, settled, faulty>>
      /\ rushed' \subseteq Rooms
  BY DEF StartRecording, FindActive, CountActive, StartEgressFails, roomVars, TypeOK
<1>2. /\ proc' \in [Requests -> Handler]
      /\ \A q \in Requests \ {p} : proc'[q] = proc[q]
      /\ \/ proc'[p] = Idle
         \/ /\ proc'[p].op = "start"
            /\ proc'[p].at \in {"find", "count", "egress"}
            /\ proc'[p].room \in Rooms
            /\ proc'[p].egress \in {NoEgress, proc[p].egress}
  <2>1. CASE \E r \in Rooms : StartRecording(p, r)
    <3>1. PICK r \in Rooms : Begin(p, "start", "find", r, NoEgress)
      BY <2>1 DEF StartRecording
    <3>2. proc' \in [Requests -> Handler]
      BY <3>1, HoldType DEF Begin, Stages
    <3> QED
      BY <3>1, <3>2 DEF Begin, Hold, TypeOK
  <2>2. CASE FindActive(p) \/ CountActive(p) \/ StartEgressFails(p)
    <3>1. /\ proc[p].op = "start"
          /\ Finish(p) \/ MoveTo(p, "count") \/ MoveTo(p, "egress")
      BY <2>2 DEF FindActive, CountActive, StartEgressFails, At
    <3>2. proc' \in [Requests -> Handler]
      BY <3>1, FinishType, MoveToType DEF Stages
    <3> QED
      BY <3>1, <3>2 DEF Finish, MoveTo, TypeOK, StagesAgree, Handler
  <2> QED
    BY <2>1, <2>2
<1>3. TypeOK'
  BY <1>1, <1>2 DEF TypeOK, lkVars, rowVars
<1>4. EgressKnown'
  BY <1>1, <1>2, RecordingAssumption DEF EgressKnown, lkVars, rowVars, Idle
<1>5. StagesAgree'
  BY <1>1, <1>2 DEF StagesAgree, rowVars, Idle
<1>6. OwnsEgress'
  BY <1>2, RecordingAssumption DEF OwnsEgress, StagesAgree, Idle
<1>7. SaversAsked' /\ OverMeansStopped'
  BY <1>1, <1>2 DEF SaversAsked, OverMeansStopped, lkVars, rowVars, Idle
<1> QED
  BY <1>3, <1>4, <1>5, <1>6, <1>7

LEMMA StartEgressStep ==
    ASSUME IndInv, NEW p \in Requests, StartEgress(p)
    PROVE  IndInv'
<1> USE DEF IndInv
<1>1. PICK e \in Egresses :
        /\ egress[e] = "unused"
        /\ egress' = [egress EXCEPT ![e] = "running"]
        /\ roomOf' = [roomOf EXCEPT ![e] = proc[p].room]
        /\ \/ /\ proc' = [proc EXCEPT ![p].at = "create", ![p].egress = e]
              /\ UNCHANGED <<faults, faulty>>
           \/ Finish(p) /\ Fault(proc[p].room)
  BY DEF StartEgress
<1>2. UNCHANGED <<status, settled, rushed, webhooks, row, sized, unstopped>>
  BY DEF StartEgress, roomVars, rowVars
<1>3. proc[p].op = "start" /\ proc[p].room \in Rooms
  BY DEF StartEgress, At, StagesAgree
<1>4. /\ proc' \in [Requests -> Handler]
      /\ \A q \in Requests \ {p} : proc'[q] = proc[q]
      /\ \/ proc'[p] = Idle
         \/ /\ proc'[p].op = "start"
            /\ proc'[p].at = "create"
            /\ proc'[p].room \in Rooms
            /\ proc'[p].egress = e
  BY <1>1, <1>3, FinishType DEF Finish, TypeOK, Handler, Stages
<1>5. \A q \in Requests : proc[q].egress # e
  BY <1>1 DEF EgressKnown
<1>6. row[e] = "none"
  BY <1>1 DEF EgressKnown
<1>7. TypeOK'
  <2>1. faults' \in 0..MaxFaults /\ faulty' \subseteq Rooms
    BY <1>1, <1>3, FaultType DEF TypeOK
  <2> QED
    BY <1>1, <1>2, <1>3, <1>4, <2>1 DEF TypeOK
<1>8. EgressKnown'
  BY <1>1, <1>2, <1>3, <1>4, <1>6, RecordingAssumption DEF EgressKnown, TypeOK, Idle, Terminal
<1>9. StagesAgree'
  BY <1>2, <1>4, <1>6 DEF StagesAgree, Idle
<1>10. OwnsEgress'
  BY <1>4, <1>5, RecordingAssumption DEF OwnsEgress, StagesAgree, Idle
<1>11. SaversAsked' /\ OverMeansStopped'
  BY <1>1, <1>2, <1>4 DEF SaversAsked, OverMeansStopped, StagesAgree, EgressKnown, TypeOK, Idle, Terminal
<1> QED
  BY <1>7, <1>8, <1>9, <1>10, <1>11

LEMMA CreateRowStep ==
    ASSUME IndInv, NEW p \in Requests, CreateRow(p)
    PROVE  IndInv'
<1> USE DEF IndInv
<1> DEFINE e == proc[p].egress
<1>1. /\ e \in Egresses
      /\ row[e] = "none"
      /\ row' \in {row, [row EXCEPT ![e] = "started"]}
      /\ proc' = [proc EXCEPT ![p] = Idle]
      /\ UNCHANGED <<status, settled, rushed, egress, roomOf, webhooks, sized, faults, unstopped, faulty>>
  BY DEF CreateRow, At, StagesAgree, Finish, roomVars, lkVars
<1>2. \A q \in Requests : proc'[q].at = "create" => q # p /\ proc[q].at = "create" /\ proc[q].egress # e
  BY <1>1 DEF OwnsEgress, CreateRow, At, TypeOK, Idle
<1>3. TypeOK'
  BY <1>1, FinishType DEF TypeOK, CreateRow
<1>4. EgressKnown'
  BY <1>1, RecordingAssumption DEF EgressKnown, TypeOK, Idle
<1>5. StagesAgree'
  BY <1>1, <1>2 DEF StagesAgree, TypeOK, Idle
<1>6. OwnsEgress'
  BY <1>1, <1>2, RecordingAssumption DEF OwnsEgress, StagesAgree, TypeOK, Idle
<1>7. SaversAsked' /\ OverMeansStopped'
  BY <1>1 DEF SaversAsked, OverMeansStopped, TypeOK, Idle, Terminal
<1> QED
  BY <1>3, <1>4, <1>5, <1>6, <1>7

\* The handlers that pick a row somebody may be saving.
LEMMA StopSteps ==
    ASSUME IndInv, NEW p \in Requests,
           (\E e \in Egresses : StopRecording(p, e)) \/ (\E r \in Rooms : EndRoom(p, r)) \/ Lookup(p)
    PROVE  IndInv'
<1> USE DEF IndInv
<1>1. /\ UNCHANGED <<lkVars, rowVars, faults, unstopped, faulty>>
      /\ status' \in [Rooms -> {"active", "finished", "deleted"}]
      /\ rushed' \subseteq Rooms
  BY DEF StopRecording, EndRoom, Lookup, roomVars, TypeOK
<1>2. /\ proc' \in [Requests -> Handler]
      /\ settled' \subseteq Rooms
      /\ \A q \in Requests \ {p} : proc'[q] = proc[q]
      /\ \/ proc'[p] = Idle
         \/ /\ proc'[p].op = "end"
            /\ proc'[p].at = "lookup"
            /\ proc'[p].room \in Rooms
            /\ proc'[p].egress = NoEgress
         \/ /\ proc'[p].op \in {"stop", "end"}
            /\ proc'[p].at = "stop"
            /\ proc'[p].room \in Rooms
            /\ proc'[p].egress \in Egresses
            /\ row[proc'[p].egress] = "started"
  <2>1. CASE \E e \in Egresses : StopRecording(p, e)
    <3>1. PICK e \in Egresses : row[e] = "started" /\ Begin(p, "stop", "stop", roomOf[e], e)
      BY <2>1 DEF StopRecording
    <3>2. roomOf[e] \in Rooms
      BY <3>1 DEF EgressKnown
    <3>3. proc' \in [Requests -> Handler]
      BY <3>1, <3>2, HoldType DEF Begin, Stages
    <3> QED
      BY <2>1, <3>1, <3>2, <3>3 DEF Begin, Hold, TypeOK, StopRecording, roomVars
  <2>2. CASE \E r \in Rooms : EndRoom(p, r)
    <3>1. PICK r \in Rooms : Begin(p, "end", "lookup", r, NoEgress)
      BY <2>2 DEF EndRoom
    <3>2. proc' \in [Requests -> Handler]
      BY <3>1, HoldType DEF Begin, Stages
    <3> QED
      BY <2>2, <3>1, <3>2 DEF Begin, Hold, TypeOK, EndRoom
  <2>3. CASE Lookup(p)
    <3>1. proc[p].op = "end" /\ proc[p].room \in Rooms
      BY <2>3 DEF Lookup, At, StagesAgree
    <3>2. CASE ActiveIn(proc[p].room) = {} /\ Finish(p) /\ settled' = settled \cup {proc[p].room}
      BY <3>1, <3>2, FinishType DEF Finish, TypeOK
    <3>3. CASE \E e \in ActiveIn(proc[p].room) :
                  Hold(p, "end", "stop", proc[p].room, e) /\ UNCHANGED settled
      <4>1. PICK e \in ActiveIn(proc[p].room) :
               Hold(p, "end", "stop", proc[p].room, e) /\ UNCHANGED settled
        BY <3>3
      <4>2. e \in Egresses /\ row[e] = "started"
        BY DEF ActiveIn, Active
      <4>3. proc' \in [Requests -> Handler]
        BY <3>1, <4>1, <4>2, HoldType DEF Stages
      <4> QED
        BY <3>1, <4>1, <4>2, <4>3 DEF Hold, TypeOK
    <3> QED
      BY <2>3, <3>2, <3>3 DEF Lookup
  <2> QED
    BY <2>1, <2>2, <2>3
<1>3. TypeOK'
  BY <1>1, <1>2 DEF TypeOK, lkVars, rowVars
<1>4. EgressKnown'
  BY <1>1, <1>2, RecordingAssumption DEF EgressKnown, lkVars, rowVars, Idle
<1>5. StagesAgree'
  BY <1>1, <1>2 DEF StagesAgree, rowVars, Idle
<1>6. OwnsEgress'
  BY <1>2, RecordingAssumption DEF OwnsEgress, StagesAgree, Idle
<1>7. SaversAsked' /\ OverMeansStopped'
  BY <1>1, <1>2 DEF SaversAsked, OverMeansStopped, lkVars, rowVars, Idle
<1> QED
  BY <1>3, <1>4, <1>5, <1>6, <1>7

LEMMA StopEgressStep ==
    ASSUME IndInv, NEW p \in Requests, StopEgress(p)
    PROVE  IndInv'
<1> USE DEF IndInv
<1> DEFINE e == proc[p].egress
<1>1. /\ e \in Egresses
      /\ egress[e] # "unused"
      /\ UNCHANGED <<status, settled, rushed, row, sized, faults, unstopped, faulty>>
  BY DEF StopEgress, StagesAgree, EgressKnown, roomVars, rowVars
<1>2. /\ proc' \in [Requests -> Handler]
      /\ \A q \in Requests \ {p} : proc'[q] = proc[q]
      /\ proc'[p].at = "save"
      /\ proc'[p].op = proc[p].op
      /\ proc'[p].room = proc[p].room
      /\ proc'[p].egress = e
  BY DEF StopEgress, MoveTo, TypeOK, Handler, Stages, Terminal
<1>3. /\ egress' \in [Egresses -> {"unused", "running", "ending"} \cup Terminal]
      /\ webhooks' \subseteq Egresses
      /\ \A x \in webhooks' : egress'[x] \in Terminal
      /\ egress'[e] \in Stopped
      /\ \A x \in Egresses : egress[x] \in Stopped => egress'[x] \in Stopped
      /\ \A x \in Egresses : (egress'[x] = "unused") <=> (egress[x] = "unused")
      /\ roomOf' = roomOf
  <2>1. UNCHANGED <<roomOf, webhooks>>
    BY DEF StopEgress
  <2>2. CASE egress[e] \in {"running", "ending"} /\ egress' = [egress EXCEPT ![e] = "ending"]
    BY <1>1, <2>1, <2>2 DEF TypeOK, EgressKnown, Stopped, Terminal
  <2>3. CASE egress[e] # "running" /\ UNCHANGED egress
    BY <1>1, <2>1, <2>3 DEF TypeOK, EgressKnown, Stopped, Terminal
  <2> QED
    BY <2>2, <2>3 DEF StopEgress
<1>4. TypeOK'
  BY <1>1, <1>2, <1>3 DEF TypeOK
<1>5. EgressKnown'
  BY <1>1, <1>2, <1>3 DEF EgressKnown
<1>6. StagesAgree'
  BY <1>1, <1>2 DEF StagesAgree, StopEgress, Idle
<1>7. OwnsEgress'
  BY <1>2 DEF OwnsEgress, StopEgress
<1>8. SaversAsked' /\ OverMeansStopped'
  BY <1>1, <1>2, <1>3 DEF SaversAsked, OverMeansStopped, StagesAgree
<1> QED
  BY <1>4, <1>5, <1>6, <1>7, <1>8

LEMMA StopEgressFailsStep ==
    ASSUME IndInv, NEW p \in Requests, StopEgressFails(p)
    PROVE  IndInv'
<1> USE DEF IndInv
<1> DEFINE e == proc[p].egress
<1>1. /\ e \in Egresses
      /\ proc[p].room \in Rooms
      /\ UNCHANGED <<status, settled, rushed, egress, roomOf, webhooks, row, sized>>
  BY DEF StopEgressFails, StagesAgree, roomVars, lkVars, rowVars
<1>2. /\ proc' \in [Requests -> Handler]
      /\ \A q \in Requests \ {p} : proc'[q] = proc[q]
      /\ unstopped \subseteq unstopped'
      /\ unstopped' \subseteq Egresses
      /\ \/ proc'[p] = Idle
         \/ /\ proc'[p] = [proc[p] EXCEPT !.at = "save"]
            /\ proc[p].op = "end"
            /\ e \in unstopped'
  <2>1. Finish(p) => proc' \in [Requests -> Handler]
    BY FinishType
  <2>2. MoveTo(p, "save") => proc' \in [Requests -> Handler]
    BY MoveToType DEF Stages
  <2> QED
    BY <1>1, <2>1, <2>2 DEF StopEgressFails, Finish, MoveTo, TypeOK
<1>3. TypeOK'
  <2>1. faults' \in 0..MaxFaults /\ faulty' \subseteq Rooms
    BY <1>1, FaultType DEF StopEgressFails
  <2> QED
    BY <1>1, <1>2, <2>1 DEF TypeOK
<1>4. EgressKnown'
  BY <1>1, <1>2, RecordingAssumption DEF EgressKnown, Idle, TypeOK, Handler
<1>5. StagesAgree'
  BY <1>1, <1>2 DEF StagesAgree, Idle, TypeOK, Handler
<1>6. OwnsEgress'
  BY <1>1, <1>2, RecordingAssumption DEF OwnsEgress, StagesAgree, Idle, TypeOK, Handler
<1>7. SaversAsked' /\ OverMeansStopped'
  BY <1>1, <1>2 DEF SaversAsked, OverMeansStopped, Idle, TypeOK, Handler
<1> QED
  BY <1>3, <1>4, <1>5, <1>6, <1>7

LEMMA SaveRowStep ==
    ASSUME IndInv, NEW p \in Requests, SaveRow(p)
    PROVE  IndInv'
<1> USE DEF IndInv
<1> DEFINE e == proc[p].egress
<1>1. /\ e \in Egresses
      /\ proc[p].room \in Rooms
      /\ egress[e] \in Stopped \/ e \in unstopped
      /\ proc' = [proc EXCEPT ![p] = Idle]
      /\ UNCHANGED <<status, rushed, egress, roomOf, webhooks, faults, unstopped, faulty>>
  BY DEF SaveRow, StagesAgree, SaversAsked, Finish, lkVars, Idle
<1>2. /\ row' \in {row, [row EXCEPT ![e] = proc[p].status]}
      /\ row[e] = "none" => row' = row
      /\ sized' \subseteq Egresses
      /\ settled' \subseteq Rooms
      /\ proc[p].status \in Terminal
  BY <1>1 DEF SaveRow, rowVars, TypeOK, Handler
<1>3. TypeOK'
  BY <1>1, <1>2, FinishType DEF TypeOK, Finish
<1>4. EgressKnown'
  BY <1>1, <1>2, RecordingAssumption DEF EgressKnown, TypeOK, Idle
<1>5. StagesAgree'
  BY <1>1, <1>2 DEF StagesAgree, TypeOK, Idle
<1>6. OwnsEgress'
  BY <1>1, RecordingAssumption DEF OwnsEgress, StagesAgree, TypeOK, Idle
<1>7. SaversAsked' /\ OverMeansStopped'
  BY <1>1, <1>2 DEF SaversAsked, OverMeansStopped, TypeOK, Idle, Terminal
<1> QED
  BY <1>3, <1>4, <1>5, <1>6, <1>7

LEMMA OnEgressEndedStep ==
    ASSUME IndInv, NEW p \in Requests, NEW e \in Egresses, OnEgressEnded(p, e)
    PROVE  IndInv'
<1> USE DEF IndInv
<1>1. /\ egress[e] \in Terminal
      /\ row[e] # "none"
      /\ roomOf[e] \in Rooms
      /\ webhooks' \subseteq webhooks
      /\ UNCHANGED <<status, settled, rushed, egress, roomOf, row, sized, faults, unstopped, faulty>>
  BY DEF OnEgressEnded, EgressKnown, Terminal, roomVars, rowVars
<1>2. proc' = [proc EXCEPT ![p] =
                 [op |-> "ended", at |-> "save", room |-> roomOf[e], egress |-> e,
                  status |-> egress[e], sized |-> e \in sized \/ egress[e] = "completed"]]
  BY DEF OnEgressEnded
<1>3. TypeOK'
  BY <1>1, <1>2 DEF TypeOK, Handler, Stages, Terminal
<1>4. EgressKnown'
  BY <1>1, <1>2 DEF EgressKnown, TypeOK, Terminal
<1>5. StagesAgree'
  BY <1>1, <1>2 DEF StagesAgree, TypeOK
<1>6. OwnsEgress'
  BY <1>1, <1>2 DEF OwnsEgress, StagesAgree, TypeOK
<1>7. SaversAsked' /\ OverMeansStopped'
  BY <1>1, <1>2 DEF SaversAsked, OverMeansStopped, Stopped, TypeOK
<1> QED
  BY <1>3, <1>4, <1>5, <1>6, <1>7

LEMMA EnvironmentSteps ==
    ASSUME IndInv,
           (\E e \in Egresses : DropWebhook(e) \/ EgressEnds(e))
             \/ (\E r \in Rooms : AdminHardDelete(r))
    PROVE  IndInv'
<1> USE DEF IndInv
<1>1. CASE \E e \in Egresses : DropWebhook(e)
  BY <1>1 DEF DropWebhook, roomVars, rowVars, TypeOK, EgressKnown, StagesAgree, OwnsEgress,
              SaversAsked, OverMeansStopped
<1>2. ASSUME NEW e \in Egresses, EgressEnds(e)
      PROVE  IndInv'
  <2>1. PICK v \in Terminal : egress[e] \in {"running", "ending"} /\ Ends(e, v)
    BY <1>2 DEF EgressEnds
  <2>2. /\ egress' \in [Egresses -> {"unused", "running", "ending"} \cup Terminal]
        /\ webhooks' \subseteq Egresses
        /\ \A x \in webhooks' : egress'[x] \in Terminal
        /\ \A x \in Egresses : egress[x] \in Stopped => egress'[x] \in Stopped
        /\ \A x \in Egresses : (egress'[x] = "unused") <=> (egress[x] = "unused")
        /\ roomOf' = roomOf
    BY <2>1, EndsKeeps
  <2>3. UNCHANGED <<status, settled, rushed, row, sized, proc, faults, unstopped, faulty>>
    BY <1>2 DEF EgressEnds, roomVars, rowVars
  <2>4. TypeOK' /\ EgressKnown'
    BY <2>2, <2>3 DEF TypeOK, EgressKnown
  <2>5. StagesAgree' /\ OwnsEgress'
    BY <2>3 DEF StagesAgree, OwnsEgress
  <2>6. SaversAsked' /\ OverMeansStopped'
    BY <2>2, <2>3 DEF SaversAsked, OverMeansStopped, StagesAgree
  <2> QED
    BY <2>4, <2>5, <2>6
<1>3. ASSUME NEW r \in Rooms, AdminHardDelete(r)
      PROVE  IndInv'
  <2>1. /\ row' = [e \in Egresses |-> IF roomOf[e] = r THEN "none" ELSE row[e]]
        /\ sized' \subseteq sized
        /\ status' \in [Rooms -> {"active", "finished", "deleted"}]
        /\ UNCHANGED <<egress, roomOf, webhooks, proc, faults, unstopped, settled, rushed, faulty>>
    BY <1>3 DEF AdminHardDelete, lkVars, TypeOK
  <2>2. TypeOK' /\ EgressKnown'
    BY <2>1 DEF TypeOK, EgressKnown
  <2>3. StagesAgree' /\ OwnsEgress'
    BY <2>1 DEF StagesAgree, OwnsEgress
  <2>4. SaversAsked' /\ OverMeansStopped'
    BY <2>1 DEF SaversAsked, OverMeansStopped, Terminal
  <2> QED
    BY <2>2, <2>3, <2>4
<1> QED
  BY <1>1, <1>2, <1>3

LEMMA CrashStep ==
    ASSUME IndInv, NEW p \in Requests, Crash(p)
    PROVE  IndInv'
<1> USE DEF IndInv
<1>1. /\ proc[p].room \in Rooms
      /\ proc' = [proc EXCEPT ![p] = Idle]
      /\ UNCHANGED <<status, settled, rushed, egress, roomOf, webhooks, row, sized, unstopped>>
  BY DEF Crash, StagesAgree, Finish, roomVars, lkVars, rowVars
<1>2. TypeOK'
  <2>1. faults' \in 0..MaxFaults /\ faulty' \subseteq Rooms
    BY <1>1, FaultType DEF Crash
  <2> QED
    BY <1>1, <2>1, FinishType DEF TypeOK, Crash
<1>3. EgressKnown'
  BY <1>1, RecordingAssumption DEF EgressKnown, TypeOK, Idle
<1>4. StagesAgree'
  BY <1>1 DEF StagesAgree, TypeOK, Idle
<1>5. OwnsEgress'
  BY <1>1, RecordingAssumption DEF OwnsEgress, StagesAgree, TypeOK, Idle
<1>6. SaversAsked' /\ OverMeansStopped'
  BY <1>1 DEF SaversAsked, OverMeansStopped, TypeOK, Idle
<1> QED
  BY <1>2, <1>3, <1>4, <1>5, <1>6

-----------------------------------------------------------------------------
(* The theorems *)

LEMMA IndNext == IndInv /\ [Next]_vars => IndInv'
<1> SUFFICES ASSUME IndInv, [Next]_vars PROVE IndInv'
  OBVIOUS
<1>1. CASE UNCHANGED vars
  BY <1>1 DEF vars, IndInv, TypeOK, EgressKnown, StagesAgree, OwnsEgress, SaversAsked,
              OverMeansStopped
<1>2. CASE \E e \in Egresses : DropWebhook(e) \/ EgressEnds(e)
  BY <1>2, EnvironmentSteps
<1>3. CASE \E r \in Rooms : AdminHardDelete(r)
  BY <1>3, EnvironmentSteps
<1>4. ASSUME NEW p \in Requests,
             \/ FindActive(p) \/ CountActive(p) \/ StartEgress(p) \/ StartEgressFails(p)
             \/ CreateRow(p) \/ Lookup(p) \/ StopEgress(p) \/ StopEgressFails(p)
             \/ SaveRow(p) \/ Crash(p)
             \/ \E r \in Rooms : StartRecording(p, r) \/ EndRoom(p, r)
             \/ \E e \in Egresses : StopRecording(p, e) \/ OnEgressEnded(p, e)
      PROVE  IndInv'
  BY <1>4, StartSteps, StartEgressStep, CreateRowStep, StopSteps, StopEgressStep,
     StopEgressFailsStep, SaveRowStep, OnEgressEndedStep, CrashStep
<1> QED
  BY <1>1, <1>2, <1>3, <1>4 DEF Next

LEMMA Inductive == Spec => []IndInv
<1> QED
  BY IndInit, IndNext, PTL DEF Spec

\* Every variable and every handler in flight keeps its type.
THEOREM TypeCorrect == Spec => []TypeOK
<1>1. IndInv => TypeOK
  BY DEF IndInv
<1> QED
  BY <1>1, Inductive, PTL

\* A row is over only when its egress was asked to stop or has ended, or a teardown
\* could not reach LiveKit, whichever stale copies were saved over each other.
THEOREM OverWasAsked == Spec => []OverMeansStopped
<1>1. IndInv => OverMeansStopped
  BY DEF IndInv
<1> QED
  BY <1>1, Inductive, PTL

LEMMA RowSteps ==
    ASSUME IndInv, [Next]_vars
    PROVE  \/ UNCHANGED row
           \/ \E p \in Requests : CreateRow(p) \/ SaveRow(p)
           \/ \E r \in Rooms : AdminHardDelete(r)
BY DEF Next, vars, StartRecording, FindActive, CountActive, StartEgress, StartEgressFails,
       StopRecording, EndRoom, Lookup, StopEgress, StopEgressFails, OnEgressEnded,
       DropWebhook, EgressEnds, Crash, rowVars

\* No save of a stale copy makes a recording that is over active again.
THEOREM OverStaysOver == Spec => NeverReopened
<1>1. ASSUME IndInv, [Next]_vars
      PROVE  \A e \in Egresses : row[e] \in Terminal => row'[e] # "started"
  <2>1. CASE UNCHANGED row
    BY <1>1, <2>1 DEF Terminal
  <2>2. ASSUME NEW p \in Requests, CreateRow(p)
        PROVE  \A e \in Egresses : row[e] \in Terminal => row'[e] # "started"
    <3>1. proc[p].egress \in Egresses /\ row[proc[p].egress] = "none"
      BY <1>1, <2>2 DEF CreateRow, At, IndInv, StagesAgree
    <3> QED
      BY <1>1, <2>2, <3>1 DEF CreateRow, Terminal, IndInv, TypeOK
  <2>3. ASSUME NEW p \in Requests, SaveRow(p)
        PROVE  \A e \in Egresses : row[e] \in Terminal => row'[e] # "started"
    <3>1. proc[p].egress \in Egresses /\ proc[p].status \in Terminal
      BY <1>1, <2>3 DEF SaveRow, IndInv, StagesAgree, TypeOK, Handler, Idle
    <3>2. row' = row \/ row' = [row EXCEPT ![proc[p].egress] = proc[p].status]
      BY <2>3 DEF SaveRow, rowVars
    <3> QED
      BY <1>1, <3>1, <3>2 DEF Terminal, IndInv, TypeOK
  <2>4. CASE \E r \in Rooms : AdminHardDelete(r)
    BY <1>1, <2>4 DEF AdminHardDelete, Terminal
  <2> QED
    BY <1>1, <2>1, <2>2, <2>3, <2>4, RowSteps
<1>2. IndInv /\ [Next]_vars =>
        [\A e \in Egresses : row[e] \in Terminal => row'[e] # "started"]_vars
  BY <1>1
<1> QED
  BY <1>2, Inductive, PTL DEF Spec, NeverReopened

-----------------------------------------------------------------------------
(* The egress cap *)

\* The handlers whose capacity check is behind them and whose row is not in.
Late == {p \in Requests : proc[p].op = "start" /\ proc[p].at \in {"egress", "create"}}

CapBound == Cardinality(Active) + Cardinality(Late) < Cap + Cardinality(Requests)

\* Both sets are finite, and smaller when something leaves them.
LEMMA CapFinite ==
    /\ IsFiniteSet(Active) /\ Cardinality(Active) \in Nat
    /\ IsFiniteSet(Late) /\ Cardinality(Late) \in Nat
    /\ Cardinality(Requests) \in Nat
    /\ \A S \in SUBSET Late : Cardinality(S) \in Nat /\ Cardinality(S) <= Cardinality(Late)
    /\ \A S \in SUBSET Active : Cardinality(S) \in Nat /\ Cardinality(S) <= Cardinality(Active)
    /\ \A S \in SUBSET Requests : Cardinality(S) \in Nat /\ Cardinality(S) <= Cardinality(Requests)
<1>1. Active \in SUBSET Egresses /\ Late \in SUBSET Requests
  BY DEF Active, Late
<1>2. IsFiniteSet(Active) /\ IsFiniteSet(Late) /\ IsFiniteSet(Requests)
  BY <1>1, RecordingAssumption, FS_Subset
<1>3. \A S, T : IsFiniteSet(T) /\ S \in SUBSET T =>
          Cardinality(S) \in Nat /\ Cardinality(S) <= Cardinality(T)
  BY FS_Subset, FS_CardinalityType
<1> QED
  BY <1>2, <1>3, FS_CardinalityType

LEMMA CapInit == Init => CapBound
<1> SUFFICES ASSUME Init PROVE CapBound
  OBVIOUS
<1>1. Active = {} /\ Late = {}
  BY DEF Init, Active, Late, Idle
<1>2. Cardinality(Requests) \in Nat
  BY CapFinite
<1> QED
  BY <1>1, <1>2, FS_EmptySet, RecordingAssumption DEF CapBound

\* Whatever takes nothing past its check and activates no row keeps the bound.
LEMMA CapShrinks ==
    ASSUME CapBound, Active' \subseteq Active, Late' \subseteq Late
    PROVE  CapBound'
BY CapFinite, RecordingAssumption DEF CapBound

\* Passing the check: fewer than Cap are active, and all handlers together are
\* as many as there are.
LEMMA CapCount ==
    ASSUME IndInv, CapBound, NEW p \in Requests, CountActive(p)
    PROVE  CapBound'
<1>1. Active' = Active
  BY DEF CountActive, rowVars, Active
<1>2. CASE Cardinality(Active) < Cap
  <2>1. Late' \in SUBSET Requests
    BY DEF Late
  <2>2. Cardinality(Late') \in Nat /\ Cardinality(Late') <= Cardinality(Requests)
    BY <2>1, CapFinite
  <2> QED
    BY <1>1, <1>2, <2>2, CapFinite, RecordingAssumption DEF CapBound
<1>3. CASE ~(Cardinality(Active) < Cap)
  <2>1. Late' \subseteq Late
    BY <1>3 DEF CountActive, Finish, Late, IndInv, TypeOK, Idle
  <2> QED
    BY <1>1, <2>1, CapShrinks
<1> QED
  BY <1>2, <1>3

\* One more element is at most one more in number.
LEMMA AddOne ==
    ASSUME NEW S, IsFiniteSet(S), NEW x
    PROVE  /\ IsFiniteSet(S \cup {x})
           /\ Cardinality(S \cup {x}) <= Cardinality(S) + 1
<1>1. Cardinality(S) \in Nat
  BY FS_CardinalityType
<1>2. IsFiniteSet(S \cup {x})
  BY FS_AddElement
<1>3. \/ Cardinality(S \cup {x}) = Cardinality(S)
      \/ Cardinality(S \cup {x}) = Cardinality(S) + 1
  BY FS_AddElement, Zenon
<1> QED
  BY <1>1, <1>2, <1>3

\* The row that goes in has its handler leave.
LEMMA CapCreate ==
    ASSUME IndInv, CapBound, NEW p \in Requests, CreateRow(p)
    PROVE  CapBound'
<1> DEFINE e == proc[p].egress
<1>1. p \in Late /\ Late' = Late \ {p}
  BY DEF CreateRow, At, Finish, Late, IndInv, TypeOK, Idle
<1>2. Active' \subseteq Active \cup {e}
  BY DEF CreateRow, Active, IndInv, TypeOK
<1>3. Cardinality(Late') = Cardinality(Late) - 1
  BY <1>1, CapFinite, FS_RemoveElement
<1> HIDE DEF e
<1>4. IsFiniteSet(Active)
  BY CapFinite
<1>5. /\ IsFiniteSet(Active \cup {e})
      /\ Cardinality(Active \cup {e}) <= Cardinality(Active) + 1
  BY <1>4, AddOne
<1>6. IsFiniteSet(Active') /\ Cardinality(Active') <= Cardinality(Active \cup {e})
  BY <1>2, <1>5, FS_Subset
<1>7. /\ Cardinality(Active') \in Nat
      /\ Cardinality(Active \cup {e}) \in Nat
  BY <1>5, <1>6, FS_CardinalityType
<1> QED
  BY <1>3, <1>5, <1>6, <1>7, CapFinite, RecordingAssumption DEF CapBound

LEMMA CapNext == IndInv /\ CapBound /\ [Next]_vars => CapBound'
<1> SUFFICES ASSUME IndInv, CapBound, [Next]_vars PROVE CapBound'
  OBVIOUS
<1> USE DEF Active, Late
<1>1. CASE UNCHANGED vars
  BY <1>1, CapShrinks DEF vars
<1>2. CASE \E e \in Egresses : DropWebhook(e) \/ EgressEnds(e)
  BY <1>2, CapShrinks DEF DropWebhook, EgressEnds, rowVars
<1>3. CASE \E r \in Rooms : AdminHardDelete(r)
  BY <1>3, CapShrinks DEF AdminHardDelete
<1>4. ASSUME NEW p \in Requests,
             \/ \E r \in Rooms : StartRecording(p, r) \/ EndRoom(p, r)
             \/ \E e \in Egresses : StopRecording(p, e) \/ OnEgressEnded(p, e)
      PROVE  CapBound'
  <2>1. UNCHANGED row
    BY <1>4 DEF StartRecording, EndRoom, StopRecording, OnEgressEnded, rowVars
  <2>2. /\ \A q \in Requests \ {p} : proc'[q] = proc[q]
        /\ proc'[p].at \in {"find", "lookup", "stop", "save"}
    BY <1>4 DEF StartRecording, EndRoom, StopRecording, OnEgressEnded, Begin, Hold, IndInv, TypeOK
  <2> QED
    BY <2>1, <2>2, CapShrinks
<1>5. ASSUME NEW p \in Requests,
             FindActive(p) \/ StartEgressFails(p) \/ Lookup(p) \/ StopEgressFails(p) \/ Crash(p)
      PROVE  CapBound'
  <2>1. UNCHANGED row
    BY <1>5 DEF FindActive, StartEgressFails, Lookup, StopEgressFails, Crash, rowVars
  <2>2. /\ \A q \in Requests \ {p} : proc'[q] = proc[q]
        /\ proc'[p].at \in {"idle", "count", "stop", "save"}
    <3>1. CASE Finish(p)
      BY <3>1 DEF Finish, IndInv, TypeOK, Idle
    <3>2. CASE MoveTo(p, "count") \/ MoveTo(p, "save")
      BY <3>2 DEF MoveTo, IndInv, TypeOK, Handler
    <3>3. CASE \E e \in ActiveIn(proc[p].room) : Hold(p, "end", "stop", proc[p].room, e)
      BY <3>3 DEF Hold, IndInv, TypeOK
    <3> QED
      BY <1>5, <3>1, <3>2, <3>3 DEF FindActive, StartEgressFails, Lookup, StopEgressFails, Crash
  <2> QED
    BY <2>1, <2>2, CapShrinks
<1>6. ASSUME NEW p \in Requests, StartEgress(p) PROVE CapBound'
  <2>1. UNCHANGED row
    BY <1>6 DEF StartEgress, rowVars
  <2>2. p \in Late
    BY <1>6 DEF StartEgress, At
  <2>3. \A q \in Requests \ {p} : proc'[q] = proc[q]
    BY <1>6 DEF StartEgress, Finish, IndInv, TypeOK
  <2> QED
    BY <2>1, <2>2, <2>3, CapShrinks
<1>7. ASSUME NEW p \in Requests, StopEgress(p) PROVE CapBound'
  <2>1. UNCHANGED row
    BY <1>7 DEF StopEgress, rowVars
  <2>2. /\ \A q \in Requests \ {p} : proc'[q] = proc[q]
        /\ proc'[p].at = "save"
    BY <1>7 DEF StopEgress, MoveTo, IndInv, TypeOK, Handler
  <2> QED
    BY <2>1, <2>2, CapShrinks
<1>8. ASSUME NEW p \in Requests, SaveRow(p) PROVE CapBound'
  <2>1. proc[p].status # "started"
    BY DEF IndInv, TypeOK, Handler, Terminal
  <2>2. /\ \A q \in Requests \ {p} : proc'[q] = proc[q]
        /\ proc'[p] = Idle
    BY <1>8 DEF SaveRow, Finish, IndInv, TypeOK
  <2>3. row' = row \/ row' = [row EXCEPT ![proc[p].egress] = proc[p].status]
    BY <1>8 DEF SaveRow, rowVars
  <2>4. Active' \subseteq Active
    BY <2>1, <2>3 DEF IndInv, TypeOK
  <2>5. Late' \subseteq Late
    BY <2>2 DEF Idle
  <2> QED
    BY <2>4, <2>5, CapShrinks
<1> QED
  BY <1>1, <1>2, <1>3, <1>4, <1>5, <1>6, <1>7, <1>8, CapCount, CapCreate DEF Next

\* The fleet-wide cap is exceeded by fewer recordings than there are handlers.
THEOREM CapOvershootBounded == Spec => []CapOvershoot
<1>1. CapBound => CapOvershoot
  BY CapFinite, RecordingAssumption DEF CapBound, CapOvershoot
<1> QED
  BY <1>1, CapInit, CapNext, Inductive, PTL DEF Spec

-----------------------------------------------------------------------------
(* What a quiet room leaves behind *)

Starter(p, r) == proc[p].op = "start" /\ proc[p].room = r

\* Starts do not overlap one another or the end of the room.
OneStarter(r) ==
    /\ \A p, q \in Requests : Starter(p, r) /\ Starter(q, r) => p = q
    /\ status[r] = "finished" => ~Starting(r)

\* So the check of a start still holds when it creates its row.
OneActive(r) ==
    /\ \A p \in Requests :
        Starter(p, r) /\ proc[p].at \in {"count", "egress", "create"} => ActiveIn(r) = {}
    /\ \A e, f \in ActiveIn(r) : e = f

\* An egress that runs has its row, or a handler about to create it.
RunningIsKnown(r) ==
    \A e \in Egresses : roomOf[e] = r /\ egress[e] = "running" =>
        \/ row[e] = "started"
        \/ \E p \in Requests : Starter(p, r) /\ proc[p].at = "create" /\ proc[p].egress = e

\* The teardown that has found one recording has found all there are.
EndFoundAll(r) ==
    /\ \A p \in Requests : proc[p].op = "end" /\ proc[p].room = r /\ proc[p].at \in {"stop", "save"}
            => ActiveIn(r) \subseteq {proc[p].egress}
    /\ r \in settled => ActiveIn(r) = {}

QuietParts(r) == OneStarter(r) /\ OneActive(r) /\ RunningIsKnown(r) /\ EndFoundAll(r)

\* Rooms that have ended stay so, a handler's egress is of its room, and one
\* that could not be stopped counts as a fault of its room.
EndsAgree ==
    /\ \A r \in settled : status[r] # "active"
    /\ \A p \in Requests : proc[p].op = "end" => status[proc[p].room] # "active"
    /\ \A p \in Requests : proc[p].at \in {"create", "stop", "save"} => roomOf[proc[p].egress] = proc[p].room
    /\ \A e \in unstopped : egress[e] # "unused" /\ roomOf[e] \in faulty

Quiet(r) == r \notin rushed \cup faulty /\ status[r] # "deleted"

ReleaseInv == EndsAgree /\ \A r \in Rooms : Quiet(r) => QuietParts(r)

LEMMA ReleaseInit == Init => ReleaseInv
BY RecordingAssumption DEF Init, ReleaseInv, EndsAgree, Quiet, QuietParts, OneStarter, OneActive,
     RunningIsKnown, EndFoundAll, Starter, Starting, ActiveIn, Active, Idle

\* A step of one handler p leaves the other rooms' parts as they were.
LEMMA QuietOthers ==
    ASSUME IndInv, NEW p \in Requests, NEW r \in Rooms, QuietParts(r),
           status'[r] = status[r], r \in settled' => r \in settled,
           \A q \in Requests \ {p} : proc'[q] = proc[q],
           proc[p].room # r, proc'[p].room # r,
           \A e \in Egresses : roomOf'[e] = r <=> roomOf[e] = r,
           \A e \in Egresses : roomOf[e] = r =>
               /\ row'[e] = row[e]
               /\ egress'[e] = "running" => egress[e] = "running"
    PROVE  QuietParts(r)'
<1>1. ActiveIn(r)' = ActiveIn(r)
  BY DEF ActiveIn, Active
<1>2. \A q \in Requests : Starter(q, r)' <=> Starter(q, r)
  BY DEF Starter
<1>3. OneStarter(r)'
  BY <1>2 DEF QuietParts, OneStarter, Starting, Starter
<1>4. OneActive(r)'
  BY <1>1, <1>2 DEF QuietParts, OneActive, Starter
<1>5. RunningIsKnown(r)'
  BY <1>2 DEF QuietParts, RunningIsKnown, Starter
<1>6. EndFoundAll(r)'
  BY <1>1 DEF QuietParts, EndFoundAll
<1> QED
  BY <1>3, <1>4, <1>5, <1>6 DEF QuietParts

\* So do steps that no handler takes, when they start nothing and reopen nothing.
LEMMA QuietSame ==
    ASSUME NEW r \in Rooms, QuietParts(r), UNCHANGED <<proc, roomOf>>,
           status'[r] = status[r], r \in settled' => r \in settled,
           \A e \in Egresses : roomOf[e] = r =>
               /\ row'[e] = row[e]
               /\ egress'[e] = "running" => egress[e] = "running"
    PROVE  QuietParts(r)'
<1>1. ActiveIn(r)' = ActiveIn(r)
  BY DEF ActiveIn, Active
<1>2. \A q \in Requests : Starter(q, r)' <=> Starter(q, r)
  BY DEF Starter
<1> QED
  BY <1>1, <1>2 DEF QuietParts, OneStarter, OneActive, RunningIsKnown, EndFoundAll, Starting, Starter

\* A handler of the room moves on, and no start of it gains ground.
LEMMA QuietMoves ==
    ASSUME NEW p \in Requests, NEW r \in Rooms, QuietParts(r),
           \A q \in Requests \ {p} : proc'[q] = proc[q],
           UNCHANGED <<status, roomOf>>,
           \A e \in Egresses : roomOf[e] = r =>
               /\ row'[e] = "started" <=> row[e] = "started"
               /\ egress'[e] = "running" => egress[e] = "running",
           proc[p].at # "create",
           Starter(p, r)' => /\ Starter(p, r)
                             /\ proc'[p].at \in {"count", "egress", "create"} => ActiveIn(r) = {},
           proc'[p].op = "end" /\ proc'[p].room = r /\ proc'[p].at \in {"stop", "save"}
               => ActiveIn(r) \subseteq {proc'[p].egress},
           r \in settled' => r \in settled \/ ActiveIn(r) = {}
    PROVE  QuietParts(r)'
<1>1. ActiveIn(r)' = ActiveIn(r)
  BY DEF ActiveIn, Active
<1>2. \A q \in Requests : Starter(q, r)' => Starter(q, r)
  BY DEF Starter
<1>3. OneStarter(r)'
  BY <1>2 DEF QuietParts, OneStarter, Starting, Starter
<1>4. OneActive(r)'
  BY <1>1, <1>2 DEF QuietParts, OneActive, Starter
<1>5. RunningIsKnown(r)'
  BY DEF QuietParts, RunningIsKnown, Starter
<1>6. EndFoundAll(r)'
  BY <1>1 DEF QuietParts, EndFoundAll
<1> QED
  BY <1>3, <1>4, <1>5, <1>6 DEF QuietParts


LEMMA ReleaseStart ==
    ASSUME IndInv, ReleaseInv, NEW p \in Requests, NEW s \in Rooms, StartRecording(p, s)
    PROVE  ReleaseInv'
<1>1. /\ proc[p] = Idle /\ status[s] = "active"
      /\ proc'[p].op = "start" /\ proc'[p].at = "find" /\ proc'[p].room = s
      /\ \A q \in Requests \ {p} : proc'[q] = proc[q]
      /\ rushed' = IF Starting(s) THEN rushed \cup {s} ELSE rushed
      /\ UNCHANGED <<status, egress, roomOf, row, unstopped, settled, faulty>>
  BY DEF StartRecording, Begin, Hold, IndInv, TypeOK, lkVars, rowVars
<1>2. EndsAgree'
  BY <1>1 DEF ReleaseInv, EndsAgree
<1>3. ASSUME NEW r \in Rooms, Quiet(r)' PROVE QuietParts(r)'
  <2>1. QuietParts(r)
    BY <1>1, <1>3 DEF Quiet, ReleaseInv
  <2>2. CASE r # s
    BY <1>1, <2>1, <2>2, QuietOthers, RecordingAssumption DEF Idle
  <2>3. CASE r = s
    <3>1. ~Starting(s)
      BY <1>1, <1>3, <2>3 DEF Quiet
    <3>2. ActiveIn(s)' = ActiveIn(s)
      BY <1>1 DEF ActiveIn, Active
    <3>3. \A q \in Requests : Starter(q, s)' => q = p
      BY <1>1, <3>1 DEF Starter, Starting
    <3>4. OneStarter(s)' /\ OneActive(s)'
      BY <1>1, <2>1, <2>3, <3>2, <3>3 DEF QuietParts, OneStarter, OneActive
    <3>5. RunningIsKnown(s)'
      BY <1>1, <2>1, <2>3 DEF QuietParts, RunningIsKnown, Starter, Idle
    <3>6. EndFoundAll(s)'
      BY <1>1, <2>1, <2>3, <3>2 DEF QuietParts, EndFoundAll
    <3> QED
      BY <2>3, <3>4, <3>5, <3>6 DEF QuietParts
  <2> QED
    BY <2>2, <2>3
<1> QED
  BY <1>2, <1>3 DEF ReleaseInv

LEMMA ReleaseChecks ==
    ASSUME IndInv, ReleaseInv, NEW p \in Requests,
           FindActive(p) \/ CountActive(p) \/ StartEgressFails(p)
    PROVE  ReleaseInv'
<1>1. /\ proc[p].op = "start" /\ proc[p].at # "create" /\ proc[p].room \in Rooms
      /\ \A q \in Requests \ {p} : proc'[q] = proc[q]
      /\ \/ proc'[p] = Idle
         \/ /\ proc'[p].op = "start" /\ proc'[p].at \in {"count", "egress"}
            /\ proc'[p].room = proc[p].room
            /\ proc[p].at = "find" => ActiveIn(proc[p].room) = {}
            /\ proc[p].at \in {"find", "count"}
      /\ UNCHANGED <<status, rushed, egress, roomOf, row, unstopped, settled, faulty>>
  BY DEF FindActive, CountActive, StartEgressFails, At, MoveTo, Finish, IndInv, TypeOK, Handler,
         StagesAgree, roomVars, lkVars, rowVars
<1>2. EndsAgree'
  BY <1>1 DEF ReleaseInv, EndsAgree, Idle
<1>3. ASSUME NEW r \in Rooms, Quiet(r)' PROVE QuietParts(r)'
  <2>1. QuietParts(r)
    BY <1>1, <1>3 DEF Quiet, ReleaseInv
  <2>2. Starter(p, r)' => /\ Starter(p, r)
                          /\ proc'[p].at \in {"count", "egress", "create"} => ActiveIn(r) = {}
    BY <1>1, <2>1 DEF Starter, Idle, QuietParts, OneActive
  <2>3. proc'[p].op # "end"
    BY <1>1 DEF Idle
  <2> QED
    BY <1>1, <2>1, <2>2, <2>3, QuietMoves
<1> QED
  BY <1>2, <1>3 DEF ReleaseInv

LEMMA ReleaseStartEgress ==
    ASSUME IndInv, ReleaseInv, NEW p \in Requests, StartEgress(p)
    PROVE  ReleaseInv'
<1>1. PICK e \in Egresses :
        /\ egress[e] = "unused"
        /\ egress' = [egress EXCEPT ![e] = "running"]
        /\ roomOf' = [roomOf EXCEPT ![e] = proc[p].room]
        /\ \/ /\ proc' = [proc EXCEPT ![p].at = "create", ![p].egress = e]
              /\ UNCHANGED <<faults, faulty>>
           \/ Finish(p) /\ Fault(proc[p].room)
  BY DEF StartEgress
<1>2. /\ proc[p].op = "start" /\ proc[p].at = "egress" /\ proc[p].room \in Rooms
      /\ UNCHANGED <<status, settled, rushed, row, unstopped>>
      /\ \A q \in Requests \ {p} : proc'[q] = proc[q]
      /\ row[e] = "none"
      /\ \A q \in Requests : proc[q].egress # e
  BY <1>1 DEF StartEgress, At, IndInv, StagesAgree, EgressKnown, TypeOK, Finish, roomVars, rowVars
<1>3. \/ proc'[p] = Idle /\ faulty' = faulty \cup {proc[p].room}
      \/ /\ proc'[p].op = "start" /\ proc'[p].at = "create" /\ proc'[p].egress = e
         /\ proc'[p].room = proc[p].room /\ faulty' = faulty
  <2>1. CASE Finish(p) /\ Fault(proc[p].room)
    BY <2>1 DEF Finish, Fault, IndInv, TypeOK
  <2>2. CASE /\ proc' = [proc EXCEPT ![p].at = "create", ![p].egress = e]
             /\ UNCHANGED <<faults, faulty>>
    BY <1>2, <2>2 DEF IndInv, TypeOK, Handler
  <2> QED
    BY <1>1, <2>1, <2>2
<1>4. /\ \A x \in Egresses \ {e} : roomOf'[x] = roomOf[x] /\ egress'[x] = egress[x]
      /\ roomOf'[e] = proc[p].room
      /\ e \notin unstopped
      /\ egress'[e] # "unused"
  BY <1>1, <1>2 DEF IndInv, TypeOK, ReleaseInv, EndsAgree
<1>5. EndsAgree'
  BY <1>2, <1>3, <1>4 DEF ReleaseInv, EndsAgree, Idle, IndInv, TypeOK, StagesAgree
<1>6. ASSUME NEW r \in Rooms, Quiet(r)' PROVE QuietParts(r)'
  <2>1. QuietParts(r)
    BY <1>2, <1>3, <1>6 DEF Quiet, ReleaseInv
  <2>2. ActiveIn(r)' = ActiveIn(r)
    BY <1>2, <1>4 DEF ActiveIn, Active
  <2>3. \A q \in Requests : Starter(q, r)' => Starter(q, r)
    BY <1>2, <1>3 DEF Starter, Idle
  <2>4. OneStarter(r)'
    BY <1>2, <2>1, <2>3 DEF QuietParts, OneStarter, Starting, Starter
  <2>5. OneActive(r)'
    BY <1>2, <1>3, <2>1, <2>2, <2>3 DEF QuietParts, OneActive, Starter, Idle
  <2>6. RunningIsKnown(r)'
    <3> SUFFICES ASSUME NEW x \in Egresses, roomOf'[x] = r, egress'[x] = "running"
                 PROVE  \/ row'[x] = "started"
                        \/ \E q \in Requests : Starter(q, r)' /\ proc'[q].at = "create" /\ proc'[q].egress = x
      BY DEF RunningIsKnown
    <3>1. CASE x = e
      BY <1>2, <1>3, <1>4, <1>6, <3>1 DEF Starter, Quiet
    <3>2. CASE x # e
      BY <1>2, <1>4, <2>1, <3>2 DEF QuietParts, RunningIsKnown, Starter
    <3> QED
      BY <3>1, <3>2
  <2>7. EndFoundAll(r)'
    BY <1>2, <1>3, <2>1, <2>2 DEF QuietParts, EndFoundAll, Idle
  <2> QED
    BY <2>4, <2>5, <2>6, <2>7 DEF QuietParts
<1> QED
  BY <1>5, <1>6 DEF ReleaseInv

LEMMA ReleaseCreate ==
    ASSUME IndInv, ReleaseInv, NEW p \in Requests, CreateRow(p)
    PROVE  ReleaseInv'
<1> DEFINE e == proc[p].egress
           s == proc[p].room
<1>1. /\ proc[p].op = "start" /\ proc[p].at = "create" /\ s \in Rooms /\ e \in Egresses
      /\ row' = IF status[s] = "deleted" THEN row ELSE [row EXCEPT ![e] = "started"]
      /\ proc'[p] = Idle
      /\ \A q \in Requests \ {p} : proc'[q] = proc[q]
      /\ roomOf[e] = s
      /\ UNCHANGED <<status, rushed, egress, roomOf, unstopped, settled, faulty>>
  BY DEF CreateRow, At, Finish, IndInv, TypeOK, StagesAgree, roomVars, lkVars, ReleaseInv, EndsAgree
<1>2. EndsAgree'
  BY <1>1 DEF ReleaseInv, EndsAgree, Idle
<1>3. ASSUME NEW r \in Rooms, Quiet(r)' PROVE QuietParts(r)'
  <2>1. QuietParts(r)
    BY <1>1, <1>3 DEF Quiet, ReleaseInv
  <2>2. CASE r # s
    BY <1>1, <2>1, <2>2, QuietOthers, RecordingAssumption DEF Idle, IndInv, TypeOK
  <2>3. CASE r = s
    <3>1. row' = [row EXCEPT ![e] = "started"] /\ status[r] = "active"
      BY <1>1, <1>3, <2>1, <2>3 DEF Quiet, QuietParts, OneStarter, Starting, IndInv, TypeOK
    <3>2. ActiveIn(r) = {} /\ ActiveIn(r)' = {e}
      <4>1. ActiveIn(r) = {}
        BY <1>1, <2>1, <2>3 DEF QuietParts, OneActive, Starter
      <4> QED
        BY <1>1, <2>3, <3>1, <4>1 DEF ActiveIn, Active, IndInv, TypeOK
    <3>3. \A q \in Requests : ~Starter(q, r)'
      BY <1>1, <2>1, <2>3 DEF QuietParts, OneStarter, Starter, Idle
    <3>4. OneStarter(r)' /\ OneActive(r)'
      BY <3>2, <3>3 DEF OneStarter, OneActive, Starting, Starter
    <3>5. RunningIsKnown(r)'
      BY <1>1, <2>1, <2>3, <3>1 DEF QuietParts, RunningIsKnown, OneStarter, Starter, IndInv, TypeOK
    <3>6. EndFoundAll(r)'
      BY <1>1, <1>2, <2>3, <3>1 DEF EndFoundAll, EndsAgree
    <3> QED
      BY <3>4, <3>5, <3>6 DEF QuietParts
  <2> QED
    BY <2>2, <2>3
<1> QED
  BY <1>2, <1>3 DEF ReleaseInv


\* A handler that stops or finishes a recording takes its copy.
LEMMA ReleaseHold ==
    ASSUME IndInv, ReleaseInv, NEW p \in Requests, NEW e \in Egresses,
           StopRecording(p, e) \/ OnEgressEnded(p, e)
    PROVE  ReleaseInv'
<1>1. /\ proc[p] = Idle
      /\ proc'[p].op \in {"stop", "ended"} /\ proc'[p].at \in {"stop", "save"}
      /\ proc'[p].room = roomOf[e] /\ proc'[p].egress = e
      /\ \A q \in Requests \ {p} : proc'[q] = proc[q]
      /\ UNCHANGED <<status, rushed, egress, roomOf, row, unstopped, settled, faulty>>
  BY DEF StopRecording, OnEgressEnded, Begin, Hold, IndInv, TypeOK, roomVars, lkVars, rowVars
<1>2. EndsAgree'
  BY <1>1 DEF ReleaseInv, EndsAgree
<1>3. ASSUME NEW r \in Rooms, Quiet(r)' PROVE QuietParts(r)'
  <2>1. QuietParts(r)
    BY <1>1, <1>3 DEF Quiet, ReleaseInv
  <2>2. ~Starter(p, r)' /\ proc[p].at # "create" /\ proc'[p].op # "end"
    BY <1>1 DEF Starter, Idle
  <2> QED
    BY <1>1, <2>1, <2>2, QuietMoves
<1> QED
  BY <1>2, <1>3 DEF ReleaseInv

LEMMA ReleaseEnd ==
    ASSUME IndInv, ReleaseInv, NEW p \in Requests, NEW s \in Rooms, EndRoom(p, s)
    PROVE  ReleaseInv'
<1>1. /\ proc[p] = Idle /\ status[s] = "active"
      /\ proc'[p].op = "end" /\ proc'[p].at = "lookup" /\ proc'[p].room = s
      /\ \A q \in Requests \ {p} : proc'[q] = proc[q]
      /\ rushed' = IF Starting(s) THEN rushed \cup {s} ELSE rushed
      /\ status' = [status EXCEPT ![s] = "finished"]
      /\ UNCHANGED <<egress, roomOf, row, unstopped, settled, faulty>>
  BY DEF EndRoom, Begin, Hold, IndInv, TypeOK, lkVars, rowVars
<1>2. EndsAgree'
  BY <1>1 DEF ReleaseInv, EndsAgree, IndInv, TypeOK, StagesAgree
<1>3. ASSUME NEW r \in Rooms, Quiet(r)' PROVE QuietParts(r)'
  <2>1. QuietParts(r)
    BY <1>1, <1>3 DEF Quiet, ReleaseInv, IndInv, TypeOK
  <2>2. CASE r # s
    BY <1>1, <2>1, <2>2, QuietOthers, RecordingAssumption DEF Idle, IndInv, TypeOK
  <2>3. CASE r = s
    <3>1. ~Starting(s)
      BY <1>1, <1>3, <2>3 DEF Quiet
    <3>2. ActiveIn(s)' = ActiveIn(s)
      BY <1>1 DEF ActiveIn, Active
    <3>3. \A q \in Requests : ~Starter(q, s) /\ ~Starter(q, s)'
      BY <1>1, <3>1 DEF Starter, Starting
    <3>4. OneStarter(s)' /\ OneActive(s)'
      BY <2>1, <2>3, <3>2, <3>3 DEF QuietParts, OneStarter, OneActive, Starting, Starter
    <3>5. RunningIsKnown(s)'
      BY <1>1, <2>1, <2>3, <3>3 DEF QuietParts, RunningIsKnown
    <3>6. EndFoundAll(s)'
      BY <1>1, <2>1, <2>3, <3>2 DEF QuietParts, EndFoundAll
    <3> QED
      BY <2>3, <3>4, <3>5, <3>6 DEF QuietParts
  <2> QED
    BY <2>2, <2>3
<1> QED
  BY <1>2, <1>3 DEF ReleaseInv

\* What the teardown finds is all there is.
LEMMA ReleaseLookup ==
    ASSUME IndInv, ReleaseInv, NEW p \in Requests, Lookup(p)
    PROVE  ReleaseInv'
<1> DEFINE s == proc[p].room
<1>1. /\ proc[p].op = "end" /\ proc[p].at = "lookup" /\ s \in Rooms
      /\ \A q \in Requests \ {p} : proc'[q] = proc[q]
      /\ UNCHANGED <<status, rushed, egress, roomOf, row, unstopped, faulty>>
      /\ \/ ActiveIn(s) = {} /\ proc'[p] = Idle /\ settled' = settled \cup {s}
         \/ /\ proc'[p].op = "end" /\ proc'[p].at = "stop" /\ proc'[p].room = s
            /\ proc'[p].egress \in ActiveIn(s)
            /\ settled' = settled
  BY DEF Lookup, At, Hold, Finish, IndInv, TypeOK, StagesAgree, lkVars, rowVars
<1>2. EndsAgree'
  BY <1>1 DEF ReleaseInv, EndsAgree, Idle, ActiveIn
<1>3. ASSUME NEW r \in Rooms, Quiet(r)' PROVE QuietParts(r)'
  <2>1. QuietParts(r)
    BY <1>1, <1>3 DEF Quiet, ReleaseInv
  <2>2. ~Starter(p, r)' /\ proc[p].at # "create"
    BY <1>1 DEF Starter, Idle
  <2>3. proc'[p].op = "end" /\ proc'[p].room = r /\ proc'[p].at \in {"stop", "save"}
          => ActiveIn(r) \subseteq {proc'[p].egress}
    BY <1>1, <2>1 DEF Idle, QuietParts, OneActive
  <2>4. r \in settled' => r \in settled \/ ActiveIn(r) = {}
    BY <1>1
  <2> QED
    BY <1>1, <2>1, <2>2, <2>3, <2>4, QuietMoves
<1> QED
  BY <1>2, <1>3 DEF ReleaseInv

LEMMA ReleaseStop ==
    ASSUME IndInv, ReleaseInv, NEW p \in Requests, StopEgress(p)
    PROVE  ReleaseInv'
<1>1. /\ proc[p].at = "stop" /\ proc[p].op # "start" /\ proc[p].egress \in Egresses
      /\ \A q \in Requests \ {p} : proc'[q] = proc[q]
      /\ UNCHANGED <<status, rushed, settled, row, unstopped, faulty>>
      /\ proc'[p].at = "save" /\ proc'[p].op = proc[p].op
      /\ proc'[p].room = proc[p].room /\ proc'[p].egress = proc[p].egress
  BY DEF StopEgress, MoveTo, IndInv, TypeOK, Handler, StagesAgree, roomVars, rowVars
<1>2. /\ roomOf' = roomOf
      /\ \A e \in Egresses : egress'[e] = "running" => egress[e] = "running"
      /\ \A e \in Egresses : egress[e] # "unused" => egress'[e] # "unused"
  BY <1>1 DEF StopEgress, IndInv, TypeOK
<1>3. EndsAgree'
  BY <1>1, <1>2 DEF ReleaseInv, EndsAgree, IndInv, TypeOK
<1>4. ASSUME NEW r \in Rooms, Quiet(r)' PROVE QuietParts(r)'
  <2>1. QuietParts(r)
    BY <1>1, <1>4 DEF Quiet, ReleaseInv
  <2>2. ~Starter(p, r)'
    BY <1>1 DEF Starter
  <2>3. proc'[p].op = "end" /\ proc'[p].room = r => ActiveIn(r) \subseteq {proc'[p].egress}
    BY <1>1, <2>1 DEF QuietParts, EndFoundAll
  <2> QED
    BY <1>1, <1>2, <2>1, <2>2, <2>3, QuietMoves
<1> QED
  BY <1>3, <1>4 DEF ReleaseInv

\* A failed call or a process that dies makes its own room faulty.
LEMMA ReleaseFault ==
    ASSUME IndInv, ReleaseInv, NEW p \in Requests, StopEgressFails(p) \/ Crash(p)
    PROVE  ReleaseInv'
<1>1. /\ proc[p].room \in Rooms
      /\ faulty' = faulty \cup {proc[p].room}
      /\ \A q \in Requests \ {p} : proc'[q] = proc[q]
      /\ UNCHANGED <<status, rushed, settled, egress, roomOf, row>>
  BY DEF StopEgressFails, Crash, Fault, Finish, MoveTo, IndInv, TypeOK, StagesAgree, roomVars, lkVars, rowVars
<1>2. \/ proc'[p] = Idle /\ unstopped' = unstopped
      \/ /\ proc[p].at = "stop" /\ proc[p].egress \in Egresses
         /\ proc'[p].at = "save" /\ proc'[p].op = "end" /\ proc[p].op = "end"
         /\ proc'[p].room = proc[p].room /\ proc'[p].egress = proc[p].egress
         /\ unstopped' = unstopped \cup {proc[p].egress}
  BY DEF StopEgressFails, Crash, Finish, MoveTo, IndInv, TypeOK, Handler, StagesAgree
<1>3. EndsAgree'
  BY <1>1, <1>2 DEF ReleaseInv, EndsAgree, Idle, IndInv, EgressKnown
<1>4. ASSUME NEW r \in Rooms, Quiet(r)' PROVE QuietParts(r)'
  <2>1. QuietParts(r) /\ proc[p].room # r
    BY <1>1, <1>4 DEF Quiet, ReleaseInv
  <2>2. proc'[p].room # r
    BY <1>2, <2>1, RecordingAssumption DEF Idle
  <2> QED
    BY <1>1, <2>1, <2>2, QuietOthers
<1> QED
  BY <1>3, <1>4 DEF ReleaseInv

\* The teardown saves the one row that was active; no save of another makes one so.
LEMMA ReleaseSave ==
    ASSUME IndInv, ReleaseInv, NEW p \in Requests, SaveRow(p)
    PROVE  ReleaseInv'
<1> DEFINE e == proc[p].egress
           s == proc[p].room
<1>1. /\ proc[p].at = "save" /\ proc[p].op # "start" /\ e \in Egresses /\ s \in Rooms
      /\ proc'[p] = Idle
      /\ \A q \in Requests \ {p} : proc'[q] = proc[q]
      /\ roomOf[e] = s
      /\ egress[e] \in Stopped \/ e \in unstopped
      /\ UNCHANGED <<status, rushed, egress, roomOf, unstopped, faulty>>
      /\ settled' = IF proc[p].op = "end" THEN settled \cup {s} ELSE settled
  BY DEF SaveRow, Finish, IndInv, TypeOK, StagesAgree, SaversAsked, lkVars, Idle, ReleaseInv, EndsAgree
<1>2. /\ row[e] = "none" => row' = row
      /\ row[e] # "none" => row' = [row EXCEPT ![e] = proc[p].status]
      /\ proc[p].status # "started"
  BY DEF SaveRow, rowVars, IndInv, TypeOK, Handler, Terminal
<1>3. EndsAgree'
  BY <1>1 DEF ReleaseInv, EndsAgree, Idle
<1>4. ASSUME NEW r \in Rooms, Quiet(r)' PROVE QuietParts(r)'
  <2>1. QuietParts(r)
    BY <1>1, <1>4 DEF Quiet, ReleaseInv
  <2>2. CASE r # s
    BY <1>1, <1>2, <2>1, <2>2, QuietOthers, RecordingAssumption DEF Idle, IndInv, TypeOK
  <2>3. CASE r = s
    <3>1. ActiveIn(r)' = ActiveIn(r) \ {e}
      BY <1>1, <1>2 DEF ActiveIn, Active, IndInv, TypeOK
    <3>2. egress[e] # "running"
      BY <1>1, <1>4, <2>3 DEF Stopped, Terminal, Quiet, ReleaseInv, EndsAgree
    <3>3. \A q \in Requests : Starter(q, r)' <=> Starter(q, r)
      BY <1>1 DEF Starter, Idle
    <3>4. OneStarter(r)'
      BY <1>1, <2>1, <3>3 DEF QuietParts, OneStarter, Starting, Starter
    <3>5. OneActive(r)'
      BY <1>1, <2>1, <3>1, <3>3 DEF QuietParts, OneActive, Starter
    <3>6. RunningIsKnown(r)'
      BY <1>1, <1>2, <2>1, <3>2, <3>3 DEF QuietParts, RunningIsKnown, Starter, IndInv, TypeOK
    <3>7. EndFoundAll(r)'
      BY <1>1, <2>1, <2>3, <3>1 DEF QuietParts, EndFoundAll, Idle
    <3> QED
      BY <3>4, <3>5, <3>6, <3>7 DEF QuietParts
  <2> QED
    BY <2>2, <2>3
<1> QED
  BY <1>3, <1>4 DEF ReleaseInv

LEMMA ReleaseLiveKit ==
    ASSUME IndInv, ReleaseInv, NEW e \in Egresses, DropWebhook(e) \/ EgressEnds(e)
    PROVE  ReleaseInv'
<1>1. /\ UNCHANGED <<status, settled, rushed, roomOf, row, proc, unstopped, faulty>>
      /\ \A x \in Egresses : egress'[x] = "running" => egress[x] = "running"
      /\ \A x \in Egresses : egress[x] # "unused" => egress'[x] # "unused"
  BY DEF DropWebhook, EgressEnds, Ends, IndInv, TypeOK, Terminal, roomVars, rowVars
<1>2. EndsAgree'
  BY <1>1 DEF ReleaseInv, EndsAgree, IndInv, TypeOK
<1>3. ASSUME NEW r \in Rooms, Quiet(r)' PROVE QuietParts(r)'
  BY <1>1, <1>3, QuietSame DEF Quiet, ReleaseInv
<1> QED
  BY <1>2, <1>3 DEF ReleaseInv

LEMMA ReleaseDelete ==
    ASSUME IndInv, ReleaseInv, NEW s \in Rooms, AdminHardDelete(s)
    PROVE  ReleaseInv'
<1>1. /\ UNCHANGED <<settled, rushed, roomOf, egress, proc, unstopped, faulty>>
      /\ status' = [status EXCEPT ![s] = "deleted"]
      /\ row' = [e \in Egresses |-> IF roomOf[e] = s THEN "none" ELSE row[e]]
  BY DEF AdminHardDelete, lkVars
<1>2. EndsAgree'
  BY <1>1 DEF ReleaseInv, EndsAgree, IndInv, TypeOK, StagesAgree
<1>3. ASSUME NEW r \in Rooms, Quiet(r)' PROVE QuietParts(r)'
  <2>1. r # s /\ status'[r] = status[r]
    BY <1>1, <1>3 DEF Quiet, IndInv, TypeOK
  <2> QED
    BY <1>1, <1>3, <2>1, QuietSame DEF Quiet, ReleaseInv
<1> QED
  BY <1>2, <1>3 DEF ReleaseInv

LEMMA ReleaseNext == IndInv /\ ReleaseInv /\ [Next]_vars => ReleaseInv'
<1> SUFFICES ASSUME IndInv, ReleaseInv, [Next]_vars PROVE ReleaseInv'
  OBVIOUS
<1>1. CASE UNCHANGED vars
  <2>1. UNCHANGED <<status, egress, roomOf, row, proc, unstopped, settled, rushed, faulty>>
    BY <1>1 DEF vars
  <2>2. EndsAgree'
    BY <2>1 DEF ReleaseInv, EndsAgree
  <2>3. \A r \in Rooms : Quiet(r)' => QuietParts(r)'
    BY <2>1, QuietSame DEF Quiet, ReleaseInv
  <2> QED
    BY <2>2, <2>3 DEF ReleaseInv
<1>2. CASE Next
  BY <1>2, ReleaseStart, ReleaseChecks, ReleaseStartEgress, ReleaseCreate, ReleaseHold, ReleaseEnd,
     ReleaseLookup, ReleaseStop, ReleaseFault, ReleaseSave, ReleaseLiveKit, ReleaseDelete DEF Next
<1> QED
  BY <1>1, <1>2

\* A room that ended in peace holds no slot and records nothing any more.
THEOREM QuietRoomsReleased == Spec => []QuietRoomReleased
<1>1. IndInv /\ ReleaseInv => QuietRoomReleased
  <2> SUFFICES ASSUME IndInv, ReleaseInv, NEW r \in settled \ (rushed \cup faulty),
                      status[r] = "finished", NEW e \in Egresses, roomOf[e] = r
               PROVE  row[e] # "started" /\ egress[e] # "running"
    BY DEF QuietRoomReleased
  <2>1. QuietParts(r)
    BY DEF ReleaseInv, Quiet, IndInv, TypeOK
  <2>2. row[e] # "started"
    BY <2>1 DEF QuietParts, EndFoundAll, ActiveIn, Active
  <2>3. egress[e] # "running"
    BY <2>1, <2>2 DEF QuietParts, RunningIsKnown, OneStarter, Starter, Starting
  <2> QED
    BY <2>2, <2>3
<1> QED
  BY <1>1, ReleaseInit, ReleaseNext, Inductive, PTL DEF Spec

-----------------------------------------------------------------------------
(* The refinement of RecordingLifecycle *)

\* Only a start gives an egress its room.
RoomComesWithStart == \A e \in Egresses : egress[e] = "unused" => roomOf[e] = NoRoom

\* A step changes neither what LiveKit did, nor the list, nor what was given up.
Unseen == UNCHANGED <<Phase, Entry, unstopped>>

Maps == [Lifecycle!Next]_<<Phase, Entry, unstopped>>

LEMMA RoomComesWithStartNext ==
    IndInv /\ RoomComesWithStart /\ [Next]_vars => RoomComesWithStart'
<1> SUFFICES ASSUME IndInv, RoomComesWithStart, [Next]_vars PROVE RoomComesWithStart'
  OBVIOUS
<1>1. ASSUME NEW p \in Requests, StartEgress(p) PROVE RoomComesWithStart'
  BY <1>1 DEF StartEgress, RoomComesWithStart, IndInv, TypeOK
<1>2. ASSUME NEW p \in Requests, StopEgress(p) PROVE RoomComesWithStart'
  BY <1>2 DEF StopEgress, RoomComesWithStart, IndInv, EgressKnown, StagesAgree, TypeOK
<1>3. ASSUME NEW e \in Egresses, EgressEnds(e) PROVE RoomComesWithStart'
  BY <1>3 DEF EgressEnds, Ends, RoomComesWithStart, IndInv, TypeOK, Terminal
<1>4. UNCHANGED <<egress, roomOf>> => RoomComesWithStart'
  BY DEF RoomComesWithStart
<1> QED
  BY <1>1, <1>2, <1>3, <1>4
     DEF Next, vars, lkVars, StartRecording, FindActive, CountActive, StartEgressFails, CreateRow,
         StopRecording, EndRoom, Lookup, StopEgressFails, SaveRow, OnEgressEnded, DropWebhook,
         AdminHardDelete, Crash

\* A step that leaves the egresses and the rows alone and deletes no room.
LEMMA UnseenStep ==
    ASSUME IndInv, UNCHANGED <<egress, roomOf, row, unstopped>>,
           \A r \in Rooms : status'[r] = "deleted" <=> status[r] = "deleted"
    PROVE  Unseen
<1>1. Phase' = Phase
  BY DEF Phase
<1>2. ASSUME NEW e \in Egresses PROVE Entry'[e] = Entry[e]
  BY DEF Entry, IndInv, TypeOK
<1>3. Entry' = Entry
  BY <1>2 DEF Entry
<1> QED
  BY <1>1, <1>3 DEF Unseen

LEMMA MapStart ==
    ASSUME IndInv, RoomComesWithStart, NEW p \in Requests, StartEgress(p)
    PROVE  \E e \in Egresses : Lifecycle!Start(e)
<1>1. PICK e \in Egresses :
        /\ egress[e] = "unused"
        /\ egress' = [egress EXCEPT ![e] = "running"]
        /\ roomOf' = [roomOf EXCEPT ![e] = proc[p].room]
  BY DEF StartEgress
<1>2. /\ UNCHANGED <<status, row, unstopped>>
      /\ row[e] = "none" /\ roomOf[e] = NoRoom
      /\ proc[p].room \in Rooms
  BY <1>1 DEF StartEgress, At, IndInv, EgressKnown, StagesAgree, RoomComesWithStart, roomVars, rowVars
<1>3. Phase[e] = "unused" /\ Phase' = [Phase EXCEPT ![e] = "running"]
  BY <1>1 DEF Phase, Terminal, IndInv, TypeOK
<1>4. Entry[e] = "none" /\ Entry'[e] \in {"none", "gone"}
  BY <1>1, <1>2, RecordingAssumption DEF Entry, Terminal, IndInv, TypeOK
<1>5. \A x \in Egresses \ {e} : Entry'[x] = Entry[x]
  BY <1>1, <1>2 DEF Entry, IndInv, TypeOK
<1>6. Entry' = Entry \/ Entry' = [Entry EXCEPT ![e] = "gone"]
  <2>1. CASE Entry'[e] = "none"
    BY <1>4, <1>5, <2>1 DEF Entry
  <2>2. CASE Entry'[e] = "gone"
    <3>1. \A x \in Egresses : Entry'[x] = IF x = e THEN "gone" ELSE Entry[x]
      BY <1>5, <2>2
    <3>2. Entry' = [x \in Egresses |-> Entry'[x]] /\ Entry = [x \in Egresses |-> Entry[x]]
      BY DEF Entry
    <3> QED
      BY <3>1, <3>2
  <2> QED
    BY <1>4, <2>1, <2>2
<1> QED
  BY <1>2, <1>3, <1>4, <1>6 DEF Lifecycle!Start

LEMMA MapEnds ==
    ASSUME IndInv, NEW e \in Egresses, NEW v \in Terminal,
           egress[e] \in {"running", "ending"}, Ends(e, v),
           UNCHANGED <<status, row, unstopped>>
    PROVE  Lifecycle!End(e)
<1>1. egress' = [egress EXCEPT ![e] = v] /\ roomOf' = roomOf
  BY DEF Ends
<1>2. Phase[e] \in {"running", "ending"} /\ Phase' = [Phase EXCEPT ![e] = "over"]
  BY <1>1 DEF Phase, Terminal, IndInv, TypeOK
<1>3. Entry' = Entry
  BY <1>1 DEF Entry
<1> QED
  BY <1>2, <1>3 DEF Lifecycle!End

\* Asking again, or asking what is over, changes nothing.
LEMMA MapStop ==
    ASSUME IndInv, NEW p \in Requests, StopEgress(p)
    PROVE  Unseen \/ \E e \in Egresses : Lifecycle!Stop(e)
<1> DEFINE e == proc[p].egress
<1>1. /\ e \in Egresses
      /\ UNCHANGED <<status, roomOf, row, unstopped>>
  BY DEF StopEgress, IndInv, StagesAgree, roomVars, rowVars
<1>2. CASE UNCHANGED egress
  BY <1>1, <1>2, UnseenStep
<1>3. CASE egress[e] \in {"running", "ending"} /\ egress' = [egress EXCEPT ![e] = "ending"]
  <2>1. CASE egress[e] = "ending"
    <3>1. UNCHANGED egress
      BY <1>3, <2>1 DEF IndInv, TypeOK
    <3> QED
      BY <1>1, <3>1, UnseenStep
  <2>2. CASE egress[e] = "running"
    <3>1. Phase[e] = "running" /\ Phase' = [Phase EXCEPT ![e] = "ending"]
      BY <1>1, <1>3, <2>2 DEF Phase, Terminal, IndInv, TypeOK
    <3>2. Entry' = Entry
      BY <1>1 DEF Entry
    <3> QED
      BY <1>1, <3>1, <3>2 DEF Lifecycle!Stop
  <2> QED
    BY <1>3, <2>1, <2>2
<1> QED
  BY <1>2, <1>3 DEF StopEgress

LEMMA MapCreate ==
    ASSUME IndInv, ReleaseInv, NEW p \in Requests, CreateRow(p)
    PROVE  Unseen \/ \E e \in Egresses : Lifecycle!Enter(e)
<1> DEFINE e == proc[p].egress
<1>1. /\ e \in Egresses /\ row[e] = "none" /\ egress[e] # "unused"
      /\ roomOf[e] = proc[p].room /\ proc[p].room \in Rooms
      /\ UNCHANGED <<status, egress, roomOf, unstopped>>
      /\ row' = IF status[proc[p].room] = "deleted" THEN row ELSE [row EXCEPT ![e] = "started"]
  BY DEF CreateRow, At, IndInv, StagesAgree, EgressKnown, ReleaseInv, EndsAgree, roomVars, lkVars
<1>2. CASE status[proc[p].room] = "deleted"
  BY <1>1, <1>2, UnseenStep
<1>3. CASE status[proc[p].room] # "deleted"
  <2>1. Phase' = Phase /\ Phase[e] # "unused"
    BY <1>1 DEF Phase, Terminal, IndInv, TypeOK
  <2>2. Entry[e] = "none" /\ Entry' = [Entry EXCEPT ![e] = "started"]
    BY <1>1, <1>3 DEF Entry, Terminal, IndInv, TypeOK
  <2> QED
    BY <1>1, <2>1, <2>2 DEF Lifecycle!Enter
<1> QED
  BY <1>2, <1>3

LEMMA MapFails ==
    ASSUME IndInv, NEW p \in Requests, StopEgressFails(p)
    PROVE  Unseen \/ \E e \in Egresses : Lifecycle!GiveUp(e)
<1> DEFINE e == proc[p].egress
<1>1. /\ e \in Egresses /\ egress[e] # "unused"
      /\ UNCHANGED <<status, egress, roomOf, row>>
      /\ unstopped' \in {unstopped, unstopped \cup {e}}
  BY DEF StopEgressFails, IndInv, StagesAgree, EgressKnown, roomVars, lkVars, rowVars
<1>2. Phase' = Phase /\ Entry' = Entry /\ Phase[e] # "unused"
  BY <1>1 DEF Phase, Entry, Terminal, IndInv, TypeOK
<1> QED
  BY <1>1, <1>2 DEF Unseen, Lifecycle!GiveUp

LEMMA MapSave ==
    ASSUME IndInv, NEW p \in Requests, SaveRow(p)
    PROVE  Unseen \/ \E e \in Egresses : Lifecycle!Close(e)
<1> DEFINE e == proc[p].egress
<1>1. /\ e \in Egresses /\ proc[p].status \in Terminal
      /\ egress[e] \in Stopped \/ e \in unstopped
      /\ UNCHANGED <<status, egress, roomOf, unstopped>>
  BY DEF SaveRow, IndInv, TypeOK, Handler, StagesAgree, SaversAsked, lkVars
<1>2. CASE row[e] = "none"
  BY <1>1, <1>2, UnseenStep DEF SaveRow, rowVars
<1>3. CASE row[e] # "none"
  <2>1. row' = [row EXCEPT ![e] = proc[p].status]
    BY <1>3 DEF SaveRow
  <2>2. Phase' = Phase /\ (Phase[e] \in {"ending", "over"} \/ e \in unstopped)
    BY <1>1 DEF Phase, Stopped
  <2>3. Entry' = [Entry EXCEPT ![e] = "over"]
    BY <1>1, <2>1 DEF Entry, IndInv, TypeOK
  <2>4. Entry[e] = "over" \/ Entry[e] = "started"
    BY <1>1, <1>3 DEF Entry, IndInv, TypeOK, Terminal
  <2>5. CASE Entry[e] = "over"
    <3>1. Entry' = Entry
      BY <2>3, <2>5 DEF Entry
    <3> QED
      BY <1>1, <2>2, <3>1 DEF Unseen
  <2>6. CASE Entry[e] = "started"
    BY <1>1, <2>2, <2>3, <2>6 DEF Lifecycle!Close
  <2> QED
    BY <2>4, <2>5, <2>6
<1> QED
  BY <1>2, <1>3

LEMMA MapDelete ==
    ASSUME IndInv, NEW r \in Rooms, AdminHardDelete(r)
    PROVE  \E S \in SUBSET Egresses : Lifecycle!Erase(S)
<1> DEFINE S == {e \in Egresses : roomOf[e] = r}
<1>1. /\ status' = [status EXCEPT ![r] = "deleted"]
      /\ row' = [e \in Egresses |-> IF roomOf[e] = r THEN "none" ELSE row[e]]
      /\ UNCHANGED <<egress, roomOf, unstopped>>
  BY DEF AdminHardDelete, lkVars
<1>2. Phase' = Phase
  BY <1>1 DEF Phase
<1>3. \A e \in S : Entry'[e] = "gone"
  BY <1>1, RecordingAssumption DEF Entry, Terminal, IndInv, TypeOK
<1>4. \A e \in Egresses \ S : Entry'[e] = Entry[e]
  BY <1>1 DEF Entry, IndInv, TypeOK
<1>5. Entry' = [e \in Egresses |-> IF e \in S THEN "gone" ELSE Entry[e]]
  BY <1>3, <1>4 DEF Entry
<1>6. Lifecycle!Erase(S)
  BY <1>1, <1>2, <1>5 DEF Lifecycle!Erase
<1> QED
  BY <1>6

LEMMA MapNext ==
    ASSUME IndInv, ReleaseInv, RoomComesWithStart, [Next]_vars
    PROVE  Maps
<1> USE DEF Maps, Lifecycle!Next
<1>1. ASSUME NEW p \in Requests, StartEgress(p) PROVE Maps
  BY <1>1, MapStart
<1>2. ASSUME NEW p \in Requests, CreateRow(p) PROVE Maps
  BY <1>2, MapCreate DEF Unseen
<1>3. ASSUME NEW p \in Requests, StopEgress(p) PROVE Maps
  BY <1>3, MapStop DEF Unseen
<1>4. ASSUME NEW p \in Requests, StopEgressFails(p) PROVE Maps
  BY <1>4, MapFails DEF Unseen
<1>5. ASSUME NEW p \in Requests, SaveRow(p) PROVE Maps
  BY <1>5, MapSave DEF Unseen
<1>6. ASSUME NEW e \in Egresses, EgressEnds(e) PROVE Maps
  BY <1>6, MapEnds DEF EgressEnds, roomVars, rowVars
<1>7. ASSUME NEW r \in Rooms, AdminHardDelete(r) PROVE Maps
  BY <1>7, MapDelete
<1>8. ASSUME NEW p \in Requests, NEW r \in Rooms, EndRoom(p, r) PROVE Maps
  BY <1>8, UnseenStep DEF EndRoom, Unseen, IndInv, TypeOK, lkVars, rowVars
<1>9. UNCHANGED <<status, egress, roomOf, row, unstopped>> => Maps
  BY UnseenStep DEF Unseen
<1> QED
  BY <1>1, <1>2, <1>3, <1>4, <1>5, <1>6, <1>7, <1>8, <1>9
     DEF Next, vars, roomVars, lkVars, rowVars, StartRecording, FindActive, CountActive,
         StartEgressFails, StopRecording, Lookup, OnEgressEnded, DropWebhook, Crash

\* The rows implement RecordingLifecycle: a recording enters the list once, after
\* its egress started, is over there only after it was asked to stop, ended or was
\* given up, and neither a late save nor a late create brings back what was deleted.
THEOREM Refinement == Spec => ImplementsLifecycle
<1>1. Init => Lifecycle!Init
  BY RecordingAssumption DEF Init, Lifecycle!Init, Phase, Entry, Terminal
<1>2. Init => RoomComesWithStart
  BY DEF Init, RoomComesWithStart
<1>3. IndInv /\ ReleaseInv /\ RoomComesWithStart /\ [Next]_vars => [Lifecycle!Next]_(Lifecycle!vars)
  BY MapNext DEF Maps, Lifecycle!vars
<1> QED
  BY <1>1, <1>2, <1>3, RoomComesWithStartNext, ReleaseInit, ReleaseNext, Inductive, PTL
     DEF Spec, ImplementsLifecycle, Lifecycle!Spec

-----------------------------------------------------------------------------
(* What holds of "one active egress per room" *)

SoloStarter(r) == \A p, q \in Requests : Starter(p, r) /\ Starter(q, r) => p = q

SoloInv == \A r \in Rooms \ rushed : SoloStarter(r) /\ OneActive(r)

\* Nobody starts, nobody is past a check that has not been made, no row goes in.
LEMMA SoloKeeps ==
    ASSUME NEW r \in Rooms, SoloStarter(r), OneActive(r), ActiveIn(r)' \subseteq ActiveIn(r),
           \A q \in Requests : Starter(q, r)' =>
               /\ Starter(q, r)
               /\ proc'[q].at \in {"count", "egress", "create"} =>
                     proc[q].at \in {"count", "egress", "create"} \/ ActiveIn(r) = {}
    PROVE  SoloStarter(r)' /\ OneActive(r)'
BY DEF SoloStarter, OneActive, Starter

LEMMA SoloStart ==
    ASSUME IndInv, SoloInv, NEW p \in Requests, NEW s \in Rooms, StartRecording(p, s)
    PROVE  SoloInv'
<1>1. /\ proc[p] = Idle /\ proc'[p].at = "find" /\ proc'[p].room = s
      /\ \A q \in Requests \ {p} : proc'[q] = proc[q]
      /\ rushed' = IF Starting(s) THEN rushed \cup {s} ELSE rushed
      /\ UNCHANGED <<roomOf, row>>
  BY DEF StartRecording, Begin, Hold, IndInv, TypeOK, lkVars, rowVars
<1> SUFFICES ASSUME NEW r \in Rooms, r \notin rushed' PROVE SoloStarter(r)' /\ OneActive(r)'
  BY DEF SoloInv
<1>2. SoloStarter(r) /\ OneActive(r)
  BY <1>1 DEF SoloInv
<1>3. ActiveIn(r)' = ActiveIn(r)
  BY <1>1 DEF ActiveIn, Active
<1>4. CASE r # s
  BY <1>1, <1>2, <1>3, <1>4, SoloKeeps DEF Starter
<1>5. CASE r = s
  <2>1. \A q \in Requests : Starter(q, r)' => q = p
    BY <1>1, <1>5 DEF Starter, Starting
  <2> QED
    BY <1>1, <1>2, <1>3, <2>1 DEF SoloStarter, OneActive
<1> QED
  BY <1>4, <1>5

\* The check of the only start of the room still holds when its row goes in.
LEMMA SoloCreate ==
    ASSUME IndInv, ReleaseInv, SoloInv, NEW p \in Requests, CreateRow(p)
    PROVE  SoloInv'
<1> DEFINE e == proc[p].egress
           s == proc[p].room
<1>1. /\ proc[p].op = "start" /\ proc[p].at = "create" /\ s \in Rooms /\ e \in Egresses
      /\ row' = row \/ row' = [row EXCEPT ![e] = "started"]
      /\ proc'[p] = Idle
      /\ \A q \in Requests \ {p} : proc'[q] = proc[q]
      /\ roomOf[e] = s
      /\ UNCHANGED <<rushed, roomOf>>
  BY DEF CreateRow, At, Finish, IndInv, TypeOK, StagesAgree, roomVars, lkVars, ReleaseInv, EndsAgree
<1> SUFFICES ASSUME NEW r \in Rooms, r \notin rushed PROVE SoloStarter(r)' /\ OneActive(r)'
  BY <1>1 DEF SoloInv
<1>2. SoloStarter(r) /\ OneActive(r)
  BY DEF SoloInv
<1>3. CASE r # s
  <2>1. ActiveIn(r)' = ActiveIn(r)
    BY <1>1, <1>3 DEF ActiveIn, Active, IndInv, TypeOK
  <2> QED
    BY <1>1, <1>2, <2>1, SoloKeeps, RecordingAssumption DEF Starter, Idle
<1>4. CASE r = s
  <2>1. ActiveIn(r) = {}
    BY <1>1, <1>2, <1>4 DEF OneActive, Starter
  <2>2. ActiveIn(r)' \subseteq {e}
    BY <1>1, <2>1 DEF ActiveIn, Active, IndInv, TypeOK
  <2>3. \A q \in Requests : ~Starter(q, r)'
    BY <1>1, <1>2, <1>4 DEF SoloStarter, Starter, Idle
  <2> QED
    BY <2>2, <2>3 DEF SoloStarter, OneActive
<1> QED
  BY <1>3, <1>4

LEMMA SoloOthers ==
    ASSUME IndInv, SoloInv, [Next]_vars,
           ~\E p \in Requests : CreateRow(p) \/ \E r \in Rooms : StartRecording(p, r)
    PROVE  SoloInv'
<1>1. rushed \subseteq rushed'
  BY DEF Next, vars, FindActive, CountActive, StartEgress, StartEgressFails, StopRecording,
         EndRoom, Lookup, StopEgress, StopEgressFails, SaveRow, OnEgressEnded, DropWebhook,
         EgressEnds, AdminHardDelete, Crash, roomVars
<1>2. \A e \in Egresses : row'[e] = "started" => row[e] = "started"
  <2>1. ASSUME NEW p \in Requests, SaveRow(p)
        PROVE  \A e \in Egresses : row'[e] = "started" => row[e] = "started"
    <3>1. proc[p].status # "started"
      BY DEF IndInv, TypeOK, Handler, Terminal
    <3> QED
      BY <2>1, <3>1 DEF SaveRow, rowVars, IndInv, TypeOK
  <2>2. ASSUME NEW r \in Rooms, AdminHardDelete(r)
        PROVE  \A e \in Egresses : row'[e] = "started" => row[e] = "started"
    BY <2>2 DEF AdminHardDelete
  <2> QED
    BY <2>1, <2>2, RowSteps
<1>3. \A e \in Egresses : row[e] = "started" => roomOf'[e] = roomOf[e]
  <2>1. ASSUME NEW p \in Requests, StartEgress(p)
        PROVE  \A e \in Egresses : row[e] = "started" => roomOf'[e] = roomOf[e]
    BY <2>1 DEF StartEgress, IndInv, TypeOK, EgressKnown
  <2>2. roomOf' = roomOf \/ \E p \in Requests : StartEgress(p)
    BY DEF Next, vars, FindActive, CountActive, StartEgressFails, StopRecording, EndRoom, Lookup,
           StopEgress, StopEgressFails, SaveRow, OnEgressEnded, DropWebhook, EgressEnds, Ends,
           AdminHardDelete, Crash, lkVars
  <2> QED
    BY <2>1, <2>2
<1>4. ASSUME NEW r \in Rooms PROVE ActiveIn(r)' \subseteq ActiveIn(r)
  BY <1>2, <1>3 DEF ActiveIn, Active
<1>5. ASSUME NEW r \in Rooms, NEW q \in Requests, Starter(q, r)'
      PROVE  /\ Starter(q, r)
             /\ proc'[q].at \in {"count", "egress", "create"} =>
                   proc[q].at \in {"count", "egress", "create"} \/ ActiveIn(r) = {}
  <2>1. CASE proc'[q] = proc[q]
    BY <1>5, <2>1 DEF Starter, IndInv, StagesAgree
  <2>2. CASE FindActive(q)
    <3>1. /\ proc[q].op = "start"
          /\ \/ Finish(q)
             \/ (ActiveIn(proc[q].room) = {}) /\ MoveTo(q, "count")
      BY <2>2 DEF FindActive, At
    <3>2. ~Finish(q)
      BY <1>5 DEF Finish, Starter, Idle, IndInv, TypeOK
    <3>3. proc'[q].room = proc[q].room
      BY <3>1, <3>2 DEF MoveTo, IndInv, TypeOK, Handler
    <3> QED
      BY <1>5, <3>1, <3>2, <3>3 DEF Starter
  <2>3. CASE CountActive(q) \/ StartEgressFails(q)
    BY <1>5, <2>3 DEF CountActive, StartEgressFails, At, MoveTo, Finish, Starter, Idle, IndInv, TypeOK, Handler
  <2>4. CASE StartEgress(q)
    BY <1>5, <2>4 DEF StartEgress, At, Finish, Starter, Idle, IndInv, TypeOK, Handler
  <2>5. CASE proc'[q].op # "start"
    BY <1>5, <2>5 DEF Starter
  <2>6. \/ proc'[q] = proc[q] \/ proc'[q].op # "start"
        \/ FindActive(q) \/ CountActive(q) \/ StartEgressFails(q) \/ StartEgress(q)
    <3>1. CASE proc' = proc
      BY <3>1
    <3>2. ASSUME NEW p \in Requests,
                 \/ FindActive(p) \/ CountActive(p) \/ StartEgress(p) \/ StartEgressFails(p)
                 \/ SaveRow(p) \/ Crash(p)
          PROVE  proc'[q] = proc[q] \/ proc'[q].op # "start" \/ p = q
      BY <3>2 DEF FindActive, CountActive, StartEgress, StartEgressFails, SaveRow, Crash, Finish, MoveTo,
                  IndInv, TypeOK
    <3>3. ASSUME NEW p \in Requests, SaveRow(p) \/ Crash(p)
          PROVE  proc'[q] = proc[q] \/ proc'[q].op # "start"
      BY <3>3 DEF SaveRow, Crash, Finish, Idle, IndInv, TypeOK
    <3>4. ASSUME NEW p \in Requests, Lookup(p) \/ StopEgress(p) \/ StopEgressFails(p)
          PROVE  proc'[q] = proc[q] \/ proc'[q].op # "start"
      BY <3>4 DEF Lookup, At, StopEgress, StopEgressFails, Hold, Finish, MoveTo, Idle,
                  IndInv, TypeOK, Handler, StagesAgree
    <3>5. ASSUME NEW p \in Requests,
                 \/ \E s \in Rooms : EndRoom(p, s)
                 \/ \E e \in Egresses : StopRecording(p, e) \/ OnEgressEnded(p, e)
          PROVE  proc'[q] = proc[q] \/ proc'[q].op # "start"
      BY <3>5 DEF EndRoom, StopRecording, OnEgressEnded, Begin, Hold, IndInv, TypeOK
    <3> QED
      BY <3>1, <3>2, <3>3, <3>4, <3>5 DEF Next, vars, DropWebhook, EgressEnds, AdminHardDelete
  <2> QED
    BY <2>1, <2>2, <2>3, <2>4, <2>5, <2>6
<1> SUFFICES ASSUME NEW r \in Rooms \ rushed' PROVE SoloStarter(r)' /\ OneActive(r)'
  BY DEF SoloInv
<1>6. SoloStarter(r) /\ OneActive(r)
  BY <1>1 DEF SoloInv
<1> QED
  BY <1>4, <1>5, <1>6, SoloKeeps

\* A room has one active recording at most, whatever fails and whoever dies, as
\* long as no start of it overlapped another start or the end of the room.
THEOREM OneActiveRecording == Spec => []OneActiveUnlessRushed
<1>1. Init => SoloInv
  BY DEF Init, SoloInv, SoloStarter, OneActive, Starter, ActiveIn, Active, Idle
<1>2. IndInv /\ ReleaseInv /\ SoloInv /\ [Next]_vars => SoloInv'
  BY SoloStart, SoloCreate, SoloOthers
<1>3. SoloInv => OneActiveUnlessRushed
  <2> SUFFICES ASSUME SoloInv, NEW r \in Rooms \ rushed PROVE Cardinality(ActiveIn(r)) <= 1
    BY DEF OneActiveUnlessRushed
  <2>1. \A e, f \in ActiveIn(r) : e = f
    BY DEF SoloInv, OneActive
  <2>2. CASE ActiveIn(r) = {}
    BY <2>2, FS_EmptySet
  <2>3. ASSUME NEW e \in ActiveIn(r) PROVE Cardinality(ActiveIn(r)) <= 1
    <3>1. ActiveIn(r) = {e}
      BY <2>1, <2>3
    <3> QED
      BY <3>1, FS_Singleton
  <2> QED
    BY <2>2, <2>3
<1> QED
  BY <1>1, <1>2, <1>3, ReleaseInit, ReleaseNext, Inductive, PTL DEF Spec

-----------------------------------------------------------------------------
(* What holds of "the authoritative source for file size" *)

\* The size is there only for an egress that completed; a webhook that says so holds
\* it, and so does no start.
SizeInv ==
    /\ \A e \in sized : egress[e] = "completed"
    /\ \A p \in Requests : proc[p].sized =>
            proc[p].egress \in Egresses /\ egress[proc[p].egress] = "completed"
    /\ \A p \in Requests : proc[p].op = "start" => ~proc[p].sized
    /\ \A p \in Requests : proc[p].op = "ended" =>
            /\ proc[p].at = "save"
            /\ egress[proc[p].egress] \in Terminal
            /\ egress[proc[p].egress] = "completed" => proc[p].sized

\* A verdict of LiveKit is final.
LEMMA VerdictStays ==
    ASSUME IndInv, [Next]_vars
    PROVE  \A e \in Egresses : egress[e] \in Terminal => egress'[e] = egress[e]
<1>1. ASSUME NEW p \in Requests, StartEgress(p)
      PROVE  \A e \in Egresses : egress[e] \in Terminal => egress'[e] = egress[e]
  BY <1>1 DEF StartEgress, Terminal, IndInv, TypeOK
<1>2. ASSUME NEW p \in Requests, StopEgress(p)
      PROVE  \A e \in Egresses : egress[e] \in Terminal => egress'[e] = egress[e]
  BY <1>2 DEF StopEgress, Terminal, IndInv, TypeOK
<1>3. ASSUME NEW x \in Egresses, EgressEnds(x)
      PROVE  \A e \in Egresses : egress[e] \in Terminal => egress'[e] = egress[e]
  BY <1>3 DEF EgressEnds, Ends, Terminal, IndInv, TypeOK
<1> QED
  BY <1>1, <1>2, <1>3
     DEF Next, vars, lkVars, StartRecording, FindActive, CountActive, StartEgressFails, CreateRow,
         StopRecording, EndRoom, Lookup, StopEgressFails, SaveRow, OnEgressEnded, DropWebhook,
         AdminHardDelete, Crash

\* A copy of a row carries the size when the row does.
LEMMA HoldSize ==
    ASSUME TypeOK, NEW p \in Requests, NEW op, NEW s, NEW r, NEW e, Hold(p, op, s, r, e)
    PROVE  proc'[p].op = op /\ proc'[p].egress = e /\ (proc'[p].sized <=> e \in sized)
<1>1. proc'[p].op = op /\ proc'[p].egress = e
  BY DEF Hold, TypeOK
<1>2. CASE e \in sized
  <2>1. (e \in sized) = TRUE
    BY <1>2
  <2>2. proc' = [proc EXCEPT ![p] = [op |-> op, at |-> s, room |-> r, egress |-> e,
                                     status |-> "completed", sized |-> TRUE]]
    BY <2>1, Zenon DEF Hold
  <2> QED
    BY <1>1, <1>2, <2>2 DEF TypeOK
<1>3. CASE e \notin sized
  <2>1. (e \in sized) = FALSE
    BY <1>3
  <2>2. proc' = [proc EXCEPT ![p] = [op |-> op, at |-> s, room |-> r, egress |-> e,
                                     status |-> "completed", sized |-> FALSE]]
    BY <2>1, Zenon DEF Hold
  <2> QED
    BY <1>1, <1>3, <2>2 DEF TypeOK
<1> QED
  BY <1>2, <1>3

\* What one handler p must do to keep it, the size being changed by nobody else.
LEMMA SizeKeeps ==
    ASSUME IndInv, SizeInv, [Next]_vars, NEW p \in Requests,
           \A e \in sized' \ sized : proc[p].sized /\ e = proc[p].egress,
           \A q \in Requests \ {p} : proc'[q] = proc[q],
           \/ proc'[p] \in {proc[p], Idle}
           \/ /\ proc'[p].op = proc[p].op /\ proc[p].op # "ended"
              /\ proc'[p].sized = proc[p].sized
              /\ proc[p].op # "start" => proc'[p].egress = proc[p].egress
           \/ /\ proc'[p].op \in {"start", "stop", "end"}
              /\ proc'[p].sized => proc'[p].op # "start" /\ proc'[p].egress \in sized
           \/ /\ proc'[p].op = "ended" /\ proc'[p].at = "save"
              /\ proc'[p].egress \in Egresses
              /\ egress[proc'[p].egress] \in Terminal
              /\ proc'[p].sized <=> egress[proc'[p].egress] = "completed"
    PROVE  SizeInv'
<1>1. \A e \in Egresses : egress[e] \in Terminal => egress'[e] = egress[e]
  BY VerdictStays
<1>2. sized \subseteq Egresses
  BY DEF IndInv, TypeOK
<1>3. \A e \in sized' : e \in Egresses /\ egress[e] = "completed"
  BY <1>2 DEF SizeInv
<1>4. \A e \in sized' : egress'[e] = "completed"
  BY <1>1, <1>3 DEF Terminal
<1>5. \A q \in Requests : proc'[q].sized =>
          proc'[q].egress \in Egresses /\ egress'[proc'[q].egress] = "completed"
  BY <1>1, <1>2 DEF SizeInv, Terminal, Idle
<1>6. \A q \in Requests : proc'[q].op = "start" => ~proc'[q].sized
  BY DEF SizeInv, Idle
<1>7. \A q \in Requests : proc[q].op = "ended" => proc[q].egress \in Egresses
  BY DEF SizeInv, IndInv, StagesAgree
<1>8. ASSUME NEW q \in Requests, proc'[q].op = "ended"
      PROVE  /\ proc'[q].at = "save"
             /\ egress'[proc'[q].egress] \in Terminal
             /\ egress'[proc'[q].egress] = "completed" => proc'[q].sized
  BY <1>1, <1>7, <1>8 DEF SizeInv, Idle
<1> QED
  BY <1>4, <1>5, <1>6, <1>8 DEF SizeInv

LEMMA SizeNext == IndInv /\ SizeInv /\ [Next]_vars => SizeInv'
<1> SUFFICES ASSUME IndInv, SizeInv, [Next]_vars PROVE SizeInv'
  OBVIOUS
<1> USE DEF IndInv, TypeOK
<1>1. CASE UNCHANGED <<proc, sized>> \/ \E r \in Rooms : AdminHardDelete(r)
  <2>1. UNCHANGED proc /\ sized' \subseteq sized
    BY <1>1 DEF AdminHardDelete
  <2>2. PICK p \in Requests : TRUE
    BY RecordingAssumption
  <2> QED
    BY <2>1, <2>2, SizeKeeps
<1>2. ASSUME NEW p \in Requests,
             FindActive(p) \/ CountActive(p) \/ StartEgressFails(p) \/ CreateRow(p) \/ Crash(p)
      PROVE  SizeInv'
  <2>1. sized' = sized /\ (\A q \in Requests \ {p} : proc'[q] = proc[q])
    BY <1>2 DEF FindActive, CountActive, StartEgressFails, CreateRow, Crash, MoveTo, Finish, rowVars
  <2>2. CASE Finish(p)
    BY <2>1, <2>2, SizeKeeps DEF Finish
  <2>3. CASE proc[p].op = "start" /\ (MoveTo(p, "count") \/ MoveTo(p, "egress"))
    <3>1. proc'[p].op = proc[p].op /\ proc'[p].sized = proc[p].sized
      BY <2>3 DEF MoveTo, Handler
    <3> QED
      BY <2>1, <2>3, <3>1, SizeKeeps
  <2> QED
    BY <1>2, <2>2, <2>3 DEF FindActive, CountActive, StartEgressFails, CreateRow, Crash, At
<1>3. ASSUME NEW p \in Requests, StartEgress(p) PROVE SizeInv'
  <2>1. /\ sized' = sized /\ proc[p].op = "start"
        /\ \A q \in Requests \ {p} : proc'[q] = proc[q]
        /\ \/ proc'[p] = Idle
           \/ proc'[p].op = proc[p].op /\ proc'[p].sized = proc[p].sized
    BY <1>3 DEF StartEgress, At, Finish, Handler, rowVars
  <2> QED
    BY <2>1, SizeKeeps
<1>4. ASSUME NEW p \in Requests, StopEgress(p) \/ StopEgressFails(p) PROVE SizeInv'
  <2>1. /\ sized' = sized /\ proc[p].op # "ended"
        /\ \A q \in Requests \ {p} : proc'[q] = proc[q]
        /\ \/ proc'[p] = Idle
           \/ /\ proc'[p].op = proc[p].op /\ proc'[p].sized = proc[p].sized
              /\ proc'[p].egress = proc[p].egress
    BY <1>4 DEF StopEgress, StopEgressFails, SizeInv, MoveTo, Finish, Handler, rowVars
  <2> QED
    BY <2>1, SizeKeeps
<1>5. ASSUME NEW p \in Requests, SaveRow(p) PROVE SizeInv'
  <2>1. /\ \A e \in sized' \ sized : proc[p].sized /\ e = proc[p].egress
        /\ \A q \in Requests \ {p} : proc'[q] = proc[q]
        /\ proc'[p] = Idle
    BY <1>5 DEF SaveRow, Finish, rowVars
  <2> QED
    BY <2>1, SizeKeeps
<1>6. ASSUME NEW p \in Requests,
             \/ \E r \in Rooms : StartRecording(p, r) \/ EndRoom(p, r)
             \/ (\E e \in Egresses : StopRecording(p, e)) \/ Lookup(p)
      PROVE  SizeInv'
  <2>1. sized' = sized /\ (\A q \in Requests \ {p} : proc'[q] = proc[q])
    BY <1>6 DEF StartRecording, EndRoom, StopRecording, Lookup, Begin, Hold, Finish, rowVars
  <2>2. ASSUME NEW r \in Rooms, StartRecording(p, r) \/ EndRoom(p, r) PROVE SizeInv'
    <3>1. NoEgress \notin sized
      BY RecordingAssumption
    <3>2. proc'[p].op \in {"start", "end"} /\ ~proc'[p].sized
      BY <2>2, <3>1, HoldSize DEF StartRecording, EndRoom, Begin
    <3> QED
      BY <2>1, <3>2, SizeKeeps
  <2>3. ASSUME NEW e \in Egresses, NEW s, NEW r,
               Hold(p, "stop", s, r, e) \/ Hold(p, "end", s, r, e)
        PROVE  SizeInv'
    <3>1. proc'[p].op \in {"stop", "end"} /\ proc'[p].egress = e /\ (proc'[p].sized <=> e \in sized)
      BY <2>3, HoldSize
    <3> QED
      BY <2>1, <3>1, SizeKeeps
  <2>4. CASE Finish(p)
    BY <2>1, <2>4, SizeKeeps DEF Finish
  <2> QED
    BY <1>6, <2>2, <2>3, <2>4 DEF StopRecording, Lookup, Begin, ActiveIn, Active
<1>7. ASSUME NEW p \in Requests, NEW e \in Egresses, OnEgressEnded(p, e) PROVE SizeInv'
  <2>1. egress[e] \in Terminal /\ (e \in sized => egress[e] = "completed")
    BY <1>7 DEF OnEgressEnded, EgressKnown, SizeInv
  <2>2. /\ sized' = sized
        /\ \A q \in Requests \ {p} : proc'[q] = proc[q]
        /\ proc'[p].op = "ended" /\ proc'[p].at = "save" /\ proc'[p].egress = e
        /\ proc'[p].sized <=> egress[e] = "completed"
    BY <1>7, <2>1 DEF OnEgressEnded, rowVars
  <2> QED
    BY <2>1, <2>2, SizeKeeps
<1> QED
  BY <1>1, <1>2, <1>3, <1>4, <1>5, <1>6, <1>7 DEF Next, vars, DropWebhook, EgressEnds, rowVars

\* No webhook, late, doubled or out of order, takes back the size that one before it
\* saved: that is left to the stale copies of StopRecording and the teardown.
THEOREM OnlyAStopErases == Spec => OnlyStopsErase
<1>1. Init => SizeInv
  BY DEF Init, SizeInv, Idle
<1>2. ASSUME IndInv, SizeInv, [Next]_vars, NEW e \in Egresses,
             e \in sized, row'[e] # "none", e \notin sized'
      PROVE  \E p \in Requests : proc[p].op \in {"stop", "end"} /\ proc[p].at = "save"
                                     /\ proc[p].egress = e
  <2>1. \E p \in Requests : SaveRow(p)
    BY <1>2 DEF Next, vars, rowVars, StartRecording, FindActive, CountActive, StartEgress,
                StartEgressFails, CreateRow, StopRecording, EndRoom, Lookup, StopEgress,
                StopEgressFails, OnEgressEnded, DropWebhook, EgressEnds, AdminHardDelete, Crash
  <2>2. PICK p \in Requests : SaveRow(p)
    BY <2>1
  <2>3. proc[p].at = "save" /\ proc[p].egress = e /\ ~proc[p].sized
    BY <1>2, <2>2 DEF SaveRow, rowVars
  <2>4. proc[p].op # "ended"
    BY <1>2, <2>3 DEF SizeInv
  <2>5. proc[p].op \in {"stop", "end"}
    BY <1>2, <2>3, <2>4 DEF IndInv, TypeOK, Handler, StagesAgree, Idle
  <2> QED
    BY <2>3, <2>5
<1>3. IndInv /\ SizeInv /\ [Next]_vars =>
        [\A e \in Egresses : e \in sized /\ row'[e] # "none" /\ e \notin sized' =>
            \E p \in Requests : proc[p].op \in {"stop", "end"} /\ proc[p].at = "save"
                                    /\ proc[p].egress = e]_vars
  BY <1>2
<1> QED
  BY <1>1, <1>3, SizeNext, Inductive, PTL DEF Spec, OnlyStopsErase
=============================================================================
