------------------------- MODULE RecordingLifecycle -------------------------
(***************************************************************************)
(* What the recordings of live rooms promise: each is entered in the list  *)
(* at most once and only after LiveKit started it, is marked over at most  *)
(* once and only after it was asked to stop, ended by itself, or was given *)
(* up on, and is never brought back.  Entries may be erased for good, any  *)
(* number at a time.  An entry that is over says nothing of how the        *)
(* recording ends, nor that it has ended: LiveKit may still be at it.      *)
(***************************************************************************)
CONSTANT Recordings

VARIABLES
    phase,    \* what LiveKit does: "unused", "running", "ending", "over"
    entry,    \* what the list says: "none", "started", "over", "gone"
    givenUp   \* the recordings that could not be stopped and were left behind

vars == <<phase, entry, givenUp>>

Init ==
    /\ phase = [e \in Recordings |-> "unused"]
    /\ entry = [e \in Recordings |-> "none"]
    /\ givenUp = {}

\* A recording starts; where its room is gone it will never be entered.
Start(e) ==
    /\ phase[e] = "unused"
    /\ phase' = [phase EXCEPT ![e] = "running"]
    /\ entry[e] = "none"
    /\ entry' = entry \/ entry' = [entry EXCEPT ![e] = "gone"]
    /\ UNCHANGED givenUp

\* Somebody asks LiveKit to stop the recording, which then takes its time.
Stop(e) ==
    /\ phase[e] = "running"
    /\ phase' = [phase EXCEPT ![e] = "ending"]
    /\ UNCHANGED <<entry, givenUp>>

End(e) ==
    /\ phase[e] \in {"running", "ending"}
    /\ phase' = [phase EXCEPT ![e] = "over"]
    /\ UNCHANGED <<entry, givenUp>>

Enter(e) ==
    /\ phase[e] # "unused" /\ entry[e] = "none"
    /\ entry' = [entry EXCEPT ![e] = "started"]
    /\ UNCHANGED <<phase, givenUp>>

GiveUp(e) ==
    /\ phase[e] # "unused"
    /\ givenUp' = givenUp \cup {e}
    /\ UNCHANGED <<phase, entry>>

Close(e) ==
    /\ entry[e] = "started"
    /\ phase[e] \in {"ending", "over"} \/ e \in givenUp
    /\ entry' = [entry EXCEPT ![e] = "over"]
    /\ UNCHANGED <<phase, givenUp>>

Erase(S) ==
    /\ entry' = [e \in Recordings |-> IF e \in S THEN "gone" ELSE entry[e]]
    /\ UNCHANGED <<phase, givenUp>>

Next ==
    \/ \E e \in Recordings : Start(e) \/ Stop(e) \/ End(e) \/ Enter(e) \/ GiveUp(e) \/ Close(e)
    \/ \E S \in SUBSET Recordings : Erase(S)

Spec == Init /\ [][Next]_vars
=============================================================================
