-------------------------- MODULE MCLiveRecording --------------------------
(* LiveRecording for TLC: handlers, rooms and egress IDs are interchangeable. *)
EXTENDS LiveRecording, TLC

Symmetry == Permutations(Requests) \cup Permutations(Rooms) \cup Permutations(Egresses)
=============================================================================
