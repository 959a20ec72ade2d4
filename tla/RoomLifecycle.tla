---------------------------- MODULE RoomLifecycle ----------------------------
(***************************************************************************)
(* What a live room promises about its life: it is created, becomes active *)
(* at most once, is finished at most once, and nothing brings it back.  An *)
(* administrator may remove the row for good at any point.                 *)
(***************************************************************************)
VARIABLE
    \* the status column of live_rooms, "deleted" once the row is gone
    status

Statuses == {"created", "active", "finished", "deleted"}

Init == status = "created"

Start  == status = "created" /\ status' = "active"
Finish == status = "active"  /\ status' = "finished"
Delete == status # "deleted" /\ status' = "deleted"

Next == Start \/ Finish \/ Delete

Spec == Init /\ [][Next]_status
=============================================================================
