------------------------------ MODULE MCChatHub ------------------------------
EXTENDS ChatHub
CONSTANTS c1, c2, d1, alice, room
MCLocal == {c1, c2}
MCRemote == {d1}
MCOwner == [c \in {c1, c2, d1} |-> alice]
=============================================================================
