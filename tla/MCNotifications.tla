--------------------------- MODULE MCNotifications ---------------------------
EXTENDS Notifications
CONSTANTS u1, bot, push1, push2
MCChannel == [r \in Rows |-> IF r = bot THEN "telegram" ELSE "push"]

\* The two push rows are of two users who share a browser.
MCTarget == [r \in Rows |-> IF r = bot THEN "chat" ELSE "token"]
=============================================================================
