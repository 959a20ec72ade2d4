------------------------------- MODULE ChatHub -------------------------------
(***************************************************************************)
(* The chat hub of one instance (internal/chathub): its sockets and rooms  *)
(* under the hub lock, the queue through which the hub tells the Redis     *)
(* loop what to subscribe to, and that loop. The other instances appear by *)
(* what they share with this one, the socket counters of the presence      *)
(* tracker in Redis.                                                       *)
(*                                                                         *)
(* The lock is held for several steps only where it is interleaved with    *)
(* the loop: from a queued command to its wakeup, and while removeSocket   *)
(* walks the rooms of a socket.                                            *)
(***************************************************************************)
EXTENDS Integers, FiniteSets, Sequences

CONSTANTS
    Local,          \* sockets of this instance
    Remote,         \* sockets of the others
    NoSocket,
    Users,
    Owner,          \* the user of a socket
    Conversations,
    MaxPending,     \* bound: queued commands above which no socket starts anything
    MaxFaults       \* bound: failed calls, lost connections and crashes

Sockets  == Local \cup Remote
Channels == Users \cup Conversations

ASSUME HubAssumption ==
    /\ Local \cap Remote = {}
    /\ NoSocket \notin Sockets
    /\ Owner \in [Sockets -> Users]
    /\ Users \cap Conversations = {}
    /\ IsFiniteSet(Sockets)
    /\ MaxPending \in Nat
    /\ MaxFaults \in Nat

VARIABLES
    at,          \* where the goroutine of each socket is
    joined,      \* c.rooms
    rooms,       \* Hub.rooms
    userSockets, \* Hub.userSockets
    holder,      \* who holds the hub lock across steps
    owed,        \* the holder has queued a command and not sent its wakeup
    pending,     \* Bridge.pending
    wake,        \* Bridge.wake has its one token
    loop,        \* where Bridge.Run is
    batch,       \* what is left of the commands it took
    refs,        \* its reference counts
    asked,       \* the channels its PubSub remembers
    live,        \* the channels Redis delivers
    count,       \* presence:online:<user>, 0 when the key is absent
    counted,     \* sockets whose Connect went through
    lost,        \* history: users one of whose sockets was not counted, or whose key
                 \* expired over a socket
    faults

hubVars      == <<joined, rooms, userSockets, holder, owed, pending>>
loopVars     == <<loop, batch, refs, asked, live>>
presenceVars == <<count, counted, lost>>
vars == <<at, joined, rooms, userSockets, holder, owed, pending, wake, loop, batch, refs,
          asked, live, count, counted, lost, faults>>

Command == [channel : Channels, subscribe : BOOLEAN]

TypeOK ==
    /\ at \in [Sockets -> {"none", "added", "open", "silent", "closing", "closed"}]
    /\ joined \in [Local -> SUBSET Conversations]
    /\ rooms \in [Conversations -> SUBSET Local]
    /\ userSockets \in [Users -> SUBSET Local]
    /\ holder \in Local \cup {NoSocket}
    /\ owed \in BOOLEAN
    /\ pending \in Seq(Command)
    /\ wake \in BOOLEAN
    /\ loop \in {"top", "run", "deliver", "down"}
    /\ batch \in Seq(Command)
    /\ refs \in [Channels -> {0, 1}]
    /\ asked \subseteq Channels
    /\ live \subseteq asked
    /\ count \in [Users -> Nat]
    /\ counted \subseteq Sockets
    /\ lost \subseteq Users
    /\ faults \in 0..MaxFaults

Init ==
    /\ at = [c \in Sockets |-> "none"]
    /\ joined = [c \in Local |-> {}]
    /\ rooms = [v \in Conversations |-> {}]
    /\ userSockets = [u \in Users |-> {}]
    /\ holder = NoSocket
    /\ owed = FALSE
    /\ pending = <<>>
    /\ wake = FALSE
    /\ loop = "top"
    /\ batch = <<>>
    /\ refs = [ch \in Channels |-> 0]
    /\ asked = {}
    /\ live = {}
    /\ count = [u \in Users |-> 0]
    /\ counted = {}
    /\ lost = {}
    /\ faults = 0

Fault == faults < MaxFaults /\ faults' = faults + 1

-----------------------------------------------------------------------------
(* The hub *)

\* variant: a new command overtakes the queued ones.
EnqueueFirst(channel, subscribe) ==
    /\ pending' = <<[channel |-> channel, subscribe |-> subscribe]>> \o pending
    /\ owed' = TRUE

\* The hooks append under the lock, and the wakeup follows.
Enqueue(channel, subscribe) ==
    /\ pending' = Append(pending, [channel |-> channel, subscribe |-> subscribe])
    /\ owed' = TRUE

\* variant: a hook fires on every join and leave.
NotifyAlways(first, c, channel, subscribe) ==
    Enqueue(channel, subscribe) /\ holder' = c

\* A hook fires on the 0<->1 transition only.
Notify(first, c, channel, subscribe) ==
    IF first THEN Enqueue(channel, subscribe) /\ holder' = c
             ELSE UNCHANGED <<pending, owed, holder>>

Unlocked == holder = NoSocket /\ Len(pending) < MaxPending

\* serve: addSocket.
AddSocket(c) ==
    LET u == Owner[c] IN
    /\ at[c] = "none" /\ Unlocked
    /\ at' = [at EXCEPT ![c] = "added"]
    /\ userSockets' = [userSockets EXCEPT ![u] = @ \cup {c}]
    /\ Notify(userSockets[u] = {}, c, u, TRUE)
    /\ UNCHANGED <<joined, rooms, wake, loopVars, presenceVars, faults>>

JoinRoom(c, v) ==
    /\ at[c] = "open" /\ v \notin joined[c] /\ Unlocked
    /\ rooms' = [rooms EXCEPT ![v] = @ \cup {c}]
    /\ joined' = [joined EXCEPT ![c] = @ \cup {v}]
    /\ Notify(rooms[v] = {}, c, v, TRUE)
    /\ UNCHANGED <<at, userSockets, wake, loopVars, presenceVars, faults>>

LeaveRoom(c, v) ==
    /\ at[c] = "open" /\ v \in joined[c] /\ Unlocked
    /\ rooms' = [rooms EXCEPT ![v] = @ \ {c}]
    /\ joined' = [joined EXCEPT ![c] = @ \ {v}]
    /\ Notify(rooms[v] = {c}, c, v, FALSE)
    /\ UNCHANGED <<at, userSockets, wake, loopVars, presenceVars, faults>>

\* The read pump returns and takes the lock for removeSocket.
Close(c) ==
    /\ at[c] \in {"open", "silent"} /\ Unlocked
    /\ at' = [at EXCEPT ![c] = "closing"]
    /\ holder' = c
    /\ UNCHANGED <<joined, rooms, userSockets, owed, pending, wake, loopVars, presenceVars,
                   faults>>

\* removeSocket, one room after the other ...
RemoveFromRoom(c, v) ==
    /\ at[c] = "closing" /\ holder = c /\ ~owed /\ v \in joined[c]
    /\ rooms' = [rooms EXCEPT ![v] = @ \ {c}]
    /\ joined' = [joined EXCEPT ![c] = @ \ {v}]
    /\ Notify(rooms[v] = {c}, c, v, FALSE)
    /\ UNCHANGED <<at, userSockets, wake, loopVars, presenceVars, faults>>

\* variant: the rooms are forgotten with the socket.
RemoveSocketOnly(c) ==
    LET u == Owner[c] IN
    /\ at[c] = "closing" /\ holder = c /\ ~owed
    /\ at' = [at EXCEPT ![c] = "closed"]
    /\ userSockets' = [userSockets EXCEPT ![u] = @ \ {c}]
    /\ joined' = [joined EXCEPT ![c] = {}]
    /\ IF userSockets[u] = {c} THEN Enqueue(u, FALSE) /\ UNCHANGED holder
       ELSE holder' = NoSocket /\ UNCHANGED <<pending, owed>>
    /\ UNCHANGED <<rooms, wake, loopVars, presenceVars, faults>>

\* ... then the user's set, and close(c.send).
RemoveSocket(c) ==
    LET u == Owner[c] IN
    /\ at[c] = "closing" /\ holder = c /\ ~owed /\ joined[c] = {}
    /\ at' = [at EXCEPT ![c] = "closed"]
    /\ userSockets' = [userSockets EXCEPT ![u] = @ \ {c}]
    /\ IF userSockets[u] = {c} THEN Enqueue(u, FALSE) /\ UNCHANGED holder
       ELSE holder' = NoSocket /\ UNCHANGED <<pending, owed>>
    /\ UNCHANGED <<joined, rooms, wake, loopVars, presenceVars, faults>>

\* variant: wake has no buffer.
WakeupUnbuffered ==
    /\ owed
    /\ owed' = FALSE
    /\ wake' = (loop = "run" /\ batch = <<>>)
    /\ holder' = IF at[holder] = "closing" THEN holder ELSE NoSocket
    /\ UNCHANGED <<at, joined, rooms, userSockets, pending, loopVars, presenceVars, faults>>

\* enqueue's non-blocking send; then the lock is released, unless removeSocket goes on.
Wakeup ==
    /\ owed
    /\ owed' = FALSE
    /\ wake' = TRUE
    /\ holder' = IF at[holder] = "closing" THEN holder ELSE NoSocket
    /\ UNCHANGED <<at, joined, rooms, userSockets, pending, loopVars, presenceVars, faults>>

-----------------------------------------------------------------------------
(* Bridge.Run *)

\* takePending.
TakePending ==
    /\ loop = "top"
    /\ batch' = pending
    /\ pending' = <<>>
    /\ loop' = "run"
    /\ UNCHANGED <<at, joined, rooms, userSockets, holder, owed, wake, refs, asked, live,
                   presenceVars, faults>>

\* The PubSub remembers what it was asked for also when the call fails; a failed
\* call breaks its connection.
Ask(channels) ==
    /\ asked' = channels
    /\ \/ live' = (live \cup (channels \ asked)) \cap channels /\ UNCHANGED faults
       \/ Fault /\ live' = {}

\* variant: the last leave unsubscribes from nothing.
ApplyCmdKeeps ==
    LET cmd == Head(batch)
        n   == IF cmd.subscribe THEN refs[cmd.channel] + 1 ELSE refs[cmd.channel] - 1 IN
    /\ loop = "run" /\ batch # <<>>
    /\ batch' = Tail(batch)
    /\ refs' = [refs EXCEPT ![cmd.channel] = IF n < 0 THEN 0 ELSE n]
    /\ \/ cmd.subscribe /\ n = 1 /\ Ask(asked \cup {cmd.channel})
       \/ cmd.subscribe /\ n > 1 /\ UNCHANGED <<asked, live, faults>>
       \/ ~cmd.subscribe /\ n < 0 /\ Ask(asked \ {cmd.channel})
       \/ ~cmd.subscribe /\ n >= 0 /\ UNCHANGED <<asked, live, faults>>
    /\ UNCHANGED <<at, hubVars, wake, loop, presenceVars>>

\* applyCmd.
ApplyCmd ==
    LET cmd == Head(batch)
        n   == IF cmd.subscribe THEN refs[cmd.channel] + 1 ELSE refs[cmd.channel] - 1 IN
    /\ loop = "run" /\ batch # <<>>
    /\ batch' = Tail(batch)
    /\ refs' = [refs EXCEPT ![cmd.channel] = IF n < 0 THEN 0 ELSE n]
    /\ \/ cmd.subscribe /\ n = 1 /\ Ask(asked \cup {cmd.channel})
       \/ cmd.subscribe /\ n > 1 /\ UNCHANGED <<asked, live, faults>>
       \/ ~cmd.subscribe /\ n <= 0 /\ Ask(asked \ {cmd.channel})
       \/ ~cmd.subscribe /\ n > 0 /\ UNCHANGED <<asked, live, faults>>
    /\ UNCHANGED <<at, hubVars, wake, loop, presenceVars>>

\* The select of the loop: woken, ...
Woken ==
    /\ loop = "run" /\ batch = <<>>
    /\ wake
    /\ wake' = FALSE
    /\ loop' = "top"
    /\ UNCHANGED <<at, hubVars, batch, refs, asked, live, presenceVars, faults>>

\* ... with a message, which is delivered under the hub's read lock, ...
Receive ==
    /\ loop = "run" /\ batch = <<>>
    /\ live # {}
    /\ loop' = "deliver"
    /\ UNCHANGED <<at, hubVars, wake, batch, refs, asked, live, presenceVars, faults>>

Deliver ==
    /\ loop = "deliver" /\ holder = NoSocket
    /\ loop' = "top"
    /\ UNCHANGED <<at, hubVars, wake, batch, refs, asked, live, presenceVars, faults>>

\* ... or with its channel closed: a new PubSub after a delay.
PubSubCloses ==
    /\ loop = "run" /\ batch = <<>>
    /\ Fault
    /\ loop' = "down"
    /\ asked' = {}
    /\ live' = {}
    /\ UNCHANGED <<at, hubVars, wake, batch, refs, presenceVars>>

\* variant: the new PubSub starts with no subscription.
RebuildEmpty ==
    /\ loop = "down"
    /\ loop' = "top"
    /\ Ask({})
    /\ UNCHANGED <<at, hubVars, wake, batch, refs, presenceVars>>

Rebuild ==
    /\ loop = "down"
    /\ loop' = "top"
    /\ Ask({ch \in Channels : refs[ch] > 0})
    /\ UNCHANGED <<at, hubVars, wake, batch, refs, presenceVars>>

\* go-redis loses its connection, and subscribes again to what it remembers.
ConnectionLost ==
    /\ live # {}
    /\ Fault
    /\ live' = {}
    /\ UNCHANGED <<at, hubVars, wake, loop, batch, refs, asked, presenceVars>>

Reconnect ==
    /\ live # asked
    /\ live' = asked
    /\ UNCHANGED <<at, hubVars, wake, loop, batch, refs, asked, presenceVars, faults>>

-----------------------------------------------------------------------------
(* Presence *)

SocketsOf(u) == {c \in Sockets : Owner[c] = u}

\* Only a registered socket goes on; addSocket has returned.
Free(c) == holder # c

\* The script of Connect, or its failure, which is logged.
Connect(c) ==
    /\ at[c] = "added" /\ Free(c)
    /\ at' = [at EXCEPT ![c] = "open"]
    /\ \/ /\ count' = [count EXCEPT ![Owner[c]] = @ + 1]
          /\ counted' = counted \cup {c}
          /\ UNCHANGED <<lost, faults>>
       \/ /\ Fault
          /\ lost' = lost \cup {Owner[c]}
          /\ UNCHANGED <<count, counted>>
    /\ UNCHANGED <<hubVars, wake, loopVars>>

\* The peer is gone and sends no more pongs; the read deadline will notice.
FallSilent(c) ==
    /\ at[c] = "open" /\ Free(c)
    /\ at' = [at EXCEPT ![c] = "silent"]
    /\ UNCHANGED <<hubVars, wake, loopVars, presenceVars, faults>>

\* variant: the last but one socket deletes the key.
DecrementShort(n) == IF n - 1 <= 1 THEN 0 ELSE n - 1

\* The script of Disconnect: at zero or below the key is deleted.
Decrement(n) == IF n - 1 <= 0 THEN 0 ELSE n - 1

Disconnect(c) ==
    /\ at[c] = "closed" /\ Free(c)
    /\ at' = [at EXCEPT ![c] = "none"]
    /\ counted' = counted \ {c}
    /\ \/ /\ count' = [count EXCEPT ![Owner[c]] = Decrement(@)]
          /\ UNCHANGED faults
       \/ Fault /\ UNCHANGED count
    /\ UNCHANGED <<hubVars, wake, loopVars, lost>>

\* variant: the key has no TTL.
ExpireNever(u) ==
    /\ FALSE
    /\ UNCHANGED vars

ExpireKey(u) ==
    /\ count[u] > 0
    /\ count' = [count EXCEPT ![u] = 0]
    /\ lost' = IF counted \cap SocketsOf(u) = {} THEN lost ELSE lost \cup {u}
    /\ UNCHANGED <<at, hubVars, wake, loopVars, counted>>

\* The TTL runs out when no socket of the user has sent a pong for as long: it is
\* the time a silent socket may stay open, so some may be closing by then.
Expire(u) ==
    /\ \A c \in SocketsOf(u) : at[c] # "open"
    /\ ExpireKey(u)
    /\ UNCHANGED faults

\* ... or over an open socket, when the Refresh of its pongs failed for as long.
RefreshFails(u) ==
    /\ \E c \in SocketsOf(u) : at[c] = "open"
    /\ Fault
    /\ ExpireKey(u)

-----------------------------------------------------------------------------
(* The other instances, and crashes *)

\* A socket of another instance is registered and removed there.
RemoteStep(c) ==
    /\ \/ at[c] = "none" /\ at' = [at EXCEPT ![c] = "added"]
       \/ at[c] \in {"open", "silent"} /\ at' = [at EXCEPT ![c] = "closed"]
    /\ UNCHANGED <<hubVars, wake, loopVars, presenceVars, faults>>

Gone(S) ==
    /\ at' = [c \in Sockets |-> IF c \in S THEN "none" ELSE at[c]]
    /\ counted' = counted \ S
    /\ Fault
    /\ UNCHANGED <<count, lost>>

\* This instance dies and starts again: nobody decrements for its sockets.
Crash ==
    /\ Gone(Local)
    /\ joined' = [c \in Local |-> {}]
    /\ rooms' = [v \in Conversations |-> {}]
    /\ userSockets' = [u \in Users |-> {}]
    /\ holder' = NoSocket
    /\ owed' = FALSE
    /\ pending' = <<>>
    /\ wake' = FALSE
    /\ loop' = "top"
    /\ batch' = <<>>
    /\ refs' = [ch \in Channels |-> 0]
    /\ asked' = {}
    /\ live' = {}

RemoteCrash ==
    /\ Gone(Remote)
    /\ UNCHANGED <<hubVars, wake, loopVars>>

-----------------------------------------------------------------------------

Loop == TakePending \/ ApplyCmd \/ Woken \/ Rebuild

Removal(c) == (\E v \in Conversations : RemoveFromRoom(c, v)) \/ RemoveSocket(c)

Next ==
    \/ \E c \in Local :
         \/ AddSocket(c) \/ Close(c) \/ Removal(c)
         \/ \E v \in Conversations : JoinRoom(c, v) \/ LeaveRoom(c, v)
    \/ \E c \in Remote : RemoteStep(c)
    \/ \E c \in Sockets : Connect(c) \/ FallSilent(c) \/ Disconnect(c)
    \/ \E u \in Users : Expire(u) \/ RefreshFails(u)
    \/ Wakeup \/ Loop \/ Receive \/ Deliver \/ PubSubCloses
    \/ ConnectionLost \/ Reconnect
    \/ Crash \/ RemoteCrash

Spec == Init /\ [][Next]_vars

\* Goroutines run; a reader of the RWMutex is let in between two writers; go-redis
\* reconnects; keys expire. Nobody has to connect, join, leave or fall silent.
Fairness ==
    /\ WF_vars(Loop)
    /\ SF_vars(Deliver)
    /\ WF_vars(Wakeup)
    /\ WF_vars(Reconnect)
    /\ \A c \in Local : WF_vars(Removal(c))
    /\ \A c \in Sockets : WF_vars(Disconnect(c)) /\ WF_vars(Connect(c))
    /\ \A u \in Users : WF_vars(Expire(u))

FairSpec == Spec /\ Fairness

-----------------------------------------------------------------------------
(* Properties *)

\* Somebody here needs the channel.
Wanted(ch) == IF ch \in Users THEN userSockets[ch] # {} ELSE rooms[ch] # {}

Asks(queue, ch, subscribe) ==
    Cardinality({i \in DOMAIN queue : queue[i] = [channel |-> ch, subscribe |-> subscribe]})

\* Commands are neither dropped nor reordered: applying what is queued brings each
\* count to exactly what the sockets need, whatever joined, left and reconnected
\* in the meantime.
QueueKeepsCount ==
    \A ch \in Channels :
        refs[ch] + Asks(batch \o pending, ch, TRUE) - Asks(batch \o pending, ch, FALSE)
            = IF Wanted(ch) THEN 1 ELSE 0

\* Once the queue is applied, the channels the PubSub remembers, and delivers again
\* after every reconnect, are exactly those somebody here needs: no join is left
\* deaf and no leave keeps receiving, whatever call failed on the way.
SubscribedToWanted ==
    batch \o pending = <<>> /\ loop # "down" => asked = {ch \in Channels : Wanted(ch)}

\* No wakeup is lost: with commands queued and the loop in its select, the token
\* is there or on its way.
NoLostWakeup ==
    pending # <<>> /\ loop = "run" /\ batch = <<>> => wake \/ owed

\* No delivery meets a socket whose send channel is closed, which would panic:
\* with the lock free, rooms and users hold exactly the sockets that are there.
OnlyOpenSockets ==
    holder = NoSocket =>
        /\ \A v \in Conversations : \A c \in rooms[v] : at[c] \in {"open", "silent"}
        /\ \A u \in Users : \A c \in userSockets[u] : at[c] \in {"added", "open", "silent"}

\* A disconnect never reports a user offline who has a counted socket somewhere,
\* short of a Connect that failed or a key that expired with a socket still counted.
NeverUndercounted ==
    \A u \in Users \ lost : Cardinality(counted \cap SocketsOf(u)) <= count[u]

\* The counter exceeds the counted sockets only by what faults left behind: a
\* Disconnect that failed leaves one, a crash the sockets it took down.
OvercountBounded ==
    \A u \in Users :
        count[u] <= Cardinality(counted \cap SocketsOf(u)) + faults * Cardinality(SocketsOf(u))

\* What a socket here joined is subscribed to in the end, unless it leaves.
Listening == \A ch \in Channels : Wanted(ch) ~> (ch \in live \/ ~Wanted(ch))

\* A crashed instance cannot pin a user online forever.
NotPinned == \A u \in Users : []<>(count[u] = 0 \/ \E c \in SocketsOf(u) : at[c] = "open")
=============================================================================
