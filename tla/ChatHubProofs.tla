---------------------------- MODULE ChatHubProofs ----------------------------
(***************************************************************************)
(* Proofs about ChatHub: the lock discipline of the hub, what its rooms    *)
(* hold, the queue to the Redis loop, the wakeups and the presence counts. *)
(***************************************************************************)
EXTENDS ChatHub, FiniteSetTheorems, FunctionTheorems, TLAPS

USE HubAssumption

-----------------------------------------------------------------------------
(* The inductive invariant *)

\* The lock is kept across steps by the socket that owes a wakeup or is removed.
LockInv ==
    /\ owed => holder # NoSocket
    /\ \A c \in Sockets : at[c] = "closing" => holder = c
    /\ holder # NoSocket => owed \/ at[holder] = "closing"

\* The hub's two maps and the rooms of the sockets agree, lock or not.
SocketInv ==
    /\ \A c \in Local, v \in Conversations : c \in rooms[v] <=> v \in joined[c]
    /\ \A c \in Local : joined[c] # {} => at[c] \in {"open", "silent", "closing"}
    /\ \A c \in Local, u \in Users :
         c \in userSockets[u] <=> /\ Owner[c] = u
                                  /\ at[c] \in {"added", "open", "silent", "closing"}

\* Between the loop's top and its next return to it, a wakeup is there or owed for
\* what was queued.
WakeInv == pending # <<>> /\ loop = "run" => wake \/ owed

\* A counted socket is connected and not yet disconnected; of one that is connected
\* and not counted, the user is lost.
CountInv ==
    /\ \A c \in counted : at[c] \in {"open", "silent", "closing", "closed"}
    /\ \A c \in Sockets :
         at[c] \in {"open", "silent", "closing", "closed"} /\ c \notin counted => Owner[c] \in lost
    /\ NeverUndercounted

\* What the loop has yet to apply.
Queue == batch \o pending

Cmd(ch, subscribe) == [channel |-> ch, subscribe |-> subscribe]

Need(ch) == IF Wanted(ch) THEN 1 ELSE 0

\* Applying cmd takes the count of ch from m to n.
Takes(cmd, ch, m, n) ==
    \/ cmd = Cmd(ch, TRUE) /\ m = 0 /\ n = 1
    \/ cmd = Cmd(ch, FALSE) /\ m = 1 /\ n = 0
    \/ cmd.channel # ch /\ m = n

\* The counts of ch while the queue is applied, from what it is to what is needed.
IsTrace(f, ch) ==
    /\ f \in [0..Len(Queue) -> {0, 1}]
    /\ f[0] = refs[ch]
    /\ f[Len(Queue)] = Need(ch)
    /\ \A i \in 1..Len(Queue) : Takes(Queue[i], ch, f[i - 1], f[i])

QueueInv ==
    /\ loop # "run" => batch = <<>>
    /\ \A ch \in Channels : \E f : IsTrace(f, ch)

IndInv ==
    TypeOK /\ LockInv /\ SocketInv /\ WakeInv /\ CountInv /\ QueueInv /\ QueueKeepsCount

-----------------------------------------------------------------------------

\* The lock.
LEMMA LockNext ==
    ASSUME IndInv, Next
    PROVE  LockInv'
<1> USE DEF IndInv, TypeOK, LockInv
<1>1. ASSUME NEW c \in Local, AddSocket(c)
      PROVE  LockInv'
  BY <1>1 DEF AddSocket, Unlocked, Notify, Enqueue, Sockets
<1>2. ASSUME NEW c \in Local, Close(c)
      PROVE  LockInv'
  BY <1>2 DEF Close, Unlocked, hubVars, Sockets
<1>3. ASSUME NEW c \in Local, NEW v \in Conversations, RemoveFromRoom(c, v)
      PROVE  LockInv'
  BY <1>3 DEF RemoveFromRoom, Notify, Enqueue, Sockets
<1>4. ASSUME NEW c \in Local, RemoveSocket(c)
      PROVE  LockInv'
  BY <1>4 DEF RemoveSocket, Enqueue, Sockets
<1>5. ASSUME NEW c \in Local, NEW v \in Conversations, JoinRoom(c, v) \/ LeaveRoom(c, v)
      PROVE  LockInv'
  BY <1>5 DEF JoinRoom, LeaveRoom, Unlocked, Notify, Enqueue, Sockets
<1>6. ASSUME NEW c \in Remote, RemoteStep(c)
      PROVE  LockInv'
  BY <1>6 DEF RemoteStep, hubVars, Sockets
<1>7. ASSUME NEW c \in Sockets, Connect(c) \/ FallSilent(c) \/ Disconnect(c)
      PROVE  LockInv'
  BY <1>7 DEF Connect, FallSilent, Disconnect, Free, hubVars, Sockets
<1>8. CASE Wakeup
  BY <1>8 DEF Wakeup, Sockets
<1>9. CASE \/ Loop \/ Receive \/ Deliver \/ PubSubCloses \/ ConnectionLost \/ Reconnect
           \/ \E u \in Users : Expire(u) \/ RefreshFails(u)
  BY <1>9 DEF Loop, TakePending, ApplyCmd, Woken, Rebuild, Receive, Deliver, PubSubCloses,
              ConnectionLost, Reconnect, Expire, RefreshFails, ExpireKey, hubVars
<1>10. CASE Crash
  BY <1>10 DEF Crash, Gone, Sockets
<1>11. CASE RemoteCrash
  BY <1>11 DEF RemoteCrash, Gone, hubVars, Sockets
<1>12. QED
  BY <1>1, <1>2, <1>3, <1>4, <1>5, <1>6, <1>7, <1>8, <1>9, <1>10, <1>11
     DEF Next, Removal

\* The sockets and the rooms.
LEMMA SocketNext ==
    ASSUME IndInv, Next
    PROVE  SocketInv'
<1> USE DEF IndInv, TypeOK, SocketInv
<1>1. ASSUME NEW c \in Local, AddSocket(c)
      PROVE  SocketInv'
  BY <1>1 DEF AddSocket, Sockets
<1>2. ASSUME NEW c \in Local, Close(c)
      PROVE  SocketInv'
  BY <1>2 DEF Close, Sockets
<1>3. ASSUME NEW c \in Local, NEW v \in Conversations,
             RemoveFromRoom(c, v) \/ LeaveRoom(c, v)
      PROVE  SocketInv'
  <2>1. /\ rooms' = [rooms EXCEPT ![v] = @ \ {c}] /\ joined' = [joined EXCEPT ![c] = @ \ {v}]
        /\ UNCHANGED <<at, userSockets>>
    BY <1>3 DEF RemoveFromRoom, LeaveRoom
  <2>2. \A d \in Local, w \in Conversations :
          /\ d \in rooms'[w] <=> d \in rooms[w] /\ <<d, w>> # <<c, v>>
          /\ w \in joined'[d] <=> w \in joined[d] /\ <<d, w>> # <<c, v>>
    BY <2>1
  <2>3. \A d \in Local : joined'[d] \subseteq joined[d]
    BY <2>1
  <2>4. QED
    BY <2>1, <2>2, <2>3
<1>4. ASSUME NEW c \in Local, RemoveSocket(c)
      PROVE  SocketInv'
  BY <1>4 DEF RemoveSocket, Sockets
<1>5. ASSUME NEW c \in Local, NEW v \in Conversations, JoinRoom(c, v)
      PROVE  SocketInv'
  BY <1>5 DEF JoinRoom, Sockets
<1>6. ASSUME NEW c \in Remote, RemoteStep(c)
      PROVE  SocketInv'
  <2>1. \A d \in Local : at'[d] = at[d]
    BY <1>6 DEF RemoteStep, Sockets
  <2>2. UNCHANGED <<joined, rooms, userSockets>>
    BY <1>6 DEF RemoteStep, hubVars
  <2>3. QED
    BY <2>1, <2>2 DEF Sockets
<1>7. ASSUME NEW c \in Sockets, Connect(c) \/ FallSilent(c) \/ Disconnect(c)
      PROVE  SocketInv'
  <2>1. /\ \/ at[c] \in {"added", "open"} /\ at'[c] \in {"open", "silent"}
           \/ at[c] = "closed" /\ at'[c] = "none"
        /\ \A d \in Sockets : d # c => at'[d] = at[d]
    BY <1>7 DEF Connect, FallSilent, Disconnect
  <2>2. UNCHANGED <<joined, rooms, userSockets>>
    BY <1>7 DEF Connect, FallSilent, Disconnect, hubVars
  <2>3. \A d \in Local : /\ joined[d] # {} => at'[d] \in {"open", "silent", "closing"}
                         /\ at'[d] \in {"added", "open", "silent", "closing"}
                              <=> at[d] \in {"added", "open", "silent", "closing"}
    BY <2>1 DEF Sockets
  <2>4. QED
    BY <2>2, <2>3
<1>8. CASE \/ Wakeup \/ Loop \/ Receive \/ Deliver \/ PubSubCloses \/ ConnectionLost
           \/ Reconnect \/ \E u \in Users : Expire(u) \/ RefreshFails(u)
  BY <1>8 DEF Wakeup, Loop, TakePending, ApplyCmd, Woken, Rebuild, Receive, Deliver,
              PubSubCloses, ConnectionLost, Reconnect, Expire, RefreshFails, ExpireKey, hubVars
<1>9. CASE Crash
  BY <1>9 DEF Crash, Gone, Sockets
<1>10. CASE RemoteCrash
  BY <1>10 DEF RemoteCrash, Gone, hubVars, Sockets
<1>11. QED
  BY <1>1, <1>2, <1>3, <1>4, <1>5, <1>6, <1>7, <1>8, <1>9, <1>10 DEF Next, Removal

\* The wakeups.
LEMMA WakeNext ==
    ASSUME IndInv, Next
    PROVE  WakeInv'
<1> USE DEF IndInv, TypeOK, WakeInv
<1>1. ASSUME NEW c \in Local,
             \/ AddSocket(c) \/ RemoveSocket(c)
             \/ \E v \in Conversations : JoinRoom(c, v) \/ LeaveRoom(c, v) \/ RemoveFromRoom(c, v)
      PROVE  WakeInv'
  BY <1>1 DEF AddSocket, JoinRoom, LeaveRoom, RemoveFromRoom, RemoveSocket, Notify, Enqueue,
              loopVars
<1>2. CASE \/ Wakeup \/ TakePending \/ Woken \/ Crash
  BY <1>2 DEF Wakeup, TakePending, Woken, Crash, loopVars
<1>3. CASE ApplyCmd \/ Rebuild \/ Receive \/ Deliver \/ PubSubCloses
  BY <1>3 DEF ApplyCmd, Rebuild, Receive, Deliver, PubSubCloses, hubVars
<1>4. CASE \/ \E c \in Local : Close(c)
           \/ \E c \in Remote : RemoteStep(c)
           \/ \E c \in Sockets : Connect(c) \/ FallSilent(c) \/ Disconnect(c)
           \/ \E u \in Users : Expire(u) \/ RefreshFails(u)
           \/ ConnectionLost \/ Reconnect \/ RemoteCrash
  BY <1>4 DEF Close, RemoteStep, Connect, FallSilent, Disconnect, Expire, RefreshFails,
              ExpireKey, ConnectionLost, Reconnect, RemoteCrash, hubVars, loopVars
<1>5. QED
  BY <1>1, <1>2, <1>3, <1>4 DEF Next, Removal, Loop

\* The counted sockets of a user.
CountedOf(u) == counted \cap SocketsOf(u)

LEMMA CountedFinite ==
    ASSUME NEW u \in Users
    PROVE  /\ IsFiniteSet(CountedOf(u)) /\ Cardinality(CountedOf(u)) \in Nat
           /\ IsFiniteSet(CountedOf(u)') /\ Cardinality(CountedOf(u)') \in Nat
<1>1. CountedOf(u) \subseteq Sockets /\ CountedOf(u)' \subseteq Sockets
  BY DEF CountedOf, SocketsOf
<1>2. IsFiniteSet(CountedOf(u)) /\ IsFiniteSet(CountedOf(u)')
  BY <1>1, FS_Subset
<1>3. QED
  BY <1>2, FS_CardinalityType

\* At most one more element.
LEMMA OneMore ==
    ASSUME NEW S, NEW T, NEW x, IsFiniteSet(S), T \subseteq S \cup {x}
    PROVE  Cardinality(T) <= Cardinality(S) + 1
<1>1. /\ IsFiniteSet(S \cup {x})
      /\ \/ Cardinality(S \cup {x}) = Cardinality(S)
         \/ Cardinality(S \cup {x}) = Cardinality(S) + 1
  BY FS_AddElement, Zenon
<1>2. IsFiniteSet(T) /\ Cardinality(T) <= Cardinality(S \cup {x})
  BY <1>1, FS_Subset
<1>3. Cardinality(T) \in Nat /\ Cardinality(S) \in Nat
  BY <1>2, FS_CardinalityType
<1>4. QED
  BY <1>1, <1>2, <1>3

\* The sockets counted and what the counter says, user by user.
LEMMA CountNext ==
    ASSUME IndInv, Next
    PROVE  CountInv'
<1> USE DEF IndInv, TypeOK
<1>1. ASSUME UNCHANGED <<counted, count, lost>>,
             \A c \in Sockets : at'[c] # at[c] =>
               \/ at[c] \in {"none", "added"} /\ at'[c] \in {"none", "added"}
               \/ at[c] \in {"open", "silent", "closing"} /\ at'[c] \in {"silent", "closing", "closed"}
      PROVE  CountInv'
  <2>1. NeverUndercounted'
    BY <1>1 DEF CountInv, NeverUndercounted, SocketsOf
  <2>2. QED
    BY <1>1, <2>1 DEF CountInv
<1>2. ASSUME NEW c \in Local,
             \/ AddSocket(c) \/ RemoveSocket(c) \/ Close(c)
             \/ \E v \in Conversations : JoinRoom(c, v) \/ LeaveRoom(c, v) \/ RemoveFromRoom(c, v)
      PROVE  CountInv'
  BY <1>1, <1>2 DEF AddSocket, RemoveSocket, Close, JoinRoom, LeaveRoom, RemoveFromRoom,
                    presenceVars, Sockets
<1>3. ASSUME NEW c \in Sockets, FallSilent(c) \/ (c \in Remote /\ RemoteStep(c))
      PROVE  CountInv'
  BY <1>1, <1>3 DEF FallSilent, RemoteStep, presenceVars
<1>4. CASE \/ Wakeup \/ Loop \/ Receive \/ Deliver \/ PubSubCloses \/ ConnectionLost \/ Reconnect
  BY <1>1, <1>4 DEF Wakeup, Loop, TakePending, ApplyCmd, Woken, Rebuild, Receive, Deliver,
                    PubSubCloses, ConnectionLost, Reconnect, presenceVars
<1>5. ASSUME NEW c \in Sockets, Connect(c)
      PROVE  CountInv'
  <2>1. /\ at[c] = "added" /\ at'[c] = "open"
        /\ \A d \in Sockets : d # c => at'[d] = at[d]
    BY <1>5 DEF Connect
  <2>2. CASE count' = [count EXCEPT ![Owner[c]] = @ + 1]
             /\ counted' = counted \cup {c} /\ lost' = lost
    <3>1. NeverUndercounted'
      <4> SUFFICES ASSUME NEW u \in Users \ lost
                   PROVE  Cardinality(CountedOf(u)') <= count'[u]
        BY <2>2 DEF NeverUndercounted, CountedOf, SocketsOf
      <4>1. Cardinality(CountedOf(u)) <= count[u]
        BY DEF CountInv, NeverUndercounted, CountedOf
      <4>2. CASE u = Owner[c]
        <5>1. CountedOf(u)' \subseteq CountedOf(u) \cup {c}
          BY <2>2 DEF CountedOf, SocketsOf
        <5>2. Cardinality(CountedOf(u)') <= Cardinality(CountedOf(u)) + 1
          BY <5>1, CountedFinite, OneMore
        <5>3. QED
          BY <2>2, <4>1, <4>2, <5>2, CountedFinite
      <4>3. CASE u # Owner[c]
        <5>1. CountedOf(u)' = CountedOf(u)
          BY <2>2, <4>3 DEF CountedOf, SocketsOf
        <5>2. QED
          BY <2>2, <4>1, <4>3, <5>1
      <4>4. QED
        BY <4>2, <4>3
    <3>2. QED
      BY <2>1, <2>2, <3>1 DEF CountInv
  <2>3. CASE lost' = lost \cup {Owner[c]} /\ UNCHANGED <<count, counted>>
    BY <2>1, <2>3 DEF CountInv, NeverUndercounted, SocketsOf
  <2>4. QED
    BY <1>5, <2>2, <2>3 DEF Connect
<1>6. ASSUME NEW c \in Sockets, Disconnect(c)
      PROVE  CountInv'
  <2>1. /\ at[c] = "closed" /\ at'[c] = "none" /\ lost' = lost
        /\ \A d \in Sockets : d # c => at'[d] = at[d]
        /\ counted' = counted \ {c}
        /\ \/ count' = [count EXCEPT ![Owner[c]] = Decrement(@)]
           \/ count' = count
    BY <1>6 DEF Disconnect
  <2>2. NeverUndercounted'
    <3> SUFFICES ASSUME NEW u \in Users \ lost
                 PROVE  Cardinality(CountedOf(u)') <= count'[u]
      BY <2>1 DEF NeverUndercounted, CountedOf, SocketsOf
    <3> DEFINE m == Cardinality(CountedOf(u))
               n == Cardinality(CountedOf(u)')
    <3>1. m <= count[u] /\ m \in Nat /\ n \in Nat /\ count[u] \in Nat
      BY CountedFinite DEF CountInv, NeverUndercounted, CountedOf
    <3>2. n <= m
      <4>1. CountedOf(u)' \subseteq CountedOf(u)
        BY <2>1 DEF CountedOf, SocketsOf
      <4>2. QED
        BY <4>1, CountedFinite, FS_Subset
    <3>3. u = Owner[c] => n <= m - 1
      <4> SUFFICES ASSUME u = Owner[c] PROVE n <= m - 1
        OBVIOUS
      <4>1. c \in CountedOf(u)
        BY <2>1 DEF CountInv, CountedOf, SocketsOf
      <4>2. CountedOf(u)' = CountedOf(u) \ {c}
        BY <2>1 DEF CountedOf, SocketsOf
      <4>3. Cardinality(CountedOf(u) \ {c}) = Cardinality(CountedOf(u)) - 1
        BY <4>1, CountedFinite, FS_RemoveElement
      <4>4. QED
        BY <3>1, <4>2, <4>3
    <3> HIDE DEF m, n
    <3>4. \/ count'[u] = count[u]
          \/ u = Owner[c] /\ count'[u] = IF count[u] - 1 <= 0 THEN 0 ELSE count[u] - 1
      BY <2>1 DEF Decrement
    <3>5. n <= count'[u]
      BY <3>1, <3>2, <3>3, <3>4
    <3>6. QED
      BY <3>5 DEF n
  <2>3. QED
    BY <2>1, <2>2 DEF CountInv
<1>7. ASSUME NEW u \in Users, Expire(u) \/ RefreshFails(u)
      PROVE  CountInv'
  <2>1. /\ count' = [count EXCEPT ![u] = 0] /\ UNCHANGED <<at, counted>>
        /\ lost' = IF CountedOf(u) = {} THEN lost ELSE lost \cup {u}
    BY <1>7 DEF Expire, RefreshFails, ExpireKey, CountedOf
  <2>2. NeverUndercounted'
    <3> SUFFICES ASSUME NEW w \in Users, w \notin lost'
                 PROVE  Cardinality(CountedOf(w)) <= count'[w]
      BY <2>1 DEF NeverUndercounted, CountedOf, SocketsOf
    <3>1. CASE w = u
      <4>1. CountedOf(u) = {}
        BY <2>1, <3>1
      <4>2. Cardinality(CountedOf(u)) = 0
        BY <4>1, FS_EmptySet
      <4>3. count'[u] = 0
        BY <2>1
      <4>4. QED
        BY <3>1, <4>2, <4>3
    <3>2. CASE w # u
      BY <2>1, <3>2 DEF CountInv, NeverUndercounted, CountedOf
    <3>3. QED
      BY <3>1, <3>2
  <2>3. QED
    BY <2>1, <2>2 DEF CountInv
<1>8. ASSUME NEW S \in SUBSET Sockets, Gone(S)
      PROVE  CountInv'
  <2>1. /\ \A c \in Sockets : at'[c] = IF c \in S THEN "none" ELSE at[c]
        /\ counted' = counted \ S /\ UNCHANGED <<count, lost>>
    BY <1>8 DEF Gone
  <2>2. NeverUndercounted'
    <3> SUFFICES ASSUME NEW u \in Users \ lost
                 PROVE  Cardinality(CountedOf(u)') <= count[u]
      BY <2>1 DEF NeverUndercounted, CountedOf, SocketsOf
    <3>1. CountedOf(u)' \subseteq CountedOf(u)
      BY <2>1 DEF CountedOf, SocketsOf
    <3>2. Cardinality(CountedOf(u)') <= Cardinality(CountedOf(u))
      BY <3>1, CountedFinite, FS_Subset
    <3>3. Cardinality(CountedOf(u)) <= count[u]
      BY DEF CountInv, NeverUndercounted, CountedOf
    <3>4. QED
      BY <3>2, <3>3, CountedFinite
  <2>3. QED
    BY <2>1, <2>2 DEF CountInv
<1>9. QED
  BY <1>2, <1>3, <1>4, <1>5, <1>6, <1>7, <1>8 DEF Next, Removal, Crash, RemoteCrash, Sockets

-----------------------------------------------------------------------------
(* The queue *)

\* A step of the hub queues one command, that turns the need of its channel round, or
\* changes no need.
HubMoves ==
    /\ UNCHANGED <<batch, refs, loop>>
    /\ \/ /\ pending' = pending
          /\ \A ch \in Channels : Wanted(ch)' <=> Wanted(ch)
       \/ \E d \in Channels :
            /\ \A ch \in Channels : ch # d => (Wanted(ch)' <=> Wanted(ch))
            /\ \/ pending' = Append(pending, Cmd(d, TRUE)) /\ ~Wanted(d) /\ Wanted(d)'
               \/ pending' = Append(pending, Cmd(d, FALSE)) /\ Wanted(d) /\ ~Wanted(d)'

LEMMA HubFacts ==
    ASSUME IndInv, NEW c \in Local,
           \/ AddSocket(c) \/ RemoveSocket(c)
           \/ \E v \in Conversations : JoinRoom(c, v) \/ LeaveRoom(c, v) \/ RemoveFromRoom(c, v)
    PROVE  HubMoves
<1> USE DEF IndInv, TypeOK
<1>1. CASE AddSocket(c)
  <2> DEFINE u == Owner[c]
  <2>1. u \in Channels /\ u \in Users
    BY DEF Channels, Sockets
  <2>2. UNCHANGED <<batch, refs, loop, rooms>>
    BY <1>1 DEF AddSocket, loopVars
  <2>3. /\ userSockets'[u] = userSockets[u] \cup {c}
        /\ \A w \in Users : w # u => userSockets'[w] = userSockets[w]
    BY <1>1, <2>1 DEF AddSocket
  <2>4. Wanted(u)' /\ (Wanted(u) <=> userSockets[u] # {})
    BY <2>1, <2>3 DEF Wanted
  <2>5. \A ch \in Channels : ch # u => (Wanted(ch)' <=> Wanted(ch))
    BY <2>2, <2>3 DEF Wanted
  <2>6. IF userSockets[u] = {} THEN pending' = Append(pending, Cmd(u, TRUE))
                               ELSE pending' = pending
    BY <1>1 DEF AddSocket, Notify, Enqueue, Cmd
  <2>7. QED
    BY <2>1, <2>2, <2>4, <2>5, <2>6 DEF HubMoves
<1>2. CASE RemoveSocket(c)
  <2> DEFINE u == Owner[c]
  <2>1. u \in Channels /\ u \in Users
    BY DEF Channels, Sockets
  <2>2. UNCHANGED <<batch, refs, loop, rooms>>
    BY <1>2 DEF RemoveSocket, loopVars
  <2>3. /\ userSockets'[u] = userSockets[u] \ {c}
        /\ \A w \in Users : w # u => userSockets'[w] = userSockets[w]
    BY <1>2, <2>1 DEF RemoveSocket
  <2>4. c \in userSockets[u]
    BY <1>2 DEF RemoveSocket, SocketInv, Sockets
  <2>5. Wanted(u) /\ (Wanted(u)' <=> userSockets[u] # {c})
    BY <2>1, <2>3, <2>4 DEF Wanted
  <2>6. \A ch \in Channels : ch # u => (Wanted(ch)' <=> Wanted(ch))
    BY <2>2, <2>3 DEF Wanted
  <2>7. IF userSockets[u] = {c} THEN pending' = Append(pending, Cmd(u, FALSE))
                                ELSE pending' = pending
    BY <1>2 DEF RemoveSocket, Enqueue, Cmd
  <2>8. QED
    BY <2>1, <2>2, <2>5, <2>6, <2>7 DEF HubMoves
<1>3. ASSUME NEW v \in Conversations, JoinRoom(c, v)
      PROVE  HubMoves
  <2>1. v \in Channels /\ v \notin Users
    BY DEF Channels
  <2>2. UNCHANGED <<batch, refs, loop, userSockets>>
    BY <1>3 DEF JoinRoom, loopVars
  <2>3. /\ rooms'[v] = rooms[v] \cup {c}
        /\ \A w \in Conversations : w # v => rooms'[w] = rooms[w]
    BY <1>3 DEF JoinRoom
  <2>4. Wanted(v)' /\ (Wanted(v) <=> rooms[v] # {})
    BY <2>1, <2>3 DEF Wanted
  <2>5. \A ch \in Channels : ch # v => (Wanted(ch)' <=> Wanted(ch))
    BY <2>2, <2>3 DEF Wanted, Channels
  <2>6. IF rooms[v] = {} THEN pending' = Append(pending, Cmd(v, TRUE))
                         ELSE pending' = pending
    BY <1>3 DEF JoinRoom, Notify, Enqueue, Cmd
  <2>7. QED
    BY <2>1, <2>2, <2>4, <2>5, <2>6 DEF HubMoves
<1>4. ASSUME NEW v \in Conversations, LeaveRoom(c, v) \/ RemoveFromRoom(c, v)
      PROVE  HubMoves
  <2>1. v \in Channels /\ v \notin Users
    BY DEF Channels
  <2>2. UNCHANGED <<batch, refs, loop, userSockets>>
    BY <1>4 DEF LeaveRoom, RemoveFromRoom, loopVars
  <2>3. /\ rooms'[v] = rooms[v] \ {c}
        /\ \A w \in Conversations : w # v => rooms'[w] = rooms[w]
    BY <1>4 DEF LeaveRoom, RemoveFromRoom
  <2>4. c \in rooms[v]
    BY <1>4 DEF LeaveRoom, RemoveFromRoom, SocketInv
  <2>5. Wanted(v) /\ (Wanted(v)' <=> rooms[v] # {c})
    BY <2>1, <2>3, <2>4 DEF Wanted
  <2>6. \A ch \in Channels : ch # v => (Wanted(ch)' <=> Wanted(ch))
    BY <2>2, <2>3 DEF Wanted, Channels
  <2>7. IF rooms[v] = {c} THEN pending' = Append(pending, Cmd(v, FALSE))
                          ELSE pending' = pending
    BY <1>4 DEF LeaveRoom, RemoveFromRoom, Notify, Enqueue, Cmd
  <2>8. QED
    BY <2>1, <2>2, <2>5, <2>6, <2>7 DEF HubMoves
<1>5. QED
  BY <1>1, <1>2, <1>3, <1>4

\* Where a command is in a sequence.
Places(q, cmd) == {i \in DOMAIN q : q[i] = cmd}

LEMMA PlacesFinite ==
    ASSUME NEW q \in Seq(Command), NEW cmd
    PROVE  IsFiniteSet(Places(q, cmd)) /\ Cardinality(Places(q, cmd)) \in Nat
<1>1. Places(q, cmd) \subseteq 1..Len(q) /\ Len(q) \in Int /\ 1 \in Int
  BY DEF Places
<1>2. IsFiniteSet(1..Len(q))
  BY <1>1, FS_Interval
<1>3. IsFiniteSet(Places(q, cmd))
  BY <1>1, <1>2, FS_Subset
<1>4. QED
  BY <1>3, FS_CardinalityType

LEMMA PlacesAppend ==
    ASSUME NEW p \in Seq(Command), NEW q \in Seq(Command), NEW cmd,
           Len(p) = Len(q) + 1, \A i \in 1..Len(q) : p[i] = q[i]
    PROVE  /\ p[Len(q) + 1] = cmd => Cardinality(Places(p, cmd)) = Cardinality(Places(q, cmd)) + 1
           /\ p[Len(q) + 1] # cmd => Cardinality(Places(p, cmd)) = Cardinality(Places(q, cmd))
<1> DEFINE n == Len(q) + 1
<1>1. n \notin Places(q, cmd) /\ Len(q) \in Nat
  BY DEF Places
<1>2. CASE p[n] = cmd
  <2>1. Places(p, cmd) = Places(q, cmd) \cup {n}
    BY <1>1, <1>2 DEF Places
  <2>2. Cardinality(Places(q, cmd) \cup {n}) = Cardinality(Places(q, cmd)) + 1
    BY <1>1, PlacesFinite, FS_AddElement
  <2>3. QED
    BY <1>2, <2>1, <2>2
<1>3. CASE p[n] # cmd
  <2>1. Places(p, cmd) = Places(q, cmd)
    BY <1>1, <1>3 DEF Places
  <2>2. QED
    BY <1>3, <2>1, PlacesFinite
<1>4. QED
  BY <1>2, <1>3

LEMMA PlacesPop ==
    ASSUME NEW p \in Seq(Command), NEW q \in Seq(Command), NEW cmd,
           Len(q) = Len(p) + 1, \A i \in 1..Len(p) : p[i] = q[i + 1]
    PROVE  /\ q[1] = cmd => Cardinality(Places(q, cmd)) = Cardinality(Places(p, cmd)) + 1
           /\ q[1] # cmd => Cardinality(Places(q, cmd)) = Cardinality(Places(p, cmd))
<1> DEFINE P == Places(p, cmd)
           R == Places(q, cmd) \ {1}
           f == [i \in P |-> i + 1]
<1>1. Len(p) \in Nat /\ P \subseteq 1..Len(p) /\ R \subseteq 2..Len(q)
  BY DEF Places
<1>2. \A i \in P : i \in Nat /\ i + 1 \in R
  BY <1>1 DEF Places
<1>3. \A j \in R : j - 1 \in P /\ j = (j - 1) + 1
  BY <1>1 DEF Places
<1> HIDE DEF P, R
<1>4. f \in Bijection(P, R)
  <2>1. f \in [P -> R] /\ \A i, j \in P : f[i] = f[j] => i = j
    BY <1>2
  <2>2. \A j \in R : \E i \in P : f[i] = j
    BY <1>3
  <2>3. QED
    BY <2>1, <2>2, Fun_IsBij
<1>5. ExistsBijection(P, R)
  BY <1>4, Fun_ExistsBij
<1>6. Cardinality(R) = Cardinality(P)
  BY <1>5, PlacesFinite, FS_Bijection DEF P
<1>7. /\ IsFiniteSet(Places(q, cmd)) /\ Cardinality(Places(q, cmd)) \in Nat
      /\ IsFiniteSet(P) /\ Cardinality(P) \in Nat
  BY PlacesFinite DEF P
<1>8. 1 \in Places(q, cmd) <=> q[1] = cmd
  BY <1>1 DEF Places
<1>9. CASE q[1] = cmd
  <2>1. Cardinality(Places(q, cmd) \ {1}) = Cardinality(Places(q, cmd)) - 1
    BY <1>7, <1>8, <1>9, FS_RemoveElement
  <2>2. QED
    BY <1>6, <1>7, <1>9, <2>1 DEF P, R
<1>10. CASE q[1] # cmd
  <2>1. R = Places(q, cmd)
    BY <1>8, <1>10 DEF R
  <2>2. Cardinality(Places(q, cmd)) = Cardinality(P)
    BY <1>6, <2>1
  <2>3. QED
    BY <1>7, <1>10, <2>2 DEF P
<1>11. QED
  BY <1>9, <1>10

\* A command is queued behind the others.
LEMMA QueueAppends ==
    ASSUME batch \in Seq(Command), pending \in Seq(Command), NEW cmd \in Command,
           batch' = batch, pending' = Append(pending, cmd)
    PROVE  /\ Queue \in Seq(Command) /\ Queue' \in Seq(Command)
           /\ Len(Queue') = Len(Queue) + 1
           /\ Queue'[Len(Queue) + 1] = cmd
           /\ \A i \in 1..Len(Queue) : Queue'[i] = Queue[i]
           /\ \A x : IF cmd = x
                     THEN Cardinality(Places(Queue', x)) = Cardinality(Places(Queue, x)) + 1
                     ELSE Cardinality(Places(Queue', x)) = Cardinality(Places(Queue, x))
<1>1. /\ Queue \in Seq(Command) /\ Queue' \in Seq(Command)
      /\ Len(Queue') = Len(Queue) + 1
      /\ Queue'[Len(Queue) + 1] = cmd
      /\ \A i \in 1..Len(Queue) : Queue'[i] = Queue[i]
  BY DEF Queue
<1>2. ASSUME NEW x
      PROVE  IF cmd = x
             THEN Cardinality(Places(Queue', x)) = Cardinality(Places(Queue, x)) + 1
             ELSE Cardinality(Places(Queue', x)) = Cardinality(Places(Queue, x))
  <2> PICK p, q : p = Queue' /\ q = Queue
    OBVIOUS
  <2>1. /\ p \in Seq(Command) /\ q \in Seq(Command) /\ Len(p) = Len(q) + 1
        /\ p[Len(q) + 1] = cmd /\ \A i \in 1..Len(q) : p[i] = q[i]
    BY <1>1
  <2>2. /\ p[Len(q) + 1] = x => Cardinality(Places(p, x)) = Cardinality(Places(q, x)) + 1
        /\ p[Len(q) + 1] # x => Cardinality(Places(p, x)) = Cardinality(Places(q, x))
    BY <2>1, PlacesAppend
  <2>3. QED
    BY <2>1, <2>2
<1>3. QED
  BY <1>1, <1>2

\* The first command is taken off.
LEMMA QueuePops ==
    ASSUME batch \in Seq(Command), pending \in Seq(Command), batch # <<>>,
           batch' = Tail(batch), pending' = pending
    PROVE  /\ Queue \in Seq(Command) /\ Queue' \in Seq(Command)
           /\ Len(Queue) = Len(Queue') + 1
           /\ Queue[1] = Head(batch)
           /\ \A i \in 1..Len(Queue') : Queue'[i] = Queue[i + 1]
           /\ \A x : IF Head(batch) = x
                     THEN Cardinality(Places(Queue, x)) = Cardinality(Places(Queue', x)) + 1
                     ELSE Cardinality(Places(Queue, x)) = Cardinality(Places(Queue', x))
<1>1. /\ Queue \in Seq(Command) /\ Queue' \in Seq(Command)
      /\ Len(Queue) = Len(Queue') + 1
      /\ Queue[1] = Head(batch)
      /\ \A i \in 1..Len(Queue') : Queue'[i] = Queue[i + 1]
  BY DEF Queue
<1>2. ASSUME NEW x
      PROVE  IF Head(batch) = x
             THEN Cardinality(Places(Queue, x)) = Cardinality(Places(Queue', x)) + 1
             ELSE Cardinality(Places(Queue, x)) = Cardinality(Places(Queue', x))
  <2> PICK p, q : p = Queue' /\ q = Queue
    OBVIOUS
  <2>1. /\ p \in Seq(Command) /\ q \in Seq(Command) /\ Len(q) = Len(p) + 1
        /\ q[1] = Head(batch) /\ \A i \in 1..Len(p) : p[i] = q[i + 1]
    BY <1>1
  <2>2. /\ q[1] = x => Cardinality(Places(q, x)) = Cardinality(Places(p, x)) + 1
        /\ q[1] # x => Cardinality(Places(q, x)) = Cardinality(Places(p, x))
    BY <2>1, PlacesPop
  <2>3. QED
    BY <2>1, <2>2
<1>3. QED
  BY <1>1, <1>2

\* The count that the queue leads to is what is needed, also in number.
LEMMA HubQueue ==
    ASSUME IndInv, HubMoves
    PROVE  QueueInv' /\ QueueKeepsCount'
<1>0. /\ refs \in [Channels -> {0, 1}] /\ batch \in Seq(Command) /\ pending \in Seq(Command)
      /\ QueueInv /\ QueueKeepsCount
  BY DEF IndInv, TypeOK
<1>1. (loop # "run" => batch = <<>>)'
  BY <1>0 DEF HubMoves, QueueInv
<1>2. CASE pending' = pending /\ \A ch \in Channels : Wanted(ch)' <=> Wanted(ch)
  <2>1. Queue' = Queue /\ batch \o pending = (batch \o pending)'
    BY <1>2 DEF HubMoves, Queue
  <2>2. \A ch \in Channels : \A f : IsTrace(f, ch) => IsTrace(f, ch)'
    BY <1>2, <2>1 DEF HubMoves, IsTrace, Need
  <2>3. QueueKeepsCount'
    <3> SUFFICES ASSUME NEW ch \in Channels
                 PROVE  refs'[ch] + Asks(Queue', ch, TRUE) - Asks(Queue', ch, FALSE) = Need(ch)'
      BY DEF QueueKeepsCount, Need, Queue
    <3>1. refs[ch] + Asks(Queue, ch, TRUE) - Asks(Queue, ch, FALSE) = Need(ch)
      BY <1>0 DEF QueueKeepsCount, Need, Queue
    <3>2. Need(ch)' = Need(ch) /\ refs' = refs
      BY <1>2 DEF HubMoves, Need
    <3>3. QED
      BY <2>1, <3>1, <3>2
  <2>4. QED
    BY <1>0, <1>1, <2>2, <2>3 DEF QueueInv
<1>3. ASSUME NEW d \in Channels, NEW up \in BOOLEAN,
             \A ch \in Channels : ch # d => (Wanted(ch)' <=> Wanted(ch)),
             pending' = Append(pending, Cmd(d, up)), Wanted(d) <=> ~up, Wanted(d)' <=> up
      PROVE  QueueInv' /\ QueueKeepsCount'
  <2> DEFINE cmd == Cmd(d, up)
  <2> PICK n : n = Len(Queue)
    OBVIOUS
  <2>1. /\ Queue \in Seq(Command) /\ Queue' \in Seq(Command)
        /\ Len(Queue') = n + 1 /\ Queue'[n + 1] = cmd
        /\ \A i \in 1..n : Queue'[i] = Queue[i]
        /\ \A x : IF cmd = x
                  THEN Cardinality(Places(Queue', x)) = Cardinality(Places(Queue, x)) + 1
                  ELSE Cardinality(Places(Queue', x)) = Cardinality(Places(Queue, x))
    BY <1>0, <1>3, QueueAppends DEF HubMoves, Command, Cmd
  <2>2. n \in Nat /\ refs' = refs
    BY <2>1 DEF HubMoves
  <2>3. \A ch \in Channels : Takes(cmd, ch, Need(ch), Need(ch)')
    BY <1>3 DEF Takes, Cmd, Need
  <2> HIDE DEF cmd
  <2>4. ASSUME NEW ch \in Channels
        PROVE  \E f : IsTrace(f, ch)'
    <3>1. PICK f : IsTrace(f, ch)
      BY <1>0 DEF QueueInv
    <3> PICK m : m = Need(ch)'
      OBVIOUS
    <3> PICK g : g = [i \in 0..(n + 1) |-> IF i = n + 1 THEN m ELSE f[i]]
      OBVIOUS
    <3>2. /\ f \in [0..n -> {0, 1}] /\ f[0] = refs[ch] /\ f[n] = Need(ch)
          /\ \A i \in 1..n : Takes(Queue[i], ch, f[i - 1], f[i])
      BY <3>1 DEF IsTrace
    <3>3. g \in [0..(n + 1) -> {0, 1}] /\ g[0] = refs'[ch] /\ g[n + 1] = Need(ch)'
      BY <2>2, <3>2 DEF Need
    <3>4. \A i \in 1..(n + 1) : Takes(Queue'[i], ch, g[i - 1], g[i])
      <4> SUFFICES ASSUME NEW i \in 1..(n + 1)
                   PROVE  Takes(Queue'[i], ch, g[i - 1], g[i])
        OBVIOUS
      <4>1. CASE i = n + 1
        <5>1. g[i - 1] = Need(ch) /\ g[i] = Need(ch)' /\ Queue'[i] = cmd
          BY <2>1, <2>2, <3>2, <4>1
        <5>2. QED
          BY <2>3, <5>1
      <4>2. CASE i # n + 1
        <5>1. i \in 1..n /\ i - 1 \in 0..n
          BY <2>2, <4>2
        <5>2. g[i - 1] = f[i - 1] /\ g[i] = f[i] /\ Queue'[i] = Queue[i]
          BY <2>1, <2>2, <5>1
        <5>3. QED
          BY <3>2, <5>1, <5>2
      <4>3. QED
        BY <4>1, <4>2
    <3>5. IsTrace(g, ch)'
      BY <2>1, <3>3, <3>4 DEF IsTrace
    <3>6. QED
      BY <3>5
  <2>5. QueueKeepsCount'
    <3> SUFFICES ASSUME NEW ch \in Channels
                 PROVE  refs'[ch] + Asks(Queue', ch, TRUE) - Asks(Queue', ch, FALSE) = Need(ch)'
      BY DEF QueueKeepsCount, Need, Queue
    <3> PICK x, y : x = Cmd(ch, TRUE) /\ y = Cmd(ch, FALSE)
      OBVIOUS
    <3> DEFINE a == Cardinality(Places(Queue, x))
               b == Cardinality(Places(Queue, y))
               a2 == Cardinality(Places(Queue', x))
               b2 == Cardinality(Places(Queue', y))
    <3>1. refs[ch] + a - b = Need(ch)
      BY <1>0 DEF QueueKeepsCount, Need, Queue, Asks, Places, Cmd
    <3>2. Asks(Queue', ch, TRUE) = a2 /\ Asks(Queue', ch, FALSE) = b2
      BY DEF Asks, Places, Cmd
    <3>3. a \in Nat /\ b \in Nat /\ refs[ch] \in Nat
      <4>1. Queue \in Seq(Command)
        BY <2>1
      <4>2. a \in Nat /\ b \in Nat
        BY <4>1, PlacesFinite
      <4>3. refs[ch] \in Nat
        BY <1>0
      <4>4. QED
        BY <4>2, <4>3
    <3>4. /\ (cmd = x => a2 = a + 1) /\ (cmd # x => a2 = a)
          /\ (cmd = y => b2 = b + 1) /\ (cmd # y => b2 = b)
      BY <2>1, <3>3
    <3> HIDE DEF a, b, a2, b2
    <3>5. \/ cmd = x /\ cmd # y /\ Need(ch)' = Need(ch) + 1
          \/ cmd = y /\ cmd # x /\ Need(ch)' = Need(ch) - 1
          \/ cmd # y /\ cmd # x /\ Need(ch)' = Need(ch)
      BY <2>3 DEF Takes, Cmd
    <3>6. Need(ch) \in Nat
      BY DEF Need
    <3>7. refs[ch] + a2 - b2 = Need(ch)'
      <4>1. \/ a2 = a + 1 /\ b2 = b /\ Need(ch)' = Need(ch) + 1
            \/ a2 = a /\ b2 = b + 1 /\ Need(ch)' = Need(ch) - 1
            \/ a2 = a /\ b2 = b /\ Need(ch)' = Need(ch)
        BY <3>3, <3>4, <3>5
      <4>2. QED
        BY <3>1, <3>3, <3>6, <4>1
    <3>8. QED
      BY <2>2, <3>2, <3>7
  <2>6. QED
    BY <1>1, <2>4, <2>5 DEF QueueInv
<1>4. QED
  BY <1>2, <1>3 DEF HubMoves

\* The loop takes one command off the queue and brings its channel's count along.
LEMMA ApplyQueue ==
    ASSUME IndInv, ApplyCmd
    PROVE  QueueInv' /\ QueueKeepsCount' /\ refs' \in [Channels -> {0, 1}]
<1>0. /\ refs \in [Channels -> {0, 1}] /\ batch \in Seq(Command) /\ pending \in Seq(Command)
      /\ QueueInv /\ QueueKeepsCount
  BY DEF IndInv, TypeOK
<1>1. /\ batch # <<>> /\ batch' = Tail(batch) /\ pending' = pending /\ loop' = "run"
      /\ UNCHANGED <<rooms, userSockets>>
  BY DEF ApplyCmd, hubVars
<1> DEFINE cmd == Head(batch)
           k == IF cmd.subscribe THEN refs[cmd.channel] + 1 ELSE refs[cmd.channel] - 1
<1>2. cmd \in Command
  BY <1>0, <1>1
<1>3. refs' = [refs EXCEPT ![cmd.channel] = IF k < 0 THEN 0 ELSE k]
  BY DEF ApplyCmd
<1> PICK n : n = Len(Queue')
  OBVIOUS
<1>4. /\ Queue \in Seq(Command) /\ Queue' \in Seq(Command)
      /\ Len(Queue) = n + 1 /\ Queue[1] = cmd
      /\ \A i \in 1..n : Queue'[i] = Queue[i + 1]
      /\ \A x : IF cmd = x
                THEN Cardinality(Places(Queue, x)) = Cardinality(Places(Queue', x)) + 1
                ELSE Cardinality(Places(Queue, x)) = Cardinality(Places(Queue', x))
  BY <1>0, <1>1, QueuePops
<1>5. n \in Nat
  BY <1>4
<1>6. \A ch \in Channels : Need(ch)' = Need(ch)
  BY <1>1 DEF Need, Wanted
<1>7. ASSUME NEW ch \in Channels
      PROVE  Takes(cmd, ch, refs[ch], refs'[ch]) /\ refs'[ch] \in {0, 1} /\ \E f : IsTrace(f, ch)'
  <2>1. PICK f : IsTrace(f, ch)
    BY <1>0 DEF QueueInv
  <2>2. /\ f \in [0..(n + 1) -> {0, 1}] /\ f[0] = refs[ch] /\ f[n + 1] = Need(ch)
        /\ \A i \in 1..(n + 1) : Takes(Queue[i], ch, f[i - 1], f[i])
    BY <1>4, <2>1 DEF IsTrace
  <2>3. Takes(cmd, ch, f[0], f[1]) /\ f[1] \in {0, 1}
    <3>1. 1 \in 1..(n + 1) /\ 1 - 1 = 0 /\ 1 \in 0..(n + 1)
      BY <1>5
    <3>2. Takes(Queue[1], ch, f[1 - 1], f[1])
      BY <2>2, <3>1
    <3>3. QED
      BY <1>4, <2>2, <3>1, <3>2
  <2>4. refs'[ch] = f[1]
    <3>1. CASE cmd = Cmd(ch, TRUE) /\ f[0] = 0 /\ f[1] = 1
      <4>1. cmd.channel = ch /\ cmd.subscribe
        BY <3>1 DEF Cmd
      <4>2. k = 1
        <5>1. refs[cmd.channel] = 0
          BY <2>2, <3>1, <4>1
        <5>2. k = refs[cmd.channel] + 1
          BY <4>1
        <5>3. QED
          BY <5>1, <5>2
      <4>3. QED
        BY <1>0, <1>3, <3>1, <4>1, <4>2
    <3>2. CASE cmd = Cmd(ch, FALSE) /\ f[0] = 1 /\ f[1] = 0
      <4>1. cmd.channel = ch /\ ~cmd.subscribe
        BY <3>2 DEF Cmd
      <4>2. k = 0
        <5>1. refs[cmd.channel] = 1
          BY <2>2, <3>2, <4>1
        <5>2. k = refs[cmd.channel] - 1
          BY <4>1
        <5>3. QED
          BY <5>1, <5>2
      <4>3. QED
        BY <1>0, <1>3, <3>2, <4>1, <4>2
    <3>3. CASE cmd.channel # ch /\ f[0] = f[1]
      BY <1>0, <1>3, <2>2, <3>3
    <3>4. QED
      BY <2>3, <3>1, <3>2, <3>3 DEF Takes
  <2> PICK g : g = [i \in 0..n |-> f[i + 1]]
    OBVIOUS
  <2>5. g \in [0..n -> {0, 1}] /\ g[0] = refs'[ch] /\ g[n] = Need(ch)'
    <3>1. \A i \in 0..n : i + 1 \in 0..(n + 1)
      BY <1>5
    <3>2. QED
      BY <1>5, <1>6, <2>2, <2>4, <3>1
  <2>6. \A i \in 1..n : Takes(Queue'[i], ch, g[i - 1], g[i])
    <3> SUFFICES ASSUME NEW i \in 1..n
                 PROVE  Takes(Queue'[i], ch, g[i - 1], g[i])
      OBVIOUS
    <3>1. i + 1 \in 1..(n + 1) /\ (i + 1) - 1 = i /\ i - 1 \in 0..n /\ i \in 0..n
          /\ (i - 1) + 1 = i
      BY <1>5
    <3>2. Takes(Queue[i + 1], ch, f[(i + 1) - 1], f[i + 1])
      BY <2>2, <3>1
    <3>3. g[i - 1] = f[i] /\ g[i] = f[i + 1] /\ Queue'[i] = Queue[i + 1]
      BY <1>4, <3>1
    <3>4. QED
      BY <3>1, <3>2, <3>3
  <2>7. IsTrace(g, ch)'
    BY <2>5, <2>6 DEF IsTrace
  <2>8. QED
    BY <2>2, <2>3, <2>4, <2>7
<1>8. refs' \in [Channels -> {0, 1}]
  <2>1. refs' \in [Channels -> Int] /\ \A ch \in Channels : refs'[ch] \in {0, 1}
    BY <1>0, <1>2, <1>3, <1>7 DEF Command
  <2>2. QED
    BY <2>1
<1>9. QueueKeepsCount'
  <2> SUFFICES ASSUME NEW ch \in Channels
               PROVE  refs'[ch] + Asks(Queue', ch, TRUE) - Asks(Queue', ch, FALSE) = Need(ch)'
    BY DEF QueueKeepsCount, Need, Queue
  <2> PICK x, y : x = Cmd(ch, TRUE) /\ y = Cmd(ch, FALSE)
    OBVIOUS
  <2> DEFINE a == Cardinality(Places(Queue, x))
             b == Cardinality(Places(Queue, y))
             a2 == Cardinality(Places(Queue', x))
             b2 == Cardinality(Places(Queue', y))
  <2>1. refs[ch] + a - b = Need(ch)
    BY <1>0 DEF QueueKeepsCount, Need, Queue, Asks, Places, Cmd
  <2>2. Asks(Queue', ch, TRUE) = a2 /\ Asks(Queue', ch, FALSE) = b2
    BY DEF Asks, Places, Cmd
  <2>3. a2 \in Nat /\ b2 \in Nat
    BY <1>4, PlacesFinite
  <2>4. /\ (cmd = x => a = a2 + 1) /\ (cmd # x => a = a2)
        /\ (cmd = y => b = b2 + 1) /\ (cmd # y => b = b2)
    BY <1>4
  <2> HIDE DEF a, b, a2, b2, cmd
  <2>5. \/ cmd = x /\ cmd # y /\ refs[ch] = 0 /\ refs'[ch] = 1
        \/ cmd = y /\ cmd # x /\ refs[ch] = 1 /\ refs'[ch] = 0
        \/ cmd # y /\ cmd # x /\ refs'[ch] = refs[ch]
    BY <1>7 DEF Takes, Cmd
  <2>6. refs[ch] \in Nat /\ refs'[ch] \in Nat
    BY <1>0, <1>8
  <2>7. refs'[ch] + a2 - b2 = Need(ch)
    <3>1. \/ a = a2 + 1 /\ b = b2 /\ refs'[ch] = refs[ch] + 1
          \/ a = a2 /\ b = b2 + 1 /\ refs'[ch] = refs[ch] - 1
          \/ a = a2 /\ b = b2 /\ refs'[ch] = refs[ch]
      <4>1. CASE cmd = x
        BY <2>4, <2>5, <4>1
      <4>2. CASE cmd = y
        BY <2>4, <2>5, <4>2
      <4>3. CASE cmd # x /\ cmd # y
        BY <2>4, <2>5, <4>3
      <4>4. QED
        BY <4>1, <4>2, <4>3
    <3>2. QED
      BY <2>1, <2>3, <2>6, <3>1
  <2>8. QED
    BY <1>6, <2>2, <2>7
<1>10. QED
  BY <1>1, <1>7, <1>8, <1>9 DEF QueueInv

\* Nothing changes in the queue, the counts and the needs.
LEMMA SameQueue ==
    ASSUME IndInv, Queue' = Queue, UNCHANGED <<refs, rooms, userSockets>>,
           loop' # "run" => batch' = <<>>
    PROVE  QueueInv' /\ QueueKeepsCount'
<1>1. QueueInv /\ QueueKeepsCount
  BY DEF IndInv
<1>2. \A ch \in Channels : Need(ch)' = Need(ch)
  BY DEF Need, Wanted
<1>3. \A ch \in Channels : \A f : IsTrace(f, ch) => IsTrace(f, ch)'
  BY <1>2 DEF IsTrace
<1>4. QueueKeepsCount'
  <2> SUFFICES ASSUME NEW ch \in Channels
               PROVE  refs'[ch] + Asks(Queue', ch, TRUE) - Asks(Queue', ch, FALSE) = Need(ch)'
    BY DEF QueueKeepsCount, Need, Queue
  <2>1. refs[ch] + Asks(Queue, ch, TRUE) - Asks(Queue, ch, FALSE) = Need(ch)
    BY <1>1 DEF QueueKeepsCount, Need, Queue
  <2>2. QED
    BY <1>2, <2>1
<1>5. QED
  BY <1>1, <1>3, <1>4 DEF QueueInv

\* Without a socket, without a command and without a subscription.
LEMMA EmptyQueue ==
    ASSUME batch = <<>>, pending = <<>>, refs = [ch \in Channels |-> 0],
           rooms = [v \in Conversations |-> {}], userSockets = [u \in Users |-> {}]
    PROVE  QueueInv /\ QueueKeepsCount
<1>1. Queue = <<>> /\ Len(Queue) = 0 /\ DOMAIN Queue = {}
  BY DEF Queue
<1>2. \A ch \in Channels : Need(ch) = 0
  BY DEF Need, Wanted, Channels
<1>3. ASSUME NEW ch \in Channels
      PROVE  \E f : IsTrace(f, ch)
  <2> PICK g : g = [i \in 0..0 |-> 0]
    OBVIOUS
  <2>1. IsTrace(g, ch)
    BY <1>1, <1>2 DEF IsTrace
  <2>2. QED
    BY <2>1
<1>4. QueueKeepsCount
  <2> SUFFICES ASSUME NEW ch \in Channels
               PROVE  refs[ch] + Asks(Queue, ch, TRUE) - Asks(Queue, ch, FALSE) = Need(ch)
    BY DEF QueueKeepsCount, Need, Queue
  <2>1. Asks(Queue, ch, TRUE) = Cardinality({}) /\ Asks(Queue, ch, FALSE) = Cardinality({})
    BY <1>1 DEF Asks
  <2>2. Asks(Queue, ch, TRUE) = 0 /\ Asks(Queue, ch, FALSE) = 0
    BY <2>1, FS_EmptySet
  <2>3. refs[ch] = 0 /\ Need(ch) = 0
    BY <1>2
  <2> DEFINE a == Asks(Queue, ch, TRUE)
             b == Asks(Queue, ch, FALSE)
  <2>4. a = 0 /\ b = 0
    BY <2>2
  <2> HIDE DEF a, b
  <2>5. refs[ch] + a - b = Need(ch)
    BY <2>3, <2>4
  <2>6. QED
    BY <2>5 DEF a, b
<1>5. QED
  BY <1>3, <1>4 DEF QueueInv

\* The queue.
LEMMA QueueNext ==
    ASSUME IndInv, Next
    PROVE  QueueInv' /\ QueueKeepsCount'
<1>0. /\ batch \in Seq(Command) /\ pending \in Seq(Command) /\ (loop # "run" => batch = <<>>)
  BY DEF IndInv, TypeOK, QueueInv
<1>1. ASSUME NEW c \in Local,
             \/ AddSocket(c) \/ RemoveSocket(c)
             \/ \E v \in Conversations : JoinRoom(c, v) \/ LeaveRoom(c, v) \/ RemoveFromRoom(c, v)
      PROVE  QueueInv' /\ QueueKeepsCount'
  BY <1>1, HubFacts, HubQueue
<1>2. CASE ApplyCmd
  BY <1>2, ApplyQueue
<1>3. CASE TakePending
  <2>1. /\ batch = <<>> /\ batch' = pending /\ pending' = <<>> /\ loop' = "run"
        /\ UNCHANGED <<refs, rooms, userSockets>>
    BY <1>0, <1>3 DEF TakePending
  <2>2. Queue' = Queue
    BY <1>0, <2>1 DEF Queue
  <2>3. QED
    BY <2>1, <2>2, SameQueue
<1>4. CASE Crash
  <2>1. (batch = <<>>)' /\ (pending = <<>>)' /\ (refs = [ch \in Channels |-> 0])'
        /\ (rooms = [v \in Conversations |-> {}])' /\ (userSockets = [u \in Users |-> {}])'
    BY <1>4 DEF Crash
  <2>2. QED
    BY <2>1, EmptyQueue, PTL
<1>5. CASE \/ \E c \in Local : Close(c)
           \/ \E c \in Remote : RemoteStep(c)
           \/ \E c \in Sockets : Connect(c) \/ FallSilent(c) \/ Disconnect(c)
           \/ \E u \in Users : Expire(u) \/ RefreshFails(u)
           \/ Wakeup \/ Woken \/ Receive \/ Deliver \/ PubSubCloses \/ Rebuild
           \/ ConnectionLost \/ Reconnect \/ RemoteCrash
  <2>1. UNCHANGED <<batch, pending, refs, rooms, userSockets>>
    BY <1>5 DEF Close, RemoteStep, Connect, FallSilent, Disconnect, Expire, RefreshFails,
                ExpireKey, Wakeup, Woken, Receive, Deliver, PubSubCloses, Rebuild, ConnectionLost, Reconnect, RemoteCrash,
                hubVars, loopVars
  <2>2. loop' # "run" => batch' = <<>>
    BY <1>0, <1>5 DEF Close, RemoteStep, Connect, FallSilent, Disconnect, Expire, RefreshFails,
                ExpireKey, Wakeup, Woken, Receive, Deliver, PubSubCloses, Rebuild, ConnectionLost, Reconnect, RemoteCrash,
                hubVars, loopVars
  <2>3. Queue' = Queue
    BY <2>1 DEF Queue
  <2>4. QED
    BY <2>1, <2>2, <2>3, SameQueue
<1>6. QED
  BY <1>1, <1>2, <1>3, <1>4, <1>5 DEF Next, Removal, Loop

-----------------------------------------------------------------------------
(* The theorems *)

\* The parts of the types.
HubTypes ==
    /\ at \in [Sockets -> {"none", "added", "open", "silent", "closing", "closed"}]
    /\ joined \in [Local -> SUBSET Conversations]
    /\ rooms \in [Conversations -> SUBSET Local]
    /\ userSockets \in [Users -> SUBSET Local]

LockTypes ==
    /\ holder \in Local \cup {NoSocket}
    /\ owed \in BOOLEAN
    /\ pending \in Seq(Command)

LoopTypes ==
    /\ wake \in BOOLEAN
    /\ loop \in {"top", "run", "deliver", "down"}
    /\ batch \in Seq(Command)
    /\ refs \in [Channels -> {0, 1}]
    /\ asked \subseteq Channels
    /\ live \subseteq asked

CountTypes ==
    /\ count \in [Users -> Nat]
    /\ counted \subseteq Sockets
    /\ lost \subseteq Users
    /\ faults \in 0..MaxFaults

LEMMA TypeParts == TypeOK <=> HubTypes /\ LockTypes /\ LoopTypes /\ CountTypes
BY DEF TypeOK, HubTypes, LockTypes, LoopTypes, CountTypes

LEMMA TypesSame ==
    /\ HubTypes /\ UNCHANGED <<at, joined, rooms, userSockets>> => HubTypes'
    /\ LockTypes /\ UNCHANGED <<holder, owed, pending>> => LockTypes'
    /\ LoopTypes /\ UNCHANGED <<wake, loop, batch, refs, asked, live>> => LoopTypes'
    /\ CountTypes /\ UNCHANGED <<count, counted, lost, faults>> => CountTypes'
BY DEF HubTypes, LockTypes, LoopTypes, CountTypes

LEMMA NoCommands == <<>> \in Seq(Command)
OBVIOUS

LEMMA NotifyTypes ==
    ASSUME LockTypes, NEW c \in Local, NEW ch \in Channels, NEW b \in BOOLEAN,
           \/ Enqueue(ch, b) /\ (holder' = c \/ UNCHANGED holder)
           \/ UNCHANGED <<pending, owed>> /\ holder' \in {holder, NoSocket}
    PROVE  LockTypes'
<1>1. [channel |-> ch, subscribe |-> b] \in Command
  BY DEF Command
<1>2. pending' \in Seq(Command)
  BY <1>1 DEF LockTypes, Enqueue
<1>3. holder' \in Local \cup {NoSocket}
  BY DEF LockTypes
<1>4. owed' \in BOOLEAN
  BY DEF LockTypes, Enqueue
<1>5. QED
  BY <1>2, <1>3, <1>4 DEF LockTypes

\* The types; the counts of the loop stay 0 and 1 because of the queue.
LEMMA TypesNext ==
    ASSUME IndInv, Next
    PROVE  TypeOK'
<1>0. HubTypes /\ LockTypes /\ LoopTypes /\ CountTypes
  BY TypeParts DEF IndInv
<1>1. ASSUME NEW c \in Local,
             \/ AddSocket(c) \/ RemoveSocket(c) \/ Close(c)
             \/ \E v \in Conversations : JoinRoom(c, v) \/ LeaveRoom(c, v) \/ RemoveFromRoom(c, v)
      PROVE  TypeOK'
  <2>1. Owner[c] \in Channels /\ Owner[c] \in Users /\ Conversations \subseteq Channels
    BY DEF Channels, Sockets
  <2>2. LoopTypes' /\ CountTypes'
    BY <1>0, <1>1, TypesSame DEF AddSocket, RemoveSocket, Close, JoinRoom, LeaveRoom,
                                 RemoveFromRoom, loopVars, presenceVars
  <2>3. CASE AddSocket(c)
    <3>1. HubTypes'
      BY <1>0, <2>1, <2>3 DEF AddSocket, HubTypes
    <3>2. LockTypes'
      BY <1>0, <2>1, <2>3, NotifyTypes DEF AddSocket, Notify
    <3>3. QED
      BY <2>2, <3>1, <3>2, TypeParts, PTL
  <2>4. CASE RemoveSocket(c)
    <3>1. HubTypes'
      BY <1>0, <2>1, <2>4 DEF RemoveSocket, HubTypes
    <3>2. LockTypes'
      BY <1>0, <2>1, <2>4, NotifyTypes DEF RemoveSocket
    <3>3. QED
      BY <2>2, <3>1, <3>2, TypeParts, PTL
  <2>5. CASE Close(c)
    <3>1. HubTypes' /\ LockTypes'
      BY <1>0, <2>5 DEF Close, HubTypes, LockTypes
    <3>2. QED
      BY <2>2, <3>1, TypeParts, PTL
  <2>6. ASSUME NEW v \in Conversations, JoinRoom(c, v)
        PROVE  TypeOK'
    <3>1. HubTypes'
      BY <1>0, <2>6 DEF JoinRoom, HubTypes
    <3>2. LockTypes'
      BY <1>0, <2>1, <2>6, NotifyTypes DEF JoinRoom, Notify
    <3>3. QED
      BY <2>2, <3>1, <3>2, TypeParts, PTL
  <2>7. ASSUME NEW v \in Conversations, LeaveRoom(c, v) \/ RemoveFromRoom(c, v)
        PROVE  TypeOK'
    <3>1. HubTypes'
      <4>1. UNCHANGED <<at, userSockets>>
        BY <2>7 DEF LeaveRoom, RemoveFromRoom
      <4>2. /\ rooms' = [rooms EXCEPT ![v] = rooms[v] \ {c}]
            /\ joined' = [joined EXCEPT ![c] = joined[c] \ {v}]
        BY <2>7 DEF LeaveRoom, RemoveFromRoom
      <4>3. rooms[v] \ {c} \in SUBSET Local /\ joined[c] \ {v} \in SUBSET Conversations
        BY <1>0 DEF HubTypes
      <4>4. QED
        BY <1>0, <4>1, <4>2, <4>3 DEF HubTypes
    <3>2. LockTypes'
      BY <1>0, <2>1, <2>7, NotifyTypes DEF LeaveRoom, RemoveFromRoom, Notify
    <3>3. QED
      BY <2>2, <3>1, <3>2, TypeParts, PTL
  <2>8. QED
    BY <1>1, <2>3, <2>4, <2>5, <2>6, <2>7
<1>2. CASE ApplyCmd \/ Rebuild
  <2>1. HubTypes' /\ LockTypes'
    BY <1>0, <1>2, TypesSame DEF ApplyCmd, Rebuild, hubVars
  <2>2. refs' \in [Channels -> {0, 1}]
    BY <1>0, <1>2, ApplyQueue DEF Rebuild, LoopTypes
  <2>3. batch' \in Seq(Command) /\ (ApplyCmd => Head(batch).channel \in Channels)
    <3>1. CASE ApplyCmd
      <4>1. batch \in Seq(Command) /\ batch # <<>> /\ batch' = Tail(batch)
        BY <1>0, <3>1 DEF ApplyCmd, LoopTypes
      <4>2. Head(batch) \in Command /\ batch' \in Seq(Command)
        BY <4>1
      <4>3. QED
        BY <4>2 DEF Command
    <3>2. CASE Rebuild /\ ~ApplyCmd
      BY <1>0, <3>2 DEF Rebuild, LoopTypes
    <3>3. QED
      BY <1>2, <3>1, <3>2
  <2>4. asked' \subseteq Channels /\ live' \subseteq asked' /\ faults' \in 0..MaxFaults
    BY <1>0, <1>2, <2>3 DEF ApplyCmd, Rebuild, Ask, Fault, LoopTypes, CountTypes
  <2>5. wake' \in BOOLEAN /\ loop' \in {"top", "run", "deliver", "down"}
    BY <1>0, <1>2 DEF ApplyCmd, Rebuild, LoopTypes
  <2>6. CountTypes'
    BY <1>0, <1>2, <2>4 DEF ApplyCmd, Rebuild, presenceVars, CountTypes
  <2>7. LoopTypes'
    BY <2>2, <2>3, <2>4, <2>5 DEF LoopTypes
  <2>8. QED
    BY <2>1, <2>6, <2>7, TypeParts, PTL
<1>3. CASE TakePending \/ Woken \/ Receive \/ Deliver \/ Reconnect
  <2>1. HubTypes' /\ CountTypes'
    BY <1>0, <1>3, TypesSame DEF TakePending, Woken, Receive, Deliver, Reconnect, hubVars, presenceVars
  <2>2. LockTypes' /\ batch' \in Seq(Command)
    <3>1. CASE TakePending
      BY <1>0, <3>1, NoCommands DEF TakePending, LockTypes, LoopTypes
    <3>2. CASE Woken \/ Receive \/ Deliver \/ Reconnect
      BY <1>0, <3>2, TypesSame DEF Woken, Receive, Deliver, Reconnect, hubVars, LoopTypes
    <3>3. QED
      BY <1>3, <3>1, <3>2
  <2>3. LoopTypes'
    BY <1>0, <1>3, <2>2 DEF TakePending, Woken, Receive, Deliver, Reconnect, LoopTypes
  <2>4. QED
    BY <2>1, <2>2, <2>3, TypeParts, PTL
<1>4. CASE PubSubCloses \/ ConnectionLost
  <2>1. HubTypes' /\ LockTypes'
    BY <1>0, <1>4, TypesSame DEF PubSubCloses, ConnectionLost, hubVars
  <2>2. LoopTypes'
    BY <1>0, <1>4 DEF PubSubCloses, ConnectionLost, LoopTypes
  <2>3. CountTypes'
    BY <1>0, <1>4 DEF PubSubCloses, ConnectionLost, Fault, presenceVars, CountTypes
  <2>4. QED
    BY <2>1, <2>2, <2>3, TypeParts, PTL
<1>5. CASE Wakeup
  <2>1. HubTypes' /\ CountTypes'
    BY <1>0, <1>5, TypesSame DEF Wakeup, presenceVars
  <2>2. LockTypes'
    BY <1>0, <1>5 DEF Wakeup, LockTypes
  <2>3. LoopTypes'
    BY <1>0, <1>5 DEF Wakeup, loopVars, LoopTypes
  <2>4. QED
    BY <2>1, <2>2, <2>3, TypeParts, PTL
<1>6. ASSUME NEW c \in Sockets,
             Connect(c) \/ FallSilent(c) \/ Disconnect(c) \/ (c \in Remote /\ RemoteStep(c))
      PROVE  TypeOK'
  <2>1. LockTypes' /\ LoopTypes'
    BY <1>0, <1>6, TypesSame DEF Connect, FallSilent, Disconnect, RemoteStep, hubVars, loopVars
  <2>2. HubTypes'
    BY <1>0, <1>6 DEF Connect, FallSilent, Disconnect, RemoteStep, hubVars, HubTypes
  <2>3. CountTypes'
    <3>1. Owner[c] \in Users
      OBVIOUS
    <3>2. count' \in [Users -> Nat]
      BY <1>0, <1>6, <3>1 DEF Connect, FallSilent, Disconnect, RemoteStep, Decrement, presenceVars,
                              CountTypes
    <3>3. counted' \subseteq Sockets /\ lost' \subseteq Users /\ faults' \in 0..MaxFaults
      BY <1>0, <1>6, <3>1 DEF Connect, FallSilent, Disconnect, RemoteStep, Fault, presenceVars,
                              CountTypes
    <3>4. QED
      BY <3>2, <3>3 DEF CountTypes
  <2>4. QED
    BY <2>1, <2>2, <2>3, TypeParts, PTL
<1>7. ASSUME NEW u \in Users, Expire(u) \/ RefreshFails(u)
      PROVE  TypeOK'
  <2>1. HubTypes' /\ LockTypes' /\ LoopTypes'
    BY <1>0, <1>7, TypesSame DEF Expire, RefreshFails, ExpireKey, hubVars, loopVars
  <2>2. CountTypes'
    <3>1. /\ count' = [count EXCEPT ![u] = 0] /\ counted' = counted
          /\ lost' = lost \/ lost' = lost \cup {u}
          /\ faults' = faults \/ Fault
      BY <1>7 DEF Expire, RefreshFails, ExpireKey
    <3>2. QED
      BY <1>0, <3>1 DEF CountTypes, Fault
  <2>3. QED
    BY <2>1, <2>2, TypeParts, PTL
<1>8. CASE Crash
  <2>1. HubTypes'
    BY <1>0, <1>8 DEF Crash, Gone, HubTypes
  <2>2. LockTypes' /\ LoopTypes'
    <3>1. LockTypes'
      BY <1>8, NoCommands DEF Crash, LockTypes
    <3>2. LoopTypes'
      BY <1>8, NoCommands DEF Crash, LoopTypes
    <3>3. QED
      BY <3>1, <3>2
  <2>3. CountTypes'
    BY <1>0, <1>8 DEF Crash, Gone, Fault, CountTypes
  <2>4. QED
    BY <2>1, <2>2, <2>3, TypeParts, PTL
<1>9. CASE RemoteCrash
  <2>1. LockTypes' /\ LoopTypes'
    BY <1>0, <1>9, TypesSame DEF RemoteCrash, hubVars, loopVars
  <2>2. HubTypes'
    BY <1>0, <1>9 DEF RemoteCrash, Gone, hubVars, HubTypes
  <2>3. CountTypes'
    BY <1>0, <1>9 DEF RemoteCrash, Gone, Fault, CountTypes
  <2>4. QED
    BY <2>1, <2>2, <2>3, TypeParts, PTL
<1>10. QED
  BY <1>1, <1>2, <1>3, <1>4, <1>5, <1>6, <1>7, <1>8, <1>9 DEF Next, Removal, Loop, Sockets

LEMMA InitIndInv == Init => IndInv
<1> SUFFICES ASSUME Init PROVE IndInv
  OBVIOUS
<1>1. QueueInv /\ QueueKeepsCount
  BY EmptyQueue DEF Init
<1>2. TypeOK
  <2>1. HubTypes
    BY DEF Init, HubTypes
  <2>2. LockTypes /\ LoopTypes
    <3>1. LockTypes
      BY NoCommands DEF Init, LockTypes
    <3>2. LoopTypes
      BY NoCommands DEF Init, LoopTypes
    <3>3. QED
      BY <3>1, <3>2
  <2>3. CountTypes
    BY DEF Init, CountTypes
  <2>4. QED
    BY <2>1, <2>2, <2>3, TypeParts
<1>3. LockInv /\ SocketInv /\ WakeInv
  BY DEF Init, LockInv, SocketInv, WakeInv, Sockets
<1>4. CountInv
  <2>1. \A u \in Users : counted \cap SocketsOf(u) = {} /\ count[u] = 0
    BY DEF Init
  <2>2. NeverUndercounted
    BY <2>1, FS_EmptySet DEF NeverUndercounted
  <2>3. QED
    BY <2>2 DEF Init, CountInv
<1>5. QED
  BY <1>1, <1>2, <1>3, <1>4 DEF IndInv

LEMMA Stutter == IndInv /\ UNCHANGED vars => IndInv'
<1> SUFFICES ASSUME IndInv, UNCHANGED vars PROVE IndInv'
  OBVIOUS
<1>1. TypeOK' /\ LockInv' /\ SocketInv' /\ WakeInv'
  BY DEF IndInv, vars, TypeOK, LockInv, SocketInv, WakeInv
<1>2. CountInv'
  BY DEF IndInv, vars, CountInv, NeverUndercounted, SocketsOf
<1>3. Queue' = Queue
  BY DEF vars, Queue
<1>4. (loop # "run" => batch = <<>>)'
  BY DEF IndInv, QueueInv, vars
<1>5. QueueInv' /\ QueueKeepsCount'
  BY <1>3, <1>4, SameQueue DEF vars
<1>6. QED
  BY <1>1, <1>2, <1>5 DEF IndInv

LEMMA Invariance == Spec => []IndInv
<1>1. IndInv /\ [Next]_vars => IndInv'
  <2>1. IndInv /\ Next => IndInv'
    BY TypesNext, LockNext, SocketNext, WakeNext, CountNext, QueueNext DEF IndInv
  <2>2. QED
    BY <2>1, Stutter
<1>2. QED
  BY <1>1, InitIndInv, PTL DEF Spec

\* The variables keep their types, the loop's counts their 0 or 1.
THEOREM TypeCorrect == Spec => []TypeOK
<1>1. IndInv => TypeOK
  BY DEF IndInv
<1>2. QED
  BY <1>1, Invariance, PTL

\* ChatHub!QueueKeepsCount: what the loop has counted and what is still queued for it
\* add up to what the sockets need.
THEOREM QueueKeeps == Spec => []QueueKeepsCount
<1>1. IndInv => QueueKeepsCount
  BY DEF IndInv
<1>2. QED
  BY <1>1, Invariance, PTL

\* ChatHub!NoLostWakeup: the loop never waits over a queued command with no wakeup to
\* come.
THEOREM WakeupsKept == Spec => []NoLostWakeup
<1>1. IndInv => NoLostWakeup
  BY DEF IndInv, WakeInv, NoLostWakeup
<1>2. QED
  BY <1>1, Invariance, PTL

\* ChatHub!OnlyOpenSockets: under the read lock nothing is delivered to a socket whose
\* send channel is closed.
THEOREM OnlyOpen == Spec => []OnlyOpenSockets
<1>1. IndInv => OnlyOpenSockets
  <2> SUFFICES ASSUME IndInv, holder = NoSocket
               PROVE  /\ \A v \in Conversations : \A c \in rooms[v] : at[c] \in {"open", "silent"}
                      /\ \A u \in Users : \A c \in userSockets[u] :
                           at[c] \in {"added", "open", "silent"}
    BY DEF OnlyOpenSockets
  <2>1. \A c \in Local : at[c] # "closing"
    BY DEF IndInv, LockInv, Sockets
  <2>2. QED
    BY <2>1 DEF IndInv, TypeOK, SocketInv
<1>2. QED
  BY <1>1, Invariance, PTL

\* ChatHub!NeverUndercounted: the counter in Redis is never below the counted sockets.
THEOREM Undercount == Spec => []NeverUndercounted
<1>1. IndInv => NeverUndercounted
  BY DEF IndInv, CountInv
<1>2. QED
  BY <1>1, Invariance, PTL

-----------------------------------------------------------------------------
(* What the loop has subscribed to *)

\* Short of a PubSub that is down, the PubSub remembers the channels with a count.
AskedInv == loop # "down" => asked = {ch \in Channels : refs[ch] > 0}

LEMMA AskedNext == IndInv /\ AskedInv /\ [Next]_vars => AskedInv'
<1> SUFFICES ASSUME IndInv, AskedInv, [Next]_vars PROVE AskedInv'
  OBVIOUS
<1> USE DEF AskedInv
<1>1. CASE ApplyCmd
  <2> DEFINE cmd == Head(batch)
  <2>1. batch \in Seq(Command) /\ batch # <<>> /\ refs \in [Channels -> {0, 1}]
        /\ loop = "run" /\ loop' = loop
    BY <1>1 DEF IndInv, TypeOK, ApplyCmd
  <2>2. cmd \in Command
    BY <2>1
  <2> HIDE DEF cmd
  <2>3. cmd.channel \in Channels /\ cmd.subscribe \in BOOLEAN
    BY <2>2 DEF Command
  <2> DEFINE ch == cmd.channel
             n  == IF cmd.subscribe THEN refs[ch] + 1 ELSE refs[ch] - 1
  <2>4. /\ refs' = [refs EXCEPT ![ch] = IF n < 0 THEN 0 ELSE n]
        /\ \/ cmd.subscribe /\ n = 1 /\ asked' = asked \cup {ch}
           \/ cmd.subscribe /\ n > 1 /\ asked' = asked
           \/ ~cmd.subscribe /\ n <= 0 /\ asked' = asked \ {ch}
           \/ ~cmd.subscribe /\ n > 0 /\ asked' = asked
    BY <1>1 DEF ApplyCmd, Ask, cmd
  <2>5. \A d \in Channels : refs'[d] = IF d = ch THEN (IF n < 0 THEN 0 ELSE n) ELSE refs[d]
    BY <2>1, <2>3, <2>4
  <2>6. asked = {d \in Channels : refs[d] > 0} /\ refs[ch] \in {0, 1}
    BY <2>1, <2>3
  <2>7. asked' = {d \in Channels : refs'[d] > 0}
    BY <2>3, <2>4, <2>5, <2>6
  <2>8. QED
    BY <2>1, <2>7
<1>2. CASE Rebuild \/ PubSubCloses
  BY <1>2 DEF Rebuild, PubSubCloses, Ask
<1>3. CASE Crash
  BY <1>3 DEF Crash
<1>4. CASE UNCHANGED <<asked, refs>> /\ (loop' = "down" <=> loop = "down")
  BY <1>4
<1>5. ASSUME NEW c \in Local,
             \/ AddSocket(c) \/ Close(c) \/ Removal(c)
             \/ \E v \in Conversations : JoinRoom(c, v) \/ LeaveRoom(c, v)
      PROVE  AskedInv'
  BY <1>4, <1>5 DEF AddSocket, Close, Removal, RemoveFromRoom, RemoveSocket, JoinRoom,
                    LeaveRoom, loopVars
<1>6. CASE \/ \E c \in Remote : RemoteStep(c)
           \/ \E c \in Sockets : Connect(c) \/ FallSilent(c) \/ Disconnect(c)
           \/ \E u \in Users : Expire(u) \/ RefreshFails(u)
           \/ RemoteCrash \/ Wakeup \/ UNCHANGED vars
  BY <1>4, <1>6 DEF RemoteStep, Connect, FallSilent, Disconnect, Expire, RefreshFails,
                    ExpireKey, RemoteCrash, Wakeup, loopVars, vars
<1>7. CASE TakePending \/ Woken \/ Receive \/ Deliver \/ ConnectionLost \/ Reconnect
  BY <1>4, <1>7 DEF TakePending, Woken, Receive, Deliver, ConnectionLost, Reconnect
<1>8. QED
  BY <1>1, <1>2, <1>3, <1>5, <1>6, <1>7 DEF Next, Loop

\* ChatHub!SubscribedToWanted: once the queue is applied, what the PubSub remembers is
\* what the sockets need, whichever calls failed and however often it was rebuilt.
THEOREM SubscriptionsExact == Spec => []SubscribedToWanted
<1>1. Init => AskedInv
  BY DEF Init, AskedInv
<1>2. IndInv /\ AskedInv => SubscribedToWanted
  <2> SUFFICES ASSUME IndInv, AskedInv, Queue = <<>>, loop # "down"
               PROVE  asked = {ch \in Channels : Wanted(ch)}
    BY DEF SubscribedToWanted, Queue
  <2>1. ASSUME NEW ch \in Channels
        PROVE  refs[ch] > 0 <=> Wanted(ch)
    <3>1. PICK f : IsTrace(f, ch)
      BY DEF IndInv, QueueInv
    <3>2. f[0] = refs[ch] /\ f[Len(Queue)] = Need(ch) /\ Len(Queue) = 0
      BY <3>1 DEF IsTrace
    <3>3. refs[ch] = Need(ch)
      BY <3>2
    <3>4. QED
      BY <3>3 DEF Need
  <2>2. QED
    BY <2>1 DEF AskedInv
<1>3. QED
  BY <1>1, <1>2, AskedNext, Invariance, PTL DEF Spec

-----------------------------------------------------------------------------
(* How far presence overstates *)

SizeOf(u) == Cardinality(SocketsOf(u))

LEMMA SizeIsNat ==
    ASSUME NEW u \in Users
    PROVE  /\ IsFiniteSet(SocketsOf(u)) /\ SizeOf(u) \in Nat
           /\ \A c \in SocketsOf(u) : SizeOf(u) >= 1
<1>1. IsFiniteSet(SocketsOf(u))
  BY FS_Subset DEF SocketsOf
<1>2. SizeOf(u) \in Nat
  BY <1>1, FS_CardinalityType DEF SizeOf
<1>3. ASSUME NEW c \in SocketsOf(u) PROVE SizeOf(u) # 0
  BY <1>1, <1>3, FS_EmptySet DEF SizeOf
<1>4. QED
  BY <1>1, <1>2, <1>3

LEMMA OneFaultMore ==
    ASSUME NEW f \in Nat, NEW k \in Nat
    PROVE  f * k \in Nat /\ (f + 1) * k = f * k + k
OBVIOUS

\* A step that leaves a user's counter and counted sockets alone adds a fault at most.
LEMMA OverSame ==
    ASSUME IndInv, OvercountBounded, NEW u \in Users,
           faults' = faults \/ faults' = faults + 1,
           count'[u] <= count[u], count'[u] \in Nat, CountedOf(u)' = CountedOf(u)
    PROVE  count'[u] <= Cardinality(CountedOf(u)') + faults' * SizeOf(u)
<1>1. faults \in Nat /\ count[u] \in Nat
  BY DEF IndInv, TypeOK
<1>2. count[u] <= Cardinality(CountedOf(u)) + faults * SizeOf(u)
  BY DEF OvercountBounded, CountedOf, SizeOf
<1> DEFINE a == faults * SizeOf(u)
           b == faults' * SizeOf(u)
           m == Cardinality(CountedOf(u))
<1>3. a \in Nat /\ b \in Nat /\ a <= b
  BY <1>1, SizeIsNat, OneFaultMore
<1>4. m \in Nat
  BY CountedFinite
<1>5. count[u] <= m + a
  BY <1>2
<1> HIDE DEF a, b, m
<1>6. count'[u] <= m + b
  BY <1>1, <1>3, <1>4, <1>5
<1>7. QED
  BY <1>6 DEF b, m

LEMMA OverNext == IndInv /\ OvercountBounded /\ [Next]_vars => OvercountBounded'
<1> SUFFICES ASSUME IndInv, OvercountBounded, [Next]_vars, NEW u \in Users
             PROVE  count'[u] <= Cardinality(CountedOf(u)') + faults' * SizeOf(u)
  BY DEF OvercountBounded, CountedOf, SocketsOf, SizeOf
<1>0. /\ count \in [Users -> Nat] /\ faults \in Nat /\ SizeOf(u) \in Nat
      /\ counted \subseteq Sockets
  BY SizeIsNat DEF IndInv, TypeOK
<1> DEFINE a == faults * SizeOf(u)
           m == Cardinality(CountedOf(u))
           n == Cardinality(CountedOf(u)')
           k == SizeOf(u)
<1>1. a \in Nat /\ m \in Nat /\ n \in Nat /\ k \in Nat /\ count[u] <= m + a
  BY <1>0, OneFaultMore, CountedFinite DEF OvercountBounded, CountedOf, SizeOf
<1>2. faults' = faults + 1 => faults' * SizeOf(u) = a + k
  BY <1>0, OneFaultMore
<1>3. faults' = faults => faults' * SizeOf(u) = a
  OBVIOUS
<1> DEFINE Goal == count'[u] <= n + faults' * SizeOf(u)
<1>4. CASE UNCHANGED <<count, counted>> /\ (faults' = faults \/ faults' = faults + 1)
  <2>1. CountedOf(u)' = CountedOf(u)
    BY <1>4 DEF CountedOf, SocketsOf
  <2>2. QED
    BY <1>0, <1>4, <2>1, OverSame
<1>5. ASSUME NEW c \in Local,
             \/ AddSocket(c) \/ Close(c) \/ Removal(c)
             \/ \E v \in Conversations : JoinRoom(c, v) \/ LeaveRoom(c, v)
      PROVE  Goal
  BY <1>4, <1>5 DEF AddSocket, Close, Removal, RemoveFromRoom, RemoveSocket, JoinRoom,
                    LeaveRoom, presenceVars
<1>6. CASE \/ \E c \in Remote : RemoteStep(c)
           \/ \E c \in Sockets : FallSilent(c)
           \/ Wakeup \/ UNCHANGED vars
  BY <1>4, <1>6 DEF RemoteStep, FallSilent, Wakeup, presenceVars, vars
<1>7. CASE \/ TakePending \/ ApplyCmd \/ Woken \/ Rebuild \/ Receive \/ Deliver
           \/ PubSubCloses \/ ConnectionLost \/ Reconnect
  BY <1>4, <1>7 DEF TakePending, ApplyCmd, Ask, Fault, Woken, Rebuild, Receive, Deliver,
                    PubSubCloses, ConnectionLost, Reconnect, presenceVars
<1>8. ASSUME NEW c \in Sockets, Connect(c)
      PROVE  Goal
  <2>1. CASE UNCHANGED <<count, counted>>
    BY <1>4, <1>8, <2>1 DEF Connect, Fault
  <2>2. CASE /\ count' = [count EXCEPT ![Owner[c]] = @ + 1]
             /\ counted' = counted \cup {c} /\ faults' = faults
    <3>1. c \notin counted
      BY <1>8 DEF Connect, IndInv, CountInv
    <3>2. CASE u = Owner[c]
      <4>1. CountedOf(u)' = CountedOf(u) \cup {c} /\ c \notin CountedOf(u)
        BY <2>2, <3>1, <3>2 DEF CountedOf, SocketsOf
      <4>2. n = m + 1
        BY <4>1, CountedFinite, FS_AddElement
      <4>3. count'[u] = count[u] + 1
        BY <1>0, <2>2, <3>2
      <4> HIDE DEF a, m, n, k
      <4>4. count'[u] <= n + a
        BY <1>0, <1>1, <4>2, <4>3
      <4>5. QED
        BY <1>3, <2>2, <4>4 DEF n
    <3>3. CASE u # Owner[c]
      <4>1. CountedOf(u)' = CountedOf(u)
        BY <2>2, <3>3 DEF CountedOf, SocketsOf
      <4>2. count'[u] = count[u]
        BY <1>0, <2>2, <3>3
      <4>3. QED
        BY <1>0, <2>2, <4>1, <4>2, OverSame
    <3>4. QED
      BY <3>2, <3>3
  <2>3. QED
    BY <1>8, <2>1, <2>2 DEF Connect
<1>9. ASSUME NEW c \in Sockets, Disconnect(c)
      PROVE  Goal
  <2>1. counted' = counted \ {c}
    BY <1>9 DEF Disconnect
  <2>2. CASE u # Owner[c]
    <3>1. CountedOf(u)' = CountedOf(u)
      BY <2>1, <2>2 DEF CountedOf, SocketsOf
    <3>2. count'[u] = count[u] /\ (faults' = faults \/ faults' = faults + 1)
      BY <1>0, <1>9, <2>2 DEF Disconnect, Fault
    <3>3. QED
      BY <1>0, <3>1, <3>2, OverSame
  <2>3. CASE u = Owner[c]
    <3>1. n = m \/ (n = m - 1 /\ m >= 1)
      <4>1. CountedOf(u)' = CountedOf(u) \ {c}
        BY <2>1 DEF CountedOf, SocketsOf
      <4>2. CASE c \in CountedOf(u)
        <5>1. n = m - 1
          BY <4>1, <4>2, CountedFinite, FS_RemoveElement
        <5>2. QED
          BY <1>1, <5>1
      <4>3. CASE c \notin CountedOf(u)
        <5>1. CountedOf(u)' = CountedOf(u)
          BY <4>1, <4>3
        <5>2. QED
          BY <5>1
      <4>4. QED
        BY <4>2, <4>3
    <3>2. k >= 1
      BY <2>3, SizeIsNat DEF SocketsOf
    <3>3. CASE count' = [count EXCEPT ![Owner[c]] = Decrement(@)] /\ faults' = faults
      <4>1. count'[u] = IF count[u] - 1 <= 0 THEN 0 ELSE count[u] - 1
        BY <1>0, <2>3, <3>3 DEF Decrement
      <4> HIDE DEF a, m, n, k
      <4>2. count'[u] <= n + a
        BY <1>0, <1>1, <3>1, <4>1
      <4>3. QED
        BY <1>3, <3>3, <4>2 DEF n
    <3>4. CASE count' = count /\ faults' = faults + 1
      <4> HIDE DEF a, m, n, k
      <4>1. count'[u] <= n + (a + k)
        BY <1>0, <1>1, <3>1, <3>2, <3>4
      <4>2. QED
        BY <1>2, <3>4, <4>1 DEF n
    <3>5. QED
      BY <1>9, <3>3, <3>4 DEF Disconnect, Fault
  <2>4. QED
    BY <2>2, <2>3
<1>10. ASSUME NEW w \in Users, Expire(w) \/ RefreshFails(w)
       PROVE  Goal
  <2>1. CountedOf(u)' = CountedOf(u)
    BY <1>10 DEF Expire, RefreshFails, ExpireKey, CountedOf, SocketsOf
  <2>2. /\ count'[u] <= count[u] /\ count'[u] \in Nat
        /\ faults' = faults \/ faults' = faults + 1
    BY <1>0, <1>10 DEF Expire, RefreshFails, ExpireKey, Fault
  <2>3. QED
    BY <2>1, <2>2, OverSame
<1>11. ASSUME NEW S \in SUBSET Sockets, Gone(S)
       PROVE  Goal
  <2>1. count' = count /\ faults' = faults + 1
    BY <1>11 DEF Gone, Fault
  <2>2. m <= k
    <3>1. CountedOf(u) \subseteq SocketsOf(u)
      BY DEF CountedOf
    <3>2. QED
      BY <3>1, SizeIsNat, FS_Subset DEF SizeOf
  <2> HIDE DEF a, m, n, k
  <2>3. count'[u] <= n + (a + k)
    BY <1>0, <1>1, <2>1, <2>2
  <2>4. QED
    BY <1>2, <2>1, <2>3 DEF n
<1>12. QED
  BY <1>5, <1>6, <1>7, <1>8, <1>9, <1>10, <1>11 DEF Next, Loop, Crash, RemoteCrash, Sockets

\* ChatHub!OvercountBounded: presence overstates a user by no more than the sockets that
\* faults cut off, so by nothing when no call failed and nobody crashed.
THEOREM OvercountIsFaults == Spec => []OvercountBounded
<1>1. Init => OvercountBounded
  <2> SUFFICES ASSUME Init, NEW u \in Users
               PROVE  count[u] <= Cardinality(counted \cap SocketsOf(u)) + faults * SizeOf(u)
    BY DEF OvercountBounded, SizeOf
  <2>1. counted \cap SocketsOf(u) = {} /\ count[u] = 0 /\ faults = 0
    BY DEF Init
  <2>2. Cardinality(counted \cap SocketsOf(u)) = 0
    BY <2>1, FS_EmptySet
  <2>3. faults * SizeOf(u) \in Nat
    BY <2>1, SizeIsNat, OneFaultMore
  <2>4. QED
    BY <2>1, <2>2, <2>3
<1>2. QED
  BY <1>1, OverNext, Invariance, PTL DEF Spec
=============================================================================
