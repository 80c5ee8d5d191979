--------------------------- MODULE GatewayProofs ---------------------------
(***************************************************************************)
(* Proofs about Gateway for every set of sockets and every value of the    *)
(* bounds.                                                                 *)
(*                                                                         *)
(* NoIdleSubscription and ConfirmedIsSubscribed speak of the moment when   *)
(* Redis has read every command.  Neither is inductive: what Redis will    *)
(* hold then is settled by the last command under way, or by the           *)
(* reconnection, and both follow redis-py's list of channels.              *)
(***************************************************************************)
EXTENDS Gateway, TLAPS

PCs == {"new", "authed", "sending", "joining", "live", "cleanup", "closed"}

Connection == [pc : PCs, token : 0..MaxGeneration, queue : Seq(Nat), stop : BOOLEAN]

Types ==
    /\ generation \in 0..MaxGeneration
    /\ toClose \in 0..generation
    /\ frames \in Nat
    /\ sock \in [Sockets -> Connection]
    /\ \A s \in Sockets : Len(sock[s].queue) <= SEND_QUEUE_MAX
    /\ sinks \subseteq Sockets
    /\ joined \in {"none", "unset", "set"}
    /\ joined = "none" <=> sinks = {}
    /\ commands \in Seq({"SUBSCRIBE", "UNSUBSCRIBE"})
    /\ stream \in Seq({"confirm", "close", "frame"})
    /\ faults \in [drops : Nat, failures : Nat]
    /\ owed \subseteq Sockets
    /\ seen \in [Sockets -> Nat]
    /\ wrote \in [Sockets -> Seq(Nat)]

Booleans == wanted \in BOOLEAN /\ up \in BOOLEAN /\ held \in BOOLEAN

\* What Redis holds once it has read the commands under way.
WillHold == IF commands = <<>> THEN held ELSE commands[Len(commands)] = "SUBSCRIBE"

\* While the connection is up, Redis ends with what redis-py's list of channels
\* says; while it is down, nothing is under way and nothing is held.
FollowsList ==
    /\ up => (WillHold <=> wanted)
    /\ ~up => commands = <<>> /\ ~held

\* The topic is listed only for a sink, and for every sink once its handshake
\* has sent SUBSCRIBE.
ListedForSinks ==
    /\ wanted => sinks # {}
    /\ (faults.failures = 0 /\ sinks # {} /\ \A s \in Sockets : ~At(s, "sending")) => wanted

IInv ==
    /\ Types
    /\ Booleans
    /\ SinksAreSockets
    /\ FollowsList
    /\ ListedForSinks
    /\ FramesInOrder

-----------------------------------------------------------------------------
(* Sequences. *)

\* Queueing a frame appends it to what the socket keeps.
LEMMA QueuedIsAppended ==
    ASSUME NEW a \in Seq(Nat), NEW b \in Seq(Nat), NEW n \in Nat
    PROVE  a \o Append(b, n) = Append(a \o b, n)
OBVIOUS

\* Writing the oldest queued frame leaves what the socket keeps as it was.
LEMMA WrittenIsKept ==
    ASSUME NEW a \in Seq(Nat), NEW b \in Seq(Nat), b # <<>>
    PROVE  Append(a, Head(b)) \o Tail(b) = a \o b
OBVIOUS

\* The last element of a sequence that another one is appended to.
LEMMA LastOfAppend ==
    ASSUME NEW S, NEW q \in Seq(S), NEW e \in S
    PROVE  /\ Append(q, e) \in Seq(S) /\ Append(q, e) # <<>>
           /\ Append(q, e)[Len(Append(q, e))] = e
OBVIOUS

\* Emptiness of a sequence, as the proofs below use it.
LEMMA EmptySeq ==
    ASSUME NEW S
    PROVE  /\ <<>> \in Seq(S)
           /\ Len(<<>>) = 0
           /\ \A q \in Seq(S) : q # <<>> => Len(q) \in Nat \ {0}
    OBVIOUS

\* The last element stays when the first one is taken, unless it is the same.
LEMMA LastOfTail ==
    ASSUME NEW S, NEW q \in Seq(S), q # <<>>
    PROVE  /\ Head(q) \in S /\ Tail(q) \in Seq(S)
           /\ Len(q) = 1 => Tail(q) = <<>> /\ Head(q) = q[Len(q)]
           /\ Len(q) # 1 => Tail(q) # <<>> /\ Tail(q)[Len(Tail(q))] = q[Len(q)]
<1> DEFINE t == Tail(q)
<1>1. Len(q) \in Nat /\ Len(q) > 0 /\ Head(q) = q[1] /\ Head(q) \in S
    OBVIOUS
<1>2. t \in Seq(S) /\ Len(t) = Len(q) - 1 /\ \A i \in 1..(Len(q) - 1) : t[i] = q[i + 1]
    OBVIOUS
<1> HIDE DEF t
<1>3. Len(q) = 1 => t = <<>>
    BY <1>2, EmptySeq
<1>4. Len(q) # 1 => t # <<>> /\ t[Len(t)] = q[Len(q)]
    BY <1>1, <1>2, EmptySeq
<1>5. /\ Len(q) = 1 => t = <<>> /\ Head(q) = q[Len(q)]
      /\ Len(q) # 1 => t # <<>> /\ t[Len(t)] = q[Len(q)]
    BY <1>1, <1>3, <1>4
<1> QED
    BY <1>1, <1>2, <1>5 DEF t

-----------------------------------------------------------------------------
(* The inductive invariant. *)

\* Init establishes it: nothing is connected or subscribed.
LEMMA InitIInv == Init => IInv
<1> SUFFICES ASSUME Init PROVE IInv
    OBVIOUS
<1>1. Types
    BY GatewayAssumption DEF Init, Types, Connection, PCs, NoSocket
<1>2. Booleans
    BY Zenon DEF Init, Booleans
<1>3. SinksAreSockets /\ FollowsList /\ ListedForSinks
    BY DEF Init, SinksAreSockets, FollowsList, WillHold, ListedForSinks, NoSocket
<1>4. FramesInOrder
    BY DEF Init, FramesInOrder, Kept, NoSocket
<1> QED
    BY <1>1, <1>2, <1>3, <1>4 DEF IInv

SinkPCs == {"sending", "joining", "live", "cleanup"}

\* A step that moves connections on and touches neither the bus nor the frames:
\* authentication, a failed or cancelled handshake, acceptance, a stop, the end
\* of the loops.
LEMMA MoveIInv ==
    ASSUME IInv,
           sock' \in [Sockets -> Connection],
           \A c \in Sockets : /\ sock'[c].queue = sock[c].queue
                              /\ sock[c].stop => sock'[c].stop
                              /\ sock'[c].pc \in SinkPCs <=> sock[c].pc \in SinkPCs
                              /\ sock'[c].pc = "sending" => sock[c].pc = "sending",
           faults' \in [drops : Nat, failures : Nat],
           \/ faults'.failures > 0
           \/ /\ faults'.failures = faults.failures
              /\ \A c \in Sockets : sock[c].pc = "sending" => sock'[c].pc = "sending",
           UNCHANGED <<generation, toClose, frames, sinks, joined, wanted, up, commands,
                       held, stream, owed, seen, wrote>>
    PROVE  IInv'
<1> USE DEF IInv
<1>1. Types' /\ Booleans'
    BY DEF Types, Booleans
<1>2. SinksAreSockets'
    BY DEF SinksAreSockets, SinkPCs
<1>3. FollowsList'
    BY DEF FollowsList, WillHold
<1>4. ListedForSinks'
    BY DEF ListedForSinks, At
<1>5. FramesInOrder'
    <2>1. \A c \in Sockets : Kept(c)' = Kept(c)
        BY DEF Kept
    <2> QED
        BY <2>1 DEF FramesInOrder
<1> QED
    BY <1>1, <1>2, <1>3, <1>4, <1>5

\* A step of the publishing side: it may add to the stream and to what is owed.
LEMMA PublishIInv ==
    ASSUME IInv,
           generation' \in 0..MaxGeneration, toClose' \in 0..generation',
           frames' \in Nat, owed' \subseteq Sockets,
           stream' \in Seq({"confirm", "close", "frame"}),
           faults' \in [drops : Nat, failures : Nat],
           faults'.failures > 0 \/ faults'.failures = faults.failures,
           UNCHANGED <<sock, sinks, joined, wanted, up, commands, held, seen, wrote>>
    PROVE  IInv'
<1> USE DEF IInv
<1>1. Types' /\ Booleans'
    BY DEF Types, Booleans
<1>2. SinksAreSockets' /\ ListedForSinks'
    BY DEF SinksAreSockets, ListedForSinks, At
<1>3. FollowsList'
    BY DEF FollowsList, WillHold
<1>4. FramesInOrder'
    <2>1. \A c \in Sockets : Kept(c)' = Kept(c)
        BY DEF Kept
    <2> QED
        BY <2>1 DEF FramesInOrder
<1> QED
    BY <1>1, <1>2, <1>3, <1>4

\* The first sink has SUBSCRIBE to send, a later one waits for the confirmation.
LEMMA SubscribeIInv ==
    ASSUME IInv, NEW s \in Sockets, Subscribe(s)
    PROVE  IInv'
<1> USE DEF IInv
<1>1. /\ sock' \in [Sockets -> Connection]
      /\ \A c \in Sockets \ {s} : sock'[c] = sock[c]
      /\ sock'[s].queue = sock[s].queue
      /\ sock'[s].stop <=> sock[s].stop
      /\ sock'[s].pc = IF sinks = {} THEN "sending" ELSE "joining"
    BY DEF Subscribe, Goto, Types, Connection, PCs
<1>2. /\ sinks' = sinks \cup {s}
      /\ joined' = IF sinks = {} THEN "unset" ELSE joined
      /\ sock[s].pc = "authed"
      /\ UNCHANGED <<generation, toClose, frames, wanted, up, commands, held, stream,
                     faults, owed, seen, wrote>>
    BY DEF Subscribe, At, redisVars, history
<1>3. Types' /\ Booleans'
    BY <1>1, <1>2 DEF Types, Booleans
<1>4. SinksAreSockets'
    BY <1>1, <1>2 DEF SinksAreSockets
<1>5. FollowsList'
    BY <1>2 DEF FollowsList, WillHold
<1>6. ListedForSinks'
    BY <1>1, <1>2 DEF ListedForSinks, At
<1>7. FramesInOrder'
    <2>1. \A c \in Sockets : Kept(c)' = Kept(c)
        BY <1>1, <1>2 DEF Kept
    <2> QED
        BY <1>1, <1>2, <2>1 DEF FramesInOrder
<1> QED
    BY <1>3, <1>4, <1>5, <1>6, <1>7

\* SUBSCRIBE is under way, and the topic is on the list.
LEMMA SendSubscribeIInv ==
    ASSUME IInv, NEW s \in Sockets, SendSubscribe(s)
    PROVE  IInv'
<1> USE DEF IInv
<1>1. /\ sock' \in [Sockets -> Connection]
      /\ \A c \in Sockets \ {s} : sock'[c] = sock[c]
      /\ sock'[s].queue = sock[s].queue
      /\ sock'[s].stop <=> sock[s].stop
      /\ sock'[s].pc = "joining"
    BY DEF SendSubscribe, Goto, Types, Connection, PCs
<1>2. /\ sock[s].pc = "sending"
      /\ up
      /\ commands' = Append(commands, "SUBSCRIBE")
      /\ wanted' = TRUE
      /\ UNCHANGED <<generation, toClose, frames, sinks, joined, up, held, stream, faults,
                     owed, seen, wrote>>
    BY DEF SendSubscribe, At, history
<1>3. Types'
    <2>1. commands' \in Seq({"SUBSCRIBE", "UNSUBSCRIBE"})
        BY <1>2 DEF Types
    <2> QED
        BY <1>1, <1>2, <2>1 DEF Types
<1>4. Booleans'
    BY <1>2, Zenon DEF Booleans
<1>5. SinksAreSockets'
    BY <1>1, <1>2 DEF SinksAreSockets
<1>6. FollowsList'
    BY <1>2 DEF FollowsList, WillHold, Types
<1>7. ListedForSinks'
    BY <1>2 DEF ListedForSinks, SinksAreSockets
<1>8. FramesInOrder'
    <2>1. \A c \in Sockets : Kept(c)' = Kept(c)
        BY <1>1, <1>2 DEF Kept
    <2> QED
        BY <1>1, <1>2, <2>1 DEF FramesInOrder
<1> QED
    BY <1>3, <1>4, <1>5, <1>6, <1>7, <1>8

\* The last sink takes the topic off the list and sends UNSUBSCRIBE.
LEMMA CleanupIInv ==
    ASSUME IInv, NEW s \in Sockets, Cleanup(s)
    PROVE  IInv'
<1> USE DEF IInv
<1>1. /\ sock' \in [Sockets -> Connection]
      /\ \A c \in Sockets \ {s} : sock'[c] = sock[c]
      /\ sock'[s].queue = sock[s].queue
      /\ sock'[s].stop <=> sock[s].stop
      /\ sock'[s].pc = "closed"
    BY DEF Cleanup, Goto, Types, Connection, PCs
<1>2. /\ sock[s].pc = "cleanup"
      /\ sinks' = sinks \ {s}
      /\ joined' = IF sinks = {s} THEN "none" ELSE joined
      /\ wanted' = IF sinks = {s} THEN FALSE ELSE wanted
      /\ commands' = IF sinks = {s} /\ up THEN Append(commands, "UNSUBSCRIBE") ELSE commands
      /\ UNCHANGED <<generation, toClose, frames, up, held, stream, faults,
                     owed, seen, wrote>>
    BY DEF Cleanup, At, history
<1>3. s \in sinks
    BY <1>2 DEF SinksAreSockets
<1>4. Types'
    <2>1. commands' \in Seq({"SUBSCRIBE", "UNSUBSCRIBE"})
        BY <1>2 DEF Types
    <2> QED
        BY <1>1, <1>2, <1>3, <2>1 DEF Types
<1>5. Booleans'
    BY <1>2 DEF Booleans
<1>6. SinksAreSockets'
    BY <1>1, <1>2 DEF SinksAreSockets
<1>7. FollowsList'
    <2>1. CASE sinks = {s} /\ up
        <3>1. commands' = Append(commands, "UNSUBSCRIBE") /\ ~wanted' /\ up'
            BY <1>2, <2>1
        <3>2. commands' # <<>> /\ commands'[Len(commands')] = "UNSUBSCRIBE"
            <4>1. commands \in Seq({"SUBSCRIBE", "UNSUBSCRIBE"})
                BY DEF Types
            <4> QED
                BY <3>1, <4>1, LastOfAppend
        <3>3. ~WillHold'
            BY <3>2 DEF WillHold
        <3> QED
            BY <3>1, <3>3 DEF FollowsList
    <2>2. CASE ~(sinks = {s} /\ up)
        <3>1. UNCHANGED <<commands, up, held>> /\ (up => wanted' = wanted)
            BY <1>2, <2>2
        <3> QED
            BY <3>1 DEF FollowsList, WillHold
    <2> QED
        BY <2>1, <2>2
<1>8. ListedForSinks'
    BY <1>1, <1>2, <1>3 DEF ListedForSinks, At
<1>9. FramesInOrder'
    <2>1. \A c \in Sockets : Kept(c)' = Kept(c)
        BY <1>1, <1>2 DEF Kept
    <2> QED
        BY <1>1, <1>2, <2>1 DEF FramesInOrder
<1> QED
    BY <1>4, <1>5, <1>6, <1>7, <1>8, <1>9

\* Redis, the loss of its connection and the reconnection leave the sockets alone.
LEMMA RedisIInv ==
    ASSUME IInv, RedisReads \/ ConnectionLost \/ Reconnect
    PROVE  IInv'
<1> USE DEF IInv
<1>1. /\ UNCHANGED <<generation, toClose, frames, sock, sinks, joined, wanted, owed, seen, wrote>>
      /\ faults' \in [drops : Nat, failures : Nat]
      /\ faults'.failures = faults.failures
    BY DEF RedisReads, ConnectionLost, Reconnect, busVars, history, Types
<1>2. /\ commands' \in Seq({"SUBSCRIBE", "UNSUBSCRIBE"})
      /\ stream' \in Seq({"confirm", "close", "frame"})
    <2>1. CASE RedisReads
        BY <2>1 DEF RedisReads, Types
    <2>2. CASE ConnectionLost
        BY <2>2 DEF ConnectionLost
    <2>3. CASE Reconnect
        <3>1. commands' = <<"SUBSCRIBE">> \/ commands' = <<>>
            BY <2>3 DEF Reconnect
        <3>2. stream' = stream
            BY <2>3 DEF Reconnect
        <3>3. <<"SUBSCRIBE">> \in Seq({"SUBSCRIBE", "UNSUBSCRIBE"})
            OBVIOUS
        <3>4. commands' \in Seq({"SUBSCRIBE", "UNSUBSCRIBE"})
            BY <3>1, <3>3, EmptySeq, Zenon
        <3> QED
            BY <3>2, <3>4 DEF Types
    <2> QED
        BY <2>1, <2>2, <2>3
<1>3. Types'
    BY <1>1, <1>2 DEF Types
<1>4. Booleans'
    BY <1>1, Zenon DEF Booleans, RedisReads, ConnectionLost, Reconnect, redisVars
<1>5. FollowsList'
    <2>1. CASE RedisReads
        <3>1. /\ commands # <<>> /\ commands' = Tail(commands) /\ up' = up
              /\ held' <=> Head(commands) = "SUBSCRIBE"
            BY <2>1 DEF RedisReads
        <3>2. commands \in Seq({"SUBSCRIBE", "UNSUBSCRIBE"})
            BY DEF Types
        <3>3. CASE Len(commands) = 1
            <4>1. commands' = <<>> /\ Head(commands) = commands[Len(commands)]
                BY <3>1, <3>2, <3>3, LastOfTail
            <4> QED
                BY <1>1, <3>1, <4>1 DEF FollowsList, WillHold
        <3>4. CASE Len(commands) # 1
            <4>1. commands' # <<>> /\ commands'[Len(commands')] = commands[Len(commands)]
                BY <3>1, <3>2, <3>4, LastOfTail
            <4> QED
                BY <1>1, <3>1, <4>1 DEF FollowsList, WillHold
        <3> QED
            BY <3>3, <3>4
    <2>2. CASE ConnectionLost
        BY <2>2 DEF ConnectionLost, FollowsList, WillHold
    <2>3. CASE Reconnect
        BY <2>3 DEF Reconnect, FollowsList, WillHold, busVars
    <2> QED
        BY <2>1, <2>2, <2>3
<1>6. SinksAreSockets' /\ ListedForSinks'
    BY <1>1 DEF SinksAreSockets, ListedForSinks, At
<1>7. FramesInOrder'
    <2>1. \A c \in Sockets : Kept(c)' = Kept(c)
        BY <1>1 DEF Kept
    <2> QED
        BY <1>1, <2>1 DEF FramesInOrder
<1> QED
    BY <1>3, <1>4, <1>5, <1>6, <1>7

\* A dispatched frame is queued, unless the queue is full: then the socket stops.
LEMMA OfferedKeeps ==
    ASSUME NEW c \in Connection, NEW n \in Nat, Len(c.queue) <= SEND_QUEUE_MAX
    PROVE  /\ Offered(c, n) \in Connection
           /\ Offered(c, n).pc = c.pc
           /\ Len(Offered(c, n).queue) <= SEND_QUEUE_MAX
           /\ \/ /\ Offered(c, n).queue = Append(c.queue, n)
                 /\ Offered(c, n).stop = c.stop
              \/ Offered(c, n).queue = c.queue /\ Offered(c, n).stop
<1>1. c.queue \in Seq(Nat) /\ Append(c.queue, n) \in Seq(Nat)
    BY DEF Connection
<1>2. CASE Len(c.queue) < SEND_QUEUE_MAX
    <2>1. Offered(c, n) = [c EXCEPT !.queue = Append(@, n)]
        BY <1>2 DEF Offered
    <2>2. Len(Append(c.queue, n)) <= SEND_QUEUE_MAX
        BY <1>1, <1>2, GatewayAssumption
    <2> QED
        BY <1>1, <2>1, <2>2 DEF Connection
<1>3. CASE ~(Len(c.queue) < SEND_QUEUE_MAX)
    <2>1. Offered(c, n) = [c EXCEPT !.stop = TRUE]
        BY <1>3 DEF Offered, Stopped
    <2> QED
        BY <2>1 DEF Connection
<1> QED
    BY <1>2, <1>3

\* A frame that is queued keeps the order, one that is not stops the socket.
LEMMA FrameKeepsOrder ==
    ASSUME NEW k \in Seq(Nat), NEW n \in Nat,
           \A i, j \in 1..Len(k) : i < j => k[i] < k[j],
           \A i \in 1..Len(k) : k[i] \in 1..n
    PROVE  LET l == Append(k, n + 1) IN
           /\ Len(l) = Len(k) + 1
           /\ \A i, j \in 1..Len(l) : i < j => l[i] < l[j]
           /\ \A i \in 1..Len(l) : l[i] \in 1..(n + 1)
<1> DEFINE l == Append(k, n + 1)
<1>1. /\ Len(l) = Len(k) + 1 /\ Len(k) \in Nat
      /\ \A i \in 1..Len(k) : l[i] = k[i] /\ k[i] \in Nat
      /\ l[Len(k) + 1] = n + 1
    OBVIOUS
<1> HIDE DEF l
<1>2. \A i \in 1..Len(l) : i \in 1..Len(k) \/ i = Len(k) + 1
    BY <1>1
<1>3. \A i \in 1..Len(l) : l[i] \in 1..(n + 1)
    BY <1>1, <1>2
<1>4. \A i, j \in 1..Len(l) : i < j => l[i] < l[j]
    BY <1>1, <1>2
<1> QED
    BY <1>1, <1>3, <1>4 DEF l

\* The reader hands a message to every sink.
LEMMA DispatchIInv ==
    ASSUME IInv, Dispatch
    PROVE  IInv'
<1> USE DEF IInv
<1> DEFINE message == Head(stream)
           framed == {s \in sinks : message = "frame"}
<1>1. /\ message \in {"confirm", "close", "frame"}
      /\ stream' \in Seq({"confirm", "close", "frame"})
    BY LastOfTail DEF Dispatch, Types
<1>2. /\ joined' = IF message = "confirm" /\ joined = "unset" THEN "set" ELSE joined
      /\ UNCHANGED <<generation, toClose, frames, sinks, wanted, up, commands, held,
                     faults, owed, wrote>>
      /\ seen' = [s \in Sockets |-> IF s \in framed THEN seen[s] + 1 ELSE seen[s]]
      /\ sock' = [s \in Sockets |->
                    IF s \in framed THEN Offered(sock[s], seen[s] + 1)
                    ELSE IF message = "close" /\ s \in sinks THEN Stopped(sock[s])
                    ELSE sock[s]]
    BY <1>1 DEF Dispatch, Types
<1> HIDE DEF message, framed
<1>3. ASSUME NEW s \in Sockets, s \in framed
      PROVE  /\ sock'[s] \in Connection
             /\ sock'[s].pc = sock[s].pc
             /\ Len(sock'[s].queue) <= SEND_QUEUE_MAX
             /\ seen'[s] = seen[s] + 1
             /\ \/ /\ sock'[s].queue = Append(sock[s].queue, seen[s] + 1)
                   /\ sock'[s].stop = sock[s].stop
                \/ sock'[s].queue = sock[s].queue /\ sock'[s].stop
    <2>1. sock'[s] = Offered(sock[s], seen[s] + 1) /\ seen'[s] = seen[s] + 1
        BY <1>2, <1>3
    <2>2. /\ sock[s] \in Connection /\ seen[s] + 1 \in Nat
          /\ Len(sock[s].queue) <= SEND_QUEUE_MAX
        BY DEF Types
    <2> QED
        BY <2>1, <2>2, OfferedKeeps
<1>4. ASSUME NEW s \in Sockets, s \notin framed
      PROVE  /\ sock'[s] \in Connection
             /\ sock'[s].pc = sock[s].pc
             /\ sock'[s].queue = sock[s].queue
             /\ sock[s].stop => sock'[s].stop
             /\ seen'[s] = seen[s]
    BY <1>2, <1>4 DEF Stopped, Types, Connection
<1>5. \A s \in Sockets : /\ sock'[s] \in Connection
                         /\ sock'[s].pc = sock[s].pc
                         /\ Len(sock'[s].queue) <= SEND_QUEUE_MAX
                         /\ seen'[s] \in Nat
    BY <1>3, <1>4 DEF Types
<1>6. Types'
    <2>1. sock' \in [Sockets -> Connection] /\ seen' \in [Sockets -> Nat]
        BY <1>2, <1>5
    <2> QED
        BY <1>1, <1>2, <1>5, <2>1 DEF Types
<1>7. Booleans' /\ FollowsList'
    BY <1>2 DEF Booleans, FollowsList, WillHold
<1>8. SinksAreSockets'
    BY <1>2, <1>5 DEF SinksAreSockets
<1>9. ListedForSinks'
    BY <1>2, <1>5 DEF ListedForSinks, At
<1>10. FramesInOrder'
    <2> SUFFICES ASSUME NEW s \in Sockets
                 PROVE  /\ \A i, j \in 1..Len(Kept(s)') : i < j => Kept(s)'[i] < Kept(s)'[j]
                        /\ \A i \in 1..Len(Kept(s)') : Kept(s)'[i] \in 1..seen'[s]
                        /\ ~sock'[s].stop => Len(Kept(s)') = seen'[s]
        BY DEF FramesInOrder
    <2>1. /\ \A i, j \in 1..Len(Kept(s)) : i < j => Kept(s)[i] < Kept(s)[j]
          /\ \A i \in 1..Len(Kept(s)) : Kept(s)[i] \in 1..seen[s]
          /\ ~sock[s].stop => Len(Kept(s)) = seen[s]
        BY DEF FramesInOrder
    <2>2. seen[s] \in Nat /\ wrote[s] \in Seq(Nat) /\ sock[s] \in Connection
          /\ sock[s].queue \in Seq(Nat) /\ Kept(s) \in Seq(Nat)
        BY DEF Types, Connection, Kept
    <2>3. CASE s \notin framed
        <3>1. Kept(s)' = Kept(s)
            BY <1>2, <1>4, <2>3 DEF Kept
        <3> QED
            BY <1>4, <2>1, <2>3, <3>1
    <2>4. CASE s \in framed /\ sock'[s].queue = Append(sock[s].queue, seen[s] + 1)
               /\ sock'[s].stop = sock[s].stop
        <3>1. Kept(s)' = Append(Kept(s), seen[s] + 1)
            <4>1. Kept(s)' = wrote[s] \o Append(sock[s].queue, seen[s] + 1)
                BY <1>2, <2>4 DEF Kept
            <4>2. seen[s] + 1 \in Nat
                BY <2>2
            <4>3. wrote[s] \o Append(sock[s].queue, seen[s] + 1)
                    = Append(wrote[s] \o sock[s].queue, seen[s] + 1)
                BY <2>2, <4>2, QueuedIsAppended
            <4> QED
                BY <4>1, <4>3 DEF Kept
        <3>2. LET l == Append(Kept(s), seen[s] + 1) IN
              /\ Len(l) = Len(Kept(s)) + 1
              /\ \A i, j \in 1..Len(l) : i < j => l[i] < l[j]
              /\ \A i \in 1..Len(l) : l[i] \in 1..(seen[s] + 1)
            BY <2>1, <2>2, FrameKeepsOrder
        <3>3. seen'[s] = seen[s] + 1
            BY <1>3, <2>4
        <3> QED
            BY <2>1, <2>4, <3>1, <3>2, <3>3
    <2>5. CASE s \in framed /\ sock'[s].queue = sock[s].queue /\ sock'[s].stop
        <3>1. Kept(s)' = Kept(s) /\ seen'[s] = seen[s] + 1
            BY <1>2, <1>3, <2>5 DEF Kept
        <3> QED
            BY <2>1, <2>2, <2>5, <3>1
    <2> QED
        BY <1>3, <2>3, <2>4, <2>5
<1> QED
    BY <1>6, <1>7, <1>8, <1>9, <1>10

\* Writing a queued frame moves it from the queue to what was written.
LEMMA SendFrameIInv ==
    ASSUME IInv, NEW s \in Sockets, SendFrame(s)
    PROVE  IInv'
<1> USE DEF IInv
<1>1. /\ sock' \in [Sockets -> Connection]
      /\ \A c \in Sockets \ {s} : sock'[c] = sock[c]
      /\ sock'[s].pc = sock[s].pc
      /\ sock'[s].stop <=> sock[s].stop
      /\ sock'[s].queue = Tail(sock[s].queue)
    <2>1. sock \in [Sockets -> Connection] /\ sock[s] \in Connection
        BY DEF Types
    <2>2. sock[s].queue \in Seq(Nat) /\ sock[s].queue # <<>>
        BY <2>1 DEF SendFrame, Connection
    <2>3. Tail(sock[s].queue) \in Seq(Nat)
        BY <2>2, LastOfTail
    <2> DEFINE c == [sock[s] EXCEPT !.queue = Tail(sock[s].queue)]
    <2>4. /\ c \in Connection
          /\ c.pc = sock[s].pc /\ (c.stop <=> sock[s].stop) /\ c.queue = Tail(sock[s].queue)
        BY <2>1, <2>3 DEF Connection
    <2>5. sock' = [sock EXCEPT ![s] = c]
        BY DEF SendFrame
    <2> HIDE DEF c
    <2> QED
        BY <2>1, <2>4, <2>5
<1>2. /\ wrote' \in [Sockets -> Seq(Nat)]
      /\ \A c \in Sockets \ {s} : wrote'[c] = wrote[c]
      /\ wrote'[s] = Append(wrote[s], Head(sock[s].queue))
    <2>1. sock[s].queue \in Seq(Nat) /\ sock[s].queue # <<>>
        BY DEF SendFrame, Types, Connection
    <2>2. Append(wrote[s], Head(sock[s].queue)) \in Seq(Nat)
        BY <2>1, LastOfTail DEF Types
    <2>3. wrote' = [wrote EXCEPT ![s] = Append(wrote[s], Head(sock[s].queue))]
        BY DEF SendFrame
    <2> QED
        BY <2>2, <2>3 DEF Types
<1>3. /\ sock[s].queue \in Seq(Nat) /\ sock[s].queue # <<>>
      /\ UNCHANGED <<generation, toClose, frames, sinks, joined, wanted, up, commands, held,
                     stream, faults, owed, seen>>
    BY DEF SendFrame, Types, Connection, busVars, redisVars
<1>4. Types'
    <2>1. Len(sock'[s].queue) <= SEND_QUEUE_MAX
        BY <1>1, <1>3, GatewayAssumption DEF Types
    <2> QED
        BY <1>1, <1>2, <1>3, <2>1 DEF Types
<1>5. Booleans' /\ FollowsList'
    BY <1>3 DEF Booleans, FollowsList, WillHold
<1>6. SinksAreSockets'
    BY <1>1, <1>3 DEF SinksAreSockets
<1>7. ListedForSinks'
    BY <1>1, <1>3 DEF ListedForSinks, At
<1>8. FramesInOrder'
    <2>1. Kept(s)' = Kept(s)
        <3>1. Kept(s)' = Append(wrote[s], Head(sock[s].queue)) \o Tail(sock[s].queue)
            BY <1>1, <1>2 DEF Kept
        <3> QED
            BY <1>3, <3>1, WrittenIsKept DEF Kept, Types
    <2>2. \A c \in Sockets \ {s} : Kept(c)' = Kept(c)
        BY <1>1, <1>2 DEF Kept
    <2>3. \A c \in Sockets : Kept(c)' = Kept(c) /\ (sock'[c].stop <=> sock[c].stop)
        BY <1>1, <2>1, <2>2
    <2> QED
        BY <1>3, <2>3 DEF FramesInOrder
<1> QED
    BY <1>4, <1>5, <1>6, <1>7, <1>8

\* Every step preserves the inductive invariant.
LEMMA NextIInv == IInv /\ [Next]_vars => IInv'
<1> SUFFICES ASSUME IInv, [Next]_vars PROVE IInv'
    OBVIOUS
<1>1. /\ faults \in [drops : Nat, failures : Nat]
      /\ sock \in [Sockets -> Connection]
    BY DEF IInv, Types
<1>2. ASSUME Fail
      PROVE  faults' \in [drops : Nat, failures : Nat] /\ faults'.failures > 0
    BY <1>1, <1>2 DEF Fail
<1>3. ASSUME NEW s \in Sockets, Task(s)
      PROVE  IInv'
    <2>1. ASSUME Accept(s) PROVE IInv'
        BY <1>1, <2>1, MoveIInv DEF Accept, Goto, At, Connection, PCs, SinkPCs,
            busVars, redisVars, history
    <2>2. ASSUME Leave(s) PROVE IInv'
        BY <1>1, <2>2, MoveIInv DEF Leave, Goto, At, Connection, PCs, SinkPCs,
            busVars, redisVars, history
    <2> QED
        BY <1>3, <2>1, <2>2, SubscribeIInv, SendSubscribeIInv, CleanupIInv, SendFrameIInv
            DEF Task
<1>4. ASSUME NEW s \in Sockets, NEW token \in 0..MaxGeneration, Authenticate(s, token)
      PROVE  IInv'
    BY <1>1, <1>4, MoveIInv DEF Authenticate, At, Connection, PCs, SinkPCs,
        busVars, redisVars, history
<1>5. ASSUME NEW s \in Sockets, SubscribeFails(s) \/ Cancelled(s)
      PROVE  IInv'
    <2>1. faults' \in [drops : Nat, failures : Nat] /\ faults'.failures > 0
        BY <1>2, <1>5 DEF SubscribeFails, Cancelled
    <2>2. sock[s].pc \in {"sending", "joining"} /\ Goto(s, "cleanup")
        BY <1>5 DEF SubscribeFails, Cancelled, At
    <2>3. /\ sock' \in [Sockets -> Connection]
          /\ \A c \in Sockets \ {s} : sock'[c] = sock[c]
          /\ sock'[s].queue = sock[s].queue
          /\ sock'[s].stop <=> sock[s].stop
          /\ sock'[s].pc = "cleanup"
        BY <1>1, <2>2 DEF Goto, Connection, PCs
    <2>4. UNCHANGED <<generation, toClose, frames, sinks, joined, wanted, up, commands,
                      held, stream, owed, seen, wrote>>
        BY <1>5 DEF SubscribeFails, Cancelled, busVars, redisVars, history
    <2>5. \A c \in Sockets : /\ sock'[c].queue = sock[c].queue
                             /\ sock[c].stop => sock'[c].stop
                             /\ sock'[c].pc \in SinkPCs <=> sock[c].pc \in SinkPCs
                             /\ sock'[c].pc = "sending" => sock[c].pc = "sending"
        BY <2>2, <2>3 DEF SinkPCs
    <2> QED
        BY <2>1, <2>3, <2>4, <2>5, MoveIInv
<1>6. ASSUME NEW s \in Sockets, ClientEnds(s)
      PROVE  IInv'
    BY <1>1, <1>6, MoveIInv DEF ClientEnds, Stopped, Connection, busVars, redisVars, history
<1>7. ASSUME Drain
      PROVE  IInv'
    BY <1>1, <1>7, MoveIInv DEF Drain, Stopped, Connection, busVars, redisVars, history
<1>8. ASSUME Push \/ KillTokens \/ PublishClose \/ CloseLost
      PROVE  IInv'
    <2>1. /\ generation \in 0..MaxGeneration /\ toClose \in 0..generation /\ frames \in Nat
          /\ sinks \subseteq Sockets /\ owed \subseteq Sockets
          /\ stream \in Seq({"confirm", "close", "frame"})
        BY DEF IInv, Types
    <2>2. CASE Push
        BY <1>1, <2>1, <2>2, PublishIInv DEF Push, Published, busVars, history
    <2>3. CASE KillTokens
        BY <1>1, <2>1, <2>3, PublishIInv, GatewayAssumption DEF KillTokens, busVars, redisVars
    <2>4. CASE PublishClose
        BY <1>1, <2>1, <2>4, PublishIInv DEF PublishClose, Published, busVars, history
    <2>5. CASE CloseLost
        BY <1>2, <2>1, <2>5, PublishIInv DEF CloseLost, busVars, redisVars, history
    <2> QED
        BY <1>8, <2>2, <2>3, <2>4, <2>5
<1>9. ASSUME UNCHANGED vars
      PROVE  IInv'
    BY <1>1, <1>9, MoveIInv DEF vars, busVars, redisVars, history
<1> QED
    BY <1>3, <1>4, <1>5, <1>6, <1>7, <1>8, <1>9, DispatchIInv, RedisIInv DEF Next

\* The inductive invariant holds throughout.
LEMMA SpecIInv == Spec => []IInv
BY InitIInv, NextIInv, PTL DEF Spec

-----------------------------------------------------------------------------
(* Theorems. *)

\* No sink outlives its socket and no subscription outlives its last sink, on any
\* exit path of serve and whatever Redis loses (unsubscribe, _cleanup).
THEOREM LeavesNothingBehind == Spec => []NothingLeftBehind
<1>1. IInv => NothingLeftBehind
    BY DEF IInv, NothingLeftBehind, NoIdleSubscription, FollowsList, WillHold, ListedForSinks
<1> QED
    BY <1>1, SpecIInv, PTL

\* A socket writes its frames in the order they came, and misses one only when
\* it is being closed (deliver, _send_loop).
THEOREM WritesInOrder == Spec => []FramesInOrder
<1>1. IInv => FramesInOrder
    BY DEF IInv
<1> QED
    BY <1>1, SpecIInv, PTL

\* A confirmed topic is subscribed once Redis has read every command, unless a
\* handshake was cut short (subscribe, _dispatch, the reconnection).
THEOREM ConfirmedStaysSubscribed == Spec => []ConfirmedIsSubscribed
<1>1. IInv => ConfirmedIsSubscribed
    BY DEF IInv, Types, ConfirmedIsSubscribed, FollowsList, WillHold, ListedForSinks
<1> QED
    BY <1>1, SpecIInv, PTL

\* Every variable keeps its type, and no queue grows past SEND_QUEUE_MAX.
THEOREM GatewayTypeCorrect == Spec => []TypeOK
<1>1. IInv => TypeOK
    <2> SUFFICES ASSUME IInv PROVE TypeOK
        OBVIOUS
    <2>1. {wanted, up, held} \subseteq BOOLEAN
        BY Zenon DEF IInv, Booleans
    <2>2. /\ commands \in Seq({"SUBSCRIBE", "UNSUBSCRIBE"})
          /\ stream \in Seq({"confirm", "close", "frame"})
        BY DEF IInv, Types
    <2>3. toClose \in 0..MaxGeneration
        BY GatewayAssumption DEF IInv, Types
    <2> QED
        BY <2>1, <2>2, <2>3 DEF IInv, Types, Connection, PCs, TypeOK
<1> QED
    BY <1>1, SpecIInv, PTL
=============================================================================
