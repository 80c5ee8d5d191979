------------------------------ MODULE Gateway ------------------------------
(***************************************************************************)
(* The `/ws` gateway and the bus behind it, for the sockets of one device   *)
(* on one worker: handshake, the shared Redis subscriber, fan-out to        *)
(* bounded socket queues, and the close of sockets whose tokens died.       *)
(*                                                                         *)
(* Topics do not interact, so one topic is enough.  A step of a task runs   *)
(* until its next await.  The Redis connection is a command pipe and a      *)
(* reply stream, both in order; redis-py and Redis are modelled from how    *)
(* realtime/bus.py uses them.                                              *)
(***************************************************************************)
EXTENDS Integers, Sequences, FiniteSets

CONSTANTS
    Sockets,         \* connection attempts of the device
    SEND_QUEUE_MAX,  \* frames a socket's queue holds
    MaxGeneration,   \* bound: revocations and logouts
    MaxFrames,       \* bound: frames published to the device
    MaxFaults        \* bound: losses of the Redis connection, and publishes,
                     \* subscribes and handshakes that fail

ASSUME GatewayAssumption ==
    /\ SEND_QUEUE_MAX \in Nat \ {0}
    /\ {MaxGeneration, MaxFrames, MaxFaults} \subseteq Nat

VARIABLES
    generation,  \* the token generation the database accepts
    toClose,     \* committed revocations whose CLOSE is not published yet
    frames,      \* frames published so far
    sock,        \* the connections
    sinks,       \* _sinks[topic]; no entry is {}
    joined,      \* _joined[topic]: none, unset or set
    wanted,      \* the topic is in redis-py's list of channels
    up,          \* the subscriber's connection to Redis
    commands,    \* commands Redis has not read yet
    held,        \* Redis holds the subscription
    stream,      \* what Redis has sent and the reader has not read
    faults,      \* connection losses and failed calls so far
    \* for the properties: sockets subscribed when their token died, the number of
    \* frames dispatched to each socket, and the ones it wrote
    owed, seen, wrote

busVars == <<sinks, joined, wanted>>
redisVars == <<up, commands, held, stream>>
history == <<owed, seen, wrote>>
vars == <<generation, toClose, frames, sock, busVars, redisVars, faults, history>>

-----------------------------------------------------------------------------

NoSocket == [pc |-> "new", token |-> 0, queue |-> <<>>, stop |-> FALSE]

Init ==
    /\ generation = 0
    /\ toClose = 0
    /\ frames = 0
    /\ sock = [s \in Sockets |-> NoSocket]
    /\ sinks = {}
    /\ joined = "none"
    /\ wanted = FALSE
    /\ up = TRUE
    /\ commands = <<>>
    /\ held = FALSE
    /\ stream = <<>>
    /\ faults = [drops |-> 0, failures |-> 0]
    /\ owed = {}
    /\ seen = [s \in Sockets |-> 0]
    /\ wrote = [s \in Sockets |-> <<>>]

At(s, pc) == sock[s].pc = pc

Goto(s, pc) == sock' = [sock EXCEPT ![s].pc = pc]

Live == {s \in Sockets : At(s, "live")}

Fail == /\ faults.drops + faults.failures < MaxFaults
        /\ faults' = [faults EXCEPT !.failures = @ + 1]

-----------------------------------------------------------------------------
(* Connection.serve and _bind. *)

\* The session token is checked against the database; a client always presents
\* one of the generation that was current when it was issued.
Authenticate(s, token) ==
    /\ At(s, "new")
    /\ token \in 0..generation
    /\ sock' = [sock EXCEPT ![s].token = token,
                            ![s].pc = IF token = generation THEN "authed" ELSE "closed"]
    /\ UNCHANGED <<generation, toClose, frames, busVars, redisVars, faults, history>>

\* Subscriber.subscribe up to its first await: a later sink joins the holders,
\* the first one has SUBSCRIBE to send.
Subscribe(s) ==
    /\ At(s, "authed")
    /\ sinks' = sinks \cup {s}
    /\ joined' = IF sinks = {} THEN "unset" ELSE joined
    /\ Goto(s, IF sinks = {} THEN "sending" ELSE "joining")
    /\ UNCHANGED <<generation, toClose, frames, wanted, redisVars, faults, history>>

SendSubscribe(s) ==
    /\ At(s, "sending")
    /\ up
    /\ commands' = Append(commands, "SUBSCRIBE")
    /\ wanted' = TRUE
    /\ Goto(s, "joining")
    /\ UNCHANGED <<generation, toClose, frames, sinks, joined, up, held, stream,
                   faults, history>>

\* SUBSCRIBE raises: the handshake fails and serve cleans up.
SubscribeFails(s) ==
    /\ At(s, "sending")
    /\ Fail
    /\ Goto(s, "cleanup")
    /\ UNCHANGED <<generation, toClose, frames, busVars, redisVars, history>>

\* Mutant: a handshake that is cancelled is not cleaned up.
CancelledUnclean(s) ==
    /\ sock[s].pc \in {"sending", "joining"}
    /\ Fail
    /\ Goto(s, "closed")
    /\ UNCHANGED <<generation, toClose, frames, busVars, redisVars, history>>

\* The handshake task is cancelled while it waits.
Cancelled(s) ==
    /\ sock[s].pc \in {"sending", "joining"}
    /\ Fail
    /\ Goto(s, "cleanup")
    /\ UNCHANGED <<generation, toClose, frames, busVars, redisVars, history>>

\* The confirmation is in: the handshake is accepted and the loops run.
Accept(s) ==
    /\ At(s, "joining")
    /\ joined = "set"
    /\ Goto(s, "live")
    /\ UNCHANGED <<generation, toClose, frames, busVars, redisVars, faults, history>>

\* stop(); the close code, of which the first stays, is not told apart.
Stopped(c) == [c EXCEPT !.stop = TRUE]

\* The client goes away, or breaks the protocol and is closed with 4008.
ClientEnds(s) ==
    /\ At(s, "live")
    /\ ~sock[s].stop
    /\ sock' = [sock EXCEPT ![s] = Stopped(@)]
    /\ UNCHANGED <<generation, toClose, frames, busVars, redisVars, faults, history>>

\* _stop_watch ends the task group.
Leave(s) ==
    /\ At(s, "live")
    /\ sock[s].stop
    /\ Goto(s, "cleanup")
    /\ UNCHANGED <<generation, toClose, frames, busVars, redisVars, faults, history>>

\* Mutant: the last sink leaves and UNSUBSCRIBE is not sent.
CleanupSilent(s) ==
    /\ At(s, "cleanup")
    /\ Goto(s, "closed")
    /\ sinks' = sinks \ {s}
    /\ joined' = IF sinks = {s} THEN "none" ELSE joined
    /\ wanted' = IF sinks = {s} THEN FALSE ELSE wanted
    /\ UNCHANGED <<generation, toClose, frames, redisVars, faults, history>>

\* Mutant: any sink that leaves gives the topic up for all.
CleanupForAll(s) ==
    /\ At(s, "cleanup")
    /\ Goto(s, "closed")
    /\ sinks' = sinks \ {s}
    /\ joined' = IF sinks = {s} THEN "none" ELSE joined
    /\ wanted' = FALSE
    /\ commands' = IF up THEN Append(commands, "UNSUBSCRIBE") ELSE commands
    /\ UNCHANGED <<generation, toClose, frames, up, held, stream, faults, history>>

\* _cleanup and Subscriber.unsubscribe: the last sink gives the topic up.
Cleanup(s) ==
    LET last == sinks = {s} IN
    /\ At(s, "cleanup")
    /\ Goto(s, "closed")
    /\ sinks' = sinks \ {s}
    /\ joined' = IF last THEN "none" ELSE joined
    /\ wanted' = IF last THEN FALSE ELSE wanted
    /\ commands' = IF last /\ up THEN Append(commands, "UNSUBSCRIBE") ELSE commands
    /\ UNCHANGED <<generation, toClose, frames, up, held, stream, faults, history>>

\* Shutdown: drain() stops every live socket with 1012.
Drain ==
    /\ \E s \in Live : ~sock[s].stop
    /\ sock' = [s \in Sockets |-> IF s \in Live THEN Stopped(sock[s]) ELSE sock[s]]
    /\ UNCHANGED <<generation, toClose, frames, busVars, redisVars, faults, history>>

-----------------------------------------------------------------------------
(* Redis and the reader of the subscriber. *)

RedisReads ==
    /\ commands # <<>>
    /\ commands' = Tail(commands)
    /\ held' = (Head(commands) = "SUBSCRIBE")
    /\ stream' = IF Head(commands) = "SUBSCRIBE" THEN Append(stream, "confirm") ELSE stream
    /\ UNCHANGED <<generation, toClose, frames, sock, busVars, up, faults, history>>

\* What a publish leaves in the stream: nothing without a subscription.
Published(payload) == IF held THEN Append(stream, payload) ELSE stream

\* Mutant: a frame that does not fit is dropped and the socket stays open.
OfferedDropping(c, frame) ==
    IF Len(c.queue) < SEND_QUEUE_MAX THEN [c EXCEPT !.queue = Append(@, frame)] ELSE c

\* Mutant: the queue has no bound.
OfferedUnbounded(c, frame) == [c EXCEPT !.queue = Append(@, frame)]

\* deliver(): queue the frame, or stop a consumer whose queue is full.
Offered(c, frame) ==
    IF Len(c.queue) < SEND_QUEUE_MAX THEN [c EXCEPT !.queue = Append(@, frame)]
                                     ELSE Stopped(c)

\* _read and _dispatch.
Dispatch ==
    LET message == Head(stream) IN
    /\ stream # <<>>
    /\ stream' = Tail(stream)
    /\ joined' = IF message = "confirm" /\ joined = "unset" THEN "set" ELSE joined
    /\ sock' = CASE message = "confirm" -> sock
                 [] message = "close" ->
                        [s \in Sockets |-> IF s \in sinks THEN Stopped(sock[s]) ELSE sock[s]]
                 [] message = "frame" ->
                        [s \in Sockets |-> IF s \in sinks THEN Offered(sock[s], seen[s] + 1)
                                                          ELSE sock[s]]
    /\ seen' = [s \in Sockets |-> IF s \in sinks /\ message = "frame"
                                  THEN seen[s] + 1 ELSE seen[s]]
    /\ UNCHANGED <<generation, toClose, frames, sinks, wanted, up, commands, held,
                   faults, owed, wrote>>

\* The connection drops: what was in flight is lost, and so is the subscription.
ConnectionLost ==
    /\ up
    /\ faults.drops + faults.failures < MaxFaults
    /\ faults' = [faults EXCEPT !.drops = @ + 1]
    /\ up' = FALSE
    /\ commands' = <<>>
    /\ held' = FALSE
    /\ stream' = <<>>
    /\ UNCHANGED <<generation, toClose, frames, sock, busVars, history>>

\* redis-py subscribes every held topic again.
Reconnect ==
    /\ ~up
    /\ up' = TRUE
    /\ commands' = IF wanted THEN <<"SUBSCRIBE">> ELSE <<>>
    /\ UNCHANGED <<generation, toClose, frames, sock, busVars, held, stream, faults, history>>

-----------------------------------------------------------------------------
(* The publishing side. *)

\* An envelope of a committed send, or a relayed signal.
Push ==
    /\ frames < MaxFrames
    /\ frames' = frames + 1
    /\ stream' = Published("frame")
    /\ UNCHANGED <<generation, toClose, sock, busVars, up, commands, held, faults, history>>

\* _send_loop writes the oldest queued frame.
SendFrame(s) ==
    /\ At(s, "live")
    /\ sock[s].queue # <<>>
    /\ sock' = [sock EXCEPT ![s].queue = Tail(@)]
    /\ wrote' = [wrote EXCEPT ![s] = Append(@, Head(sock[s].queue))]
    /\ UNCHANGED <<generation, toClose, frames, busVars, redisVars, faults, owed, seen>>

\* The tokens die: logout, revocation, deactivation, password reset.  The commit
\* comes first, the CLOSE after it.
KillTokens ==
    /\ generation < MaxGeneration
    /\ generation' = generation + 1
    /\ toClose' = toClose + 1
    /\ owed' = owed \cup IF held /\ commands = <<>> THEN sinks ELSE {}
    /\ UNCHANGED <<frames, sock, busVars, redisVars, faults, seen, wrote>>

\* Mutant: the payload does not carry the type the sinks look for.
PublishCloseAsFrame ==
    /\ toClose > 0
    /\ toClose' = toClose - 1
    /\ stream' = Published("frame")
    /\ UNCHANGED <<generation, frames, sock, busVars, up, commands, held, faults, history>>

PublishClose ==
    /\ toClose > 0
    /\ toClose' = toClose - 1
    /\ stream' = Published("close")
    /\ UNCHANGED <<generation, frames, sock, busVars, up, commands, held, faults, history>>

\* Best effort: the publish fails and nobody is told.
CloseLost ==
    /\ toClose > 0
    /\ Fail
    /\ toClose' = toClose - 1
    /\ UNCHANGED <<generation, frames, sock, busVars, redisVars, history>>

-----------------------------------------------------------------------------

Task(s) ==
    \/ Subscribe(s)
    \/ SendSubscribe(s)
    \/ Accept(s)
    \/ Leave(s)
    \/ Cleanup(s)
    \/ SendFrame(s)

Next ==
    \/ \E s \in Sockets : Task(s)
    \/ \E s \in Sockets : \E token \in 0..MaxGeneration : Authenticate(s, token)
    \/ \E s \in Sockets : SubscribeFails(s)
    \/ \E s \in Sockets : Cancelled(s)
    \/ \E s \in Sockets : ClientEnds(s)
    \/ Drain
    \/ RedisReads
    \/ Dispatch
    \/ ConnectionLost
    \/ Reconnect
    \/ Push
    \/ KillTokens
    \/ PublishClose
    \/ CloseLost

Spec == Init /\ [][Next]_vars

\* The event loop runs every task that can run; Redis and the unit of work that
\* killed the tokens go on.
FairSpec ==
    /\ Spec
    /\ \A s \in Sockets : WF_vars(Task(s))
    /\ WF_vars(RedisReads)
    /\ WF_vars(Dispatch)
    /\ WF_vars(Reconnect)
    /\ WF_vars(PublishClose)

-----------------------------------------------------------------------------
(* Properties. *)

\* Every variable has its type; only a connection inside its handshake, its
\* loops or its cleanup is a sink.
TypeOK ==
    /\ generation \in 0..MaxGeneration /\ toClose \in 0..MaxGeneration
    /\ sock \in [Sockets -> [pc : {"new", "authed", "sending", "joining", "live", "cleanup", "closed"},
                             token : 0..MaxGeneration, queue : Seq(Nat), stop : BOOLEAN]]
    /\ joined \in {"none", "unset", "set"} /\ (joined = "none" <=> sinks = {})
    /\ \A s \in Sockets : Len(sock[s].queue) <= SEND_QUEUE_MAX
    /\ {wanted, up, held} \subseteq BOOLEAN
    /\ commands \in Seq({"SUBSCRIBE", "UNSUBSCRIBE"})
    /\ stream \in Seq({"confirm", "close", "frame"})

\* No sink outlives its socket, on any exit path: a refused, failed, cancelled or
\* ended connection leaves nothing behind that frames would still be queued to,
\* and a running one is a sink.
SinksAreSockets ==
    \A s \in Sockets :
        s \in sinks <=> sock[s].pc \in {"sending", "joining", "live", "cleanup"}

\* A subscription nobody needs is given up: once Redis has read every command,
\* it holds one only for a topic that has a sink, whatever failed or was lost.
NoIdleSubscription ==
    (up /\ commands = <<>> /\ held) => sinks # {}

\* However a handshake or a connection ends, it leaves behind neither a sink without a socket nor
\* a subscription without a sink (serve, unsubscribe).
NothingLeftBehind == SinksAreSockets /\ NoIdleSubscription

\* A confirmed topic is subscribed once Redis has read every command, although
\* sinks come and go while commands and confirmations are under way and the
\* connection is lost and restored.  (As long as no handshake was cut short.)
ConfirmedIsSubscribed ==
    (up /\ commands = <<>> /\ joined = "set" /\ faults.failures = 0
        /\ ~\E s \in Sockets : At(s, "sending")) => held

\* What a socket has written or still holds, oldest first.
Kept(s) == wrote[s] \o sock[s].queue

\* A socket writes the frames of its device in the order they came, none twice,
\* and without a gap as long as it is not being closed.
FramesInOrder ==
    \A s \in Sockets :
        /\ \A i, j \in 1..Len(Kept(s)) : i < j => Kept(s)[i] < Kept(s)[j]
        /\ \A i \in 1..Len(Kept(s)) : Kept(s)[i] \in 1..seen[s]
        /\ ~sock[s].stop => Len(Kept(s)) = seen[s]

\* A connection that held its subscription when its token died is closed, unless
\* a publication failed or a subscription was dropped: nothing sends a CLOSE twice.
OwedIsClosed ==
    \A s \in Sockets :
        s \in owed ~> (At(s, "closed") \/ faults # [drops |-> 0, failures |-> 0])

\* What the handshake's comments say: the topic is subscribed before the device
\* row is read, so that no socket outlives its own token.
NoSocketOutlivesToken ==
    \A s \in Live : sock[s].token < generation =>
        sock[s].stop \/ toClose > 0 \/ \E i \in DOMAIN stream : stream[i] = "close"
=============================================================================
