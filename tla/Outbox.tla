------------------------------- MODULE Outbox -------------------------------
(***************************************************************************)
(* The sending half of the client's durable sync engine, composed with the *)
(* server mailbox.  A message is committed locally (the echo) and owes its *)
(* fan-out; the engine resolves the peer's live devices, seals one copy    *)
(* for each of them, and sends the sealed rows in batches until each is     *)
(* accepted, stale or permanently failed.  Joining a call routes the room's *)
(* own payloads through the same fan-out, outside the engine's cycle.       *)
(*                                                                         *)
(* A local database transaction is one step and so is a request as the      *)
(* server serves it; whatever the code awaits between them interleaves.     *)
(* A request the client gave up on may still be served, or never.          *)
(***************************************************************************)
EXTENDS Mailbox

CONSTANTS
    Enrolled,         \* devices of the peer that exist from the start
    Messages,         \* operation ids of the user's messages, numbers
    Payloads,         \* operation ids of room payloads, numbers
    TargetsPerBatch,  \* targets of one request (256 in the code)
    MaxLost,          \* bound: requests that fail or time out
    MaxRefused,       \* bound: requests refused on their contents
    MaxCrashes,       \* bound: process deaths
    MaxGoes,          \* bound: revocations and deactivations of the peer
    MaxRearms         \* bound: times the user retries a failed message

Operations == Messages \cup Payloads

ASSUME SenderAssumption ==
    /\ Operations \subseteq Nat
    /\ Messages \cap Payloads = {}
    /\ Devices \subseteq Nat
    /\ IsFiniteSet(Devices)
    /\ Enrolled \subseteq Devices
    /\ TargetsPerBatch \in Nat \ {0}
    /\ {MaxLost, MaxRefused, MaxCrashes, MaxGoes, MaxRearms} \subseteq Nat

VARIABLES
    listed,     \* devices of the peer that registered
    echo,       \* operations with a local application record
    prep,       \* pending_send_preparations, by message
    outbox,     \* outbox_operations: for each operation its target rows
    status,     \* messages.status, by message
    session,    \* pairwise_sessions, by remote device
    alternate,  \* pairwise_session_alternates: session ids, by remote device
    refresh,    \* devices with a stale-device refresh request
    stage,      \* the stage of the engine's run
    job,        \* the fan-out each actor is running
    wire,       \* the request the engine waits for
    late,       \* requests the client gave up on, not served yet
    spent,      \* what the bounds count, and session ids issued so far
    sent,       \* devices whose copy the server wrote        (for the properties)
    gone        \* rows whose device was not live at some time since they were
                \* queued, or is missing from a list that the other fan-out
                \* still held when they were queued           (for the properties)

localVars == <<echo, prep, outbox, status, session, alternate, refresh>>
runVars == <<stage, job, wire, late, spent>>
ghostVars == <<sent, gone>>
serverVars == <<vars, listed>>
outboxVars == <<serverVars, localVars, runVars, ghostVars>>

-----------------------------------------------------------------------------
(* State. *)

\* The sync engine, and the room dispatcher of a call being joined.
Actors == {"engine", "room"}

\* retryDue is a row in retryWait whose due time has come.
Pending == {"queued", "sending", "retryWait", "retryDue"}

AttemptStates == Pending \cup {"accepted", "stale", "permanentlyFailed"}

NoSession == [id |-> 0, version |-> 0]

NoJob == [pc |-> "idle", op |-> 0, live |-> {}, read |-> [d \in Devices |-> NoSession]]

Quiet == [pc |-> "none", op |-> 0, targets |-> {}, stale |-> {}, full |-> {}]

LiveDevices == {d \in listed : Live(d)}

OutboxInit ==
    /\ Init
    /\ listed = Enrolled
    /\ echo = {}
    /\ prep = [m \in Messages |-> "none"]
    /\ outbox = [op \in Operations |-> << >>]
    /\ status = [m \in Messages |-> "none"]
    /\ session = [d \in Devices |-> NoSession]
    /\ alternate = [d \in Devices |-> 0]
    /\ refresh = {}
    /\ stage = "prepare"
    /\ job = [a \in Actors |-> NoJob]
    /\ wire = Quiet
    /\ late = {}
    /\ spent = [lost |-> 0, refused |-> 0, crashes |-> 0, goes |-> 0, rearms |-> 0, ids |-> 0]
    /\ sent = [op \in Operations |-> {}]
    /\ gone = {}

InState(rows, sts) == {d \in DOMAIN rows : rows[d].state \in sts}

\* The rows with those of S moved to state st.
Moved(rows, S, st) ==
    [d \in DOMAIN rows |-> IF d \in S THEN [rows[d] EXCEPT !.state = st] ELSE rows[d]]

\* Mutant: one accepted copy is enough.
DerivedEagerly(rows, p) ==
    IF rows = << >> THEN IF p = "failed" THEN "permanentlyFailed" ELSE "preparing"
    ELSE IF InState(rows, {"accepted"}) # {} THEN "relayAccepted"
    ELSE IF InState(rows, Pending) # {} THEN "queued" ELSE "permanentlyFailed"

\* _deriveTransportState
Derived(rows, p) ==
    LET accepted == InState(rows, {"accepted"}) # {}
        pending == InState(rows, Pending) # {}
    IN  CASE rows = << >> /\ p = "none" -> "localOnly"
          [] rows = << >> /\ p \in {"owed", "waiting"} -> "preparing"
          [] rows = << >> /\ p = "failed" -> "permanentlyFailed"
          [] pending /\ accepted -> "partiallyAccepted"
          [] pending /\ ~accepted ->
                IF InState(rows, {"sending"}) # {} THEN "sending" ELSE "queued"
          [] rows # << >> /\ ~pending
                /\ (~accepted \/ InState(rows, {"permanentlyFailed"}) # {}) ->
                "permanentlyFailed"
          [] OTHER -> "relayAccepted"

\* refreshTransportForEventInsideTransaction; a room payload has no message.
Refreshed(op) ==
    status' = IF op \in Messages
              THEN [status EXCEPT ![op] = Derived(outbox'[op], prep'[op])] ELSE status

-----------------------------------------------------------------------------
(* The local echo, and the fan-out of pairwise_fanout_coordinator.dart. *)

CommitLocalEcho(m) ==
    /\ m \notin echo
    /\ echo' = echo \cup {m}
    /\ prep' = [prep EXCEPT ![m] = "owed"]
    /\ UNCHANGED outbox
    /\ Refreshed(m)
    /\ UNCHANGED <<serverVars, session, alternate, refresh, runVars, ghostVars>>

\* The engine takes an owed message; a call joined takes a payload that has no
\* operation record yet.
MayPrepare(a, op) ==
    /\ job[a] = NoJob
    /\ \/ a = "engine" /\ stage \in {"prepare", "prepare2"}
                       /\ op \in Messages /\ prep[op] = "owed"
       \/ a = "room" /\ op \in Payloads \ echo

\* A settled cause retires the message; the payload of a room stays owed.
Retire(a, op) ==
    /\ prep' = IF a = "engine" THEN [prep EXCEPT ![op] = "failed"] ELSE prep
    /\ UNCHANGED outbox
    /\ Refreshed(op)

Resolve(a, op) ==
    /\ MayPrepare(a, op)
    /\ IF LiveDevices = {}
       THEN Retire(a, op) /\ UNCHANGED job
       ELSE /\ job' = [job EXCEPT ![a] =
                        [NoJob EXCEPT !.pc = "resolved", !.op = op, !.live = LiveDevices]]
            /\ UNCHANGED <<prep, outbox, status>>
    /\ UNCHANGED <<serverVars, echo, session, alternate, refresh, stage, wire, late,
                   spent, ghostVars>>

\* The network fails under the fan-out, at whichever of its requests; the run
\* flushes once more.
PrepareFails(a) ==
    /\ job[a].pc \in {"resolved", "read"}
    /\ spent.lost < MaxLost
    /\ spent' = [spent EXCEPT !.lost = @ + 1]
    /\ prep' = IF a = "engine" THEN [prep EXCEPT ![job[a].op] = "waiting"] ELSE prep
    /\ job' = [job EXCEPT ![a] = NoJob]
    /\ stage' = IF a = "engine" THEN "flush2" ELSE stage
    /\ UNCHANGED <<serverVars, echo, outbox, status, session, alternate, refresh, wire,
                   late, ghostVars>>

\* reconcileRemoteLiveDevices: devices with a session or an unsettled row that
\* the resolved list does not name lose both.  No message is refreshed.
Invalidated(live) ==
    {d \in Devices \ live :
        \/ session[d] # NoSession
        \/ alternate[d] # 0
        \/ \E op \in Operations : d \in InState(outbox[op], Pending)}

\* The sessions of the devices of S are deleted.
Forget(S) ==
    /\ session' = [d \in Devices |-> IF d \in S THEN NoSession ELSE session[d]]
    /\ alternate' = [d \in Devices |-> IF d \in S THEN 0 ELSE alternate[d]]

Reconcile(a) ==
    LET lost == Invalidated(job[a].live) IN
    /\ job[a].pc = "resolved"
    /\ Forget(lost)
    /\ outbox' = [op \in Operations |->
            Moved(outbox[op], lost \cap InState(outbox[op], Pending), "stale")]
    /\ job' = [job EXCEPT ![a].pc = "reconciled"]
    /\ UNCHANGED <<serverVars, echo, prep, status, refresh, stage, wire, late, spent,
                   sent, gone>>

ReadContexts(a) ==
    /\ job[a].pc = "reconciled"
    /\ job' = [job EXCEPT ![a].pc = "read", ![a].read = session]
    /\ UNCHANGED <<serverVars, localVars, stage, wire, late, spent, ghostVars>>

RequiresClaim(a) == \E d \in job[a].live : job[a].read[d] = NoSession

\* The claim is refused unless the server still lists exactly the devices that
\* were resolved.
Claim(a) ==
    /\ job[a].pc = "read"
    /\ RequiresClaim(a)
    /\ IF LiveDevices = job[a].live
       THEN job' = [job EXCEPT ![a].pc = "claimed"] /\ UNCHANGED <<prep, outbox, status>>
       ELSE job' = [job EXCEPT ![a] = NoJob] /\ Retire(a, job[a].op)
    /\ UNCHANGED <<serverVars, echo, session, alternate, refresh, stage, wire, late,
                   spent, ghostVars>>

\* _applySessionTransition refuses the update of a session that moved or became
\* the alternate, and a new session where an alternate is already kept.
Conflict(a) ==
    \E d \in job[a].live :
        \/ job[a].read[d] # NoSession /\ job[a].read[d].version # session[d].version
        \/ job[a].read[d] # NoSession /\ job[a].read[d].id = alternate[d]
        \/ job[a].read[d] = NoSession /\ session[d] # NoSession /\ alternate[d] # 0

\* The id of the session a claim starts with the device.
NewId(a, d) ==
    spent.ids + Cardinality({e \in job[a].live : e <= d /\ job[a].read[e] = NoSession})

BatchIndex(targets, d) == Cardinality({e \in targets : e < d}) \div TargetsPerBatch

\* The devices of live that a list held by another fan-out does not name yet.
Overlooked(a, live) ==
    {d \in live : \E b \in Actors \ {a} : job[b].pc = "resolved" /\ d \notin job[b].live}

\* The sealed rows, the session steps and the end of the preparation.
Seal(a) ==
    LET op == job[a].op
        live == job[a].live
        read == job[a].read
    IN  /\ session' = [d \in Devices |->
              IF d \notin live THEN session[d]
              ELSE IF read[d] = NoSession THEN [id |-> NewId(a, d), version |-> 1]
              ELSE [read[d] EXCEPT !.version = @ + 1]]
        /\ alternate' = [d \in Devices |->
              IF d \notin live THEN alternate[d]
              ELSE IF read[d] # NoSession THEN 0
              ELSE IF session[d] # NoSession THEN session[d].id ELSE alternate[d]]
        /\ outbox' = [outbox EXCEPT ![op] =
              [d \in live |-> [state |-> "queued", batch |-> BatchIndex(live, d)]]]
        /\ echo' = echo \cup {op}
        /\ spent' = [spent EXCEPT !.ids =
              @ + Cardinality({d \in live : read[d] = NoSession})]
        /\ gone' = gone \cup
              {<<op, d>> : d \in (live \ LiveDevices) \cup Overlooked(a, live)}

\* Mutant: the preparation row is left for a later transaction.
CommitPreparedSendUnsettled(a) ==
    /\ job[a].pc = "claimed" \/ (job[a].pc = "read" /\ ~RequiresClaim(a))
    /\ job' = [job EXCEPT ![a] = NoJob]
    /\ IF Conflict(a)
       THEN /\ Retire(a, job[a].op)
            /\ UNCHANGED <<echo, session, alternate, spent, gone>>
       ELSE /\ Seal(a)
            /\ UNCHANGED prep
            /\ Refreshed(job[a].op)
    /\ UNCHANGED <<serverVars, refresh, stage, wire, late, sent>>

CommitPreparedSend(a) ==
    /\ job[a].pc = "claimed" \/ (job[a].pc = "read" /\ ~RequiresClaim(a))
    /\ job' = [job EXCEPT ![a] = NoJob]
    /\ IF Conflict(a)
       THEN /\ Retire(a, job[a].op)
            /\ UNCHANGED <<echo, session, alternate, spent, gone>>
       ELSE /\ Seal(a)
            /\ prep' = IF a = "engine" THEN [prep EXCEPT ![job[a].op] = "none"] ELSE prep
            /\ Refreshed(job[a].op)
    /\ UNCHANGED <<serverVars, refresh, stage, wire, late, sent>>

-----------------------------------------------------------------------------
(* The outbox: _flushOutbox and drift_sync_store.dart. *)

\* A run prepares and flushes twice; a failure ends the flush and the second
\* pass with it.
EndPrepare ==
    /\ stage \in {"prepare", "prepare2"}
    /\ job["engine"] = NoJob
    /\ \A m \in Messages : prep[m] # "owed"
    /\ stage' = IF stage = "prepare" THEN "flush" ELSE "flush2"
    /\ UNCHANGED <<serverVars, localVars, job, wire, late, spent, ghostVars>>

\* Mutant: a row left in sending by a dead process is not picked up again.
CandidatesFresh(op) == InState(outbox[op], {"queued", "retryDue"})

\* Rows left in sending by a dead process go first, then whatever is due.
Candidates(op) ==
    IF \E o \in Operations : InState(outbox[o], {"sending"}) # {}
    THEN InState(outbox[op], {"sending"})
    ELSE InState(outbox[op], {"queued", "retryDue"})

DueOperations == {op \in Operations : Candidates(op) # {}}

\* Mutant: the batch carries all rows of its operation, settled ones included.
NextBatchWhole(op) == DOMAIN outbox[op]

\* The due rows of the batch of the operation's first candidate.
NextBatch(op) ==
    {d \in InState(outbox[op], {"queued", "sending", "retryDue"}) :
        outbox[op][d].batch = Min({outbox[op][c].batch : c \in Candidates(op)})}

BeginBatch ==
    /\ stage \in {"flush", "flush2"}
    /\ wire = Quiet
    /\ \E op \in DueOperations :
        /\ \A other \in DueOperations : op <= other
        /\ outbox' = [outbox EXCEPT ![op] = Moved(@, NextBatch(op), "sending")]
        /\ wire' = [Quiet EXCEPT !.pc = "asked", !.op = op, !.targets = NextBatch(op)]
        /\ UNCHANGED prep
        /\ Refreshed(op)
    /\ UNCHANGED <<serverVars, echo, session, alternate, refresh, stage, job, late,
                   spent, ghostVars>>

EndFlush ==
    /\ stage \in {"flush", "flush2"}
    /\ wire = Quiet
    /\ DueOperations = {}
    /\ stage' = IF stage = "flush" THEN "prepare2" ELSE "refresh"
    /\ UNCHANGED <<serverVars, localVars, job, wire, late, spent, ghostVars>>

\* One copy of one byte for each target, as messaging/services.py serves it.
CopiesFor(targets) == [d \in Devices |-> IF d \in targets THEN <<1>> ELSE << >>]

Written(op, targets) ==
    sent' = [sent EXCEPT ![op] = @ \cup Accepting(CopiesFor(targets))]

Serve ==
    /\ wire.pc = "asked"
    /\ Send(CopiesFor(wire.targets))
    /\ Written(wire.op, wire.targets)
    /\ wire' = [wire EXCEPT !.pc = "answered",
                !.stale = wire.targets \ LiveDevices,
                !.full = Full(CopiesFor(wire.targets))]
    /\ UNCHANGED <<listed, localVars, stage, job, late, spent, gone>>

ServeLate(r) ==
    /\ Send(CopiesFor(r.targets))
    /\ Written(r.op, r.targets)
    /\ late' = late \ {r}
    /\ UNCHANGED <<listed, localVars, stage, job, wire, spent, gone>>

\* Mutant: a full mailbox counts as accepted.
AnswerForgetsFull(d) == IF d \in wire.stale THEN "stale" ELSE "accepted"

\* Mutant: a full mailbox counts as a device that is gone.
AnswerFullIsStale(d) == IF d \in wire.stale \cup wire.full THEN "stale" ELSE "accepted"

\* What the answer makes of the row of a target.
Answer(d) == IF d \in wire.stale THEN "stale"
             ELSE IF d \in wire.full THEN "retryWait" ELSE "accepted"

RecordAcceptance ==
    /\ wire.pc = "answered"
    /\ outbox' = [outbox EXCEPT ![wire.op] = [d \in DOMAIN @ |->
            IF d \in wire.targets THEN [@[d] EXCEPT !.state = Answer(d)] ELSE @[d]]]
    /\ Forget(wire.stale)
    /\ refresh' = refresh \cup wire.stale
    /\ wire' = Quiet
    /\ UNCHANGED prep
    /\ Refreshed(wire.op)
    /\ UNCHANGED <<serverVars, echo, stage, job, late, spent, sent, gone>>

\* The request, if the server has not served it yet, is still under way.
Abandoned ==
    IF wire.pc = "asked" THEN {[op |-> wire.op, targets |-> wire.targets]} ELSE {}

\* A failure the transport may recover from, or an answer that does not add up.
RecordRetry ==
    /\ wire.pc # "none"
    /\ spent.lost < MaxLost
    /\ spent' = [spent EXCEPT !.lost = @ + 1]
    /\ outbox' = [outbox EXCEPT ![wire.op] = Moved(@, wire.targets, "retryWait")]
    /\ late' = late \cup Abandoned
    /\ wire' = Quiet
    /\ stage' = "refresh"
    /\ UNCHANGED prep
    /\ Refreshed(wire.op)
    /\ UNCHANGED <<serverVars, echo, session, alternate, refresh, job, ghostVars>>

\* The server refuses the request on its contents: nothing was written.
RecordPermanentFailure ==
    /\ wire.pc = "asked"
    /\ spent.refused < MaxRefused
    /\ spent' = [spent EXCEPT !.refused = @ + 1]
    /\ outbox' = [outbox EXCEPT ![wire.op] = Moved(@, wire.targets, "permanentlyFailed")]
    /\ wire' = Quiet
    /\ UNCHANGED prep
    /\ Refreshed(wire.op)
    /\ UNCHANGED <<serverVars, echo, session, alternate, refresh, stage, job, late, ghostVars>>

\* _refreshStaleDevices: a refresh that fails is asked for again in a later run.
RefreshStaleDevices ==
    /\ stage = "refresh"
    /\ refresh' \in {{}, refresh}
    /\ stage' = "prepare"
    /\ UNCHANGED <<serverVars, echo, prep, outbox, status, session, alternate, job, wire,
                   late, spent, ghostVars>>

\* The user retries a failed message.
RearmFailedSend(m) ==
    /\ spent.rearms < MaxRearms
    /\ spent' = [spent EXCEPT !.rearms = @ + 1]
    /\ \/ /\ prep[m] = "failed"
          /\ prep' = [prep EXCEPT ![m] = "owed"]
          /\ UNCHANGED outbox
       \/ /\ prep[m] # "failed"
          /\ InState(outbox[m], {"permanentlyFailed"}) # {}
          /\ outbox' = [outbox EXCEPT ![m] =
                Moved(@, InState(@, {"permanentlyFailed"}), "queued")]
          /\ UNCHANGED prep
    /\ Refreshed(m)
    /\ UNCHANGED <<serverVars, echo, session, alternate, refresh, stage, job, wire, late,
                   ghostVars>>

\* The due time of a waiting row or preparation comes.
RowFallsDue(op, d) ==
    /\ d \in InState(outbox[op], {"retryWait"})
    /\ outbox' = [outbox EXCEPT ![op] = Moved(@, {d}, "retryDue")]
    /\ UNCHANGED <<serverVars, echo, prep, status, session, alternate, refresh, runVars, ghostVars>>

PreparationFallsDue(m) ==
    /\ prep[m] = "waiting"
    /\ prep' = [prep EXCEPT ![m] = "owed"]
    /\ UNCHANGED <<serverVars, echo, outbox, status, session, alternate, refresh, runVars, ghostVars>>

Crash ==
    /\ spent.crashes < MaxCrashes
    /\ spent' = [spent EXCEPT !.crashes = @ + 1]
    /\ stage' = "prepare"
    /\ job' = [a \in Actors |-> NoJob]
    /\ late' = late \cup Abandoned
    /\ wire' = Quiet
    /\ UNCHANGED <<serverVars, localVars, ghostVars>>

-----------------------------------------------------------------------------
(* The peer's devices, and the specification. *)

Rows(S) == {r \in Operations \X S : r[2] \in DOMAIN outbox[r[1]]}

\* devices/services.py: register_device.
Enrol(d) ==
    /\ d \notin listed
    /\ listed' = listed \cup {d}
    /\ UNCHANGED <<vars, localVars, runVars, ghostVars>>

Goes(S) ==
    /\ spent.goes < MaxGoes
    /\ spent' = [spent EXCEPT !.goes = @ + 1]
    /\ gone' = gone \cup Rows(S)
    /\ UNCHANGED <<listed, localVars, stage, job, wire, late, sent>>

DeviceGoes(d) == d \in listed /\ Revoke(d) /\ Goes({d})

\* accounts/admin.py: the peer's account is deactivated and activated again.
AccountGoes ==
    /\ inactive = {}
    /\ inactive' = Devices
    /\ Goes(Devices)
    /\ UNCHANGED <<queue_seq, queue_pruned_through, revoked, mailbox, today,
                   sweep, faults, history>>

AccountReturns ==
    /\ inactive # {}
    /\ inactive' = {}
    /\ UNCHANGED <<queue_seq, queue_pruned_through, revoked, mailbox, today,
                   sweep, faults, history, listed, localVars, runVars, ghostVars>>

\* The peer's device collects its post.
Collect(d) ==
    /\ mailbox[d] # {}
    /\ Ack(d, Seqs(mailbox[d]))
    /\ UNCHANGED <<listed, localVars, runVars, ghostVars>>

Prepare(a) ==
    \/ \E op \in Operations : Resolve(a, op)
    \/ Reconcile(a)
    \/ ReadContexts(a)
    \/ Claim(a)
    \/ CommitPreparedSend(a)

Flush == BeginBatch \/ EndFlush \/ RecordAcceptance

Engine == Prepare("engine") \/ EndPrepare \/ Flush \/ RefreshStaleDevices

FallsDue ==
    \/ \E op \in Operations, d \in Devices : RowFallsDue(op, d)
    \/ \E m \in Messages : PreparationFallsDue(m)

OutboxNext ==
    \/ \E m \in Messages : CommitLocalEcho(m)
    \/ Engine
    \/ Prepare("room")
    \/ \E a \in Actors : PrepareFails(a)
    \/ Serve
    \/ \E r \in late : ServeLate(r)
    \/ RecordRetry
    \/ RecordPermanentFailure
    \/ \E m \in Messages : RearmFailedSend(m)
    \/ FallsDue
    \/ Crash
    \/ \E d \in Devices : DeviceGoes(d)
    \/ AccountGoes
    \/ AccountReturns
    \/ \E d \in Devices : Enrol(d)
    \/ \E d \in Devices : Collect(d)

OutboxSpec == OutboxInit /\ [][OutboxNext]_outboxVars

\* The supervisor runs the engine while work is left, a request the server can
\* serve is served, due times come, and the peer's devices collect their post.
OutboxFairSpec ==
    /\ OutboxSpec
    /\ WF_outboxVars(Engine)
    /\ WF_outboxVars(Serve)
    /\ WF_outboxVars(FallsDue)
    /\ \A d \in Devices : WF_outboxVars(Collect(d))

-----------------------------------------------------------------------------
(* Properties. *)

\* A message the user sent is owed its fan-out or queued, never both and never
\* neither, whatever fails or dies between the echo and the sealed rows.
OwedOrQueued ==
    \A m \in echo \cap Messages : (prep[m] # "none") # (outbox[m] # << >>)

\* A row the client counts as accepted has a copy the server wrote, however
\* many attempts were lost, answered late or refused for lack of room.
AcceptedIsWritten ==
    \A op \in Operations : InState(outbox[op], {"accepted"}) \subseteq sent[op]

\* What the timeline shows as final is: a message shown as accepted by the relay
\* reached a device and owes nothing more, and one shown as failed has nothing
\* on the way that could still deliver it without the user.
FinalStatusIsTrue ==
    \A m \in Messages :
        /\ status[m] = "relayAccepted" =>
            /\ outbox[m] # << >> /\ sent[m] # {}
            /\ InState(outbox[m], Pending \cup {"permanentlyFailed"}) = {}
        /\ status[m] = "permanentlyFailed" =>
            prep[m] \notin {"owed", "waiting"} /\ InState(outbox[m], Pending) = {}
        /\ status[m] # "localOnly"

\* A row is given up as stale only if its device was not live at some moment
\* since the row was queued, or if the fan-out that gave it up had read a list
\* from before the device was on it: a full mailbox, a lost answer or a refusal
\* never costs a device its copy.
StaleWasGone ==
    \A op \in Operations : \A d \in InState(outbox[op], {"stale"}) : <<op, d>> \in gone

\* No row disappears, an accepted row is never sent again, and a row given up
\* as stale is touched once more only by the outcome of a request that already
\* carried it when the reconciliation gave it up.
SettledForGood ==
    [][\A op \in Operations : \A d \in DOMAIN outbox[op] :
        /\ d \in DOMAIN outbox'[op]
        /\ outbox[op][d].state = "accepted" => outbox'[op][d] = outbox[op][d]
        /\ outbox[op][d].state = "stale" =>
            \/ outbox'[op][d] = outbox[op][d]
            \/ op = wire.op /\ d \in wire.targets]_outboxVars

\* Every sealed row is settled, and every owed fan-out is sealed or given back
\* to the user, in spite of deaths, losses, full mailboxes and devices that go.
EverySendSettles ==
    /\ \A op \in Operations, d \in Devices :
        d \in InState(outbox[op], Pending) ~> d \notin InState(outbox[op], Pending)
    /\ \A m \in Messages :
        prep[m] \in {"owed", "waiting"} ~> prep[m] \in {"none", "failed"}

\* What local-data-model.md says of messages.status: it is updated on every
\* attempt transition, so it is the state its rows derive.
StatusIsDerived ==
    \A m \in echo \cap Messages : status[m] = Derived(outbox[m], prep[m])

\* What durable_sync_engine.dart says of a retired send: its cause is settled,
\* a peer with no device to encrypt to or a claim refused on its contents.
RetiredHasNoPeer ==
    [][\A m \in Messages :
        prep[m] # "failed" /\ prep'[m] = "failed" => LiveDevices = {}]_outboxVars
=============================================================================
