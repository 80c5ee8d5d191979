----------------------------- MODULE InboxSync -----------------------------
(***************************************************************************)
(* The receiving half of the client's durable sync engine, composed with   *)
(* the server mailbox: drain pages into the local inbox, inspect each       *)
(* envelope, acknowledge what has a durable outcome, and account for what   *)
(* the retention sweep removed before it was fetched.                      *)
(*                                                                         *)
(* A local database transaction is one step.  The process may die between   *)
(* any two of them; the database survives and the engine starts over.  The  *)
(* drain is the server's two reads (the device row at authentication, then  *)
(* the page) and the client's transaction.  An acknowledgement request may  *)
(* be served late, after the client gave it up, or never.                  *)
(***************************************************************************)
EXTENDS Mailbox, Functions

CONSTANTS
    me,                   \* the device this engine runs on
    Groups,               \* active groups of the device
    Outcomes,             \* inspection outcomes the run explores
    PageSize,             \* envelopes one drain page carries
    maximumInboxEntries,  \* rows the local inbox holds
    maximumHeld,          \* held rows (one claimed sender, one session)
    MaxCrashes,           \* bound: process deaths and failed local writes
    MaxLost,              \* bound: requests that fail or time out
    MaxRetries            \* bound: inspections put off

ASSUME ClientAssumption ==
    /\ me \in Devices
    /\ Outcomes \subseteq {"commit", "reject", "retry", "initial", "followUp"}
    /\ PageSize \in Nat \ {0}
    /\ maximumInboxEntries \in Nat
    /\ maximumHeld \in Nat \ {0}
    /\ {MaxCrashes, MaxLost, MaxRetries} \subseteq Nat

VARIABLES
    inbox,       \* local rows by sequence number
    contiguous,  \* checkpoint.highestContiguousAckedSequence
    prunedSeen,  \* checkpoint.prunedThrough
    gap,         \* checkpoint.queueGapState = recoveryRequired
    requests,    \* groups with an open queue-gap state request
    engine,      \* the run in progress
    wire,        \* acknowledgement requests not yet served
    budget,      \* crashes, lost requests and retries so far
    outcomes,    \* times an envelope reached its outcome (for the properties)
    told,        \* highest loss the client recorded     (for the properties)
    refused      \* a drain page broke a server invariant (for the properties)

checkpointVars == <<contiguous, prunedSeen, gap, requests>>
ghostVars == <<outcomes, told, refused>>
clientVars == <<inbox, checkpointVars, engine, wire, budget, ghostVars>>
syncVars == <<vars, clientVars>>

-----------------------------------------------------------------------------
(* State. *)

Received == [st |-> "received", held |-> "no", wait |-> FALSE]

States == {"received", "inspecting", "readyToAcknowledge",
           "acknowledgementSending", "acknowledged", "held"}

Resting == [pc |-> "idle", at |-> 0, handled |-> {}, batch |-> {},
            seen |-> 0, rows |-> {}, more |-> "first", moved |-> FALSE]

\* The inbox with the rows of S rewritten by Op.
With(ib, S, Op(_)) == [s \in DOMAIN ib |-> IF s \in S THEN Op(ib[s]) ELSE ib[s]]

InState(ib, sts) == {s \in DOMAIN ib : ib[s].st \in sts}

Due(sts) == {s \in InState(inbox, sts) : ~inbox[s].wait}

Marked(ib) == {s \in DOMAIN ib : ib[s].held # "no"}

SyncInit ==
    /\ Init
    /\ inbox = << >>
    /\ contiguous = 0
    /\ prunedSeen = 0
    /\ gap = FALSE
    /\ requests = {}
    /\ engine = Resting
    /\ wire = {}
    /\ budget = [crashes |-> 0, lost |-> 0, retries |-> 0]
    /\ outcomes = [s \in 1..MaxSeq |-> 0]
    /\ told = 0
    /\ refused = FALSE

Reached(S) == outcomes' = [s \in 1..MaxSeq |-> outcomes[s] + IF s \in S THEN 1 ELSE 0]

-----------------------------------------------------------------------------
(* The checkpoint: contiguity walk and queue gap. *)

\* Mutant: a hole does not stop the walk.
WalkOverHoles(from, ib) ==
    Max({from} \cup InState(ib, {"acknowledged", "held"}))

\* The end of the unbroken run of acknowledged and held rows above `from`.
Walk(from, ib) ==
    Max({from} \cup {n \in DOMAIN ib :
            \A k \in (from + 1)..n : k \in InState(ib, {"acknowledged", "held"})})

\* Acknowledged rows at or below the baseline leave the inbox.
Trim(ib, upTo) ==
    Restrict(ib, {s \in DOMAIN ib : ~(ib[s].st = "acknowledged" /\ s <= upTo)})

\* Mutant: the baseline moves through the watermark at once.
SettleGapAtOnce(ib, open, watermark) ==
    LET base == Walk(Greatest(watermark, contiguous), ib)
    IN  [contiguous |-> base, gap |-> open # {}, inbox |-> Trim(ib, base)]

\* _acknowledgeSettledQueueGapInsideTransaction: what a transaction leaves of
\* the checkpoint and of the rows `ib` when `open` requests are left.  With none,
\* the gap closes and the baseline moves through the watermark.
SettleGap(ib, open, watermark) ==
    LET base == IF open = {} THEN Walk(Greatest(watermark, contiguous), ib)
                             ELSE contiguous
    IN  [contiguous |-> base, gap |-> open # {},
         inbox |-> IF open = {} THEN Trim(ib, base) ELSE ib]

-----------------------------------------------------------------------------
(* Held rows. *)

\* Its server copy is gone already: the commit itself acknowledges a released
\* row.  Any other row waits for its acknowledgement.
CommittedRow(r) ==
    [st |-> IF r.held = "no" THEN "readyToAcknowledge" ELSE "acknowledged",
     held |-> "no", wait |-> FALSE]

\* Mutant: the hold stays on a retired row.
RetiredRowMarked(r) ==
    IF r.st \in {"readyToAcknowledge", "acknowledgementSending"} THEN r
    ELSE [r EXCEPT !.st = "acknowledged", !.wait = FALSE]

\* A row whose acknowledgement is still owed keeps it and loses its hold.
RetiredRow(r) ==
    IF r.st \in {"readyToAcknowledge", "acknowledgementSending"}
    THEN [r EXCEPT !.held = "no"]
    ELSE [st |-> "acknowledged", held |-> "no", wait |-> FALSE]

\* A retired initial takes every follow-up of its session with it.
Retired(ib, S) ==
    S \cup IF \E s \in S : ib[s].held = "initial"
           THEN {s \in DOMAIN ib : ib[s].held = "followUp"} ELSE {}

OneInitial(ib) == Cardinality({s \in DOMAIN ib : ib[s].held = "initial"}) = 1

\* The rows the limit takes to make room for one more: the oldest held row.
Evicted(ib) ==
    IF Cardinality(Marked(ib)) < maximumHeld THEN {}
    ELSE Retired(ib, {s \in Marked(ib) : \A k \in Marked(ib) : s <= k})

\* recordEnvelopeHold of row s: the inbox it leaves, and the rows that reach
\* their outcome (quarantined) by it.
Hold(s, kind) ==
    LET orphan == kind = "followUp" /\ ~OneInitial(inbox)
        evicted == Evicted(inbox)
        room == With(inbox, evicted, RetiredRow)
        orphaned == kind = "followUp" /\ ~OneInitial(room)
        ready == [st |-> "readyToAcknowledge", held |-> "no", wait |-> FALSE]
    IN  CASE inbox[s].held # "no" ->
                [rows |-> [inbox EXCEPT ![s] = [st |-> "held", held |-> kind, wait |-> FALSE]],
                 out |-> {}]
          [] inbox[s].held = "no" /\ orphan ->
                [rows |-> [inbox EXCEPT ![s] = ready], out |-> {s}]
          [] inbox[s].held = "no" /\ ~orphan /\ orphaned ->
                [rows |-> [room EXCEPT ![s] = ready], out |-> evicted \cup {s}]
          [] inbox[s].held = "no" /\ ~orphan /\ ~orphaned ->
                [rows |-> [room EXCEPT ![s] = [ready EXCEPT !.held = kind]], out |-> evicted]

\* expireHeldEnvelopes at the start of a run; a row that an expired initial took
\* along is not retired twice.
StartRun(expired) ==
    /\ engine.pc = "idle"
    /\ expired \subseteq Marked(inbox)
    /\ inbox' = With(inbox, Retired(inbox, expired), RetiredRow)
    /\ Reached(Retired(inbox, expired))
    /\ engine' = [Resting EXCEPT !.pc = "inbox"]
    /\ UNCHANGED <<vars, checkpointVars, wire, budget, told, refused>>

\* Mutant: every row of the sender is released, acknowledged or not.
ReleaseMarked ==
    /\ Marked(inbox) # {}
    /\ engine.pc = "idle"
    /\ inbox' = With(inbox, Marked(inbox),
                     LAMBDA r : [r EXCEPT !.st = "received", !.wait = FALSE])
    /\ UNCHANGED <<vars, checkpointVars, engine, wire, budget, ghostVars>>

\* The sender was verified: by the verification itself or by the sweep of a run.
ReleaseHeld ==
    /\ InState(inbox, {"held"}) # {}
    /\ inbox' = With(inbox, InState(inbox, {"held"}),
                     LAMBDA r : [r EXCEPT !.st = "received", !.wait = FALSE])
    /\ UNCHANGED <<vars, checkpointVars, engine, wire, budget, ghostVars>>

-----------------------------------------------------------------------------
(* _processInbox. *)

\* Mutant: a row left `inspecting` by a process that died is not taken up.
InspectableFresh == Due({"received"})

Inspectable == Due({"received", "inspecting"})

\* The lowest due row becomes `inspecting`; one this pass has had ends it.
BeginInspection ==
    /\ engine.pc = "inbox"
    /\ \E s \in Inspectable :
        /\ \A k \in Inspectable : s <= k
        /\ inbox' = [inbox EXCEPT ![s].st = "inspecting"]
        /\ engine' = IF s \in engine.handled
                     THEN [engine EXCEPT !.pc = "acks", !.handled = {}]
                     ELSE [engine EXCEPT !.pc = "inspect", !.at = s, !.handled = @ \cup {s}]
    /\ UNCHANGED <<vars, checkpointVars, wire, budget, ghostVars>>

EndInspections ==
    /\ engine.pc = "inbox"
    /\ Inspectable = {}
    /\ engine' = [engine EXCEPT !.pc = "acks", !.handled = {}]
    /\ UNCHANGED <<vars, inbox, checkpointVars, wire, budget, ghostVars>>

\* The content is applied, the row moves on and, when the envelope carried the
\* state a group asked for, the request is retired: one transaction.
CommitInspection(answered) ==
    LET s == engine.at
        settled == IF answered = {} THEN [contiguous |-> contiguous, gap |-> gap, inbox |-> inbox]
                   ELSE SettleGap(inbox, requests \ answered, prunedSeen)
    IN
    /\ engine.pc = "inspect"
    /\ "commit" \in Outcomes
    /\ answered \subseteq requests
    /\ requests' = requests \ answered
    /\ contiguous' = settled.contiguous
    /\ gap' = settled.gap
    /\ inbox' = [settled.inbox EXCEPT ![s] = CommittedRow(@)]
    /\ Reached({s})
    /\ engine' = [engine EXCEPT !.pc = "inbox", !.at = 0, !.moved = TRUE]
    /\ UNCHANGED <<vars, prunedSeen, wire, budget, told, refused>>

\* Put off: due again later.
RetryInspection ==
    /\ engine.pc = "inspect"
    /\ "retry" \in Outcomes
    /\ budget.retries < MaxRetries
    /\ budget' = [budget EXCEPT !.retries = @ + 1]
    /\ inbox' = [inbox EXCEPT ![engine.at].st = "received", ![engine.at].wait = TRUE]
    /\ engine' = [engine EXCEPT !.pc = "inbox", !.at = 0]
    /\ UNCHANGED <<vars, checkpointVars, wire, ghostVars>>

\* Quarantined; a released row is retired with its follow-ups.
RejectInspection ==
    LET s == engine.at
        gone == IF inbox[s].held = "no" THEN {} ELSE Retired(inbox, {s})
    IN
    /\ engine.pc = "inspect"
    /\ "reject" \in Outcomes
    /\ inbox' = IF gone # {} THEN With(inbox, gone, RetiredRow)
                ELSE [inbox EXCEPT ![s] = CommittedRow(@)]
    /\ Reached({s} \cup gone)
    /\ engine' = [engine EXCEPT !.pc = "inbox", !.at = 0]
    /\ UNCHANGED <<vars, checkpointVars, wire, budget, told, refused>>

HoldInspection(kind) ==
    /\ engine.pc = "inspect"
    /\ kind \in Outcomes
    /\ inbox' = Hold(engine.at, kind).rows
    /\ Reached(Hold(engine.at, kind).out)
    /\ engine' = [engine EXCEPT !.pc = "inbox", !.at = 0]
    /\ UNCHANGED <<vars, checkpointVars, wire, budget, told, refused>>

\* The retry time of a row passes.
RetryFallsDue(s) ==
    /\ s \in DOMAIN inbox
    /\ inbox[s].wait
    /\ inbox' = [inbox EXCEPT ![s].wait = FALSE]
    /\ UNCHANGED <<vars, checkpointVars, engine, wire, budget, ghostVars>>

-----------------------------------------------------------------------------
(* _flushAcknowledgements. *)

\* Interrupted batches first, then the rows that are ready.
AckRows ==
    IF Due({"acknowledgementSending"}) # {} THEN Due({"acknowledgementSending"})
                                            ELSE Due({"readyToAcknowledge"})

BeginAck ==
    /\ engine.pc = "acks"
    /\ AckRows # {}
    /\ inbox' = With(inbox, AckRows, LAMBDA r : [r EXCEPT !.st = "acknowledgementSending"])
    /\ wire' = wire \cup {AckRows}
    /\ engine' = [engine EXCEPT !.pc = "acking", !.batch = AckRows]
    /\ UNCHANGED <<vars, checkpointVars, budget, ghostVars>>

\* The server deletes the rows and answers whoever still waits.
ServeAck(ids) ==
    /\ ids \in wire
    /\ Ack(me, ids)
    /\ wire' = wire \ {ids}
    /\ engine' = IF engine.pc = "acking" /\ engine.batch = ids
                 THEN [engine EXCEPT !.pc = "acked"] ELSE engine
    /\ UNCHANGED <<inbox, checkpointVars, budget, ghostVars>>

\* Mutant: a row loses its hold when it is acknowledged.
AcknowledgedForgetsHold(r) ==
    [st |-> "acknowledged", held |-> "no", wait |-> FALSE]

\* A held row survives its acknowledgement.
AcknowledgedRow(r) ==
    [r EXCEPT !.st = IF r.held = "no" THEN "acknowledged" ELSE "held", !.wait = FALSE]

AckSuccess ==
    LET ib == With(inbox, engine.batch, AcknowledgedRow) IN
    /\ engine.pc = "acked"
    /\ contiguous' = Walk(contiguous, ib)
    /\ inbox' = Trim(ib, contiguous')
    /\ engine' = [engine EXCEPT !.pc = "acks", !.batch = {}, !.moved = TRUE]
    /\ UNCHANGED <<vars, prunedSeen, gap, requests, wire, budget, ghostVars>>

\* The request failed, or its answer did not come back.
AckFailure ==
    /\ engine.pc \in {"acking", "acked"}
    /\ budget.lost < MaxLost
    /\ budget' = [budget EXCEPT !.lost = @ + 1]
    /\ inbox' = With(inbox, engine.batch,
                     LAMBDA r : [r EXCEPT !.st = "readyToAcknowledge", !.wait = TRUE])
    /\ engine' = [engine EXCEPT !.pc = "ackless", !.batch = {}]
    /\ UNCHANGED <<vars, checkpointVars, wire, ghostVars>>

\* The flush is over: drain the first page, go on while pages are left and
\* this one moved something, or end the run.
EndAcks ==
    /\ \/ engine.pc = "acks" /\ AckRows = {}
       \/ engine.pc = "ackless"
    /\ engine' = IF engine.more = "first" \/ (engine.more = "yes" /\ engine.moved)
                 THEN [Resting EXCEPT !.pc = "drain", !.more = engine.more]
                 ELSE Resting
    /\ UNCHANGED <<vars, inbox, checkpointVars, wire, budget, ghostVars>>

-----------------------------------------------------------------------------
(* _drainPages: GET /me/envelopes and persistDrainPage. *)

\* The principal's device row, watermark included, is read at authentication.
DrainAuthenticate ==
    /\ engine.pc = "drain"
    /\ engine' = [engine EXCEPT !.pc = "authed", !.seen = queue_pruned_through[me]]
    /\ UNCHANGED <<vars, inbox, checkpointVars, wire, budget, ghostVars>>

\* The page: the lowest sequence numbers, one row more tells has_more.
DrainRead ==
    LET all == Seqs(mailbox[me])
        page == {s \in all : Cardinality({k \in all : k < s}) < PageSize}
    IN
    /\ engine.pc = "authed"
    /\ engine' = [engine EXCEPT !.pc = "page", !.rows = page,
                                !.more = IF page = all THEN "no" ELSE "yes"]
    /\ UNCHANGED <<vars, inbox, checkpointVars, wire, budget, ghostVars>>

Fresh == {s \in engine.rows : s > contiguous} \ DOMAIN inbox

PageRefused == engine.seen < prunedSeen

NoRoom == Fresh # {} /\ Cardinality(DOMAIN inbox) + Cardinality(Fresh) > maximumInboxEntries

\* The rows, the watermark and the gap it opens: one transaction.
PersistPage ==
    LET ib == [s \in Fresh \cup DOMAIN inbox |-> IF s \in Fresh THEN Received ELSE inbox[s]]
        lost == contiguous < engine.seen
        settled == SettleGap(ib, Groups, engine.seen)
    IN
    /\ engine.pc = "page"
    /\ ~PageRefused
    /\ ~NoRoom
    /\ prunedSeen' = engine.seen
    /\ contiguous' = IF lost THEN settled.contiguous ELSE contiguous
    /\ inbox' = IF lost THEN settled.inbox ELSE ib
    /\ gap' = IF lost THEN settled.gap ELSE gap
    /\ requests' = IF lost THEN Groups ELSE requests
    /\ told' = IF lost THEN Greatest(told, engine.seen) ELSE told
    /\ engine' = [engine EXCEPT !.pc = "inbox", !.seen = 0, !.rows = {}]
    /\ UNCHANGED <<vars, wire, budget, outcomes, refused>>

\* A page that breaks a server invariant, or for which the inbox has no room,
\* ends the run and leaves the database alone.
RefusePage ==
    /\ engine.pc = "page"
    /\ PageRefused \/ NoRoom
    /\ refused' = (refused \/ PageRefused)
    /\ engine' = Resting
    /\ UNCHANGED <<vars, inbox, checkpointVars, wire, budget, outcomes, told>>

DrainFailure ==
    /\ engine.pc \in {"drain", "authed", "page"}
    /\ budget.lost < MaxLost
    /\ budget' = [budget EXCEPT !.lost = @ + 1]
    /\ engine' = Resting
    /\ UNCHANGED <<vars, inbox, checkpointVars, wire, ghostVars>>

\* The process dies, or a local write fails and ends the run.
Crash ==
    /\ engine.pc # "idle"
    /\ budget.crashes < MaxCrashes
    /\ budget' = [budget EXCEPT !.crashes = @ + 1]
    /\ engine' = Resting
    /\ UNCHANGED <<vars, inbox, checkpointVars, wire, ghostVars>>

-----------------------------------------------------------------------------

Inspect ==
    \/ BeginInspection
    \/ EndInspections
    \/ \E g \in {{}} \cup {{x} : x \in requests} : CommitInspection(g)
    \/ RetryInspection
    \/ RejectInspection
    \/ \E kind \in {"initial", "followUp"} : HoldInspection(kind)

Engine ==
    \/ \E expired \in SUBSET Marked(inbox) : StartRun(expired)
    \/ Inspect
    \/ BeginAck
    \/ AckSuccess
    \/ EndAcks
    \/ DrainAuthenticate
    \/ DrainRead
    \/ PersistPage
    \/ RefusePage

Server ==
    /\ \/ \E batch \in Batches : Send(batch)
       \/ Sweep
       \/ SweepFail
       \/ NextDay
    /\ UNCHANGED clientVars

SyncNext ==
    \/ Engine
    \/ AckFailure
    \/ DrainFailure
    \/ Crash
    \/ ReleaseHeld
    \/ \E s \in DOMAIN inbox : RetryFallsDue(s)
    \/ \E ids \in wire : ServeAck(ids)
    \/ Server

SyncSpec == SyncInit /\ [][SyncNext]_syncVars

\* Runs are started again and again (hints, timers, reconnects) and a started
\* run goes on; retry times pass; the request the client waits on is served.
\* The server's sweep timer is the mailbox's.
SyncFairSpec ==
    /\ SyncSpec
    /\ WF_syncVars(Engine)
    /\ WF_syncVars(Sweep /\ UNCHANGED clientVars)
    /\ \A s \in 1..MaxSeq : WF_syncVars(RetryFallsDue(s))
    /\ WF_syncVars(engine.pc = "acking" /\ ServeAck(engine.batch))

-----------------------------------------------------------------------------
(* Properties. *)

\* Every variable has its type: local rows and the baseline only name sequence
\* numbers the server gave out, and an inspection or an acknowledgement in
\* progress is about rows that are there.
SyncTypeOK ==
    /\ DOMAIN inbox \subseteq 1..queue_seq[me]
    /\ \A s \in DOMAIN inbox :
            inbox[s] \in [st : States, held : {"no", "initial", "followUp"}, wait : BOOLEAN]
    /\ contiguous \in 0..queue_seq[me]
    /\ prunedSeen \in 0..queue_pruned_through[me]
    /\ requests \subseteq Groups /\ (gap <=> requests # {})
    /\ engine.pc = "inspect" => inbox[engine.at].st = "inspecting"
    /\ engine.batch \subseteq DOMAIN inbox
    /\ \A ids \in wire : ids \subseteq 1..queue_seq[me]
    /\ outcomes \in [1..MaxSeq -> Nat] /\ told \in Nat /\ refused \in BOOLEAN

Held(s) == s \in Marked(inbox)

\* Neither in the inbox nor ever brought to an outcome.
Missed(s) == s \notin DOMAIN inbox /\ outcomes[s] = 0

\* The server's copy of an envelope is given up only for a durable local result:
\* whatever was acknowledged has been applied or quarantined, or is held here.
\* Deaths between transactions and acknowledgements served late included.
AckedIsKept ==
    \A s \in acked[me] : outcomes[s] > 0 \/ Held(s)

\* No envelope is applied or quarantined twice, whatever is re-served, retried,
\* released or retired.
OutcomeOnce == \A s \in 1..MaxSeq : outcomes[s] <= 1

\* The baseline passes over an envelope this device never had only if its loss
\* was recorded (and every active group asked for its state), and never over one
\* that the device itself acknowledged.
PassedIsRecorded ==
    \A s \in 1..contiguous : Missed(s) => s <= told /\ s \notin acked[me]

\* A server that keeps its own rules is never taken for a lying one: the
\* watermark of a page is not below the stored one, although it is read before
\* the page and the sweep runs in between.
ServerNeverRefused == ~refused

\* The checkpoint is true: it passes only what this device had or was told is lost, and an honest
\* server's pages are never refused for it (persistDrainPage, recordAcknowledgementSuccess).
CheckpointIsTrue == SyncTypeOK /\ PassedIsRecorded /\ ServerNeverRefused

\* A local row leaves the inbox only after its envelope reached its outcome and
\* only once the server has no copy that a later page could bring back.
LeavesForGood ==
    [][\A s \in DOMAIN inbox \ DOMAIN inbox' :
            outcomes[s] = 1 /\ s \notin Seqs(mailbox[me])]_syncVars

\* The baseline never goes back, and it steps over an envelope this device never
\* had only in a transaction that leaves no group waiting for its state.
LossPassedWhenAnswered ==
    [][/\ contiguous' >= contiguous
       /\ (\E s \in (contiguous + 1)..contiguous' : Missed(s)) => requests' = {}]_syncVars

\* Every envelope queued to this device is in the end applied, quarantined or
\* held, unless the retention sweep took it first.
EveryEnvelopeEnds ==
    \A s \in 1..MaxSeq :
        s \in Seqs(mailbox[me]) ~> (outcomes[s] = 1 \/ Held(s) \/ s \in pruned[me])

\* A loss the device can not know of otherwise is noticed: what the sweep took
\* before it was fetched is recorded in the end, or a page read before the sweep
\* still brings it.
LossIsNoticed ==
    \A s \in 1..MaxSeq : (s \in pruned[me] /\ Missed(s)) ~> (told >= s \/ ~Missed(s))

\* A loss is noticed in the end, and passed over only once every group it may concern has been
\* answered (persistDrainPage, _acknowledgeSettledQueueGapInsideTransaction).
LossIsHandled == LossIsNoticed /\ LossPassedWhenAnswered

\* What the gap's acknowledgement says: "The loss is permanent, so the baseline
\* advances through the observed `pruned_through`": what is passed over is gone
\* from the server.
PassedIsGone ==
    \A s \in 1..contiguous : Missed(s) => s \notin Seqs(mailbox[me])

\* What committedInboxRow says of a released row: "The contiguity walk has
\* already passed the row".
ReleasedIsPassed ==
    \A s \in Marked(inbox) :
        inbox[s].st \in {"received", "inspecting"} => s <= contiguous

\* What _processInbox says: "A mailbox gap holds no envelope back."
GapHoldsNothingBack == EveryEnvelopeEnds
=============================================================================
