------------------------- MODULE OutboxStepProofs -------------------------
(***************************************************************************)
(* Proofs about Outbox: the inductive invariant of the sender, and that the *)
(* steps of its queue keep it.  OutboxProofs has the steps of a fan-out and *)
(* the theorems.                                                            *)
(*                                                                          *)
(* A send is never dropped because a fan-out under way always works on an   *)
(* operation that is still owed (JobFits).  Accepted means written because  *)
(* an answer says what the server did with each copy of the rows it was     *)
(* asked for (WireFits).  A row is given up for a reason because every way  *)
(* to miss a device, of the server or of an older list, is on record when   *)
(* the row is found (AbsentIsGone).                                         *)
(***************************************************************************)
EXTENDS Outbox, TLAPS

-----------------------------------------------------------------------------
(* The inductive invariant. *)

PrepStates == {"none", "owed", "waiting", "failed"}

TargetRow == [state : AttemptStates, batch : Nat]

TargetRows == UNION {[D -> TargetRow] : D \in SUBSET Devices}

Session == [id : Nat, version : Nat]

Jobs == [pc : {"idle", "resolved", "reconciled", "read", "claimed"}, op : Nat,
         live : SUBSET Devices, read : [Devices -> Session]]

Types ==
    /\ listed \subseteq Devices
    /\ echo \subseteq Operations
    /\ prep \in [Messages -> PrepStates]
    /\ outbox \in [Operations -> TargetRows]
    /\ DOMAIN status = Messages
    /\ session \in [Devices -> Session]
    /\ job \in [Actors -> Jobs]
    /\ wire \in [pc : {"none", "asked", "answered"}, op : Nat, targets : SUBSET Devices,
                 stale : SUBSET Devices, full : SUBSET Devices]
    /\ late \subseteq [op : Operations, targets : SUBSET Devices]
    /\ spent \in [lost : Nat, refused : Nat, crashes : Nat, goes : Nat, rearms : Nat,
                  ids : Nat]
    /\ DOMAIN sent = Operations

\* Only an operation with a local record owes a fan-out or has rows.
Recorded ==
    /\ \A m \in Messages : prep[m] # "none" => m \in echo
    /\ \A op \in Operations : outbox[op] # << >> => op \in echo

\* A fan-out under way works on an operation that has no rows yet: a message
\* still owed, or a payload not recorded.
JobFits ==
    \A a \in Actors : job[a].pc # "idle" =>
        /\ job[a].live # {}
        /\ a = "engine" => job[a].op \in Messages /\ prep[job[a].op] = "owed"
        /\ a = "room" => job[a].op \in Payloads \ echo

\* A request under way carries rows in sending, or given up by the other
\* fan-out meanwhile; its answer says what the server did with each copy.
WireFits ==
    /\ wire.pc # "none" =>
        /\ wire.op \in Operations
        /\ outbox[wire.op] # << >>
        /\ wire.targets \subseteq InState(outbox[wire.op], {"sending", "stale"})
    /\ wire.pc = "answered" => \A d \in wire.targets :
        /\ d \in wire.stale => <<wire.op, d>> \in gone
        /\ d \notin wire.stale \cup wire.full => d \in sent[wire.op]

\* The rows of a device that is not live, or not on a list still to be
\* reconciled, are recorded as gone.
AbsentIsGone ==
    \A op \in Operations : \A d \in DOMAIN outbox[op] :
        /\ ~Live(d) \/ d \notin listed => <<op, d>> \in gone
        /\ \A a \in Actors :
            job[a].pc = "resolved" /\ d \notin job[a].live => <<op, d>> \in gone

OutboxIInv ==
    /\ Types
    /\ Recorded
    /\ OwedOrQueued
    /\ JobFits
    /\ WireFits
    /\ AbsentIsGone
    /\ StaleWasGone
    /\ AcceptedIsWritten
    /\ FinalStatusIsTrue

-----------------------------------------------------------------------------
(* Operators. *)

\* The rows of an operation are a function from devices to rows, and an
\* operation without a row is the empty sequence.
LEMMA RowsShape ==
    ASSUME NEW rows \in TargetRows
    PROVE  /\ DOMAIN rows \subseteq Devices
           /\ rows \in [DOMAIN rows -> TargetRow]
           /\ rows = << >> <=> DOMAIN rows = {}
           /\ \A sts : InState(rows, sts) \subseteq DOMAIN rows
<1>1. PICK D \in SUBSET Devices : rows \in [D -> TargetRow]
    BY DEF TargetRows
<1>2. DOMAIN rows = D
    BY <1>1
<1>3. rows = << >> <=> D = {}
    BY <1>1
<1> QED
    BY <1>1, <1>2, <1>3 DEF InState

\* Rows over a nonempty list of devices are rows, and are not empty.
LEMMA FreshRows ==
    ASSUME NEW D \in SUBSET Devices, NEW f \in [D -> TargetRow]
    PROVE  f \in TargetRows /\ (D # {} => f # << >>)
BY DEF TargetRows

\* Moving rows keeps the other rows and the shape.
LEMMA MovedShape ==
    ASSUME NEW rows \in TargetRows, NEW S, NEW st \in AttemptStates
    PROVE  /\ Moved(rows, S, st) \in TargetRows
           /\ DOMAIN Moved(rows, S, st) = DOMAIN rows
           /\ Moved(rows, S, st) = << >> <=> rows = << >>
           /\ \A d \in DOMAIN rows :
                /\ d \in S => Moved(rows, S, st)[d].state = st
                /\ d \notin S => Moved(rows, S, st)[d] = rows[d]
<1>1. DOMAIN rows \subseteq Devices /\ rows \in [DOMAIN rows -> TargetRow]
    BY RowsShape
<1>2. Moved(rows, S, st) \in [DOMAIN rows -> TargetRow]
    BY <1>1 DEF Moved, TargetRow
<1>3. Moved(rows, S, st) \in TargetRows
    BY <1>1, <1>2, FreshRows
<1>4. DOMAIN Moved(rows, S, st) = DOMAIN rows
    BY DEF Moved
<1>5. Moved(rows, S, st) = << >> <=> rows = << >>
    BY <1>3, <1>4, RowsShape
<1>6. ASSUME NEW d \in DOMAIN rows
      PROVE  /\ d \in S => Moved(rows, S, st)[d].state = st
             /\ d \notin S => Moved(rows, S, st)[d] = rows[d]
    BY <1>1 DEF Moved, TargetRow
<1> QED
    BY <1>3, <1>4, <1>5, <1>6

\* What a derived status says of the rows.
LEMMA DerivedSays ==
    ASSUME NEW rows \in TargetRows, NEW p \in PrepStates,
           rows # << >> \/ p # "none"
    PROVE  /\ Derived(rows, p) # "localOnly"
           /\ Derived(rows, p) = "relayAccepted" =>
                /\ rows # << >> /\ InState(rows, {"accepted"}) # {}
                /\ InState(rows, Pending \cup {"permanentlyFailed"}) = {}
           /\ Derived(rows, p) = "permanentlyFailed" =>
                /\ rows = << >> => p = "failed"
                /\ InState(rows, Pending) = {}
<1> DEFINE accepted == InState(rows, {"accepted"}) # {}
           pending == InState(rows, Pending) # {}
           failed == InState(rows, {"permanentlyFailed"}) # {}
<1>1. InState(rows, Pending \cup {"permanentlyFailed"}) = {} <=> ~pending /\ ~failed
    BY DEF InState
<1>2. rows = << >> => ~pending /\ ~accepted
    BY DEF InState
<1>3. CASE rows = << >>
    <2>1. p \in {"owed", "waiting"} \/ p = "failed"
        BY <1>3 DEF PrepStates
    <2>2. p \in {"owed", "waiting"} => Derived(rows, p) = "preparing"
        BY <1>2, <1>3 DEF Derived
    <2>3. p = "failed" => Derived(rows, p) = "permanentlyFailed"
        BY <1>2, <1>3 DEF Derived
    <2> QED
        BY <1>2, <1>3, <2>1, <2>2, <2>3
<1>4. CASE rows # << >> /\ pending
    BY <1>4 DEF Derived
<1>5. CASE rows # << >> /\ ~pending /\ (~accepted \/ failed)
    BY <1>5 DEF Derived
<1>6. CASE rows # << >> /\ ~pending /\ accepted /\ ~failed
    BY <1>1, <1>6, Zenon DEF Derived
<1> QED
    BY <1>3, <1>4, <1>5, <1>6, Zenon


-----------------------------------------------------------------------------
(* One lemma for each action. *)

\* A step that leaves the sender alone, or moves only its stage, keeps the
\* invariant if it records the rows of the devices that are not live any more.
LEMMA PeerStep ==
    ASSUME OutboxIInv, listed' \subseteq Devices,
           UNCHANGED <<echo, prep, outbox, status, session, job, wire, late, sent>>,
           spent' \in [lost : Nat, refused : Nat, crashes : Nat, goes : Nat,
                       rearms : Nat, ids : Nat],
           gone \subseteq gone',
           \A op \in Operations : \A d \in DOMAIN outbox[op] :
               (~Live(d))' \/ d \notin listed' =>
                   <<op, d>> \in gone' \/ ~Live(d) \/ d \notin listed
    PROVE  OutboxIInv'
<1>1. Types'
    BY DEF OutboxIInv, Types
<1>2. Recorded' /\ OwedOrQueued' /\ JobFits'
    BY DEF OutboxIInv, Recorded, OwedOrQueued, JobFits
<1>3. WireFits'
    BY DEF OutboxIInv, WireFits, InState
<1>4. AbsentIsGone'
    BY Zenon DEF OutboxIInv, AbsentIsGone
<1>5. StaleWasGone' /\ AcceptedIsWritten'
    BY DEF OutboxIInv, StaleWasGone, AcceptedIsWritten, InState
<1>6. FinalStatusIsTrue'
    BY DEF OutboxIInv, FinalStatusIsTrue, InState
<1> QED
    BY <1>1, <1>2, <1>3, <1>4, <1>5, <1>6 DEF OutboxIInv

\* A message whose status is derived anew shows what is so; the others keep
\* their rows, and their status stays true.
LEMMA RefreshedIsTrue ==
    ASSUME OutboxIInv, Types', AcceptedIsWritten', NEW op \in Operations,
           Refreshed(op),
           \A m \in Messages : m # op => outbox'[m] = outbox[m] /\ prep'[m] = prep[m],
           \A o \in Operations : sent[o] \subseteq sent'[o],
           op \in Messages => (prep'[op] # "none") # (outbox'[op] # << >>)
    PROVE  FinalStatusIsTrue'
<1> SUFFICES ASSUME NEW m \in Messages
             PROVE  /\ status'[m] = "relayAccepted" =>
                         /\ outbox'[m] # << >> /\ sent'[m] # {}
                         /\ InState(outbox'[m], Pending \cup {"permanentlyFailed"}) = {}
                    /\ status'[m] = "permanentlyFailed" =>
                         /\ prep'[m] \notin {"owed", "waiting"}
                         /\ InState(outbox'[m], Pending) = {}
                    /\ status'[m] # "localOnly"
    BY DEF FinalStatusIsTrue, InState
<1>1. CASE m # op
    <2>1. status'[m] = status[m]
        BY <1>1 DEF Refreshed, OutboxIInv, Types
    <2>2. outbox'[m] = outbox[m] /\ prep'[m] = prep[m] /\ sent[m] \subseteq sent'[m]
        BY <1>1 DEF Operations
    <2> QED
        BY <2>1, <2>2, Zenon DEF OutboxIInv, FinalStatusIsTrue
<1>2. CASE m = op
    <2> DEFINE rows == outbox'[op]
               p == prep'[op]
    <2>1. status'[m] = Derived(rows, p)
        BY <1>2 DEF Refreshed, OutboxIInv, Types
    <2>2. rows \in TargetRows /\ p \in PrepStates
        BY <1>2 DEF Types
    <2>3. (p # "none") # (rows # << >>)
        BY <1>2
    <2>4. InState(rows, {"accepted"}) \subseteq sent'[op]
        BY DEF AcceptedIsWritten, InState
    <2> HIDE DEF rows, p
    <2>5. rows # << >> \/ p # "none"
        BY <2>3
    <2>6. /\ Derived(rows, p) # "localOnly"
          /\ Derived(rows, p) = "relayAccepted" =>
                /\ rows # << >> /\ InState(rows, {"accepted"}) # {}
                /\ InState(rows, Pending \cup {"permanentlyFailed"}) = {}
          /\ Derived(rows, p) = "permanentlyFailed" =>
                /\ rows = << >> => p = "failed"
                /\ InState(rows, Pending) = {}
        BY <2>2, <2>5, DerivedSays, Zenon
    <2>7. /\ status'[m] = "relayAccepted" =>
                /\ rows # << >> /\ sent'[m] # {}
                /\ InState(rows, Pending \cup {"permanentlyFailed"}) = {}
          /\ status'[m] = "permanentlyFailed" =>
                p \notin {"owed", "waiting"} /\ InState(rows, Pending) = {}
          /\ status'[m] # "localOnly"
        BY <1>2, <2>1, <2>3, <2>4, <2>6, Zenon
    <2> QED
        BY <1>2, <2>7, Zenon DEF rows, p
<1> QED
    BY <1>1, <1>2, Zenon

\* A step that changes the rows of one operation in place, as every outcome of
\* a request does.
LEMMA RowsStep ==
    ASSUME OutboxIInv, NEW op \in Operations, NEW rows \in TargetRows,
           outbox' = [outbox EXCEPT ![op] = rows],
           DOMAIN rows = DOMAIN outbox[op],
           UNCHANGED <<listed, revoked, inactive, echo, prep, job, sent, gone>>,
           \A d \in InState(rows, {"stale"}) : <<op, d>> \in gone,
           InState(rows, {"accepted"}) \subseteq sent[op]
    PROVE  /\ outbox' \in [Operations -> TargetRows]
           /\ Recorded' /\ OwedOrQueued' /\ JobFits' /\ AbsentIsGone'
           /\ StaleWasGone' /\ AcceptedIsWritten'
           /\ outbox[op] # << >> /\ Types' /\ Refreshed(op) => FinalStatusIsTrue'
<1>1. /\ outbox'[op] = rows
      /\ \A o \in Operations : o # op => outbox'[o] = outbox[o]
      /\ outbox' \in [Operations -> TargetRows]
    BY DEF OutboxIInv, Types
<1>2. outbox[op] \in TargetRows
    BY DEF OutboxIInv, Types
<1>3. rows = << >> <=> outbox[op] = << >>
    BY <1>2, RowsShape
<1>4. \A o \in Operations : outbox'[o] = << >> <=> outbox[o] = << >>
    BY <1>1, <1>3
<1>5. \A o \in Operations : DOMAIN outbox'[o] = DOMAIN outbox[o]
    BY <1>1
<1>6. Recorded' /\ JobFits'
    BY <1>4 DEF OutboxIInv, Recorded, JobFits
<1>7. OwedOrQueued'
    BY <1>4 DEF OutboxIInv, OwedOrQueued, Operations
<1>8. AbsentIsGone'
    BY <1>5, Zenon DEF OutboxIInv, AbsentIsGone, Live
<1>9. StaleWasGone'
    BY <1>1, Zenon DEF OutboxIInv, StaleWasGone, InState
<1>10. AcceptedIsWritten'
    BY <1>1 DEF OutboxIInv, AcceptedIsWritten, InState
<1>11. ASSUME outbox[op] # << >>, Types', Refreshed(op)
       PROVE  FinalStatusIsTrue'
    <2>1. op \in Messages => (prep'[op] # "none") # (outbox'[op] # << >>)
        BY <1>4, <1>7, <1>11 DEF OutboxIInv, Recorded, OwedOrQueued
    <2>2. \A m \in Messages : m # op => outbox'[m] = outbox[m] /\ prep'[m] = prep[m]
        BY <1>1 DEF Operations
    <2> QED
        BY <1>10, <1>11, <2>1, <2>2, RefreshedIsTrue
<1> QED
    BY <1>1, <1>6, <1>7, <1>8, <1>9, <1>10, <1>11

LEMMA InitOutboxIInv == OutboxInit => OutboxIInv
<1> SUFFICES ASSUME OutboxInit
             PROVE  OutboxIInv
    OBVIOUS
<1> USE DEF OutboxInit
<1>1. [op \in Operations |-> << >>] \in [Operations -> TargetRows]
    <2>1. << >> \in [{} -> TargetRow]
        OBVIOUS
    <2>2. << >> \in TargetRows
        BY <2>1, Zenon DEF TargetRows
    <2> QED
        BY <2>2
<1>2. NoJob \in Jobs /\ NoSession \in Session
    BY DEF NoJob, Jobs, NoSession, Session
<1>3. Types
    BY <1>1, <1>2, SenderAssumption DEF Types, PrepStates, Quiet
<1>4. Recorded /\ OwedOrQueued /\ JobFits /\ WireFits
    BY DEF Recorded, OwedOrQueued, JobFits, WireFits, NoJob, Quiet
<1>5. AbsentIsGone /\ StaleWasGone /\ AcceptedIsWritten
    BY DEF AbsentIsGone, StaleWasGone, AcceptedIsWritten, InState
<1>6. FinalStatusIsTrue
    BY DEF FinalStatusIsTrue
<1> QED
    BY <1>3, <1>4, <1>5, <1>6 DEF OutboxIInv

\* A batch takes rows of one operation that are not settled.
LEMMA NextBatchShape ==
    ASSUME OutboxIInv, NEW op \in DueOperations
    PROVE  /\ op \in Operations
           /\ outbox[op] # << >>
           /\ NextBatch(op) \subseteq InState(outbox[op], {"queued", "sending", "retryDue"})
<1>1. op \in Operations /\ Candidates(op) # {}
    BY Zenon DEF DueOperations
<1>2. Candidates(op) \subseteq DOMAIN outbox[op]
    BY DEF Candidates, InState
<1>3. outbox[op] \in TargetRows
    BY <1>1 DEF OutboxIInv, Types
<1> QED
    BY <1>1, <1>2, <1>3, RowsShape DEF NextBatch

LEMMA BeginBatchIInv ==
    ASSUME OutboxIInv, BeginBatch
    PROVE  OutboxIInv'
<1>1. PICK op \in DueOperations :
          /\ outbox' = [outbox EXCEPT ![op] = Moved(@, NextBatch(op), "sending")]
          /\ wire' = [Quiet EXCEPT !.pc = "asked", !.op = op, !.targets = NextBatch(op)]
          /\ prep' = prep /\ Refreshed(op)
    BY Zenon DEF BeginBatch
<1>2. UNCHANGED <<vars, listed, echo, session, job, late, spent, sent, gone>>
    BY Zenon DEF BeginBatch, serverVars, ghostVars
<1> DEFINE targets == NextBatch(op)
           rows == Moved(outbox[op], targets, "sending")
<1>3. /\ outbox' = [outbox EXCEPT ![op] = rows]
      /\ wire' = [Quiet EXCEPT !.pc = "asked", !.op = op, !.targets = targets]
    BY <1>1
<1>4. /\ op \in Operations
      /\ outbox[op] # << >>
      /\ targets \subseteq InState(outbox[op], {"queued", "sending", "retryDue"})
    BY NextBatchShape
<1> HIDE DEF targets
<1>5. outbox[op] \in TargetRows
    BY <1>4 DEF OutboxIInv, Types
<1>6. /\ rows \in TargetRows
      /\ DOMAIN rows = DOMAIN outbox[op]
      /\ rows = << >> <=> outbox[op] = << >>
      /\ \A d \in DOMAIN outbox[op] :
            /\ d \in targets => rows[d].state = "sending"
            /\ d \notin targets => rows[d] = outbox[op][d]
    BY <1>5, MovedShape DEF AttemptStates, Pending
<1> HIDE DEF rows
<1>7. /\ \A d \in InState(rows, {"stale"}) : <<op, d>> \in gone
      /\ InState(rows, {"accepted"}) \subseteq sent[op]
    BY <1>4, <1>6 DEF OutboxIInv, StaleWasGone, AcceptedIsWritten, InState
<1>8. UNCHANGED <<listed, revoked, inactive, echo, prep, job, sent, gone>>
    BY <1>1, <1>2 DEF vars, deviceVars
<1>9. /\ outbox' \in [Operations -> TargetRows]
      /\ Recorded' /\ OwedOrQueued' /\ JobFits' /\ AbsentIsGone'
      /\ StaleWasGone' /\ AcceptedIsWritten'
      /\ outbox[op] # << >> /\ Types' /\ Refreshed(op) => FinalStatusIsTrue'
    BY <1>3, <1>4, <1>6, <1>7, <1>8, RowsStep, Zenon
<1>10. Types'
    <2>1. targets \in SUBSET Devices /\ op \in Nat
        BY <1>4, <1>5, RowsShape, SenderAssumption
    <2>2. DOMAIN status' = Messages
        BY <1>1 DEF OutboxIInv, Types, Refreshed
    <2>3. wire' \in [pc : {"none", "asked", "answered"}, op : Nat,
                     targets : SUBSET Devices, stale : SUBSET Devices,
                     full : SUBSET Devices]
        BY <1>3, <2>1, Zenon DEF Quiet
    <2> QED
        BY <1>1, <1>2, <1>9, <2>2, <2>3 DEF OutboxIInv, Types
<1>11. WireFits'
    <2>1. wire'.pc = "asked" /\ wire'.op = op /\ wire'.targets = targets
        BY <1>3 DEF Quiet
    <2>2. outbox'[op] = rows
        BY <1>3, <1>4 DEF OutboxIInv, Types
    <2>3. targets \subseteq InState(rows, {"sending", "stale"})
        BY <1>4, <1>6 DEF InState
    <2> QED
        BY <1>4, <1>6, <2>1, <2>2, <2>3 DEF WireFits, InState
<1> QED
    BY <1>1, <1>4, <1>9, <1>10, <1>11 DEF OutboxIInv

\* A request under way is over: what its outcome makes of its rows.
LEMMA OutcomeIInv ==
    ASSUME OutboxIInv, wire.pc # "none", NEW rows \in TargetRows,
           DOMAIN rows = DOMAIN outbox[wire.op],
           \A d \in DOMAIN rows :
                \/ rows[d] = outbox[wire.op][d]
                \/ /\ rows[d].state = "stale" => <<wire.op, d>> \in gone
                   /\ rows[d].state = "accepted" => d \in sent[wire.op],
           outbox' = [outbox EXCEPT ![wire.op] = rows],
           wire' = Quiet, Refreshed(wire.op),
           UNCHANGED <<listed, revoked, inactive, echo, prep, job, sent, gone>>,
           session' \in [Devices -> Session],
           late' \subseteq [op : Operations, targets : SUBSET Devices],
           spent' \in [lost : Nat, refused : Nat, crashes : Nat, goes : Nat,
                       rearms : Nat, ids : Nat]
    PROVE  OutboxIInv'
<1>1. wire.op \in Operations
    BY DEF OutboxIInv, WireFits
<1>2. outbox[wire.op] # << >>
    BY DEF OutboxIInv, WireFits
<1>3. \A d \in InState(rows, {"stale"}) : <<wire.op, d>> \in gone
    BY <1>1 DEF OutboxIInv, StaleWasGone, InState
<1>4. InState(rows, {"accepted"}) \subseteq sent[wire.op]
    BY <1>1, Zenon DEF OutboxIInv, AcceptedIsWritten, InState
<1>5. /\ outbox' \in [Operations -> TargetRows]
      /\ Recorded' /\ OwedOrQueued' /\ JobFits' /\ AbsentIsGone'
      /\ StaleWasGone' /\ AcceptedIsWritten'
      /\ outbox[wire.op] # << >> /\ Types' /\ Refreshed(wire.op) => FinalStatusIsTrue'
    BY <1>1, <1>3, <1>4, RowsStep, Zenon
<1>6. Types'
    <2>1. DOMAIN status' = Messages
        BY DEF OutboxIInv, Types, Refreshed
    <2> QED
        BY <1>5, <2>1, Zenon DEF OutboxIInv, Types, Quiet
<1>7. WireFits'
    BY DEF WireFits, Quiet
<1> QED
    BY <1>2, <1>5, <1>6, <1>7, Zenon DEF OutboxIInv

LEMMA RecordAcceptanceIInv ==
    ASSUME OutboxIInv, RecordAcceptance
    PROVE  OutboxIInv'
<1> DEFINE old == outbox[wire.op]
           rows == [d \in DOMAIN old |->
               IF d \in wire.targets THEN [old[d] EXCEPT !.state = Answer(d)] ELSE old[d]]
<1>1. /\ wire.pc = "answered"
      /\ wire' = Quiet /\ prep' = prep /\ Refreshed(wire.op)
      /\ Forget(wire.stale)
      /\ UNCHANGED <<vars, listed, echo, job, late, spent, sent, gone>>
    BY DEF RecordAcceptance, serverVars
<1>2. wire.op \in Operations /\ wire.pc # "none"
    BY <1>1 DEF OutboxIInv, WireFits
<1>3. outbox' = [outbox EXCEPT ![wire.op] = rows]
    BY DEF RecordAcceptance
<1>4. old \in TargetRows
    BY <1>2 DEF OutboxIInv, Types
<1>5. DOMAIN old \subseteq Devices /\ old \in [DOMAIN old -> TargetRow]
    BY <1>4, RowsShape
<1>6. \A d : Answer(d) \in AttemptStates
    BY DEF Answer, AttemptStates, Pending
<1>7. rows \in [DOMAIN old -> TargetRow]
    BY <1>5, <1>6 DEF TargetRow
<1>8. rows \in TargetRows
    BY <1>5, <1>7, FreshRows, Zenon
<1>9. ASSUME NEW d \in DOMAIN rows
      PROVE  \/ rows[d] = old[d]
             \/ /\ rows[d].state = "stale" => <<wire.op, d>> \in gone
                /\ rows[d].state = "accepted" => d \in sent[wire.op]
    <2>1. CASE d \notin wire.targets
        BY <2>1
    <2>2. CASE d \in wire.targets
        <3>1. rows[d].state = Answer(d)
            BY <1>5, <2>2 DEF TargetRow
        <3>2. /\ d \in wire.stale => <<wire.op, d>> \in gone
              /\ d \notin wire.stale \cup wire.full => d \in sent[wire.op]
            BY <1>1, <2>2 DEF OutboxIInv, WireFits
        <3> QED
            BY <3>1, <3>2 DEF Answer
    <2> QED
        BY <2>1, <2>2
<1>10. DOMAIN rows = DOMAIN old
    OBVIOUS
<1>11. session' \in [Devices -> Session]
    BY <1>1 DEF Forget, OutboxIInv, Types, NoSession, Session
<1>12. late' \subseteq [op : Operations, targets : SUBSET Devices]
    BY <1>1 DEF OutboxIInv, Types
<1>13. spent' \in [lost : Nat, refused : Nat, crashes : Nat, goes : Nat, rearms : Nat,
                   ids : Nat]
    BY <1>1 DEF OutboxIInv, Types
<1>14. UNCHANGED <<listed, revoked, inactive, echo, prep, job, sent, gone>>
    BY <1>1 DEF vars, deviceVars
<1> HIDE DEF rows
<1> QED
    BY <1>1, <1>2, <1>3, <1>8, <1>9, <1>10, <1>11, <1>12, <1>13, <1>14, OutcomeIInv, Zenon

\* A request under way is given back or refused whole.
LEMMA MovedOutcome ==
    ASSUME OutboxIInv, wire.pc # "none",
           NEW st \in {"retryWait", "permanentlyFailed"},
           outbox' = [outbox EXCEPT ![wire.op] = Moved(@, wire.targets, st)],
           wire' = Quiet, Refreshed(wire.op),
           UNCHANGED <<vars, listed, echo, prep, session, job, sent, gone>>,
           late' \subseteq [op : Operations, targets : SUBSET Devices],
           spent' \in [lost : Nat, refused : Nat, crashes : Nat, goes : Nat,
                       rearms : Nat, ids : Nat]
    PROVE  OutboxIInv'
<1> DEFINE rows == Moved(outbox[wire.op], wire.targets, st)
<1>1. wire.op \in Operations
    BY DEF OutboxIInv, WireFits
<1>2. outbox[wire.op] \in TargetRows /\ st \in AttemptStates
    BY <1>1 DEF OutboxIInv, Types, AttemptStates, Pending
<1>3. outbox' = [outbox EXCEPT ![wire.op] = rows]
    OBVIOUS
<1>4. /\ rows \in TargetRows
      /\ DOMAIN rows = DOMAIN outbox[wire.op]
      /\ \A d \in DOMAIN outbox[wire.op] :
            /\ d \in wire.targets => rows[d].state = st
            /\ d \notin wire.targets => rows[d] = outbox[wire.op][d]
    BY <1>2, MovedShape
<1> HIDE DEF rows
<1>5. \A d \in DOMAIN rows :
        \/ rows[d] = outbox[wire.op][d]
        \/ /\ rows[d].state = "stale" => <<wire.op, d>> \in gone
           /\ rows[d].state = "accepted" => d \in sent[wire.op]
    BY <1>4
<1>6. UNCHANGED <<listed, revoked, inactive, echo, prep, job, sent, gone>>
    BY DEF vars, deviceVars
<1>7. session' \in [Devices -> Session]
    BY Zenon DEF OutboxIInv, Types
<1> QED
    BY <1>3, <1>4, <1>5, <1>6, <1>7, OutcomeIInv, Zenon

\* A request the client stops waiting for keeps its operation and targets.
LEMMA AbandonedShape ==
    ASSUME OutboxIInv
    PROVE  late \cup Abandoned \subseteq [op : Operations, targets : SUBSET Devices]
<1>1. wire.pc = "asked" => wire.op \in Operations /\ wire.targets \in SUBSET Devices
    BY DEF OutboxIInv, WireFits, Types
<1> QED
    BY <1>1 DEF Abandoned, OutboxIInv, Types

LEMMA RecordRetryIInv ==
    ASSUME OutboxIInv, RecordRetry
    PROVE  OutboxIInv'
<1>1. spent' \in [lost : Nat, refused : Nat, crashes : Nat, goes : Nat, rearms : Nat,
                  ids : Nat]
    BY DEF RecordRetry, OutboxIInv, Types
<1>2. late' \subseteq [op : Operations, targets : SUBSET Devices]
    BY AbandonedShape DEF RecordRetry
<1>3. /\ wire.pc # "none"
      /\ outbox' = [outbox EXCEPT ![wire.op] = Moved(@, wire.targets, "retryWait")]
      /\ wire' = Quiet /\ Refreshed(wire.op)
      /\ UNCHANGED <<vars, listed, echo, prep, session, job, sent, gone>>
    BY DEF RecordRetry, serverVars, ghostVars
<1> QED
    BY <1>1, <1>2, <1>3, MovedOutcome

LEMMA RecordPermanentFailureIInv ==
    ASSUME OutboxIInv, RecordPermanentFailure
    PROVE  OutboxIInv'
<1>1. spent' \in [lost : Nat, refused : Nat, crashes : Nat, goes : Nat, rearms : Nat,
                  ids : Nat]
    BY DEF RecordPermanentFailure, OutboxIInv, Types
<1>2. late' \subseteq [op : Operations, targets : SUBSET Devices]
    BY DEF RecordPermanentFailure, OutboxIInv, Types
<1>3. /\ wire.pc # "none"
      /\ outbox' =
            [outbox EXCEPT ![wire.op] = Moved(@, wire.targets, "permanentlyFailed")]
      /\ wire' = Quiet /\ Refreshed(wire.op)
      /\ UNCHANGED <<vars, listed, echo, prep, session, job, sent, gone>>
    BY DEF RecordPermanentFailure, serverVars, ghostVars
<1> QED
    BY <1>1, <1>2, <1>3, MovedOutcome

\* A served request adds written copies and changes no row.
LEMMA WrittenIInv ==
    ASSUME OutboxIInv, NEW op \in Operations, NEW new,
           sent' = [sent EXCEPT ![op] = @ \cup new],
           UNCHANGED <<listed, revoked, inactive, echo, prep, outbox, status, session,
                       job, spent, gone>>,
           wire' \in [pc : {"none", "asked", "answered"}, op : Nat,
                      targets : SUBSET Devices, stale : SUBSET Devices,
                      full : SUBSET Devices],
           late' \subseteq late, WireFits'
    PROVE  OutboxIInv'
<1>1. Types'
    BY DEF OutboxIInv, Types
<1>2. \A o \in Operations : sent[o] \subseteq sent'[o]
    BY Zenon DEF OutboxIInv, Types
<1>3. Recorded' /\ OwedOrQueued' /\ JobFits' /\ AbsentIsGone'
    BY DEF OutboxIInv, Recorded, OwedOrQueued, JobFits, AbsentIsGone, Live
<1>4. StaleWasGone'
    BY Zenon DEF OutboxIInv, StaleWasGone, InState
<1>5. AcceptedIsWritten'
    BY <1>2 DEF OutboxIInv, AcceptedIsWritten, InState
<1>6. FinalStatusIsTrue'
    BY <1>2 DEF OutboxIInv, FinalStatusIsTrue, InState, Operations
<1> QED
    BY <1>1, <1>3, <1>4, <1>5, <1>6 DEF OutboxIInv

LEMMA ServeIInv ==
    ASSUME OutboxIInv, Serve
    PROVE  OutboxIInv'
<1> DEFINE new == Accepting(CopiesFor(wire.targets))
<1>1. /\ wire.pc = "asked"
      /\ Send(CopiesFor(wire.targets))
      /\ sent' = [sent EXCEPT ![wire.op] = @ \cup new]
      /\ wire' = [wire EXCEPT !.pc = "answered", !.stale = wire.targets \ LiveDevices,
                  !.full = Full(CopiesFor(wire.targets))]
      /\ UNCHANGED <<listed, echo, prep, outbox, status, session, job, late, spent, gone>>
    BY DEF Serve, Written, localVars
<1>2. UNCHANGED <<revoked, inactive>>
    BY <1>1 DEF Send
<1>3. wire.op \in Operations /\ wire.targets \subseteq Devices
    BY <1>1 DEF OutboxIInv, WireFits, Types
<1>4. Full(CopiesFor(wire.targets)) \subseteq wire.targets
    BY <1>3 DEF Full, Wanted, CopiesFor
<1>5. wire' \in [pc : {"none", "asked", "answered"}, op : Nat,
                 targets : SUBSET Devices, stale : SUBSET Devices, full : SUBSET Devices]
    BY <1>1, <1>3, <1>4, Zenon DEF OutboxIInv, Types
<1>6. \A d \in wire.targets : d \in LiveDevices /\ d \notin Full(CopiesFor(wire.targets))
                                => d \in new
    BY <1>3 DEF Accepting, Wanted, CopiesFor, LiveDevices
<1>7. \A d \in wire.targets : d \notin LiveDevices => <<wire.op, d>> \in gone
    BY <1>1, <1>3 DEF OutboxIInv, AbsentIsGone, WireFits, InState, LiveDevices
<1>8. new \subseteq sent'[wire.op]
    BY <1>1, <1>3 DEF OutboxIInv, Types
<1>9. /\ wire'.pc = "answered" /\ wire'.op = wire.op /\ wire'.targets = wire.targets
      /\ wire'.stale = wire.targets \ LiveDevices
      /\ wire'.full = Full(CopiesFor(wire.targets))
    BY <1>1 DEF OutboxIInv, Types
<1>10. WireFits'
    <2>1. /\ wire.op \in Operations /\ outbox[wire.op] # << >>
          /\ wire.targets \subseteq InState(outbox[wire.op], {"sending", "stale"})
        BY <1>1 DEF OutboxIInv, WireFits
    <2>2. \A d \in wire.targets :
            /\ d \in wire'.stale => <<wire.op, d>> \in gone
            /\ d \notin wire'.stale \cup wire'.full => d \in sent'[wire.op]
        BY <1>6, <1>7, <1>8, <1>9
    <2> QED
        BY <1>1, <1>9, <2>1, <2>2 DEF WireFits, InState
<1> HIDE DEF new
<1> QED
    BY <1>1, <1>2, <1>3, <1>5, <1>10, WrittenIInv, Zenon

LEMMA ServeLateIInv ==
    ASSUME OutboxIInv, NEW r \in late, ServeLate(r)
    PROVE  OutboxIInv'
<1> DEFINE new == Accepting(CopiesFor(r.targets))
<1>1. /\ Send(CopiesFor(r.targets))
      /\ sent' = [sent EXCEPT ![r.op] = @ \cup new]
      /\ late' \subseteq late
      /\ UNCHANGED <<listed, echo, prep, outbox, status, session, job, wire, spent, gone>>
    BY DEF ServeLate, Written, localVars
<1>2. UNCHANGED <<revoked, inactive>>
    BY <1>1 DEF Send
<1>3. r.op \in Operations
    BY DEF OutboxIInv, Types
<1> HIDE DEF new
<1>4. \A o \in Operations : sent[o] \subseteq sent'[o]
    BY <1>1, <1>3, Zenon DEF OutboxIInv, Types
<1>5. WireFits'
    BY <1>1, <1>4 DEF OutboxIInv, WireFits, InState
<1>6. wire' \in [pc : {"none", "asked", "answered"}, op : Nat,
                 targets : SUBSET Devices, stale : SUBSET Devices, full : SUBSET Devices]
    BY <1>1, Zenon DEF OutboxIInv, Types
<1> QED
    BY <1>1, <1>2, <1>3, <1>5, <1>6, WrittenIInv, Zenon

\* A step that changes no row and no device keeps what the invariant says of
\* rows, requests and devices, whatever the fan-outs do.
LEMMA RowsKept ==
    ASSUME OutboxIInv, UNCHANGED <<outbox, listed, revoked, inactive, sent, gone>>,
           wire' = wire \/ wire' = Quiet,
           \A a \in Actors : job'[a].pc = "resolved" =>
               \/ job'[a].live = LiveDevices
               \/ job[a].pc = "resolved" /\ job'[a].live = job[a].live
    PROVE  WireFits' /\ AbsentIsGone' /\ StaleWasGone' /\ AcceptedIsWritten'
<1>1. WireFits'
    <2>1. CASE wire' = wire
        BY <2>1, Zenon DEF OutboxIInv, WireFits, InState
    <2>2. CASE wire' = Quiet
        BY <2>2, Zenon DEF WireFits, Quiet
    <2> QED
        BY <2>1, <2>2, Zenon
<1>2. AbsentIsGone'
    BY Zenon DEF OutboxIInv, AbsentIsGone, Live, LiveDevices
<1>3. StaleWasGone' /\ AcceptedIsWritten'
    BY Zenon DEF OutboxIInv, StaleWasGone, AcceptedIsWritten, InState
<1> QED
    BY <1>1, <1>2, <1>3

\* A step that changes no row, no record and no status: fan-outs may move on or
\* end, requests may be given up, and a message stays owed or not.
LEMMA QuietStep ==
    ASSUME OutboxIInv,
           UNCHANGED <<outbox, listed, revoked, inactive, sent, gone, echo, status, session>>,
           prep' \in [Messages -> PrepStates],
           \A m \in Messages : prep'[m] = prep[m] \/
               {prep[m], prep'[m]} \subseteq {"owed", "waiting"},
           wire' = wire \/ wire' = Quiet,
           job' \in [Actors -> Jobs], JobFits',
           \A a \in Actors : job'[a].pc = "resolved" =>
               \/ job'[a].live = LiveDevices
               \/ job[a].pc = "resolved" /\ job'[a].live = job[a].live,
           late' \subseteq [op : Operations, targets : SUBSET Devices],
           spent' \in [lost : Nat, refused : Nat, crashes : Nat, goes : Nat,
                       rearms : Nat, ids : Nat]
    PROVE  OutboxIInv'
<1>1. WireFits' /\ AbsentIsGone' /\ StaleWasGone' /\ AcceptedIsWritten'
    BY RowsKept, Zenon
<1>2. \A m \in Messages : prep'[m] = "none" <=> prep[m] = "none"
    BY Zenon
<1>3. Recorded' /\ OwedOrQueued'
    BY <1>2, Zenon DEF OutboxIInv, Recorded, OwedOrQueued
<1>4. FinalStatusIsTrue'
    BY Zenon DEF OutboxIInv, FinalStatusIsTrue, InState
<1>5. Types'
    <2>1. wire' \in [pc : {"none", "asked", "answered"}, op : Nat,
                     targets : SUBSET Devices, stale : SUBSET Devices,
                     full : SUBSET Devices]
        <3>1. Quiet \in [pc : {"none", "asked", "answered"}, op : Nat,
                         targets : SUBSET Devices, stale : SUBSET Devices,
                         full : SUBSET Devices]
            BY DEF Quiet
        <3> QED
            BY <3>1, Zenon DEF OutboxIInv, Types
    <2> QED
        BY <2>1 DEF OutboxIInv, Types
<1> QED
    BY <1>1, <1>3, <1>4, <1>5, Zenon DEF OutboxIInv

\* NoJob is an idle fan-out.
LEMMA NoJobShape == NoJob \in Jobs /\ NoJob.pc = "idle"
BY DEF NoJob, Jobs, NoSession, Session

LEMMA PreparationFallsDueIInv ==
    ASSUME OutboxIInv, NEW m \in Messages, PreparationFallsDue(m)
    PROVE  OutboxIInv'
<1>1. /\ prep[m] = "waiting" /\ prep' = [prep EXCEPT ![m] = "owed"]
      /\ UNCHANGED <<vars, listed, echo, outbox, status, session, job, wire, late, spent,
                     sent, gone>>
    BY DEF PreparationFallsDue, serverVars, runVars, ghostVars
<1>2. UNCHANGED <<revoked, inactive>>
    BY <1>1 DEF vars, deviceVars
<1>3. /\ prep' \in [Messages -> PrepStates]
      /\ \A n \in Messages : prep'[n] = prep[n] \/
            {prep[n], prep'[n]} \subseteq {"owed", "waiting"}
    BY <1>1, Zenon DEF OutboxIInv, Types, PrepStates
<1>4. JobFits'
    BY <1>1 DEF OutboxIInv, JobFits, Types
<1>5. /\ job' \in [Actors -> Jobs]
      /\ late' \subseteq [op : Operations, targets : SUBSET Devices]
      /\ spent' \in [lost : Nat, refused : Nat, crashes : Nat, goes : Nat,
                     rearms : Nat, ids : Nat]
    BY <1>1, Zenon DEF OutboxIInv, Types
<1> QED
    BY <1>1, <1>2, <1>3, <1>4, <1>5, QuietStep

LEMMA CrashIInv ==
    ASSUME OutboxIInv, Crash
    PROVE  OutboxIInv'
<1>1. /\ job' = [a \in Actors |-> NoJob] /\ late' = late \cup Abandoned /\ wire' = Quiet
      /\ UNCHANGED <<vars, listed, echo, prep, outbox, status, session, sent, gone>>
    BY DEF Crash, serverVars, localVars, ghostVars
<1>2. UNCHANGED <<revoked, inactive>>
    BY <1>1 DEF vars, deviceVars
<1>3. spent' \in [lost : Nat, refused : Nat, crashes : Nat, goes : Nat, rearms : Nat,
                  ids : Nat]
    BY DEF Crash, OutboxIInv, Types
<1>4. late' \subseteq [op : Operations, targets : SUBSET Devices]
    BY <1>1, AbandonedShape
<1>5. \A a \in Actors : job'[a].pc = "idle"
    BY <1>1, NoJobShape
<1>6. job' \in [Actors -> Jobs] /\ JobFits'
    BY <1>1, <1>5, NoJobShape DEF JobFits
<1>7. prep' \in [Messages -> PrepStates]
    BY <1>1 DEF OutboxIInv, Types
<1>8. \A a \in Actors : job'[a].pc # "resolved"
    BY <1>5
<1> QED
    BY <1>1, <1>2, <1>3, <1>4, <1>6, <1>7, <1>8, QuietStep, Zenon

\* The fan-out of actor a ends or moves on; the other one is left alone.
LEMMA OneJob ==
    ASSUME OutboxIInv, NEW a \in Actors, NEW j \in Jobs,
           job' = [job EXCEPT ![a] = j]
    PROVE  /\ job' \in [Actors -> Jobs] /\ job'[a] = j
           /\ \A b \in Actors : b # a => job'[b] = job[b]
BY Zenon DEF OutboxIInv, Types

LEMMA PrepareFailsIInv ==
    ASSUME OutboxIInv, NEW a \in Actors, PrepareFails(a)
    PROVE  OutboxIInv'
<1>1. /\ job[a].pc # "idle"
      /\ prep' = IF a = "engine" THEN [prep EXCEPT ![job[a].op] = "waiting"] ELSE prep
      /\ job' = [job EXCEPT ![a] = NoJob]
      /\ UNCHANGED <<vars, listed, echo, outbox, status, session, wire, late, sent, gone>>
    BY DEF PrepareFails, serverVars, ghostVars
<1>2. UNCHANGED <<revoked, inactive>>
    BY <1>1 DEF vars, deviceVars
<1>3. spent' \in [lost : Nat, refused : Nat, crashes : Nat, goes : Nat, rearms : Nat,
                  ids : Nat]
    BY DEF PrepareFails, OutboxIInv, Types
<1>4. /\ job' \in [Actors -> Jobs] /\ job'[a].pc = "idle"
      /\ \A b \in Actors : b # a => job'[b] = job[b]
    BY <1>1, NoJobShape, OneJob, Zenon
<1>5. a = "engine" => job[a].op \in Messages /\ prep[job[a].op] = "owed"
    BY <1>1, Zenon DEF OutboxIInv, JobFits
<1>6. /\ prep' \in [Messages -> PrepStates]
      /\ \A m \in Messages : prep'[m] = prep[m] \/
            {prep[m], prep'[m]} \subseteq {"owed", "waiting"}
    BY <1>1, <1>5, Zenon DEF OutboxIInv, Types, PrepStates
<1>7. JobFits'
    <2> SUFFICES ASSUME NEW b \in Actors, b # a, job'[b].pc # "idle"
                 PROVE  /\ job'[b].live # {}
                        /\ b = "engine" =>
                            job'[b].op \in Messages /\ prep'[job'[b].op] = "owed"
                        /\ b = "room" => job'[b].op \in Payloads \ echo'
        BY <1>4 DEF JobFits
    <2>1. job'[b] = job[b]
        BY <1>4
    <2>2. b = "engine" => prep' = prep
        BY <1>1
    <2> QED
        BY <1>1, <2>1, <2>2, Zenon DEF OutboxIInv, JobFits
<1>8. \A b \in Actors : job'[b].pc = "resolved" =>
            job[b].pc = "resolved" /\ job'[b].live = job[b].live
    BY <1>4, Zenon
<1>9. late' \subseteq [op : Operations, targets : SUBSET Devices]
    BY <1>1 DEF OutboxIInv, Types
<1> QED
    BY <1>1, <1>2, <1>3, <1>4, <1>6, <1>7, <1>8, <1>9, QuietStep

LEMMA RowFallsDueIInv ==
    ASSUME OutboxIInv, NEW op \in Operations, NEW d \in Devices, RowFallsDue(op, d)
    PROVE  OutboxIInv'
<1> DEFINE rows == Moved(outbox[op], {d}, "retryDue")
<1>1. /\ d \in InState(outbox[op], {"retryWait"})
      /\ outbox' = [outbox EXCEPT ![op] = rows]
      /\ UNCHANGED <<vars, listed, echo, prep, status, session, job, wire, late, spent,
                     sent, gone>>
    BY DEF RowFallsDue, serverVars, runVars, ghostVars
<1>2. UNCHANGED <<listed, revoked, inactive, echo, prep, job, sent, gone>>
    BY <1>1 DEF vars, deviceVars
<1>3. outbox[op] \in TargetRows
    BY Zenon DEF OutboxIInv, Types
<1>4. /\ rows \in TargetRows
      /\ DOMAIN rows = DOMAIN outbox[op]
      /\ rows = << >> <=> outbox[op] = << >>
      /\ \A e \in DOMAIN outbox[op] :
            /\ e \in {d} => rows[e].state = "retryDue"
            /\ e \notin {d} => rows[e] = outbox[op][e]
    BY <1>3, MovedShape DEF AttemptStates, Pending
<1> HIDE DEF rows
<1>5. \A e \in InState(rows, {"stale"}) : <<op, e>> \in gone
    BY <1>4 DEF OutboxIInv, StaleWasGone, InState
<1>6. InState(rows, {"accepted"}) \subseteq sent[op]
    BY <1>4 DEF OutboxIInv, AcceptedIsWritten, InState
<1>7. /\ outbox' \in [Operations -> TargetRows]
      /\ Recorded' /\ OwedOrQueued' /\ JobFits' /\ AbsentIsGone'
      /\ StaleWasGone' /\ AcceptedIsWritten'
    BY <1>1, <1>2, <1>4, <1>5, <1>6, RowsStep, Zenon
<1>8. Types'
    BY <1>1, <1>7 DEF OutboxIInv, Types
<1>9. outbox'[op] = rows /\ \A o \in Operations : o # op => outbox'[o] = outbox[o]
    BY <1>1 DEF OutboxIInv, Types
<1>10. WireFits'
    <2>1. CASE wire.pc # "none" /\ wire.op = op
        <3>1. outbox[op] # << >> /\ wire.targets \subseteq InState(outbox[op], {"sending", "stale"})
            BY <2>1, Zenon DEF OutboxIInv, WireFits
        <3>2. wire.targets \subseteq InState(rows, {"sending", "stale"})
            BY <1>1, <1>4, <3>1, Zenon DEF InState
        <3> QED
            BY <1>1, <1>4, <1>9, <2>1, <3>1, <3>2 DEF OutboxIInv, WireFits, InState
    <2>2. CASE wire.pc # "none" /\ wire.op # op
        BY <1>1, <1>9, <2>2, Zenon DEF OutboxIInv, WireFits, InState
    <2>3. CASE wire.pc = "none"
        BY <1>1, <2>3 DEF WireFits
    <2> QED
        BY <2>1, <2>2, <2>3, Zenon
<1>11. FinalStatusIsTrue'
    <2> SUFFICES ASSUME NEW m \in Messages
                 PROVE  /\ status[m] = "relayAccepted" =>
                            /\ outbox'[m] # << >> /\ sent[m] # {}
                            /\ InState(outbox'[m], Pending \cup {"permanentlyFailed"}) = {}
                        /\ status[m] = "permanentlyFailed" =>
                            prep[m] \notin {"owed", "waiting"} /\ InState(outbox'[m], Pending) = {}
                        /\ status[m] # "localOnly"
        BY <1>1, Zenon DEF FinalStatusIsTrue, InState
    <2>1. CASE m # op
        BY <1>9, <2>1, Zenon DEF OutboxIInv, FinalStatusIsTrue, Operations
    <2>2. CASE m = op
        <3>1. d \in InState(outbox[m], Pending)
            BY <1>1, <2>2, Zenon DEF InState, Pending
        <3>2. status[m] # "relayAccepted" /\ status[m] # "permanentlyFailed"
            BY <3>1, Zenon DEF OutboxIInv, FinalStatusIsTrue, InState
        <3> QED
            BY <3>2, Zenon DEF OutboxIInv, FinalStatusIsTrue
    <2> QED
        BY <2>1, <2>2, Zenon
<1> QED
    BY <1>7, <1>8, <1>10, <1>11 DEF OutboxIInv

\* A message becomes owed, or its fan-out is given back to the user; no row
\* changes.
LEMMA PrepStep ==
    ASSUME OutboxIInv, NEW m \in Messages, NEW p \in {"owed", "failed"},
           prep' = [prep EXCEPT ![m] = p], Refreshed(m),
           outbox[m] = << >>, echo' = echo \cup {m},
           UNCHANGED <<outbox, listed, revoked, inactive, sent, gone, session, wire, late>>,
           job' \in [Actors -> Jobs], JobFits',
           \A a \in Actors : job'[a].pc = "resolved" =>
               job[a].pc = "resolved" /\ job'[a].live = job[a].live,
           spent' \in [lost : Nat, refused : Nat, crashes : Nat, goes : Nat,
                       rearms : Nat, ids : Nat]
    PROVE  OutboxIInv'
<1>1. WireFits' /\ AbsentIsGone' /\ StaleWasGone' /\ AcceptedIsWritten'
    BY RowsKept, Zenon
<1>2. prep'[m] = p /\ \A n \in Messages : n # m => prep'[n] = prep[n]
    BY Zenon DEF OutboxIInv, Types
<1>3. Recorded' /\ OwedOrQueued'
    BY <1>2, Zenon DEF OutboxIInv, Recorded, OwedOrQueued
<1>4. Types'
    <2>1. prep' \in [Messages -> PrepStates]
        BY Zenon DEF OutboxIInv, Types, PrepStates
    <2>2. DOMAIN status' = Messages
        BY Zenon DEF OutboxIInv, Types, Refreshed
    <2>3. echo' \subseteq Operations
        BY Zenon DEF OutboxIInv, Types, Operations
    <2> QED
        BY <2>1, <2>2, <2>3, Zenon DEF OutboxIInv, Types
<1>5. FinalStatusIsTrue'
    <2>1. m \in Operations
        BY Zenon DEF Operations
    <2>2. (prep'[m] # "none") # (outbox'[m] # << >>)
        BY <1>2, Zenon
    <2>3. \A n \in Messages : n # m => outbox'[n] = outbox[n] /\ prep'[n] = prep[n]
        BY <1>2, Zenon
    <2>4. \A o \in Operations : sent[o] \subseteq sent'[o]
        OBVIOUS
    <2> QED
        BY <1>1, <1>4, <2>1, <2>2, <2>3, <2>4, RefreshedIsTrue, Zenon
<1> QED
    BY <1>1, <1>3, <1>4, <1>5, Zenon DEF OutboxIInv
=============================================================================
