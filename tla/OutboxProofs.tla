---------------------------- MODULE OutboxProofs ----------------------------
(***************************************************************************)
(* Proofs about Outbox: what the sender promises of a message holds with    *)
(* any number of devices, messages, room payloads, losses and deaths.       *)
(***************************************************************************)
EXTENDS OutboxStepProofs, FiniteSetTheorems

-----------------------------------------------------------------------------
(* Steps of a fan-out. *)

LEMMA CommitLocalEchoIInv ==
    ASSUME OutboxIInv, NEW m \in Messages, CommitLocalEcho(m)
    PROVE  OutboxIInv'
<1>1. /\ m \notin echo /\ echo' = echo \cup {m} /\ prep' = [prep EXCEPT ![m] = "owed"]
      /\ Refreshed(m)
      /\ UNCHANGED <<vars, listed, outbox, session, job, wire, late, spent, sent, gone>>
    BY DEF CommitLocalEcho, serverVars, runVars, ghostVars
<1>2. UNCHANGED <<revoked, inactive>>
    BY <1>1 DEF vars, deviceVars
<1>3. outbox[m] = << >>
    BY <1>1 DEF OutboxIInv, Recorded, Operations
<1>4. JobFits'
    <2>1. \A n \in Messages : prep[n] = "owed" => prep'[n] = "owed"
        BY <1>1 DEF OutboxIInv, Types
    <2>2. \A op \in Payloads \ echo : op \in Payloads \ echo'
        BY <1>1, SenderAssumption
    <2> QED
        BY <1>1, <2>1, <2>2 DEF OutboxIInv, JobFits
<1>5. /\ job' \in [Actors -> Jobs]
      /\ spent' \in [lost : Nat, refused : Nat, crashes : Nat, goes : Nat,
                     rearms : Nat, ids : Nat]
    BY <1>1 DEF OutboxIInv, Types
<1> QED
    BY <1>1, <1>2, <1>3, <1>4, <1>5, PrepStep, Zenon

LEMMA RearmFailedSendIInv ==
    ASSUME OutboxIInv, NEW m \in Messages, RearmFailedSend(m)
    PROVE  OutboxIInv'
<1>1. /\ Refreshed(m)
      /\ UNCHANGED <<vars, listed, echo, session, job, wire, late, sent, gone>>
    BY DEF RearmFailedSend, serverVars, ghostVars
<1>2. UNCHANGED <<revoked, inactive>>
    BY <1>1 DEF vars, deviceVars
<1>3. /\ job' \in [Actors -> Jobs]
      /\ spent' \in [lost : Nat, refused : Nat, crashes : Nat, goes : Nat,
                     rearms : Nat, ids : Nat]
    BY <1>1 DEF RearmFailedSend, OutboxIInv, Types
<1>4. m \in Operations
    BY DEF Operations
<1>5. CASE prep[m] = "failed" /\ prep' = [prep EXCEPT ![m] = "owed"] /\ outbox' = outbox
    <2>1. m \in echo /\ echo' = echo \cup {m}
        BY <1>1, <1>5 DEF OutboxIInv, Recorded
    <2>2. outbox[m] = << >>
        BY <1>5, <2>1 DEF OutboxIInv, OwedOrQueued
    <2>3. \A n \in Messages : prep[n] = "owed" => prep'[n] = "owed"
        BY <1>5 DEF OutboxIInv, Types
    <2>4. JobFits'
        BY <1>1, <2>3 DEF OutboxIInv, JobFits
    <2> QED
        BY <1>1, <1>2, <1>3, <1>5, <2>1, <2>2, <2>4, PrepStep, Zenon
<1>6. CASE /\ InState(outbox[m], {"permanentlyFailed"}) # {} /\ prep' = prep
           /\ outbox' = [outbox EXCEPT ![m] =
                Moved(@, InState(@, {"permanentlyFailed"}), "queued")]
    <2> DEFINE failed == InState(outbox[m], {"permanentlyFailed"})
               rows == Moved(outbox[m], failed, "queued")
    <2>1. outbox' = [outbox EXCEPT ![m] = rows]
        BY <1>6
    <2>2. outbox[m] \in TargetRows
        BY <1>4 DEF OutboxIInv, Types
    <2>3. outbox[m] # << >>
        BY <1>6 DEF InState
    <2>4. /\ rows \in TargetRows
          /\ DOMAIN rows = DOMAIN outbox[m]
          /\ rows = << >> <=> outbox[m] = << >>
          /\ \A d \in DOMAIN outbox[m] :
                /\ d \in failed => rows[d].state = "queued"
                /\ d \notin failed => rows[d] = outbox[m][d]
        BY <2>2, MovedShape DEF AttemptStates, Pending
    <2>5. \A d \in failed : outbox[m][d].state = "permanentlyFailed"
        BY DEF InState
    <2> HIDE DEF rows, failed
    <2>6. \A d \in InState(rows, {"stale"}) : <<m, d>> \in gone
        BY <1>4, <2>4 DEF OutboxIInv, StaleWasGone, InState
    <2>7. InState(rows, {"accepted"}) \subseteq sent[m]
        BY <1>4, <2>4 DEF OutboxIInv, AcceptedIsWritten, InState
    <2>8. /\ outbox' \in [Operations -> TargetRows]
          /\ Recorded' /\ OwedOrQueued' /\ JobFits' /\ AbsentIsGone'
          /\ StaleWasGone' /\ AcceptedIsWritten'
          /\ outbox[m] # << >> /\ Types' /\ Refreshed(m) => FinalStatusIsTrue'
        BY <1>1, <1>2, <1>4, <1>6, <2>1, <2>4, <2>6, <2>7, RowsStep, Zenon
    <2>9. Types'
        <3>1. DOMAIN status' = Messages
            BY <1>1 DEF OutboxIInv, Types, Refreshed
        <3> QED
            BY <1>1, <1>3, <1>6, <2>8, <3>1, Zenon DEF OutboxIInv, Types
    <2>10. outbox'[m] = rows /\ \A o \in Operations : o # m => outbox'[o] = outbox[o]
        BY <1>4, <2>1 DEF OutboxIInv, Types
    <2>11. WireFits'
        <3>1. CASE wire.pc # "none" /\ wire.op = m
            <4>1. wire.targets \subseteq InState(outbox[m], {"sending", "stale"})
                BY <3>1 DEF OutboxIInv, WireFits
            <4>2. wire.targets \subseteq InState(rows, {"sending", "stale"})
                BY <2>4, <2>5, <4>1, Zenon DEF InState
            <4> QED
                BY <1>1, <2>3, <2>4, <2>10, <3>1, <4>2, Zenon DEF OutboxIInv, WireFits, InState
        <3>2. CASE wire.pc # "none" /\ wire.op # m
            BY <1>1, <2>10, <3>2 DEF OutboxIInv, WireFits, InState
        <3>3. CASE wire.pc = "none"
            BY <1>1, <3>3 DEF WireFits
        <3> QED
            BY <3>1, <3>2, <3>3, Zenon
    <2> QED
        BY <1>1, <2>3, <2>8, <2>9, <2>11 DEF OutboxIInv
<1> QED
    BY <1>5, <1>6 DEF RearmFailedSend

\* A fan-out that ends on a settled cause.
LEMMA RetireIInv ==
    ASSUME OutboxIInv, NEW a \in Actors, NEW op, Retire(a, op),
           a = "engine" => op \in Messages /\ prep[op] = "owed",
           a = "room" => op \in Payloads,
           job' \in [Actors -> Jobs], job'[a].pc = "idle",
           \A b \in Actors : b # a => job'[b] = job[b],
           UNCHANGED <<vars, listed, echo, session, wire, late, spent, sent, gone>>
    PROVE  OutboxIInv'
<1>1. UNCHANGED <<revoked, inactive>> /\ outbox' = outbox /\ Refreshed(op)
    BY DEF vars, deviceVars, Retire
<1>2. JobFits'
    <2> SUFFICES ASSUME NEW b \in Actors, b # a, job'[b].pc # "idle"
                 PROVE  /\ job'[b].live # {}
                        /\ b = "engine" =>
                            job'[b].op \in Messages /\ prep'[job'[b].op] = "owed"
                        /\ b = "room" => job'[b].op \in Payloads \ echo'
        BY DEF JobFits
    <2>1. job'[b] = job[b]
        OBVIOUS
    <2>2. b = "engine" => prep' = prep
        BY DEF Retire
    <2> QED
        BY <2>1, <2>2, Zenon DEF OutboxIInv, JobFits
<1>3. \A b \in Actors : job'[b].pc = "resolved" =>
            job[b].pc = "resolved" /\ job'[b].live = job[b].live
    OBVIOUS
<1>4. /\ late' \subseteq [op : Operations, targets : SUBSET Devices]
      /\ spent' \in [lost : Nat, refused : Nat, crashes : Nat, goes : Nat,
                     rearms : Nat, ids : Nat]
    BY DEF OutboxIInv, Types
<1>5. CASE a = "engine"
    <2>1. op \in echo /\ echo' = echo \cup {op}
        BY <1>5 DEF OutboxIInv, Recorded
    <2>2. outbox[op] = << >>
        BY <1>5, <2>1 DEF OutboxIInv, OwedOrQueued
    <2>3. prep' = [prep EXCEPT ![op] = "failed"]
        BY <1>5 DEF Retire
    <2> QED
        BY <1>1, <1>2, <1>3, <1>4, <1>5, <2>1, <2>2, <2>3, PrepStep, Zenon
<1>6. CASE a = "room"
    <2>1. prep' = prep
        BY <1>6 DEF Retire
    <2>2. op \notin Messages
        BY <1>6, SenderAssumption
    <2>3. status' = status
        BY <1>1, <2>2 DEF Refreshed
    <2>4. prep' \in [Messages -> PrepStates]
        BY <2>1, Zenon DEF OutboxIInv, Types
    <2> QED
        BY <1>1, <1>2, <1>3, <1>4, <2>1, <2>3, <2>4, QuietStep, Zenon
<1> QED
    BY <1>5, <1>6 DEF Actors

\* The fan-out of actor a moves on with the operation it works on; nothing
\* else that the invariant speaks of changes.
LEMMA JobMoves ==
    ASSUME OutboxIInv, NEW a \in Actors, NEW j \in Jobs,
           job' = [job EXCEPT ![a] = j],
           j.live # {},
           a = "engine" => j.op \in Messages /\ prep[j.op] = "owed",
           a = "room" => j.op \in Payloads \ echo,
           j.pc = "resolved" => j.live = LiveDevices,
           UNCHANGED <<vars, listed, echo, prep, outbox, status, session, wire, late,
                       spent, sent, gone>>
    PROVE  OutboxIInv'
<1>1. /\ job' \in [Actors -> Jobs] /\ job'[a] = j
      /\ \A b \in Actors : b # a => job'[b] = job[b]
    BY OneJob, Zenon
<1>2. UNCHANGED <<revoked, inactive>>
    BY DEF vars, deviceVars
<1>3. JobFits'
    <2> SUFFICES ASSUME NEW b \in Actors, job'[b].pc # "idle"
                 PROVE  /\ job'[b].live # {}
                        /\ b = "engine" =>
                            job'[b].op \in Messages /\ prep'[job'[b].op] = "owed"
                        /\ b = "room" => job'[b].op \in Payloads \ echo'
        BY DEF JobFits
    <2>1. CASE b = a
        BY <1>1, <2>1
    <2>2. CASE b # a
        BY <1>1, <2>2 DEF OutboxIInv, JobFits
    <2> QED
        BY <2>1, <2>2
<1>4. \A b \in Actors : job'[b].pc = "resolved" =>
        \/ job'[b].live = LiveDevices
        \/ job[b].pc = "resolved" /\ job'[b].live = job[b].live
    BY <1>1
<1>5. /\ late' \subseteq [op : Operations, targets : SUBSET Devices]
      /\ spent' \in [lost : Nat, refused : Nat, crashes : Nat, goes : Nat,
                     rearms : Nat, ids : Nat]
      /\ prep' \in [Messages -> PrepStates]
    BY DEF OutboxIInv, Types
<1> QED
    BY <1>1, <1>2, <1>3, <1>4, <1>5, QuietStep

LEMMA ResolveIInv ==
    ASSUME OutboxIInv, NEW a \in Actors, NEW op \in Operations, Resolve(a, op)
    PROVE  OutboxIInv'
<1>1. /\ job[a] = NoJob
      /\ a = "engine" => op \in Messages /\ prep[op] = "owed"
      /\ a = "room" => op \in Payloads \ echo
    BY DEF Resolve, MayPrepare
<1>2. UNCHANGED <<vars, listed, echo, session, wire, late, spent, sent, gone>>
    BY DEF Resolve, serverVars, ghostVars
<1>3. CASE LiveDevices = {}
    <2>1. Retire(a, op) /\ job' = job
        BY <1>3, Zenon DEF Resolve
    <2>2. job' \in [Actors -> Jobs] /\ job'[a].pc = "idle"
        BY <1>1, <2>1, NoJobShape DEF OutboxIInv, Types
    <2>3. \A b \in Actors : b # a => job'[b] = job[b]
        BY <2>1
    <2> QED
        BY <1>1, <1>2, <2>1, <2>2, <2>3, RetireIInv
<1>4. CASE LiveDevices # {}
    <2> DEFINE j == [NoJob EXCEPT !.pc = "resolved", !.op = op, !.live = LiveDevices]
    <2>1. job' = [job EXCEPT ![a] = j] /\ UNCHANGED <<prep, outbox, status>>
        BY <1>4 DEF Resolve
    <2>2. LiveDevices \in SUBSET Devices /\ op \in Nat
        BY SenderAssumption, Zenon DEF LiveDevices, OutboxIInv, Types
    <2>3. j \in Jobs
        BY <2>2, Zenon DEF NoJob, Jobs, NoSession, Session
    <2>4. j.op = op /\ j.live = LiveDevices
        BY DEF NoJob
    <2> HIDE DEF j
    <2> QED
        BY <1>1, <1>2, <1>4, <2>1, <2>3, <2>4, JobMoves, Zenon
<1> QED
    BY <1>3, <1>4

LEMMA ReadContextsIInv ==
    ASSUME OutboxIInv, NEW a \in Actors, ReadContexts(a)
    PROVE  OutboxIInv'
<1> DEFINE j == [job[a] EXCEPT !.pc = "read", !.read = session]
<1>1. job[a] \in Jobs /\ session \in [Devices -> Session]
    BY DEF OutboxIInv, Types
<1>2. /\ job[a].pc = "reconciled"
      /\ UNCHANGED <<vars, listed, echo, prep, outbox, status, session, wire, late,
                     spent, sent, gone>>
    BY DEF ReadContexts, serverVars, localVars, ghostVars
<1>3. job' = [job EXCEPT ![a] = j]
    BY <1>1, Zenon DEF ReadContexts, OutboxIInv, Types
<1>4. j \in Jobs /\ j.pc = "read" /\ j.op = job[a].op /\ j.live = job[a].live
    BY <1>1, Zenon DEF Jobs
<1>5. /\ job[a].live # {}
      /\ a = "engine" => job[a].op \in Messages /\ prep[job[a].op] = "owed"
      /\ a = "room" => job[a].op \in Payloads \ echo
    BY <1>2 DEF OutboxIInv, JobFits
<1> HIDE DEF j
<1> QED
    BY <1>2, <1>3, <1>4, <1>5, JobMoves, Zenon

LEMMA ClaimIInv ==
    ASSUME OutboxIInv, NEW a \in Actors, Claim(a)
    PROVE  OutboxIInv'
<1>1. /\ job[a].pc = "read"
      /\ UNCHANGED <<vars, listed, echo, session, wire, late, spent, sent, gone>>
    BY DEF Claim, serverVars, ghostVars
<1>2. job[a] \in Jobs
    BY Zenon DEF OutboxIInv, Types
<1>3. /\ job[a].live # {}
      /\ a = "engine" => job[a].op \in Messages /\ prep[job[a].op] = "owed"
      /\ a = "room" => job[a].op \in Payloads \ echo
    BY <1>1 DEF OutboxIInv, JobFits
<1>4. CASE LiveDevices = job[a].live
    <2> DEFINE j == [job[a] EXCEPT !.pc = "claimed"]
    <2>1. job' = [job EXCEPT ![a] = j] /\ UNCHANGED <<prep, outbox, status>>
        BY <1>4 DEF Claim, OutboxIInv, Types
    <2>2. j \in Jobs /\ j.pc = "claimed" /\ j.op = job[a].op /\ j.live = job[a].live
        BY <1>2, Zenon DEF Jobs
    <2> HIDE DEF j
    <2> QED
        BY <1>1, <1>3, <2>1, <2>2, JobMoves, Zenon
<1>5. CASE LiveDevices # job[a].live
    <2>1. job' = [job EXCEPT ![a] = NoJob] /\ Retire(a, job[a].op)
        BY <1>5 DEF Claim
    <2>2. /\ job' \in [Actors -> Jobs] /\ job'[a].pc = "idle"
          /\ \A b \in Actors : b # a => job'[b] = job[b]
        BY <2>1, NoJobShape, OneJob, Zenon
    <2> QED
        BY <1>1, <1>3, <2>1, <2>2, RetireIInv
<1> QED
    BY <1>4, <1>5

LEMMA ReconcileIInv ==
    ASSUME OutboxIInv, NEW a \in Actors, Reconcile(a)
    PROVE  OutboxIInv'
<1> DEFINE lost == Invalidated(job[a].live)
           moved(op) == lost \cap InState(outbox[op], Pending)
           j == [job[a] EXCEPT !.pc = "reconciled"]
<1>1. /\ job[a].pc = "resolved"
      /\ outbox' = [op \in Operations |-> Moved(outbox[op], moved(op), "stale")]
      /\ UNCHANGED <<vars, listed, echo, prep, status, wire, late, spent, sent, gone>>
    BY DEF Reconcile, serverVars
<1>2. UNCHANGED <<revoked, inactive>>
    BY <1>1 DEF vars, deviceVars
<1>3. job[a] \in Jobs
    BY Zenon DEF OutboxIInv, Types
<1>4. j \in Jobs /\ j.pc = "reconciled" /\ j.op = job[a].op /\ j.live = job[a].live
    BY <1>3 DEF Jobs
<1>5. job' = [job EXCEPT ![a] = j]
    BY DEF Reconcile, OutboxIInv, Types
<1>6. /\ job' \in [Actors -> Jobs] /\ job'[a] = j
      /\ \A b \in Actors : b # a => job'[b] = job[b]
    BY <1>4, <1>5, OneJob, Zenon
<1>7. ASSUME NEW op \in Operations
      PROVE  /\ outbox'[op] \in TargetRows
             /\ DOMAIN outbox'[op] = DOMAIN outbox[op]
             /\ outbox'[op] = << >> <=> outbox[op] = << >>
             /\ \A d \in DOMAIN outbox[op] :
                    /\ d \in moved(op) => outbox'[op][d].state = "stale"
                    /\ d \notin moved(op) => outbox'[op][d] = outbox[op][d]
    <2>1. outbox[op] \in TargetRows /\ "stale" \in AttemptStates
        BY DEF OutboxIInv, Types, AttemptStates
    <2>2. outbox'[op] = Moved(outbox[op], moved(op), "stale")
        BY <1>1
    <2> HIDE DEF moved
    <2> QED
        BY <2>1, <2>2, MovedShape
<1>8. \A op \in Operations : \A d \in moved(op) :
        /\ d \in DOMAIN outbox[op] /\ outbox[op][d].state \in Pending
        /\ d \notin job[a].live
    BY Zenon DEF Invalidated, InState
<1> HIDE DEF lost, moved, j
<1>9. Types'
    <2>1. session' \in [Devices -> Session]
        BY Zenon DEF Reconcile, Forget, OutboxIInv, Types, NoSession, Session
    <2>2. outbox' \in [Operations -> TargetRows]
        BY <1>1, <1>7
    <2> QED
        BY <1>1, <1>6, <2>1, <2>2, Zenon DEF OutboxIInv, Types
<1>10. Recorded' /\ OwedOrQueued'
    BY <1>1, <1>7, Zenon DEF OutboxIInv, Recorded, OwedOrQueued, Operations
<1>11. JobFits'
    BY <1>1, <1>4, <1>6 DEF OutboxIInv, JobFits
<1>12. WireFits'
    <2>1. CASE wire.pc # "none"
        <3>1. /\ wire.op \in Operations /\ outbox[wire.op] # << >>
              /\ wire.targets \subseteq InState(outbox[wire.op], {"sending", "stale"})
            BY <2>1 DEF OutboxIInv, WireFits
        <3>2. wire.targets \subseteq InState(outbox'[wire.op], {"sending", "stale"})
            BY <1>7, <3>1 DEF InState
        <3>3. outbox'[wire.op] # << >>
            BY <1>7, <3>1, Zenon
        <3> QED
            BY <1>1, <2>1, <3>1, <3>2, <3>3, Zenon DEF OutboxIInv, WireFits, InState
    <2>2. CASE wire.pc = "none"
        BY <1>1, <2>2, Zenon DEF WireFits
    <2> QED
        BY <2>1, <2>2, Zenon
<1>13. AbsentIsGone'
    <2>1. \A b \in Actors : job'[b].pc = "resolved" =>
            job[b].pc = "resolved" /\ job'[b].live = job[b].live
        BY <1>4, <1>6
    <2>2. \A op \in Operations : DOMAIN outbox'[op] = DOMAIN outbox[op]
        BY <1>7
    <2> QED
        BY <1>1, <1>2, <2>1, <2>2, Zenon DEF OutboxIInv, AbsentIsGone, Live
<1>14. StaleWasGone'
    <2>1. \A op \in Operations : \A d \in moved(op) : <<op, d>> \in gone
        BY <1>1, <1>8, Zenon DEF OutboxIInv, AbsentIsGone
    <2> QED
        <3> SUFFICES ASSUME NEW op \in Operations, NEW d \in DOMAIN outbox'[op],
                            outbox'[op][d].state = "stale"
                     PROVE  <<op, d>> \in gone
            BY <1>1, Zenon DEF StaleWasGone, InState
        <3>1. d \in DOMAIN outbox[op]
            BY <1>7
        <3>2. CASE d \in moved(op)
            BY <2>1, <3>2, Zenon
        <3>3. CASE d \notin moved(op)
            <4>1. outbox'[op][d] = outbox[op][d]
                BY <1>7, <3>1, <3>3, Zenon
            <4> QED
                BY <3>1, <4>1 DEF OutboxIInv, StaleWasGone, InState
        <3> QED
            BY <3>2, <3>3
<1>15. AcceptedIsWritten'
    BY <1>1, <1>7 DEF OutboxIInv, AcceptedIsWritten, InState
<1>16. FinalStatusIsTrue'
    <2>1. ASSUME NEW m \in Messages, NEW sts
          PROVE  InState(outbox[m], Pending) = {} /\ "stale" \notin sts =>
                    InState(outbox'[m], sts) = InState(outbox[m], sts)
        <3>1. m \in Operations
            BY DEF Operations
        <3> QED
            BY <1>7, <1>8, <3>1 DEF InState
    <2>2. "stale" \notin Pending /\ "stale" \notin Pending \cup {"permanentlyFailed"}
        BY DEF Pending
    <2>3. \A m \in Messages : outbox'[m] = << >> <=> outbox[m] = << >>
        BY <1>7, Zenon DEF Operations
    <2> SUFFICES ASSUME NEW m \in Messages
                 PROVE  /\ status[m] = "relayAccepted" =>
                            /\ outbox'[m] # << >> /\ sent[m] # {}
                            /\ InState(outbox'[m], Pending \cup {"permanentlyFailed"}) = {}
                        /\ status[m] = "permanentlyFailed" =>
                            /\ prep[m] \notin {"owed", "waiting"}
                            /\ InState(outbox'[m], Pending) = {}
                        /\ status[m] # "localOnly"
        BY <1>1, Zenon DEF FinalStatusIsTrue, InState
    <2>4. InState(outbox[m], Pending \cup {"permanentlyFailed"}) = {} =>
            InState(outbox[m], Pending) = {}
        BY DEF InState
    <2> QED
        BY <2>1, <2>2, <2>3, <2>4, Zenon DEF OutboxIInv, FinalStatusIsTrue
<1> QED
    BY <1>9, <1>10, <1>11, <1>12, <1>13, <1>14, <1>15, <1>16, Zenon DEF OutboxIInv

\* What Seal writes has the types of its tables.
LEMMA SealShape ==
    ASSUME OutboxIInv, NEW a \in Actors, Seal(a)
    PROVE  /\ session' \in [Devices -> Session]
           /\ spent' \in [lost : Nat, refused : Nat, crashes : Nat, goes : Nat,
                          rearms : Nat, ids : Nat]
           /\ [d \in job[a].live |-> [state |-> "queued",
                batch |-> BatchIndex(job[a].live, d)]] \in [job[a].live -> TargetRow]
<1>1. job[a].live \subseteq Devices /\ job[a].read \in [Devices -> Session]
    BY DEF OutboxIInv, Types, Jobs
<1>2. \A S \in SUBSET Devices : Cardinality(S) \in Nat
    BY SenderAssumption, FS_Subset, FS_CardinalityType, Zenon
<1>3. /\ spent \in [lost : Nat, refused : Nat, crashes : Nat, goes : Nat,
                    rearms : Nat, ids : Nat]
      /\ session \in [Devices -> Session]
    BY DEF OutboxIInv, Types
<1>4. \A d \in Devices : NewId(a, d) \in Nat
    BY <1>1, <1>2, <1>3 DEF NewId
<1>5. \A d \in Devices : BatchIndex(job[a].live, d) \in Nat
    <2>1. \A d \in Devices : Cardinality({e \in job[a].live : e < d}) \in Nat
        BY <1>1, <1>2, Zenon
    <2> QED
        BY <2>1, SenderAssumption DEF BatchIndex
<1>6. session' \in [Devices -> Session]
    <2>1. session' = [d \in Devices |->
              IF d \notin job[a].live THEN session[d]
              ELSE IF job[a].read[d] = NoSession THEN [id |-> NewId(a, d), version |-> 1]
              ELSE [job[a].read[d] EXCEPT !.version = @ + 1]]
        BY DEF Seal
    <2>2. \A d \in Devices : [job[a].read[d] EXCEPT !.version = @ + 1] \in Session
        BY <1>1 DEF Session
    <2>3. \A d \in Devices : [id |-> NewId(a, d), version |-> 1] \in Session
        BY <1>4 DEF Session
    <2> QED
        BY <1>3, <2>1, <2>2, <2>3, Zenon
<1>7. spent' \in [lost : Nat, refused : Nat, crashes : Nat, goes : Nat, rearms : Nat,
                  ids : Nat]
    <2> DEFINE fresh == Cardinality({d \in job[a].live : job[a].read[d] = NoSession})
    <2>1. fresh \in Nat
        BY <1>1, <1>2
    <2>2. spent' = [spent EXCEPT !.ids = @ + fresh]
        BY Zenon DEF Seal
    <2> HIDE DEF fresh
    <2> QED
        BY <1>3, <2>1, <2>2
<1>8. [d \in job[a].live |-> [state |-> "queued",
        batch |-> BatchIndex(job[a].live, d)]] \in [job[a].live -> TargetRow]
    BY <1>1, <1>5 DEF TargetRow, AttemptStates, Pending
<1> QED
    BY <1>6, <1>7, <1>8, Zenon

LEMMA CommitPreparedSendIInv ==
    ASSUME OutboxIInv, NEW a \in Actors, CommitPreparedSend(a)
    PROVE  OutboxIInv'
<1> DEFINE op == job[a].op
           live == job[a].live
           rows == [d \in live |-> [state |-> "queued", batch |-> BatchIndex(live, d)]]
<1>1. /\ job[a].pc # "idle"
      /\ job' = [job EXCEPT ![a] = NoJob]
      /\ UNCHANGED <<vars, listed, wire, late, sent>>
    BY DEF CommitPreparedSend, serverVars
<1>2. UNCHANGED <<revoked, inactive>>
    BY <1>1, Zenon DEF vars, deviceVars
<1>3. /\ live # {}
      /\ a = "engine" => op \in Messages /\ prep[op] = "owed"
      /\ a = "room" => op \in Payloads \ echo
    BY <1>1 DEF OutboxIInv, JobFits
<1>4. /\ job' \in [Actors -> Jobs] /\ job'[a].pc = "idle"
      /\ \A b \in Actors : b # a => job'[b] = job[b]
    BY <1>1, NoJobShape, OneJob, Zenon
<1>5. CASE Conflict(a)
    <2>1. Retire(a, job[a].op) /\ UNCHANGED <<echo, session, spent, gone>>
        BY <1>5 DEF CommitPreparedSend
    <2> QED
        BY <1>1, <1>3, <1>4, <2>1, RetireIInv, Zenon
<1>6. CASE ~Conflict(a)
    <2>1. /\ Seal(a) /\ Refreshed(op)
          /\ prep' = IF a = "engine" THEN [prep EXCEPT ![op] = "none"] ELSE prep
        BY <1>6 DEF CommitPreparedSend
    <2>2. /\ outbox' = [outbox EXCEPT ![op] = rows]
          /\ echo' = echo \cup {op}
          /\ gone' = gone \cup
                {<<op, d>> : d \in (live \ LiveDevices) \cup Overlooked(a, live)}
        BY <2>1, Zenon DEF Seal
    <2>3. op \in Operations
        BY <1>3 DEF Actors, Operations
    <2>4. live \in SUBSET Devices
        BY Zenon DEF OutboxIInv, Types, Jobs
    <2>5. rows \in [live -> TargetRow]
        BY <2>1, SealShape, Zenon
    <2>6. rows \in TargetRows /\ rows # << >> /\ DOMAIN rows = live
        BY <1>3, <2>4, <2>5, FreshRows, Zenon
    <2>7. \A d \in live : rows[d].state = "queued"
        BY Zenon
    <2>8. gone \subseteq gone'
        BY <2>2, Zenon
    <2>9. \A d \in live :
            (d \notin LiveDevices \/ d \in Overlooked(a, live)) => <<op, d>> \in gone'
        BY <2>2
    <2>10. outbox[op] = << >>
        <3>1. CASE a = "engine"
            BY <1>3, <3>1, Zenon DEF OutboxIInv, Recorded, OwedOrQueued
        <3>2. CASE a = "room"
            BY <1>3, <2>3, <3>2, Zenon DEF OutboxIInv, Recorded
        <3> QED
            BY <3>1, <3>2, Zenon DEF Actors
    <2> HIDE DEF op, live, rows
    <2>11. outbox'[op] = rows /\ \A o \in Operations : o # op => outbox'[o] = outbox[o]
        BY <2>2, <2>3, Zenon DEF OutboxIInv, Types
    <2>12. \A m \in Messages : m # op => prep'[m] = prep[m]
        BY <2>1, Zenon DEF OutboxIInv, Types
    <2>13. op \in Messages => prep'[op] = "none"
        <3>1. op \in Messages => a = "engine"
            BY <1>3, SenderAssumption, Zenon DEF Actors
        <3> QED
            BY <2>1, <3>1, Zenon DEF OutboxIInv, Types
    <2>14. Types'
        <3>1. /\ session' \in [Devices -> Session]
              /\ spent' \in [lost : Nat, refused : Nat, crashes : Nat, goes : Nat,
                             rearms : Nat, ids : Nat]
            BY <2>1, SealShape
        <3>2. outbox' \in [Operations -> TargetRows]
            BY <2>2, <2>6, Zenon DEF OutboxIInv, Types
        <3>3. prep' \in [Messages -> PrepStates]
            BY <2>1, Zenon DEF OutboxIInv, Types, PrepStates
        <3>4. DOMAIN status' = Messages
            BY <2>1, Zenon DEF Refreshed, OutboxIInv, Types
        <3> QED
            BY <1>1, <1>4, <2>2, <2>3, <3>1, <3>2, <3>3, <3>4, Zenon DEF OutboxIInv, Types
    <2>15. Recorded'
        BY <2>2, <2>11, <2>12, <2>13, Zenon DEF OutboxIInv, Recorded
    <2>16. OwedOrQueued'
        BY <2>2, <2>6, <2>11, <2>12, <2>13, Zenon DEF OutboxIInv, OwedOrQueued, Operations
    <2>17. JobFits'
        <3> SUFFICES ASSUME NEW b \in Actors, b # a, job'[b].pc # "idle"
                     PROVE  /\ job'[b].live # {}
                            /\ b = "engine" =>
                                job'[b].op \in Messages /\ prep'[job'[b].op] = "owed"
                            /\ b = "room" => job'[b].op \in Payloads \ echo'
            BY <1>4, Zenon DEF JobFits
        <3>1. /\ job'[b] = job[b] /\ job[b].live # {}
              /\ b = "engine" => job[b].op \in Messages /\ prep[job[b].op] = "owed"
              /\ b = "room" => job[b].op \in Payloads \ echo
            BY <1>4 DEF OutboxIInv, JobFits
        <3>2. b = "engine" => op \notin Messages
            BY <1>3, SenderAssumption, Zenon DEF Actors
        <3>3. b = "room" => op \notin Payloads
            BY <1>3, SenderAssumption, Zenon DEF Actors
        <3> QED
            BY <2>2, <2>12, <3>1, <3>2, <3>3, Zenon
    <2>18. WireFits'
        <3>1. wire.pc # "none" => wire.op \in Operations /\ wire.op # op
            BY <2>10, Zenon DEF OutboxIInv, WireFits
        <3> QED
            BY <1>1, <2>8, <2>11, <3>1, Zenon DEF OutboxIInv, WireFits, InState
    <2>19. AbsentIsGone'
        <3> SUFFICES ASSUME NEW o \in Operations, NEW d \in DOMAIN outbox'[o]
                     PROVE  /\ ~Live(d) \/ d \notin listed => <<o, d>> \in gone'
                            /\ \A b \in Actors : job'[b].pc = "resolved" /\ d \notin job'[b].live
                                 => <<o, d>> \in gone'
            BY <1>1, <1>2, Zenon DEF AbsentIsGone, Live
        <3>1. CASE o # op
            BY <1>4, <2>8, <2>11, <3>1, Zenon DEF OutboxIInv, AbsentIsGone
        <3>2. CASE o = op
            <4>1. d \in live
                BY <2>6, <2>11, <3>2
            <4>2. ~Live(d) \/ d \notin listed => <<o, d>> \in gone'
                BY <2>9, <3>2, <4>1, Zenon DEF LiveDevices
            <4>3. ASSUME NEW b \in Actors, job'[b].pc = "resolved", d \notin job'[b].live
                  PROVE  <<o, d>> \in gone'
                <5>1. b # a /\ job'[b] = job[b]
                    BY <1>4, <4>3, Zenon
                <5>2. d \in Overlooked(a, live)
                    BY <4>1, <4>3, <5>1, Zenon DEF Overlooked
                <5> QED
                    BY <2>9, <3>2, <4>1, <5>2, Zenon
            <4> QED
                BY <4>2, <4>3
        <3> QED
            BY <3>1, <3>2, Zenon
    <2>20. StaleWasGone'
        BY <2>6, <2>7, <2>8, <2>11, Zenon DEF OutboxIInv, StaleWasGone, InState
    <2>21. AcceptedIsWritten'
        BY <1>1, <2>6, <2>7, <2>11, Zenon DEF OutboxIInv, AcceptedIsWritten, InState
    <2>22. FinalStatusIsTrue'
        <3>1. op \in Messages => (prep'[op] # "none") # (outbox'[op] # << >>)
            BY <2>6, <2>11, <2>13, Zenon
        <3>2. \A m \in Messages : m # op => outbox'[m] = outbox[m] /\ prep'[m] = prep[m]
            BY <2>11, <2>12, Zenon DEF Operations
        <3>3. \A o \in Operations : sent[o] \subseteq sent'[o]
            BY <1>1
        <3> QED
            BY <2>1, <2>3, <2>14, <2>21, <3>1, <3>2, <3>3, RefreshedIsTrue, Zenon
    <2> QED
        BY <2>14, <2>15, <2>16, <2>17, <2>18, <2>19, <2>20, <2>21, <2>22, Zenon DEF OutboxIInv
<1> QED
    BY <1>5, <1>6, Zenon

LEMMA DeviceGoesIInv ==
    ASSUME OutboxIInv, NEW d \in Devices, DeviceGoes(d)
    PROVE  OutboxIInv'
<1>1. /\ revoked' = revoked \cup {d} /\ inactive' = inactive
      /\ gone' = gone \cup Rows({d})
      /\ spent' = [spent EXCEPT !.goes = @ + 1]
      /\ UNCHANGED <<listed, echo, prep, outbox, status, session, job, wire, late, sent>>
    BY DEF DeviceGoes, Revoke, Goes, localVars
<1>2. spent' \in [lost : Nat, refused : Nat, crashes : Nat, goes : Nat, rearms : Nat,
                  ids : Nat]
    BY <1>1 DEF OutboxIInv, Types
<1>3. \A op \in Operations : \A e \in DOMAIN outbox[op] :
        (~Live(e))' => <<op, e>> \in gone' \/ ~Live(e)
    BY <1>1 DEF Live, Rows
<1>4. listed' \subseteq Devices /\ gone \subseteq gone'
    BY <1>1 DEF OutboxIInv, Types
<1> QED
    BY <1>1, <1>2, <1>3, <1>4, PeerStep, Zenon

LEMMA AccountGoesIInv ==
    ASSUME OutboxIInv, AccountGoes
    PROVE  OutboxIInv'
<1>1. /\ revoked' = revoked /\ gone' = gone \cup Rows(Devices)
      /\ spent' = [spent EXCEPT !.goes = @ + 1]
      /\ UNCHANGED <<listed, echo, prep, outbox, status, session, job, wire, late, sent>>
    BY DEF AccountGoes, Goes, localVars
<1>2. spent' \in [lost : Nat, refused : Nat, crashes : Nat, goes : Nat, rearms : Nat,
                  ids : Nat]
    BY <1>1 DEF OutboxIInv, Types
<1>3. \A op \in Operations : DOMAIN outbox[op] \subseteq Devices
    BY RowsShape DEF OutboxIInv, Types
<1>4. \A op \in Operations : \A e \in DOMAIN outbox[op] : <<op, e>> \in gone'
    BY <1>1, <1>3 DEF Rows
<1>5. listed' \subseteq Devices /\ gone \subseteq gone'
    BY <1>1, Zenon DEF OutboxIInv, Types
<1> QED
    BY <1>1, <1>2, <1>4, <1>5, PeerStep, Zenon

\* The steps of the peer that make no row's device less live, and the engine's
\* steps from one stage to the next.
LEMMA HarmlessIInv ==
    ASSUME OutboxIInv,
           \/ AccountReturns \/ (\E d \in Devices : Enrol(d) \/ Collect(d))
           \/ EndPrepare \/ EndFlush \/ RefreshStaleDevices
           \/ UNCHANGED outboxVars
    PROVE  OutboxIInv'
<1>1. UNCHANGED <<echo, prep, outbox, status, session, job, wire, late, sent, spent, gone>>
    BY Zenon DEF AccountReturns, Enrol, Collect, EndPrepare, EndFlush, RefreshStaleDevices,
           outboxVars, localVars, runVars, ghostVars
<1>2. listed' \subseteq Devices /\ listed \subseteq listed'
    BY Zenon DEF AccountReturns, Enrol, Collect, EndPrepare, EndFlush, RefreshStaleDevices,
           outboxVars, serverVars, OutboxIInv, Types
<1>3. revoked' = revoked /\ inactive' \subseteq inactive
    BY DEF AccountReturns, Enrol, Collect, Ack, EndPrepare, EndFlush, RefreshStaleDevices,
           outboxVars, serverVars, vars, deviceVars
<1>4. \A d : (~Live(d))' => ~Live(d)
    BY <1>3, Zenon DEF Live
<1>5. spent' \in [lost : Nat, refused : Nat, crashes : Nat, goes : Nat, rearms : Nat,
                  ids : Nat]
    BY <1>1, Zenon DEF OutboxIInv, Types
<1>6. \A op \in Operations : \A d \in DOMAIN outbox[op] :
        (~Live(d))' \/ d \notin listed' => ~Live(d) \/ d \notin listed
    BY <1>2, <1>4, Zenon
<1>7. gone \subseteq gone'
    BY <1>1, Zenon
<1> QED
    BY <1>1, <1>2, <1>5, <1>6, <1>7, PeerStep, Zenon

LEMMA NextOutboxIInv ==
    ASSUME OutboxIInv, [OutboxNext]_outboxVars
    PROVE  OutboxIInv'
<1>1. \A a \in Actors : Prepare(a) => OutboxIInv'
    BY ResolveIInv, ReconcileIInv, ReadContextsIInv, ClaimIInv, CommitPreparedSendIInv, Zenon
       DEF Prepare
<1>2. Prepare("room") => OutboxIInv'
    BY <1>1 DEF Actors
<1>3. Engine => OutboxIInv'
    <2>1. Prepare("engine") => OutboxIInv'
        BY <1>1 DEF Actors
    <2>2. EndPrepare \/ EndFlush \/ RefreshStaleDevices => OutboxIInv'
        BY HarmlessIInv
    <2>3. BeginBatch \/ RecordAcceptance => OutboxIInv'
        BY BeginBatchIInv, RecordAcceptanceIInv
    <2> QED
        BY <2>1, <2>2, <2>3 DEF Engine, Flush
<1>4. (\E m \in Messages : CommitLocalEcho(m) \/ RearmFailedSend(m)) => OutboxIInv'
    BY CommitLocalEchoIInv, RearmFailedSendIInv
<1>5. (\E a \in Actors : PrepareFails(a)) => OutboxIInv'
    BY PrepareFailsIInv
<1>6. Serve \/ (\E r \in late : ServeLate(r)) => OutboxIInv'
    BY ServeIInv, ServeLateIInv
<1>7. RecordRetry \/ RecordPermanentFailure \/ Crash => OutboxIInv'
    BY RecordRetryIInv, RecordPermanentFailureIInv, CrashIInv, Zenon
<1>8. FallsDue => OutboxIInv'
    BY RowFallsDueIInv, PreparationFallsDueIInv DEF FallsDue
<1>9. (\E d \in Devices : DeviceGoes(d)) \/ AccountGoes => OutboxIInv'
    BY DeviceGoesIInv, AccountGoesIInv
<1>10. AccountReturns \/ (\E d \in Devices : Enrol(d) \/ Collect(d))
        \/ UNCHANGED outboxVars => OutboxIInv'
    BY HarmlessIInv
<1> QED
    BY <1>2, <1>3, <1>4, <1>5, <1>6, <1>7, <1>8, <1>9, <1>10, Zenon DEF OutboxNext

LEMMA OutboxIInvHolds == OutboxSpec => []OutboxIInv
<1>1. OutboxInit => OutboxIInv
    BY InitOutboxIInv
<1>2. OutboxIInv /\ [OutboxNext]_outboxVars => OutboxIInv'
    BY NextOutboxIInv
<1> QED
    BY <1>1, <1>2, PTL DEF OutboxSpec

-----------------------------------------------------------------------------
(* The theorems. *)

\* A message the user sent is owed its fan-out or queued, exactly one of the
\* two: commitLocalEcho writes the debt with the echo, and the transaction that
\* writes the sealed rows is the one that settles it.
THEOREM NeverDropped == OutboxSpec => []OwedOrQueued
<1>1. OutboxIInv => OwedOrQueued
    BY DEF OutboxIInv
<1> QED
    BY <1>1, OutboxIInvHolds, PTL

\* recordOutboxAcceptance counts a row as accepted only if the server wrote a
\* copy, whatever was lost, repeated or served late.
THEOREM AcceptedWasWritten == OutboxSpec => []AcceptedIsWritten
<1>1. OutboxIInv => AcceptedIsWritten
    BY DEF OutboxIInv
<1> QED
    BY <1>1, OutboxIInvHolds, PTL

\* The final states _deriveTransportState shows the user are true, although
\* reconciliation settles rows without deriving the status anew.
THEOREM ShownStatusIsTrue == OutboxSpec => []FinalStatusIsTrue
<1>1. OutboxIInv => FinalStatusIsTrue
    BY DEF OutboxIInv
<1> QED
    BY <1>1, OutboxIInvHolds, PTL

\* A row is given up only for a device that was gone, or that the list of a
\* fan-out running beside the sealing one did not name yet.
THEOREM GivenUpForAReason == OutboxSpec => []StaleWasGone
<1>1. OutboxIInv => StaleWasGone
    BY Zenon DEF OutboxIInv
<1> QED
    BY <1>1, OutboxIInvHolds, PTL

-----------------------------------------------------------------------------
(* Settled rows. *)

\* The step keeps the row of device d if it was settled.
KeepsSettled(op, d) ==
    /\ d \in DOMAIN outbox'[op]
    /\ outbox[op][d].state = "accepted" => outbox'[op][d] = outbox[op][d]
    /\ outbox[op][d].state = "stale" =>
        \/ outbox'[op][d] = outbox[op][d]
        \/ op = wire.op /\ d \in wire.targets

\* Moving rows that are not settled keeps the settled ones.
LEMMA MovedKeeps ==
    ASSUME OutboxIInv, NEW o \in Operations, NEW S, NEW st \in AttemptStates,
           outbox' = [outbox EXCEPT ![o] = Moved(@, S, st)],
           \A d \in DOMAIN outbox[o] : d \in S =>
               \/ outbox[o][d].state \notin {"accepted", "stale"}
               \/ outbox[o][d].state = "stale" /\ o = wire.op /\ d \in wire.targets,
           NEW op \in Operations, NEW d \in DOMAIN outbox[op]
    PROVE  KeepsSettled(op, d)
<1>1. CASE op # o
    BY <1>1, Zenon DEF KeepsSettled, OutboxIInv, Types
<1>2. CASE op = o
    <2>1. outbox[o] \in TargetRows /\ outbox'[o] = Moved(outbox[o], S, st)
        BY Zenon DEF OutboxIInv, Types
    <2>2. /\ DOMAIN outbox'[o] = DOMAIN outbox[o]
          /\ d \notin S => outbox'[o][d] = outbox[o][d]
        BY <1>2, <2>1, MovedShape
    <2> QED
        BY <1>2, <2>2, Zenon DEF KeepsSettled
<1> QED
    BY <1>1, <1>2, Zenon

\* The rows on the wire are in sending or were given up meanwhile.
LEMMA WireRows ==
    ASSUME OutboxIInv, wire.pc # "none"
    PROVE  /\ wire.op \in Operations
           /\ \A d \in wire.targets : outbox[wire.op][d].state \in {"sending", "stale"}
BY DEF OutboxIInv, WireFits, InState

LEMMA PreparationKeepsSettled ==
    ASSUME OutboxIInv, NEW a \in Actors, Prepare(a),
           NEW op \in Operations, NEW d \in DOMAIN outbox[op]
    PROVE  KeepsSettled(op, d)
<1>1. CASE outbox' = outbox
    BY <1>1 DEF KeepsSettled
<1>2. CASE Reconcile(a)
    <2> DEFINE S == Invalidated(job[a].live) \cap InState(outbox[op], Pending)
    <2>1. outbox'[op] = Moved(outbox[op], S, "stale")
        BY <1>2, Zenon DEF Reconcile
    <2>2. outbox[op] \in TargetRows /\ "stale" \in AttemptStates
        BY Zenon DEF OutboxIInv, Types, AttemptStates
    <2>3. d \in S => outbox[op][d].state \notin {"accepted", "stale"}
        BY Zenon DEF InState, Pending
    <2> HIDE DEF S
    <2>4. /\ DOMAIN outbox'[op] = DOMAIN outbox[op]
          /\ d \notin S => outbox'[op][d] = outbox[op][d]
        BY <2>1, <2>2, MovedShape
    <2> QED
        BY <2>3, <2>4 DEF KeepsSettled
<1>3. CASE CommitPreparedSend(a) /\ ~Conflict(a)
    <2>1. \E rows : outbox' = [outbox EXCEPT ![job[a].op] = rows]
        BY <1>3, Zenon DEF CommitPreparedSend, Seal
    <2>2. /\ a = "engine" => job[a].op \in Messages /\ prep[job[a].op] = "owed"
          /\ a = "room" => job[a].op \in Payloads \ echo
        BY <1>3, Zenon DEF CommitPreparedSend, OutboxIInv, JobFits
    <2>3. op = job[a].op => outbox[op] = << >>
        <3>1. a = "engine" /\ op = job[a].op => outbox[op] = << >>
            BY <2>2, Zenon DEF OutboxIInv, Recorded, OwedOrQueued
        <3>2. a = "room" /\ op = job[a].op => outbox[op] = << >>
            BY <2>2, Zenon DEF OutboxIInv, Recorded
        <3> QED
            BY <3>1, <3>2, Zenon DEF Actors
    <2>4. op # job[a].op
        BY <2>3
    <2>5. outbox'[op] = outbox[op]
        BY <2>1, <2>4, Zenon DEF OutboxIInv, Types
    <2> QED
        BY <2>5 DEF KeepsSettled
<1> QED
    BY <1>1, <1>2, <1>3, Zenon
       DEF Prepare, Resolve, Retire, ReadContexts, localVars, Claim, CommitPreparedSend

LEMMA OutcomeKeepsSettled ==
    ASSUME OutboxIInv, RecordAcceptance \/ RecordRetry \/ RecordPermanentFailure,
           NEW op \in Operations, NEW d \in DOMAIN outbox[op]
    PROVE  KeepsSettled(op, d)
<1>1. wire.pc # "none"
    BY DEF RecordAcceptance, RecordRetry, RecordPermanentFailure
<1>2. /\ wire.op \in Operations
      /\ \A e \in wire.targets : outbox[wire.op][e].state \in {"sending", "stale"}
    BY <1>1, WireRows, Zenon
<1>3. CASE RecordAcceptance
    <2>1. outbox' = [outbox EXCEPT ![wire.op] = [e \in DOMAIN @ |->
            IF e \in wire.targets THEN [@[e] EXCEPT !.state = Answer(e)] ELSE @[e]]]
        BY <1>3 DEF RecordAcceptance
    <2>2. op # wire.op => outbox'[op] = outbox[op]
        BY <2>1 DEF OutboxIInv, Types
    <2>3. op = wire.op => /\ d \in DOMAIN outbox'[op]
                          /\ d \notin wire.targets => outbox'[op][d] = outbox[op][d]
        BY <2>1 DEF OutboxIInv, Types
    <2> QED
        BY <1>2, <2>2, <2>3 DEF KeepsSettled
<1>4. CASE RecordRetry
    <2>1. /\ outbox' = [outbox EXCEPT ![wire.op] = Moved(@, wire.targets, "retryWait")]
          /\ "retryWait" \in AttemptStates
        BY <1>4 DEF RecordRetry, AttemptStates, Pending
    <2> QED
        BY <1>2, <2>1, MovedKeeps, Zenon
<1>5. CASE RecordPermanentFailure
    <2>1. /\ outbox' =
                [outbox EXCEPT ![wire.op] = Moved(@, wire.targets, "permanentlyFailed")]
          /\ "permanentlyFailed" \in AttemptStates
        BY <1>5 DEF RecordPermanentFailure, AttemptStates
    <2> QED
        BY <1>2, <2>1, MovedKeeps, Zenon
<1> QED
    BY <1>3, <1>4, <1>5, Zenon

LEMMA QueueKeepsSettled ==
    ASSUME OutboxIInv,
           \/ BeginBatch
           \/ \E m \in Messages : RearmFailedSend(m)
           \/ \E o \in Operations, e \in Devices : RowFallsDue(o, e),
           NEW op \in Operations, NEW d \in DOMAIN outbox[op]
    PROVE  KeepsSettled(op, d)
<1>1. {"sending", "queued", "retryDue"} \subseteq AttemptStates
    BY DEF AttemptStates, Pending
<1>2. CASE BeginBatch
    <2>1. PICK o \in DueOperations :
              outbox' = [outbox EXCEPT ![o] = Moved(@, NextBatch(o), "sending")]
        BY <1>2, Zenon DEF BeginBatch
    <2>2. /\ o \in Operations
          /\ NextBatch(o) \subseteq InState(outbox[o], {"queued", "sending", "retryDue"})
        BY NextBatchShape, Zenon
    <2>3. \A e \in DOMAIN outbox[o] : e \in NextBatch(o) =>
            outbox[o][e].state \notin {"accepted", "stale"}
        BY <2>2 DEF InState
    <2> QED
        BY <1>1, <2>1, <2>2, <2>3, MovedKeeps, Zenon
<1>3. ASSUME NEW m \in Messages, RearmFailedSend(m)
      PROVE  KeepsSettled(op, d)
    <2>1. CASE outbox' = outbox
        BY <2>1 DEF KeepsSettled
    <2>2. CASE outbox' = [outbox EXCEPT ![m] =
                Moved(@, InState(@, {"permanentlyFailed"}), "queued")]
        <3> DEFINE S == InState(outbox[m], {"permanentlyFailed"})
        <3>1. outbox' = [outbox EXCEPT ![m] = Moved(@, S, "queued")]
            BY <2>2, Zenon
        <3>2. \A e \in DOMAIN outbox[m] : e \in S =>
                outbox[m][e].state \notin {"accepted", "stale"}
            BY DEF InState
        <3>3. m \in Operations
            BY DEF Operations
        <3> HIDE DEF S
        <3> QED
            BY <1>1, <3>1, <3>2, <3>3, MovedKeeps, Zenon
    <2> QED
        BY <1>3, <2>1, <2>2, Zenon DEF RearmFailedSend
<1>4. ASSUME NEW o \in Operations, NEW e \in Devices, RowFallsDue(o, e)
      PROVE  KeepsSettled(op, d)
    <2>1. outbox' = [outbox EXCEPT ![o] = Moved(@, {e}, "retryDue")]
        BY <1>4, Zenon DEF RowFallsDue
    <2>2. \A x \in DOMAIN outbox[o] : x \in {e} =>
            outbox[o][x].state \notin {"accepted", "stale"}
        BY <1>4 DEF RowFallsDue, InState
    <2> QED
        BY <1>1, <2>1, <2>2, MovedKeeps, Zenon
<1> QED
    BY <1>2, <1>3, <1>4

\* No row disappears and no settled row is sent again, but for a row that
\* reconciliation gave up while a request already carried it: recordOutboxRetry
\* and recordOutboxAcceptance write the rows of their batch whatever their state.
THEOREM SettledStaysSettled == OutboxSpec => SettledForGood
<1>1. ASSUME OutboxIInv, [OutboxNext]_outboxVars
      PROVE  [\A op \in Operations : \A d \in DOMAIN outbox[op] :
                KeepsSettled(op, d)]_outboxVars
    <2> SUFFICES ASSUME OutboxNext, NEW op \in Operations, NEW d \in DOMAIN outbox[op]
                 PROVE  KeepsSettled(op, d)
        BY <1>1
    <2>1. CASE outbox' = outbox
        BY <2>1 DEF KeepsSettled
    <2>2. CASE \E a \in Actors : Prepare(a)
        BY <1>1, <2>2, PreparationKeepsSettled
    <2>3. CASE RecordAcceptance \/ RecordRetry \/ RecordPermanentFailure
        BY <1>1, <2>3, OutcomeKeepsSettled, Zenon
    <2>4. CASE \/ BeginBatch
               \/ \E m \in Messages : RearmFailedSend(m)
               \/ \E o \in Operations, e \in Devices : RowFallsDue(o, e)
        BY <1>1, <2>4, QueueKeepsSettled
    <2>5. (\E m \in Messages : CommitLocalEcho(m)) \/ EndPrepare \/ EndFlush
            \/ RefreshStaleDevices \/ (\E a \in Actors : PrepareFails(a))
            => outbox' = outbox
        BY DEF CommitLocalEcho, EndPrepare, EndFlush, RefreshStaleDevices, PrepareFails,
               localVars
    <2>6. Serve \/ (\E r \in late : ServeLate(r)) \/ Crash
            \/ (\E m \in Messages : PreparationFallsDue(m)) => outbox' = outbox
        BY DEF Serve, ServeLate, Crash, PreparationFallsDue, localVars
    <2>7. (\E e \in Devices : DeviceGoes(e) \/ Enrol(e) \/ Collect(e)) \/ AccountGoes
            \/ AccountReturns => outbox' = outbox
        BY Zenon DEF DeviceGoes, Goes, Enrol, Collect, AccountGoes, AccountReturns, localVars
    <2>8. Engine \/ Prepare("room") =>
            \/ \E a \in Actors : Prepare(a)
            \/ EndPrepare \/ BeginBatch \/ EndFlush \/ RecordAcceptance
            \/ RefreshStaleDevices
        BY Zenon DEF Engine, Flush, Actors
    <2> QED
        BY <2>1, <2>2, <2>3, <2>4, <2>5, <2>6, <2>7, <2>8, Zenon DEF OutboxNext, FallsDue
<1>2. OutboxIInv /\ [OutboxNext]_outboxVars =>
        [\A op \in Operations : \A d \in DOMAIN outbox[op] :
            /\ d \in DOMAIN outbox'[op]
            /\ outbox[op][d].state = "accepted" => outbox'[op][d] = outbox[op][d]
            /\ outbox[op][d].state = "stale" =>
                \/ outbox'[op][d] = outbox[op][d]
                \/ op = wire.op /\ d \in wire.targets]_outboxVars
    BY <1>1 DEF KeepsSettled
<1> QED
    BY <1>2, OutboxIInvHolds, PTL DEF OutboxSpec, SettledForGood
=============================================================================
