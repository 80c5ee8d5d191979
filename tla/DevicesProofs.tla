--------------------------- MODULE DevicesProofs ---------------------------
(***************************************************************************)
(* Proofs about Devices: the steps of an enrolled device and of a peer keep *)
(* the invariant of EnrolmentProofs, and the theorems that follow from it.  *)
(***************************************************************************)
EXTENDS EnrolmentProofs, FiniteSetTheorems

-----------------------------------------------------------------------------
(* Steps of an enrolled device.                                              *)

\* The log a device keeps is the one it had, or all of one that it verified.
KeepsLog(c) ==
    \/ own'[c].stored = own[c].stored
    \/ own'[c].stored = log /\ Linked(log)

\* What a step of an enrolled device leaves true of its enrolment and of the log
\* it keeps.
LEMMA EnrolledMoves ==
    ASSUME Types, Types', Grew, NEW c \in Clients, ClientInv(c),
           journal[c].phase = "complete", journal'[c].phase \in {"complete", "wiped"},
           journal'[c].row = journal[c].row, journal'[c].record = journal[c].record,
           task'[c].step \notin {"prepare", "append"},
           task'[c].chain <= Len(log), task'[c].tries <= 2,
           task'[c].step = "idle" => task'[c] = Idle,
           KeepsLog(c),
           \A k \in DOMAIN log' : k \notin DOMAIN log => log'[k].target # 0
    PROVE  EnrolmentFits(c)' /\ AddedOnce(c)' /\ StoredIsPrefix(c)' /\ EnrolledHasRecord(c)'
<1>0. /\ Len(log) \in Nat /\ Len(rows) \in Nat /\ Len(log') \in Nat /\ Len(rows') \in Nat
      /\ DOMAIN log \subseteq DOMAIN log'
      /\ Len(log) <= Len(log') /\ Len(rows) <= Len(rows')
      /\ journal[c].row \in Nat /\ task'[c].chain \in Nat
    <2>1. /\ log \in Seq(Record) /\ log' \in Seq(Record) /\ rows \in Seq(Row)
          /\ rows' \in Seq(Row) /\ journal[c] \in Journal /\ task'[c] \in Task
        BY Zenon DEF Types
    <2>2. /\ DOMAIN log \subseteq DOMAIN log'
          /\ Len(log) <= Len(log') /\ Len(rows) <= Len(rows')
        BY DomainsGrew, Zenon DEF Grew
    <2>3. Len(log) \in Nat /\ Len(rows) \in Nat /\ Len(log') \in Nat /\ Len(rows') \in Nat
        BY <2>1
    <2>4. journal[c].row \in Nat /\ task'[c].chain \in Nat
        BY <2>1 DEF Journal, Task
    <2> QED
        BY <2>2, <2>3, <2>4, Zenon
<1>1. EnrolmentFits(c)'
    <2>1. journal[c].record = <<>> /\ journal[c].row <= Len(rows) /\ journal[c].row # 0
        BY DEF ClientInv, EnrolmentFits, Early
    <2>2. journal'[c].row <= Len(rows') /\ task'[c].chain <= Len(log')
        BY <1>0, <2>1
    <2> QED
        BY <2>1, <2>2 DEF EnrolmentFits
<1>2. AddedOnce(c)'
    <2>1. Adds(c)' = Adds(c)
        BY <1>0 DEF Adds, Grew
    <2> QED
        BY <2>1 DEF ClientInv, AddedOnce
<1>3. StoredIsPrefix(c)'
    <2>1. \A k \in DOMAIN log : k > 1 => k - 1 \in DOMAIN log
        BY Domains
    <2>2. CASE own'[c].stored = own[c].stored
        BY <1>0, <2>1, <2>2 DEF ClientInv, StoredIsPrefix, Grew
    <2>3. CASE own'[c].stored = log /\ Linked(log)
        <3>1. \A k \in DOMAIN log :
                  log[k].sequence = k /\ (k > 1 => log[k].previous = log[k - 1].id)
            BY <2>3, Domains DEF Linked
        <3> QED
            BY <1>0, <2>1, <2>3, <3>1 DEF StoredIsPrefix, Grew
    <2> QED
        BY <2>2, <2>3 DEF KeepsLog
<1>4. EnrolledHasRecord(c)'
    BY <1>0, Zenon DEF ClientInv, EnrolledHasRecord, Grew
<1> QED
    BY <1>1, <1>2, <1>3, <1>4

\* A step that reads the server and changes only what the device keeps and does.
LEMMA OwnStep ==
    ASSUME IInv, NEW c \in Clients, journal[c].phase = "complete",
           rows' = rows, log' = log, journal' = journal, peer' = peer,
           made' = made \/ made' = made + 1,
           own' \in [Clients -> Own], \A o \in Clients \ {c} : own'[o] = own[o],
           task' \in [Clients -> Task], \A o \in Clients \ {c} : task'[o] = task[o],
           task'[c].step \notin {"prepare", "append"},
           task'[c].chain <= Len(log), task'[c].tries <= 2,
           task'[c].step = "idle" => task'[c] = Idle,
           KeepsLog(c),
           RemovalFits(c)', ForkFits(c)'
    PROVE  IInv'
<1>1. Types'
    BY DEF IInv, Types
<1>2. Grew
    BY GrewSame DEF IInv
<1>3. EnrolmentFits(c)' /\ AddedOnce(c)' /\ StoredIsPrefix(c)' /\ EnrolledHasRecord(c)'
    BY <1>1, <1>2, EnrolledMoves DEF IInv
<1>4. ClientInv(c)'
    BY <1>3 DEF ClientInv
<1> QED
    BY <1>1, <1>4, ClientOnlyStep

\* What holds of the removal on disk when a fork is noticed.
MayNotice(c) ==
    own[c].pending # <<>> =>
        \/ ~own[c].pending[1].confirmed /\ ~Linked(log)
        \/ own[c].pending[1].confirmed /\ ~rows[own[c].pending[1].record.target].live

\* A fork is noticed, and the task ends.
LEMMA NoticeStep ==
    ASSUME IInv, NEW c \in Clients, journal[c].phase = "complete",
           own' = Posture(c, "deviceLogFork"), Do(c, Idle),
           MayNotice(c),
           rows' = rows, log' = log, journal' = journal, made' = made, peer' = peer
    PROVE  IInv'
<1>1. /\ own' \in [Clients -> Own] /\ \A o \in Clients \ {c} : own'[o] = own[o]
      /\ own'[c].pending = own[c].pending /\ own'[c].stored = own[c].stored
      /\ own'[c].posture = "deviceLogFork"
    BY Zenon DEF IInv, Types, Own, Posture
<1>2. /\ task' \in [Clients -> Task] /\ task'[c] = Idle /\ task'[c].step = "idle"
      /\ \A o \in Clients \ {c} : task'[o] = task[o]
    BY DoEffect, IdleIsTask DEF IInv
<1>3. 0 <= Len(log)
    BY Domains DEF IInv
<1>4. /\ task'[c].chain <= Len(log) /\ task'[c].tries <= 2
      /\ task'[c].step \notin {"prepare", "append"}
    BY <1>2, <1>3, IdleIsTask
<1>5. RemovalFits(c)
    BY Zenon DEF IInv, ClientInv
<1>6. RemovalFits(c)'
    BY <1>1, <1>2, <1>5, IdleIsTask, Zenon DEF RemovalFits, Sending, InLog
<1>7. ForkFits(c)'
    BY <1>1, <1>2 DEF ForkFits, MayNotice
<1>8. task'[c].step = "idle" => task'[c] = Idle
    BY <1>2
<1>9. UNCHANGED <<rows, log, journal, peer>> /\ (made' = made \/ made' = made + 1)
    OBVIOUS
<1> QED
    BY <1>1, <1>2, <1>4, <1>6, <1>7, <1>8, <1>9, OwnStep DEF KeepsLog

\* The chain of a removal is verified and kept, or the fork is noticed.
LEMMA CommitStep ==
    ASSUME IInv, NEW c \in Clients, NEW t \in Task, journal[c].phase = "complete",
           own[c].pending = <<>>, own[c].posture = "normal",
           t.step = "judge", t.chain = Len(log), t.tries <= 2, t.target \in DOMAIN rows,
           _commitVerifiedChain(c, t),
           UNCHANGED <<rows, log, journal, made, peer>>
    PROVE  IInv'
<1>1. Len(log) \in Nat /\ log \in Seq(Record) /\ 0 <= Len(log) /\ Len(log) <= Len(log)
    BY Domains DEF IInv, Types
<1>2. CASE own' = [own EXCEPT ![c].stored = log] /\ Do(c, t) /\ Linked(log)
    <2>1. /\ own' \in [Clients -> Own] /\ \A o \in Clients \ {c} : own'[o] = own[o]
          /\ own'[c].pending = <<>> /\ own'[c].posture = "normal" /\ own'[c].stored = log
        BY <1>1, <1>2, Zenon DEF IInv, Types, Own
    <2>2. /\ task' \in [Clients -> Task] /\ task'[c] = t
          /\ \A o \in Clients \ {c} : task'[o] = task[o]
        BY <1>2, DoEffect DEF IInv
    <2>3. RemovalFits(c)' /\ ForkFits(c)'
        BY <2>1, <2>2 DEF RemovalFits, ForkFits, Sending
    <2> QED
        BY <1>1, <1>2, <2>1, <2>2, <2>3, OwnStep DEF KeepsLog
<1>3. CASE own' = Posture(c, "deviceLogFork") /\ Do(c, Idle)
    BY <1>3, NoticeStep DEF MayNotice
<1> QED
    BY <1>2, <1>3 DEF _commitVerifiedChain

\* A removal is asked for, and tried again.
LEMMA RevokeSteps ==
    ASSUME IInv, NEW c \in Clients, revoke(c) \/ retryMutation(c)
    PROVE  IInv'
<1>1. CASE revoke(c)
    <2>1. PICK target \in DOMAIN rows :
              _commitVerifiedChain(c, [Idle EXCEPT !.step = "judge", !.chain = Len(log),
                                          !.target = target])
        BY <1>1, Zenon DEF revoke
    <2> DEFINE t == [Idle EXCEPT !.step = "judge", !.chain = Len(log), !.target = target]
    <2>2. Len(log) \in Nat /\ target \in Nat
        BY Domains DEF IInv
    <2>3. t \in Task /\ t.step = "judge" /\ t.chain = Len(log) /\ t.tries = 0 /\ t.target = target
        BY <2>2, IdleIsTask, Zenon DEF Idle, Task, Steps
    <2>4. _commitVerifiedChain(c, t)
        BY <2>1
    <2> HIDE DEF t
    <2>5. /\ journal[c].phase = "complete" /\ own[c].pending = <<>> /\ own[c].posture = "normal"
          /\ UNCHANGED <<rows, log, journal, made, peer>>
        BY <1>1, Zenon DEF revoke, Ready, Server
    <2> QED
        BY <2>3, <2>4, <2>5, CommitStep
<1>2. CASE retryMutation(c)
    <2> DEFINE t == [task[c] EXCEPT !.step = "judge", !.chain = Len(log)]
    <2>1. Len(log) \in Nat
        BY Domains DEF IInv
    <2>2. /\ t \in Task /\ t.step = "judge" /\ t.chain = Len(log) /\ t.tries = task[c].tries
          /\ t.target = task[c].target
        BY <2>1, Zenon DEF IInv, Types, Task, Steps
    <2>3. _commitVerifiedChain(c, t)
        BY <1>2 DEF retryMutation
    <2> HIDE DEF t
    <2>4. /\ journal[c].phase = "complete" /\ task[c].step = "again"
          /\ UNCHANGED <<rows, log, journal, made, peer>>
        BY <1>2 DEF retryMutation, At, Ready, Server
    <2>5. /\ own[c].pending = <<>> /\ own[c].posture = "normal"
          /\ task[c].target \in DOMAIN rows /\ task[c].tries <= 2
        BY <2>4, Zenon DEF IInv, ClientInv, RemovalFits, EnrolmentFits
    <2> QED
        BY <2>2, <2>3, <2>4, <2>5, CommitStep, Zenon
<1> QED
    BY <1>1, <1>2

\* What the step of an enrolled device may take for granted.
LEMMA AtTask ==
    ASSUME IInv, NEW c \in Clients
    PROVE  /\ ClientInv(c) /\ RemovalFits(c) /\ ForkFits(c)
           /\ own[c] \in Own /\ task[c] \in Task /\ own[c].pending \in Seq(Removal)
           /\ own[c].pending # <<>> =>
                  own[c].pending[1] \in Removal /\ own[c].pending[1].record \in Record
           /\ task[c].chain \in Nat /\ task[c].chain <= Len(log)
           /\ task[c].tries \in Nat /\ task[c].tries <= 2
           /\ Len(log) \in Nat /\ 0 <= Len(log)
<1>1. ClientInv(c) /\ own[c] \in Own /\ task[c] \in Task
    BY DEF IInv, Types
<1>2. own[c].pending \in Seq(Removal)
    BY <1>1 DEF Own
<1>3. own[c].pending # <<>> => own[c].pending[1] \in Removal
    BY <1>2, FirstOf
<1>4. own[c].pending # <<>> => own[c].pending[1].record \in Record
    BY <1>3, Zenon DEF Removal
<1>5. /\ task[c].chain \in Nat /\ task[c].chain <= Len(log)
      /\ task[c].tries \in Nat /\ task[c].tries <= 2
    BY <1>1 DEF ClientInv, EnrolmentFits, Task
<1>6. Len(log) \in Nat /\ 0 <= Len(log)
    BY Domains DEF IInv
<1> QED
    BY <1>1, <1>2, <1>3, <1>4, <1>5, <1>6, Zenon DEF ClientInv

\* The list is judged and the removal is signed and put on disk.
LEMMA JudgeStep ==
    ASSUME IInv, NEW c \in Clients, appendLiveSetMutation(c)
    PROVE  IInv'
<1> DEFINE target == <<task[c].target, TRUE>>
           verdict == IF Len(log) # task[c].chain THEN "conflict"
                      ELSE judge(Listing, log[task[c].chain].live)
           r == NewRecord(c, task[c].chain, Listing \ {target}, task[c].target)
           p == [confirmed |-> FALSE, record |-> r]
           t == [task[c] EXCEPT !.step = "send"]
<1>0. /\ journal[c].phase = "complete" /\ task[c].step = "judge"
      /\ rows' = rows /\ log' = log /\ journal' = journal /\ peer' = peer
    BY Zenon DEF appendLiveSetMutation, At, Ready, Server
<1>1. /\ own[c].pending = <<>> /\ own[c].posture = "normal" /\ task[c].target \in DOMAIN rows
    BY <1>0, AtTask DEF RemovalFits
<1>2. CASE /\ verdict = "authenticated" /\ target \in Listing
           /\ own' = [own EXCEPT ![c].pending = <<p>>, ![c].posture = "pendingDeviceChange"]
           /\ made' = made + 1
           /\ Do(c, t)
    <2>1. Len(log) = task[c].chain
        BY <1>2
    <2>2. task[c].target \in Nat /\ Listing \ {target} \in SUBSET DeviceIds /\ made \in Nat
        <3>1. task[c].target \in Nat
            BY <1>1, Domains DEF IInv
        <3>2. Listing \ {target} \in SUBSET DeviceIds
            BY ListingIsDevices, Zenon DEF IInv
        <3> QED
            BY <3>1, <3>2, Zenon DEF IInv, Types
    <2>3. /\ r \in Record /\ r.target = task[c].target
          /\ r.sequence = Len(log) + 1 /\ r.id = made + 1
        <3>1. Types /\ task[c].chain \in Nat /\ task[c].chain <= Len(log)
            BY AtTask DEF IInv
        <3> DEFINE live == Listing \ {target}
        <3>2. live \in SUBSET DeviceIds /\ task[c].target \in Nat
            BY <2>2, Zenon
        <3>3. r = NewRecord(c, task[c].chain, live, task[c].target)
            OBVIOUS
        <3> HIDE DEF live, target, r
        <3> QED
            BY <2>1, <3>1, <3>2, <3>3, RecordOf
    <2> HIDE DEF r
    <2>4. p \in Removal /\ p.record = r /\ ~p.confirmed
        BY <2>3 DEF Removal
    <2>5. /\ t \in Task /\ t.step = "send" /\ t.chain = task[c].chain /\ t.tries = task[c].tries
          /\ t.target = task[c].target
        BY AtTask DEF Task, Steps
    <2> HIDE DEF p, t
    <2>6. <<p>> \in Seq(Removal) /\ <<p>> # <<>> /\ <<p>>[1] = p /\ DOMAIN <<p>> = {1}
        BY <2>4
    <2>7. /\ own' \in [Clients -> Own] /\ \A o \in Clients \ {c} : own'[o] = own[o]
          /\ own'[c].pending = <<p>> /\ own'[c].posture = "pendingDeviceChange"
          /\ own'[c].stored = own[c].stored
        BY <1>2, <2>6, Zenon DEF IInv, Types, Own
    <2>8. /\ task' \in [Clients -> Task] /\ task'[c] = t
          /\ \A o \in Clients \ {c} : task'[o] = task[o]
        BY <1>2, <2>5, DoEffect DEF IInv
    <2>9. \A i \in DOMAIN own'[c].pending :
               /\ own'[c].pending[i].record.sequence <= Len(log') + 1
               /\ own'[c].pending[i].record.id <= made'
        <3>1. r.sequence <= Len(log) + 1 /\ r.id <= made + 1
            BY <2>2, <2>3, AtTask
        <3>2. made' = made + 1
            BY <1>2, Zenon
        <3> QED
            BY <1>0, <2>4, <2>6, <2>7, <3>1, <3>2, Zenon
    <2>10. RemovalFits(c)'
        BY <1>0, <1>1, <2>3, <2>4, <2>5, <2>6, <2>7, <2>8, <2>9, Zenon DEF RemovalFits, Sending
    <2>11. ForkFits(c)'
        BY <2>7 DEF ForkFits
    <2>12. /\ task'[c].chain <= Len(log) /\ task'[c].tries <= 2
           /\ task'[c].step \notin {"prepare", "append", "idle"}
        BY <2>5, <2>8, AtTask, Zenon
    <2> QED
        BY <1>0, <1>2, <2>7, <2>8, <2>10, <2>11, <2>12, OwnStep, Zenon DEF KeepsLog
<1>3. CASE own' = Posture(c, "deviceLogFork") /\ Do(c, Idle) /\ made' = made
    BY <1>0, <1>1, <1>3, NoticeStep, Zenon DEF MayNotice
<1>4. CASE own' = own /\ Do(c, Idle) /\ made' = made
    BY <1>0, <1>4, GiveUpStep, Zenon
<1> QED
    BY <1>2, <1>3, <1>4, Zenon DEF appendLiveSetMutation

\* The removal is sent: a record that adds no device goes to the end of the log.
LEMMA SendStep ==
    ASSUME IInv, NEW c \in Clients, sendMutation(c)
    PROVE  IInv'
<1> DEFINE r == own[c].pending[1].record
<1>0. /\ journal[c].phase = "complete" /\ task[c].step \in {"send", "resend"}
      /\ rows' = rows /\ journal' = journal /\ own' = own /\ made' = made /\ peer' = peer
    BY Zenon DEF sendMutation, At, Ready
<1>1. own[c].pending # <<>>
    BY <1>0, AtTask, Zenon DEF RemovalFits, Sending
<1>2. r \in Record /\ r.target \in DOMAIN rows
    BY <1>1, AtTask DEF RemovalFits
<1>3. PICK outcome \in Outcomes :
          /\ append_log(r, outcome)
          /\ Do(c, [task[c] EXCEPT
                   !.step = IF @ = "send" THEN "confirm" ELSE "reconfirm",
                   !.failed = (outcome # "ok")])
    BY Zenon DEF sendMutation
<1> DEFINE t == [task[c] EXCEPT
                   !.step = IF @ = "send" THEN "confirm" ELSE "reconfirm",
                   !.failed = (outcome # "ok")]
<1>4. /\ t \in Task /\ t.chain = task[c].chain /\ t.tries = task[c].tries
      /\ t.target = task[c].target
      /\ t.step = IF task[c].step = "send" THEN "confirm" ELSE "reconfirm"
    BY AtTask, Zenon DEF Task, Steps
<1>5. log' = log \/ log' = Append(log, r)
    BY <1>3 DEF append_log
<1>6. Do(c, t)
    BY <1>3
<1> HIDE DEF t
<1>7. /\ task' \in [Clients -> Task] /\ task'[c] = t
      /\ \A o \in Clients \ {c} : task'[o] = task[o]
    BY <1>4, <1>6, DoEffect DEF IInv
<1> HIDE DEF r
<1>8. /\ log' \in Seq(Record) /\ Len(log') \in Nat /\ DOMAIN log' = 1 .. Len(log')
      /\ Len(log) <= Len(log') /\ DOMAIN log \subseteq DOMAIN log'
      /\ \A k \in DOMAIN log : log'[k] = log[k]
      /\ \A k \in DOMAIN log' : k \notin DOMAIN log => log'[k] = r
    BY <1>2, <1>5, LogAppended DEF IInv
<1>9. Types'
    BY <1>0, <1>7, <1>8 DEF IInv, Types
<1>10. Grew
    <2>1. Len(rows) <= Len(rows') /\ made <= made'
        BY <1>0, Domains DEF IInv, Types
    <2> QED
        BY <1>0, <1>8, <2>1 DEF Grew
<1>11. r.target # 0
    BY <1>2, Domains DEF IInv
<1>12. \A k \in DOMAIN log' : k \notin DOMAIN log => log'[k].target # 0
    BY <1>8, <1>11, Zenon
<1>13. EnrolmentFits(c)' /\ AddedOnce(c)' /\ StoredIsPrefix(c)' /\ EnrolledHasRecord(c)'
    <2>1. /\ task'[c].chain <= Len(log) /\ task'[c].tries <= 2
          /\ task'[c].step \notin {"prepare", "append"}
          /\ task'[c].step = "idle" => task'[c] = Idle
        BY <1>4, <1>7, AtTask, Zenon
    <2> QED
        BY <1>0, <1>9, <1>10, <1>12, <2>1, AtTask, EnrolledMoves, Zenon DEF IInv, KeepsLog
<1>14. RemovalFits(c)'
    <2>1. own[c].pending # <<>> /\ own[c].pending[1].confirmed => InLog(own[c].pending[1].record)'
        BY <1>0, <1>1, <1>8, AtTask, Zenon DEF RemovalFits, InLog
    <2>2. \A i \in DOMAIN own[c].pending :
               /\ own[c].pending[i].record.sequence <= Len(log') + 1
               /\ own[c].pending[i].record.id <= made'
        <3> SUFFICES ASSUME NEW i \in DOMAIN own[c].pending
                     PROVE  /\ own[c].pending[i].record.sequence <= Len(log') + 1
                            /\ own[c].pending[i].record.id <= made'
            OBVIOUS
        <3>1. own[c].pending[i] \in Removal
            BY AtTask, ElementsOf, Zenon
        <3>2. own[c].pending[i].record.sequence \in Nat
            BY <3>1, Zenon DEF Removal, Record
        <3>3. /\ own[c].pending[i].record.sequence <= Len(log) + 1
              /\ own[c].pending[i].record.id <= made
            BY AtTask DEF RemovalFits
        <3>4. Len(log) \in Nat /\ Len(log') \in Nat /\ Len(log) <= Len(log')
            BY <1>2, <1>5, LogLonger DEF IInv
        <3> QED
            BY <1>0, <3>2, <3>3, <3>4
    <2> QED
        BY <1>0, <1>1, <1>4, <1>7, <2>1, <2>2, AtTask, Zenon DEF RemovalFits, Sending
<1>15. ForkFits(c)'
    BY <1>0, <1>4, <1>7, <1>9, <1>10, AtTask, UnlinkedStays, Zenon DEF ForkFits, RemovalFits, IInv
<1>16. ClientInv(c)'
    BY <1>13, <1>14, <1>15 DEF ClientInv
<1>17. \A k \in DOMAIN log' : k > Len(log) => log'[k].target # 0
    <2>1. \A k \in DOMAIN log : ~(k > Len(log))
        BY Domains DEF IInv
    <2> QED
        BY <1>12, <2>1
<1> QED
    BY <1>0, <1>7, <1>9, <1>10, <1>16, <1>17, ClientStep, Zenon

\* A removal on disk is marked confirmed, and nothing else of it changes.
LEMMA ConfirmedEffect ==
    ASSUME IInv, NEW c \in Clients, own[c].pending # <<>>,
           own' = [own EXCEPT ![c].pending[1].confirmed = TRUE]
    PROVE  /\ own' \in [Clients -> Own] /\ \A o \in Clients \ {c} : own'[o] = own[o]
           /\ own'[c].posture = own[c].posture /\ own'[c].stored = own[c].stored
           /\ own'[c].pending # <<>> /\ own'[c].pending[1].confirmed
           /\ DOMAIN own'[c].pending = DOMAIN own[c].pending
           /\ \A i \in DOMAIN own[c].pending :
                  own'[c].pending[i].record = own[c].pending[i].record
<1> DEFINE q == own[c].pending
           p == [q[1] EXCEPT !.confirmed = TRUE]
           n == [q EXCEPT ![1] = p]
<1>1. q \in Seq(Removal) /\ q # <<>> /\ q[1] \in Removal /\ 1 \in DOMAIN q
    BY AtTask, FirstOf
<1>2. p \in Removal /\ p.confirmed /\ p.record = q[1].record
    BY <1>1, Zenon DEF Removal
<1>3. own' = [own EXCEPT ![c].pending = n]
    OBVIOUS
<1>4. DOMAIN q = 1 .. Len(q)
    BY <1>1
<1> HIDE DEF p
<1>5. n \in Seq(Removal) /\ Len(n) = Len(q) /\ n[1] = p /\ \A i \in DOMAIN q : i # 1 => n[i] = q[i]
    BY <1>1, <1>2, <1>4
<1>6. DOMAIN n = DOMAIN q
    OBVIOUS
<1>7. n # <<>>
    BY <1>1, <1>6
<1> HIDE DEF n
<1>8. /\ own' \in [Clients -> Own] /\ \A o \in Clients \ {c} : own'[o] = own[o]
      /\ own'[c].posture = own[c].posture /\ own'[c].stored = own[c].stored
      /\ own'[c].pending = n
    <2>1. own \in [Clients -> Own] /\ n \in Seq(Removal)
        BY <1>5, Zenon DEF IInv, Types
    <2>2. own[c] \in Own
        BY <2>1
    <2>3. [own[c] EXCEPT !.pending = n] \in Own
        BY <2>1, <2>2 DEF Own
    <2>4. own' = [own EXCEPT ![c] = [own[c] EXCEPT !.pending = n]]
        BY <1>3
    <2>5. /\ [own[c] EXCEPT !.pending = n].posture = own[c].posture
          /\ [own[c] EXCEPT !.pending = n].stored = own[c].stored
          /\ [own[c] EXCEPT !.pending = n].pending = n
        BY <2>2 DEF Own
    <2> QED
        BY <2>1, <2>3, <2>4, <2>5, Zenon
<1> QED
    BY <1>2, <1>5, <1>6, <1>7, <1>8, Zenon

\* A removal whose record was found in the log goes on to its revocation.
LEMMA FoundStep ==
    ASSUME IInv, NEW c \in Clients, journal[c].phase = "complete",
           own[c].pending # <<>>, InLog(own[c].pending[1].record),
           own' = [own EXCEPT ![c].pending[1].confirmed = TRUE],
           NEW t \in Task, Do(c, t), t.step \in {"delete", "finish"},
           t.target = own[c].pending[1].record.target, t.chain <= Len(log), t.tries <= 2,
           t.step = "delete" => own[c].posture = "pendingDeviceChange",
           own[c].posture = "deviceLogFork" =>
               ~rows[own[c].pending[1].record.target].live,
           rows' = rows, log' = log, journal' = journal, made' = made, peer' = peer
    PROVE  IInv'
<1>1. /\ own' \in [Clients -> Own] /\ \A o \in Clients \ {c} : own'[o] = own[o]
      /\ own'[c].posture = own[c].posture /\ own'[c].stored = own[c].stored
      /\ own'[c].pending # <<>> /\ own'[c].pending[1].confirmed
      /\ DOMAIN own'[c].pending = DOMAIN own[c].pending
      /\ \A i \in DOMAIN own[c].pending :
             own'[c].pending[i].record = own[c].pending[i].record
    BY ConfirmedEffect, Zenon
<1>2. /\ task' \in [Clients -> Task] /\ task'[c] = t
      /\ \A o \in Clients \ {c} : task'[o] = task[o]
    BY DoEffect DEF IInv
<1>3. own'[c].pending[1].record = own[c].pending[1].record
    BY <1>1, AtTask, FirstOf
<1>4. own[c].posture # "normal" /\ own[c].pending[1].record.target \in DOMAIN rows
    BY AtTask DEF RemovalFits
<1>5. InLog(own[c].pending[1].record)'
    BY <1>3 DEF InLog
<1>6. \A i \in DOMAIN own'[c].pending :
           /\ own'[c].pending[i].record.sequence <= Len(log') + 1
           /\ own'[c].pending[i].record.id <= made'
    BY <1>1, AtTask DEF RemovalFits
<1>7. RemovalFits(c)'
    BY <1>1, <1>2, <1>3, <1>4, <1>5, <1>6, Zenon DEF RemovalFits, Sending
<1>8. ForkFits(c)'
    BY <1>1, <1>3 DEF ForkFits
<1>9. task'[c].step \notin {"prepare", "append", "idle"}
    BY <1>2
<1> QED
    BY <1>1, <1>2, <1>7, <1>8, <1>9, OwnStep, Zenon DEF KeepsLog

\* The device looks for its removal in the log.
LEMMA ConfirmStep ==
    ASSUME IInv, NEW c \in Clients, confirmMutation(c)
    PROVE  IInv'
<1> DEFINE r == own[c].pending[1].record
<1>0. /\ journal[c].phase = "complete" /\ task[c].step \in {"confirm", "reconfirm"}
      /\ rows' = rows /\ log' = log /\ journal' = journal /\ made' = made /\ peer' = peer
    BY Zenon DEF confirmMutation, At, Ready, Server
<1>1. /\ own[c].pending # <<>> /\ r.target \in DOMAIN rows /\ own[c].posture # "normal"
      /\ task[c].step = "confirm" =>
             own[c].posture = "pendingDeviceChange" /\ task[c].target \in DOMAIN rows
    BY <1>0, AtTask, Zenon DEF RemovalFits, Sending
<1>2. own[c].posture = "deviceLogFork" => ~rows[r.target].live
    BY <1>0, <1>1, AtTask DEF ForkFits
<1>3. CASE /\ InLog(r)
           /\ own' = [own EXCEPT ![c].pending[1].confirmed = TRUE]
           /\ Do(c, [task[c] EXCEPT !.step = IF @ = "confirm" THEN "delete" ELSE "finish",
                                    !.target = r.target])
    <2> DEFINE t == [task[c] EXCEPT !.step = IF @ = "confirm" THEN "delete" ELSE "finish",
                                    !.target = r.target]
    <2>1. r.target \in Nat
        BY <1>1, AtTask DEF Record
    <2>2. /\ t \in Task /\ t.chain = task[c].chain /\ t.tries = task[c].tries
          /\ t.target = r.target
          /\ t.step = IF task[c].step = "confirm" THEN "delete" ELSE "finish"
        BY <2>1, AtTask, Zenon DEF Task, Steps
    <2>3. Do(c, t)
        BY <1>3, Zenon
    <2> HIDE DEF t
    <2>4. /\ t.chain <= Len(log) /\ t.tries <= 2
          /\ t.step \in {"delete", "finish"}
          /\ t.step = "delete" => own[c].posture = "pendingDeviceChange"
        BY <1>1, <2>2, AtTask, Zenon
    <2> QED
        BY <1>0, <1>1, <1>2, <1>3, <2>2, <2>3, <2>4, FoundStep, Zenon
<1>4. CASE /\ task[c].step = "confirm" /\ task[c].tries < 2
           /\ own' = [own EXCEPT ![c].pending = <<>>, ![c].posture = "normal"]
           /\ Do(c, [Idle EXCEPT !.step = "again", !.target = task[c].target,
                                 !.tries = task[c].tries + 1])
    <2> DEFINE t == [Idle EXCEPT !.step = "again", !.target = task[c].target,
                                 !.tries = task[c].tries + 1]
    <2>1. task[c].target \in Nat /\ task[c].tries + 1 \in Nat /\ task[c].tries + 1 <= 2
        BY <1>4, AtTask DEF Task
    <2>2. /\ t \in Task /\ t.chain = 0 /\ t.tries = task[c].tries + 1
          /\ t.target = task[c].target /\ t.step = "again"
        BY <2>1, IdleIsTask, Zenon DEF Idle, Task, Steps
    <2>3. Do(c, t)
        BY <1>4
    <2> HIDE DEF t
    <2>4. /\ task' \in [Clients -> Task] /\ task'[c] = t
          /\ \A o \in Clients \ {c} : task'[o] = task[o]
        BY <2>2, <2>3, DoEffect DEF IInv
    <2>5. /\ own' \in [Clients -> Own] /\ \A o \in Clients \ {c} : own'[o] = own[o]
          /\ own'[c].pending = <<>> /\ own'[c].posture = "normal"
          /\ own'[c].stored = own[c].stored
        <3>1. <<>> \in Seq(Removal)
            OBVIOUS
        <3> QED
            BY <1>4, <3>1, Zenon DEF IInv, Types, Own
    <2>6. RemovalFits(c)' /\ ForkFits(c)'
        BY <1>0, <1>1, <1>4, <2>2, <2>4, <2>5 DEF RemovalFits, ForkFits, Sending
    <2>7. /\ task'[c].chain <= Len(log) /\ task'[c].tries <= 2
          /\ task'[c].step \notin {"prepare", "append", "idle"}
        BY <2>1, <2>2, <2>4, AtTask, Zenon
    <2> QED
        BY <1>0, <2>4, <2>5, <2>6, <2>7, OwnStep, Zenon DEF KeepsLog
<1>5. CASE Do(c, Idle) /\ own' = own
    BY <1>0, <1>5, GiveUpStep
<1> QED
    BY <1>3, <1>4, <1>5, Zenon DEF confirmMutation

LEMMA RevokedEffect ==
    ASSUME IInv, NEW target \in DOMAIN rows, NEW outcome, Revoked(target, outcome)
    PROVE  /\ rows' \in Seq(Row) /\ Len(rows') = Len(rows) /\ DOMAIN rows' = DOMAIN rows
           /\ \A i \in DOMAIN rows : i # target => rows'[i] = rows[i]
           /\ \A i \in DOMAIN rows : ~rows[i].live => ~rows'[i].live
<1>1. /\ rows \in Seq(Row) /\ DOMAIN rows = 1 .. Len(rows) /\ rows[target] \in Row
    BY Domains DEF IInv, Types
<1>2. CASE rows' = rows
    BY <1>1, <1>2
<1>3. CASE rows' = [rows EXCEPT ![target].live = FALSE]
    <2> DEFINE n == [rows[target] EXCEPT !.live = FALSE]
    <2>1. n \in Row /\ ~n.live
        BY <1>1, Zenon DEF Row
    <2>2. rows' = [rows EXCEPT ![target] = n]
        BY <1>3
    <2> HIDE DEF n
    <2>3. /\ rows' \in Seq(Row) /\ Len(rows') = Len(rows) /\ rows'[target] = n
          /\ DOMAIN rows' = DOMAIN rows
          /\ \A i \in DOMAIN rows : i # target => rows'[i] = rows[i]
        BY <1>1, <2>1, <2>2
    <2> QED
        BY <2>1, <2>3
<1> QED
    BY <1>2, <1>3 DEF Revoked

\* A device is revoked for a removal whose record is in the log.
LEMMA RevocationStep ==
    ASSUME IInv, NEW c \in Clients, journal[c].phase = "complete",
           own[c].pending # <<>>, own[c].pending[1].confirmed,
           NEW target, target = own[c].pending[1].record.target,
           NEW outcome, Revoked(target, outcome),
           NEW t \in Task, Do(c, t), t.chain <= Len(log), t.tries <= 2,
           \/ t = Idle
           \/ /\ t.step = "list"
              /\ IF t.failed THEN own' = own /\ t.target = target
                             ELSE own' = Cleared(c) /\ target # journal[c].row,
           \/ own' = own /\ journal' = journal
           \/ own' = Cleared(c) /\ Settle(c, target),
           log' = log, made' = made, peer' = peer
    PROVE  IInv'
<1> DEFINE r == own[c].pending[1].record
<1>1. /\ target \in DOMAIN rows /\ own[c].posture # "normal" /\ InLog(r) /\ RemovalFits(c)
      /\ own[c].posture = "deviceLogFork" => ~rows[target].live
    BY AtTask, Zenon DEF RemovalFits, ForkFits
<1>2. /\ rows' \in Seq(Row) /\ Len(rows') = Len(rows) /\ DOMAIN rows' = DOMAIN rows
      /\ \A i \in DOMAIN rows : i # target => rows'[i] = rows[i]
      /\ \A i \in DOMAIN rows : ~rows[i].live => ~rows'[i].live
    BY <1>1, RevokedEffect, Zenon
<1>3. /\ task' \in [Clients -> Task] /\ task'[c] = t
      /\ \A o \in Clients \ {c} : task'[o] = task[o]
    BY DoEffect, Zenon DEF IInv
<1>4. /\ own' \in [Clients -> Own] /\ \A o \in Clients \ {c} : own'[o] = own[o]
      /\ own'[c].stored = own[c].stored
      /\ own' # own => own'[c].pending = <<>> /\ own'[c].posture = "normal"
    <2>1. CASE own' = own
        BY <2>1 DEF IInv, Types
    <2>2. CASE own' = Cleared(c)
        <3>1. <<>> \in Seq(Removal)
            OBVIOUS
        <3> QED
            BY <2>2, <3>1, Zenon DEF Cleared, IInv, Types, Own
    <2> QED
        BY <2>1, <2>2, Zenon
<1>5. /\ journal' \in [Clients -> Journal] /\ \A o \in Clients \ {c} : journal'[o] = journal[o]
      /\ journal'[c].phase \in {"complete", "wiped"}
      /\ journal'[c].row = journal[c].row /\ journal'[c].record = journal[c].record
      /\ (own' = own /\ own' # Cleared(c)) \/ target # journal[c].row
             => journal'[c].phase = "complete"
    <2>1. CASE own' = own /\ journal' = journal
        BY <2>1 DEF IInv, Types
    <2>2. CASE own' = Cleared(c) /\ Settle(c, target)
        BY <2>2, Zenon DEF Settle, IInv, Types, Journal, Phases
    <2> QED
        BY <2>1, <2>2
<1>6. own' = Cleared(c) => own' # own
    <2>1. own' = Cleared(c) => own'[c].posture = "normal"
        BY DEF Cleared, IInv, Types, Own
    <2> QED
        BY <1>1, <2>1, Zenon
<1>7. Types'
    BY <1>2, <1>3, <1>4, <1>5, Zenon DEF IInv, Types
<1>8. Grew
    <2>1. Len(rows) <= Len(rows') /\ made <= made' /\ Len(log) <= Len(log')
        BY <1>2, Domains DEF IInv, Types
    <2> QED
        BY <1>2, <2>1, Zenon DEF Grew
<1>9. EnrolmentFits(c)' /\ AddedOnce(c)' /\ StoredIsPrefix(c)' /\ EnrolledHasRecord(c)'
    <2>1. /\ task'[c].step \notin {"prepare", "append"}
          /\ task'[c].step = "idle" => task'[c] = Idle
        BY <1>3, IdleIsTask, Zenon
    <2>2. task'[c].chain <= Len(log) /\ task'[c].tries <= 2
        BY <1>3, Zenon
    <2> QED
        BY <1>3, <1>4, <1>5, <1>7, <1>8, <2>1, <2>2, AtTask, EnrolledMoves, Zenon
           DEF IInv, KeepsLog
<1>10. RemovalFits(c)' /\ ForkFits(c)'
    <2>1. CASE own' = own
        <3>1. journal'[c].phase = "complete"
            BY <1>5, <1>6, <2>1, Zenon
        <3>2. own'[c].pending[1].record = r /\ InLog(r)'
            BY <1>1, <2>1 DEF InLog
        <3>3. \A i \in DOMAIN own'[c].pending :
                   /\ own'[c].pending[i].record.sequence <= Len(log') + 1
                   /\ own'[c].pending[i].record.id <= made'
            BY <1>1, <2>1, Zenon DEF RemovalFits
        <3>4. t = Idle \/ (t.step = "list" /\ t.failed /\ t.target = target)
            BY <1>6, <2>1
        <3>5. RemovalFits(c)'
            BY <1>1, <1>2, <1>3, <2>1, <3>1, <3>2, <3>3, <3>4, IdleIsTask, Zenon
               DEF RemovalFits, Sending
        <3>6. ForkFits(c)'
            BY <1>1, <1>2, <2>1, Zenon DEF ForkFits
        <3> QED
            BY <3>5, <3>6, Zenon
    <2>2. CASE own' # own
        <3>1. own'[c].pending = <<>> /\ own'[c].posture = "normal"
            BY <1>4, <2>2
        <3>2. t = Idle \/ (t.step = "list" /\ ~t.failed /\ journal'[c].phase = "complete")
            BY <1>5, <2>2
        <3> QED
            BY <1>3, <3>1, <3>2, IdleIsTask DEF RemovalFits, ForkFits, Sending
    <2> QED
        BY <2>1, <2>2, Zenon
<1>11. ClientInv(c)'
    BY <1>9, <1>10 DEF ClientInv
<1>12. \A i \in DOMAIN rows' : rows'[i].signed /\ ~rows'[i].live =>
           \/ i \in DOMAIN rows /\ rows[i].signed /\ ~rows[i].live
           \/ \E k \in DOMAIN log' : log'[k].target = i /\ log'[k].sequence = k
    BY <1>1, <1>2, Zenon DEF InLog
<1>13. \A k \in DOMAIN log' : ~(k > Len(log))
    BY Domains DEF IInv
<1> QED
    BY <1>3, <1>4, <1>5, <1>7, <1>8, <1>11, <1>12, <1>13, ClientStep, Zenon

\* The device is revoked as soon as its removal is confirmed.
LEMMA DeleteStep ==
    ASSUME IInv, NEW c \in Clients, revokeDevice(c)
    PROVE  IInv'
<1>0. /\ journal[c].phase = "complete" /\ task[c].step = "delete"
      /\ log' = log /\ made' = made /\ peer' = peer /\ Do(c, Idle)
    BY Zenon DEF revokeDevice, At, Ready
<1>1. /\ own[c].pending # <<>> /\ own[c].pending[1].confirmed
      /\ task[c].target = own[c].pending[1].record.target
    BY <1>0, AtTask, Zenon DEF RemovalFits, Sending
<1>2. PICK outcome \in Outcomes :
          /\ Revoked(task[c].target, outcome)
          /\ \/ own' = own /\ journal' = journal
             \/ own' = Cleared(c) /\ Settle(c, task[c].target)
    BY DEF revokeDevice
<1>3. Idle.chain <= Len(log) /\ Idle.tries <= 2 /\ Idle \in Task
    BY AtTask, IdleIsTask
<1> QED
    BY <1>0, <1>1, <1>2, <1>3, RevocationStep, Zenon

\* A confirmed removal that was left behind is finished.
LEMMA FinishStep ==
    ASSUME IInv, NEW c \in Clients, _finishPendingRemovalIfNeeded(c)
    PROVE  IInv'
<1> DEFINE target == task[c].target
           again == [task[c] EXCEPT !.step = "list", !.failed = TRUE]
           next == IF target = journal[c].row THEN Idle ELSE [Idle EXCEPT !.step = "list"]
<1>0. /\ journal[c].phase = "complete" /\ task[c].step = "finish"
      /\ log' = log /\ made' = made /\ peer' = peer
    BY Zenon DEF _finishPendingRemovalIfNeeded, At, Ready
<1>1. /\ own[c].pending # <<>> /\ own[c].pending[1].confirmed
      /\ target = own[c].pending[1].record.target
    BY <1>0, AtTask DEF RemovalFits, Sending
<1>2. PICK outcome \in Outcomes :
          /\ Revoked(target, outcome)
          /\ \/ own' = own /\ journal' = journal /\ Do(c, again)
             \/ own' = Cleared(c) /\ Settle(c, target) /\ Do(c, next)
    BY DEF _finishPendingRemovalIfNeeded
<1>3. CASE own' = own /\ journal' = journal /\ Do(c, again)
    <2>1. /\ again \in Task /\ again.step = "list" /\ again.failed /\ again.target = target
          /\ again.chain = task[c].chain /\ again.tries = task[c].tries
        BY AtTask, Zenon DEF Task, Steps
    <2>2. again.chain <= Len(log) /\ again.tries <= 2
        BY <2>1, AtTask
    <2> HIDE DEF again
    <2> QED
        BY <1>0, <1>1, <1>2, <1>3, <2>1, <2>2, RevocationStep, Zenon
<1>4. CASE own' = Cleared(c) /\ Settle(c, target) /\ Do(c, next)
    <2>1. /\ next \in Task /\ next.chain = 0 /\ next.tries = 0
          /\ next = Idle \/ (next.step = "list" /\ ~next.failed /\ target # journal[c].row)
        BY IdleIsTask, Zenon DEF Idle, Task, Steps
    <2>2. next.chain <= Len(log) /\ next.tries <= 2
        BY <2>1, AtTask
    <2> HIDE DEF next
    <2> QED
        BY <1>0, <1>1, <1>2, <1>4, <2>1, <2>2, RevocationStep, Zenon
<1> QED
    BY <1>2, <1>3, <1>4, Zenon

\* A step that changes only the task of an enrolled device.
LEMMA TaskStep ==
    ASSUME IInv, NEW c \in Clients, journal[c].phase = "complete",
           NEW t \in Task, Do(c, t), own' = own,
           t.step \notin {"idle", "prepare", "append"}, t.chain <= Len(log), t.tries <= 2,
           t.step \in Sending => own[c].pending # <<>>,
           t.step \notin {"judge", "again", "send", "confirm", "delete"},
           t.step = "finish" =>
               own[c].pending[1].confirmed /\ t.target = own[c].pending[1].record.target,
           t.step \in {"list", "chain"} =>
               IF t.failed
               THEN /\ own[c].pending # <<>> /\ own[c].pending[1].confirmed
                    /\ t.target = own[c].pending[1].record.target
               ELSE own[c].pending = <<>>,
           t.step = "chain" /\ t.failed => ~rows[t.target].live,
           own[c].posture = "deviceLogFork" /\ own[c].pending # <<>> =>
               own[c].pending[1].confirmed,
           rows' = rows, log' = log, journal' = journal, made' = made, peer' = peer
    PROVE  IInv'
<1>1. /\ task' \in [Clients -> Task] /\ task'[c] = t
      /\ \A o \in Clients \ {c} : task'[o] = task[o]
    BY DoEffect, Zenon DEF IInv
<1>2. RemovalFits(c)'
    BY <1>1, AtTask, Zenon DEF RemovalFits, InLog
<1>3. ForkFits(c)'
    BY <1>1, AtTask, Zenon DEF ForkFits
<1>4. own' \in [Clients -> Own]
    BY Zenon DEF IInv, Types
<1>5. /\ task'[c].step \notin {"prepare", "append", "idle"}
      /\ task'[c].chain <= Len(log) /\ task'[c].tries <= 2
    BY <1>1, Zenon
<1> QED
    BY <1>1, <1>2, <1>3, <1>4, <1>5, OwnStep, Zenon DEF KeepsLog

\* What a removal left behind is taken up again.
LEMMA ResumeStep ==
    ASSUME IInv, NEW c \in Clients, resumePendingMutation(c)
    PROVE  IInv'
<1> DEFINE pending == own[c].pending
           r == pending[1].record
           t(step) == [Idle EXCEPT !.step = step,
                           !.target = IF pending = <<>> THEN 0 ELSE r.target]
<1>0. /\ journal[c].phase = "complete" /\ task[c].step = "idle" /\ task[c] = Idle
      /\ rows' = rows /\ log' = log /\ journal' = journal /\ made' = made /\ peer' = peer
    BY IdleIsTask, Zenon DEF resumePendingMutation, Ready, Server
<1>1. pending # <<>> => r.target \in Nat
    BY AtTask, Zenon DEF Record
<1>2. ASSUME NEW s \in {"list", "finish", "resend"}
      PROVE  /\ t(s) \in Task /\ t(s).step = s /\ t(s).chain = 0 /\ t(s).tries = 0
             /\ t(s).failed = FALSE /\ t(s).chain <= Len(log) /\ t(s).tries <= 2
             /\ pending # <<>> => t(s).target = r.target
    <2>1. (IF pending = <<>> THEN 0 ELSE r.target) \in Nat
        BY <1>1
    <2>2. /\ t(s) \in Task /\ t(s).step = s /\ t(s).chain = 0 /\ t(s).tries = 0
          /\ t(s).failed = FALSE
          /\ pending # <<>> => t(s).target = r.target
        BY <2>1, IdleIsTask, Zenon DEF Idle, Task, Steps
    <2> QED
        BY <2>2, AtTask
<1>3. CASE pending = <<>> /\ Do(c, t("list")) /\ own' = own
    <2> DEFINE n == t("list")
    <2>1. /\ n \in Task /\ n.step = "list" /\ n.failed = FALSE
          /\ n.chain <= Len(log) /\ n.tries <= 2 /\ Do(c, n)
        BY <1>2, <1>3, Zenon
    <2> HIDE DEF n, t
    <2> QED
        BY <1>0, <1>3, <2>1, TaskStep, Zenon DEF Sending
<1>4. CASE pending # <<>> /\ pending[1].confirmed /\ Do(c, t("finish")) /\ own' = own
    <2> DEFINE n == t("finish")
    <2>1. /\ n \in Task /\ n.step = "finish" /\ n.target = r.target
          /\ n.chain <= Len(log) /\ n.tries <= 2 /\ Do(c, n)
        BY <1>2, <1>4, Zenon
    <2> HIDE DEF n, t
    <2> QED
        BY <1>0, <1>4, <2>1, TaskStep, Zenon
<1>5. CASE /\ pending # <<>> /\ ~pending[1].confirmed /\ ~Linked(log)
           /\ own' = Posture(c, "deviceLogFork") /\ task' = task
    <2>1. Do(c, Idle)
        BY <1>0, <1>5, Zenon DEF Do, IInv, Types
    <2>2. MayNotice(c)
        BY <1>5 DEF MayNotice
    <2> QED
        BY <1>0, <1>5, <2>1, <2>2, NoticeStep, Zenon
<1>6. CASE /\ pending # <<>> /\ ~pending[1].confirmed /\ Linked(log) /\ InLog(r)
           /\ own' = [own EXCEPT ![c].pending[1].confirmed = TRUE] /\ Do(c, t("finish"))
    <2> DEFINE n == t("finish")
    <2>1. /\ n \in Task /\ n.step = "finish" /\ n.target = r.target
          /\ n.chain <= Len(log) /\ n.tries <= 2 /\ Do(c, n)
        BY <1>2, <1>6, Zenon
    <2>2. own[c].posture # "deviceLogFork"
        BY <1>6, AtTask, Zenon DEF ForkFits
    <2> HIDE DEF n, t
    <2> QED
        BY <1>0, <1>6, <2>1, <2>2, FoundStep, Zenon
<1>7. CASE /\ pending # <<>> /\ ~pending[1].confirmed /\ Linked(log)
           /\ own' = own /\ Do(c, t("resend"))
    <2> DEFINE n == t("resend")
    <2>1. /\ n \in Task /\ n.step = "resend"
          /\ n.chain <= Len(log) /\ n.tries <= 2 /\ Do(c, n)
        BY <1>2, <1>7, Zenon
    <2>2. own[c].posture # "deviceLogFork"
        BY <1>7, AtTask DEF ForkFits
    <2> HIDE DEF n, t
    <2> QED
        BY <1>0, <1>7, <2>1, <2>2, TaskStep, Zenon
<1> QED
    BY <1>3, <1>4, <1>5, <1>6, <1>7, Zenon DEF resumePendingMutation

\* The list is read; one that still has the device of a failed revocation ends it.
LEMMA ListStep ==
    ASSUME IInv, NEW c \in Clients, fetchPublicDevices(c)
    PROVE  IInv'
<1> DEFINE t == [task[c] EXCEPT !.step = "chain", !.list = Listing, !.head = Len(log)]
<1>0. /\ journal[c].phase = "complete" /\ task[c].step = "list" /\ own' = own
      /\ rows' = rows /\ log' = log /\ journal' = journal /\ made' = made /\ peer' = peer
    BY Zenon DEF fetchPublicDevices, At, Ready, Server
<1>1. CASE Do(c, Idle)
    BY <1>0, <1>1, GiveUpStep, Zenon
<1>2. CASE Do(c, t) /\ ~(task[c].failed /\ rows[task[c].target].live)
    <2>1. Listing \in SUBSET DeviceIds
        BY ListingIsDevices DEF IInv
    <2>2. /\ t \in Task /\ t.step = "chain" /\ t.failed = task[c].failed
          /\ t.target = task[c].target /\ t.chain = task[c].chain /\ t.tries = task[c].tries
        BY <2>1, AtTask, Zenon DEF Task, Steps
    <2>3. t.chain <= Len(log) /\ t.tries <= 2 /\ Do(c, t)
        BY <1>2, <2>2, AtTask, Zenon
    <2>4. IF t.failed
          THEN /\ own[c].pending # <<>> /\ own[c].pending[1].confirmed
               /\ t.target = own[c].pending[1].record.target
          ELSE own[c].pending = <<>>
        BY <1>0, <2>2, AtTask, Zenon DEF RemovalFits
    <2> HIDE DEF t
    <2> QED
        BY <1>0, <1>2, <2>2, <2>3, <2>4, TaskStep, Zenon DEF Sending
<1> QED
    BY <1>1, <1>2 DEF fetchPublicDevices

\* The list is judged against the log, which is kept.
LEMMA VerifyStep ==
    ASSUME IInv, NEW c \in Clients, _verifyPublicList(c)
    PROVE  IInv'
<1> DEFINE t == task[c]
           verdict == IF t.head # Len(log) THEN "conflict"
                      ELSE judge(t.list, log[Len(log)].live)
           posture == IF verdict = "mismatch" THEN "deviceLogFork" ELSE own[c].posture
<1>0. /\ journal[c].phase = "complete" /\ task[c].step = "chain" /\ Do(c, Idle)
      /\ rows' = rows /\ log' = log /\ made' = made /\ peer' = peer
    BY Zenon DEF _verifyPublicList, At, Ready, Server
<1>1. /\ task' \in [Clients -> Task] /\ task'[c] = Idle /\ task'[c].step = "idle"
      /\ \A o \in Clients \ {c} : task'[o] = task[o]
    BY <1>0, DoEffect, IdleIsTask, Zenon DEF IInv
<1>2. own[c].pending # <<>> =>
          own[c].pending[1].confirmed /\ ~rows[own[c].pending[1].record.target].live
    BY <1>0, AtTask, Zenon DEF RemovalFits
<1>3. /\ task'[c].step \notin {"prepare", "append"}
      /\ task'[c].step = "idle" => task'[c] = Idle
      /\ task'[c].chain <= Len(log) /\ task'[c].tries <= 2
    BY <1>1, AtTask, IdleIsTask
<1>4. log \in Seq(Record)
    BY DEF IInv, Types
<1>5. CASE own' = Posture(c, "deviceLogFork") /\ journal' = journal
    <2>1. MayNotice(c)
        BY <1>2, Zenon DEF MayNotice
    <2> QED
        BY <1>0, <1>5, <2>1, NoticeStep, Zenon
<1>6. CASE /\ Linked(log) /\ own' = [Cleared(c) EXCEPT ![c].stored = log]
           /\ Settle(c, t.target)
    <2>1. /\ own' \in [Clients -> Own] /\ \A o \in Clients \ {c} : own'[o] = own[o]
          /\ own'[c].pending = <<>> /\ own'[c].posture = "normal" /\ own'[c].stored = log
        <3>1. <<>> \in Seq(Removal)
            OBVIOUS
        <3> QED
            BY <1>4, <1>6, <3>1, Zenon DEF Cleared, IInv, Types, Own
    <2>2. /\ journal' \in [Clients -> Journal]
          /\ \A o \in Clients \ {c} : journal'[o] = journal[o]
          /\ journal'[c].phase \in {"complete", "wiped"}
          /\ journal'[c].row = journal[c].row /\ journal'[c].record = journal[c].record
        BY <1>0, <1>6, Zenon DEF Settle, IInv, Types, Journal, Phases
    <2>3. Types'
        BY <1>0, <1>1, <2>1, <2>2, Zenon DEF IInv, Types
    <2>4. Grew
        BY <1>0, GrewSame DEF IInv
    <2>5. \A k \in DOMAIN log' : k \notin DOMAIN log => log'[k].target # 0
        BY <1>0
    <2>6. EnrolmentFits(c)' /\ AddedOnce(c)' /\ StoredIsPrefix(c)' /\ EnrolledHasRecord(c)'
        BY <1>0, <1>3, <1>6, <2>1, <2>2, <2>3, <2>4, <2>5, AtTask, EnrolledMoves, Zenon
           DEF IInv, KeepsLog
    <2>7. RemovalFits(c)' /\ ForkFits(c)'
        BY <1>1, <2>1, IdleIsTask DEF RemovalFits, ForkFits, Sending
    <2>8. ClientInv(c)'
        BY <2>6, <2>7 DEF ClientInv
    <2> QED
        BY <1>0, <1>1, <2>1, <2>2, <2>3, <2>8, ClientOnlyStep, Zenon
<1>7. CASE /\ Linked(log) /\ journal' = journal
           /\ own' = [own EXCEPT ![c].stored = log, ![c].posture = posture]
    <2>1. posture \in {"deviceLogFork", own[c].posture}
        OBVIOUS
    <2> HIDE DEF posture
    <2>2. /\ own' \in [Clients -> Own] /\ \A o \in Clients \ {c} : own'[o] = own[o]
          /\ own'[c].pending = own[c].pending /\ own'[c].posture = posture
          /\ own'[c].stored = log
        BY <1>4, <1>7, <2>1, Zenon DEF IInv, Types, Own
    <2>3. RemovalFits(c)'
        <3>1. RemovalFits(c)
            BY AtTask, Zenon
        <3>2. own[c].pending # <<>> => own'[c].posture # "normal"
            BY <2>1, <2>2, <3>1, Zenon DEF RemovalFits
        <3>3. InLog(own[c].pending[1].record) => InLog(own[c].pending[1].record)'
            BY <1>0, <2>2, Zenon DEF InLog
        <3>4. \A i \in DOMAIN own'[c].pending :
                   /\ own'[c].pending[i].record.sequence <= Len(log') + 1
                   /\ own'[c].pending[i].record.id <= made'
            BY <1>0, <2>2, <3>1, Zenon DEF RemovalFits
        <3> QED
            BY <1>0, <1>1, <1>7, <2>2, <3>1, <3>2, <3>3, <3>4, Zenon DEF RemovalFits, Sending
    <2>4. ForkFits(c)'
        BY <1>0, <1>2, <2>2, Zenon DEF ForkFits
    <2> QED
        BY <1>0, <1>1, <1>3, <1>7, <2>2, <2>3, <2>4, OwnStep, Zenon DEF KeepsLog
<1> QED
    BY <1>5, <1>6, <1>7, Zenon DEF _verifyPublicList

-----------------------------------------------------------------------------
(* Another account reads the list, and then the log.                         *)

LEMMA PeerSteps ==
    ASSUME IInv, _readDeviceList \/ _readDeviceLog
    PROVE  IInv' /\ peer'.head >= peer.head /\ (peer'.head = peer.head => peer'.hash = peer.hash)
<1>0. UNCHANGED <<rows, log, journal, own, task, made>>
    BY Zenon DEF _readDeviceList, _readDeviceLog, Server
<1>1. /\ peer \in Peer /\ peer.head \in Nat /\ peer.head <= Len(log)
      /\ Len(log) \in Nat /\ DOMAIN log = 1 .. Len(log) /\ peer.reading \in Seq(Reader)
      /\ \A k \in DOMAIN log : log[k] \in Record
    BY Domains DEF IInv, Types, PeerFits, Peer
<1>2. peer.reading # <<>> => peer.reading[1] \in Reader
    BY <1>1, FirstOf
<1>3. /\ peer' \in Peer /\ PeerFits'
      /\ peer'.head >= peer.head /\ (peer'.head = peer.head => peer'.hash = peer.hash)
    <2>1. CASE peer' = Blocked
        <3>1. /\ peer' \in Peer /\ peer'.head = peer.head /\ peer'.hash = peer.hash
              /\ peer'.list = peer.list /\ peer'.reading = <<>>
            <4>1. <<>> \in Seq(Reader)
                OBVIOUS
            <4> QED
                BY <1>1, <2>1, <4>1, Zenon DEF Blocked, Peer
        <3> QED
            BY <1>0, <1>1, <3>1 DEF IInv, PeerFits, PeerListWasSigned
    <2>2. CASE \E s \in {"unverified", peer.state} : peer' = [peer EXCEPT !.state = s]
        <3>1. /\ peer' \in Peer /\ peer'.head = peer.head /\ peer'.hash = peer.hash
              /\ peer'.list = peer.list /\ peer'.reading = peer.reading
            BY <1>1, <2>2, Zenon DEF Peer
        <3> QED
            BY <1>0, <1>1, <3>1 DEF IInv, PeerFits, PeerListWasSigned
    <2>3. CASE /\ Usable /\ Len(log) > peer.head
               /\ peer' = [peer EXCEPT !.reading = <<[list |-> Listing, head |-> Len(log)]>>]
        <3> DEFINE n == [list |-> Listing, head |-> Len(log)]
        <3>1. n \in Reader /\ n.list = Listing /\ n.head = Len(log)
            BY <1>1, ListingIsDevices DEF Reader, IInv
        <3> HIDE DEF n
        <3>2. <<n>> \in Seq(Reader) /\ <<n>>[1] = n
            BY <3>1
        <3>3. /\ peer' \in Peer /\ peer'.head = peer.head /\ peer'.hash = peer.hash
              /\ peer'.list = peer.list /\ peer'.reading = <<n>>
            BY <1>1, <2>3, <3>2, Zenon DEF Peer, n
        <3>4. AllSigned(Listing)
            BY <2>3 DEF Usable, AllSigned
        <3> QED
            BY <1>0, <1>1, <2>3, <3>1, <3>2, <3>3, <3>4 DEF IInv, PeerFits, PeerListWasSigned
    <2>4. CASE /\ peer.reading # <<>> /\ Len(log) = peer.reading[1].head
               /\ log[peer.reading[1].head].live = peer.reading[1].list
               /\ peer' = [state |-> "unverified", list |-> peer.reading[1].list,
                           head |-> peer.reading[1].head,
                           hash |-> log[peer.reading[1].head].id, reading |-> <<>>]
        <3> DEFINE read == peer.reading[1]
        <3>1. /\ read \in Reader /\ read.head \in Nat /\ read.list \in SUBSET DeviceIds
            BY <1>2, <2>4, Zenon DEF Reader
        <3>2. /\ peer.head < read.head /\ read.head <= Len(log) /\ AllSigned(read.list)
            BY <2>4 DEF IInv, PeerFits
        <3> HIDE DEF read
        <3>3. read.head \in DOMAIN log
            BY <1>1, <3>1, <3>2
        <3>4. log[read.head].id \in Nat
            BY <1>1, <3>3, Zenon DEF Record
        <3>5. /\ peer' \in Peer /\ peer'.head = read.head
              /\ peer'.list = read.list /\ peer'.reading = <<>>
            <4>1. <<>> \in Seq(Reader)
                OBVIOUS
            <4> QED
                BY <2>4, <3>1, <3>4, <4>1, Zenon DEF Peer, read
        <3>6. log[read.head].live = read.list
            BY <2>4 DEF read
        <3>7. PeerFits'
            BY <1>0, <3>2, <3>5, <3>6, Zenon DEF PeerFits, PeerListWasSigned, AllSigned
        <3> QED
            BY <1>1, <3>1, <3>2, <3>5, <3>7
    <2>5. CASE _readDeviceList
        <3>1. \/ peer' = Blocked
              \/ \E s \in {"unverified", peer.state} : peer' = [peer EXCEPT !.state = s]
              \/ /\ Usable /\ ~(Len(log) < peer.head) /\ Len(log) # peer.head
                 /\ peer' = [peer EXCEPT !.reading = <<[list |-> Listing, head |-> Len(log)]>>]
            BY <2>5 DEF _readDeviceList
        <3>2. ~(Len(log) < peer.head) /\ Len(log) # peer.head => Len(log) > peer.head
            BY <1>1
        <3> QED
            BY <2>1, <2>2, <2>3, <3>1, <3>2, Zenon
    <2>6. CASE _readDeviceLog
        BY <2>1, <2>4, <2>6, Zenon DEF _readDeviceLog
    <2> QED
        BY <2>5, <2>6, Zenon
<1>4. Types'
    BY <1>0, <1>3 DEF IInv, Types
<1>5. Grew
    BY <1>0, GrewSame, Zenon DEF IInv
<1>6. \A c \in Clients : ClientInv(c)'
    <2>1. \A k \in DOMAIN log' : ~(k > Len(log))
        BY <1>0, <1>1
    <2> QED
        BY <1>0, <1>4, <1>5, <2>1, ClientKept, Zenon DEF IInv
<1>7. RevokedWasLogged'
    BY <1>0 DEF IInv, RevokedWasLogged
<1> QED
    BY <1>3, <1>4, <1>6, <1>7, Zenon DEF IInv

-----------------------------------------------------------------------------
(* The invariant.                                                            *)

LEMMA FunctionIsSeq ==
    ASSUME NEW S, NEW m \in Nat, NEW f \in [1 .. m -> S]
    PROVE  f \in Seq(S) /\ Len(f) = m /\ DOMAIN f = 1 .. m
OBVIOUS

LEMMA InitIInv == DevicesInit => IInv
<1> SUFFICES ASSUME DevicesInit PROVE IInv
    OBVIOUS
<1> DEFINE n == Len(Enrolled)
           Covers(k) == {<<i, TRUE>> : i \in 1 .. k}
           place(c) == CHOOSE i \in 1 .. n : Enrolled[i] = c
           record(k) == [id |-> k, by |-> Enrolled[k], sequence |-> k,
                         previous |-> k - 1, live |-> Covers(k), target |-> 0]
           row(i) == [owner |-> Enrolled[i], signed |-> TRUE, live |-> TRUE]
<1>1. /\ n \in Nat /\ 0 <= n /\ DOMAIN Enrolled = 1 .. n
      /\ \A i \in 1 .. n : Enrolled[i] \in Clients
      /\ \A i, j \in 1 .. n : Enrolled[i] = Enrolled[j] => i = j
    BY DevicesAssumption
<1>2. /\ rows = [i \in 1 .. n |-> row(i)] /\ log = [k \in 1 .. n |-> record(k)]
      /\ journal = [c \in Clients |->
               IF \E i \in 1 .. n : Enrolled[i] = c
               THEN [NoJournal EXCEPT !.phase = "complete", !.row = place(c)] ELSE NoJournal]
      /\ own = [c \in Clients |-> NoOwn] /\ task = [c \in Clients |-> Idle]
      /\ made = n /\ peer = NoPeer
    BY Zenon DEF DevicesInit
<1>3. \A k \in 1 .. n : Covers(k) \in SUBSET DeviceIds
    <2> SUFFICES ASSUME NEW k \in 1 .. n, NEW d \in Covers(k) PROVE d \in DeviceIds
        BY Zenon
    <2>1. PICK i \in 1 .. k : d = <<i, TRUE>>
        BY Zenon
    <2>2. i \in Nat
        BY <1>1
    <2> QED
        BY <2>1, <2>2, Zenon DEF DeviceIds
<1>4. \A k \in 1 .. n : record(k) \in Record
    <2> SUFFICES ASSUME NEW k \in 1 .. n PROVE record(k) \in Record
        BY Zenon
    <2>1. n \in Nat /\ Enrolled[k] \in Clients /\ Covers(k) \in SUBSET DeviceIds
        BY <1>1, <1>3, Zenon
    <2> HIDE DEF Covers, n
    <2>2. k \in Nat /\ k - 1 \in Nat
        BY <2>1
    <2> QED
        BY <2>1, <2>2 DEF Record
<1>5. \A i \in 1 .. n : row(i) \in Row
    BY <1>1 DEF Row
<1>6. \A c \in Clients : (\E i \in 1 .. n : Enrolled[i] = c) =>
          place(c) \in 1 .. n /\ Enrolled[place(c)] = c
    BY Zenon
<1>7. /\ \A k \in 1 .. n : record(k).by = Enrolled[k] /\ record(k).sequence = k
                 /\ record(k).target = 0 /\ record(k).live = Covers(k)
      /\ \A i \in 1 .. n : row(i).live
    OBVIOUS
<1>8. \A k \in 1 .. n : <<k, TRUE>> \in Covers(k)
    BY <1>1
<1> HIDE DEF record, row, place, Covers, n
<1>9. /\ rows \in Seq(Row) /\ Len(rows) = n /\ DOMAIN rows = 1 .. n
      /\ \A i \in 1 .. n : rows[i] = row(i)
    <2>1. rows \in [1 .. n -> Row] /\ n \in Nat
        BY <1>1, <1>2, <1>5, Zenon
    <2> QED
        BY <1>2, <2>1, FunctionIsSeq, Zenon
<1>10. /\ log \in Seq(Record) /\ Len(log) = n /\ DOMAIN log = 1 .. n
       /\ \A k \in 1 .. n : log[k] = record(k)
    <2>1. log \in [1 .. n -> Record] /\ n \in Nat
        BY <1>1, <1>2, <1>4, Zenon
    <2> QED
        BY <1>2, <2>1, FunctionIsSeq, Zenon
<1>11. ASSUME NEW c \in Clients
       PROVE  /\ journal[c] \in Journal /\ journal[c].record = <<>>
              /\ \/ /\ journal[c].phase = "complete" /\ journal[c].row \in 1 .. n
                    /\ Enrolled[journal[c].row] = c
                 \/ /\ journal[c].phase = "none" /\ journal[c].row = 0
                    /\ \A i \in 1 .. n : Enrolled[i] # c
    <2>1. <<>> \in Seq(Record)
        OBVIOUS
    <2>2. CASE \E i \in 1 .. n : Enrolled[i] = c
        <3>1. place(c) \in 1 .. n /\ Enrolled[place(c)] = c
            BY <1>6, <2>2, Zenon
        <3>2. place(c) \in Nat
            BY <1>1, <3>1
        <3>3. journal[c] = [NoJournal EXCEPT !.phase = "complete", !.row = place(c)]
            BY <1>2, <2>2, Zenon
        <3> QED
            BY <2>1, <3>1, <3>2, <3>3, Zenon DEF NoJournal, Journal, Phases
    <2>3. CASE ~ \E i \in 1 .. n : Enrolled[i] = c
        <3>1. journal[c] = NoJournal
            BY <1>2, <2>3, Zenon
        <3> QED
            BY <2>1, <2>3, <3>1 DEF NoJournal, Journal, Phases
    <2> QED
        BY <2>2, <2>3
<1>12. /\ NoOwn \in Own /\ NoOwn.pending = <<>> /\ NoOwn.posture = "normal" /\ NoOwn.stored = <<>>
       /\ NoPeer \in Peer /\ NoPeer.head = 0 /\ NoPeer.reading = <<>>
    <2>1. <<>> \in Seq(Removal) /\ <<>> \in Seq(Record) /\ <<>> \in Seq(Reader)
        OBVIOUS
    <2> QED
        BY <2>1 DEF NoOwn, Own, NoPeer, Peer, DeviceIds
<1>13. \A c \in Clients : own[c] = NoOwn /\ task[c] = Idle
    BY <1>2, Zenon
<1>14. Types
    <2>1. journal \in [Clients -> Journal]
        BY <1>2, <1>11, Zenon
    <2>2. own \in [Clients -> Own] /\ task \in [Clients -> Task]
        BY <1>2, <1>12, IdleIsTask, Zenon
    <2> QED
        BY <1>1, <1>2, <1>9, <1>10, <1>12, <2>1, <2>2, Zenon DEF Types
<1>15. ASSUME NEW c \in Clients PROVE ClientInv(c)
    <2>1. EnrolmentFits(c)
        BY <1>1, <1>9, <1>10, <1>11, <1>13, IdleIsTask DEF EnrolmentFits, Early
    <2>2. RemovalFits(c) /\ ForkFits(c)
        BY <1>12, <1>13, IdleIsTask DEF RemovalFits, ForkFits, Sending
    <2>3. \A k \in Adds(c) : k \in 1 .. n /\ Enrolled[k] = c
        BY <1>7, <1>10, Zenon DEF Adds
    <2>4. AddedOnce(c)
        BY <1>1, <1>11, <2>3 DEF AddedOnce
    <2>5. StoredIsPrefix(c)
        BY <1>12, <1>13 DEF StoredIsPrefix
    <2>6. EnrolledHasRecord(c)
        <3> SUFFICES ASSUME journal[c].phase \in {"securityNotice", "complete"}
                     PROVE  \E k \in DOMAIN log :
                                /\ log[k].by = c /\ log[k].sequence = k /\ log[k].target = 0
                                /\ <<journal[c].row, TRUE>> \in log[k].live
            BY Zenon DEF EnrolledHasRecord
        <3> DEFINE k == journal[c].row
        <3>1. k \in 1 .. n /\ Enrolled[k] = c
            BY <1>11, Zenon
        <3> HIDE DEF k
        <3>2. k \in DOMAIN log /\ log[k] = record(k)
            BY <1>10, <3>1, Zenon
        <3>3. log[k].by = c /\ log[k].sequence = k /\ log[k].target = 0
            BY <1>7, <3>1, <3>2, Zenon
        <3>4. <<k, TRUE>> \in log[k].live
            <4>1. log[k].live = Covers(k)
                BY <1>7, <3>1, <3>2, Zenon
            <4>2. <<k, TRUE>> \in Covers(k)
                BY <1>8, <3>1, Zenon
            <4> QED
                BY <4>1, <4>2, Zenon
        <3> QED
            BY <3>2, <3>3, <3>4, Zenon DEF k
    <2> QED
        BY <2>1, <2>2, <2>4, <2>5, <2>6, Zenon DEF ClientInv
<1>16. RevokedWasLogged
    BY <1>7, <1>9 DEF RevokedWasLogged
<1>17. PeerFits
    <2>1. peer.head = 0 /\ peer.reading = <<>> /\ peer.head <= Len(log)
        BY <1>1, <1>2, <1>10, <1>12, Zenon
    <2> QED
        BY <2>1 DEF PeerFits, PeerListWasSigned
<1> QED
    BY <1>14, <1>15, <1>16, <1>17, Zenon DEF IInv

LEMMA NextIInv ==
    ASSUME IInv, [DevicesNext]_devVars
    PROVE  IInv'
<1>1. ASSUME NEW c \in Clients, EnrolStep(c) PROVE IInv'
    BY Zenon, <1>1, EnterSteps, RegisterStep, PrekeysStep, PrepareStep, PersistStep, FinishLogStep,
       AppendStep DEF EnrolStep
<1>2. ASSUME NEW c \in Clients, revoke(c) \/ RemovalStep(c) PROVE IInv'
    BY <1>2, RevokeSteps, JudgeStep, SendStep, ConfirmStep, DeleteStep, Zenon DEF RemovalStep
<1>3. ASSUME NEW c \in Clients, RefreshStep(c) PROVE IInv'
    BY <1>3, ResumeStep, FinishStep, ListStep, VerifyStep, Zenon DEF RefreshStep
<1>4. ASSUME NEW c \in Clients, GiveUp(c) PROVE IInv'
    <2>1. Do(c, Idle) /\ UNCHANGED <<rows, log, journal, own, made, peer>>
        BY <1>4 DEF GiveUp, Server
    <2> QED
        BY <2>1, GiveUpStep
<1>5. CASE _readDeviceList \/ _readDeviceLog
    BY <1>5, PeerSteps
<1>6. CASE UNCHANGED devVars
    <2>1. UNCHANGED <<rows, log, journal, own, task, made, peer>>
        BY <1>6 DEF devVars
    <2>2. Types' /\ Grew
        BY <2>1, GrewSame DEF IInv, Types
    <2>3. \A k \in DOMAIN log' : ~(k > Len(log))
        BY <2>1, Domains DEF IInv
    <2>4. \A c \in Clients : ClientInv(c)'
        BY <2>1, <2>2, <2>3, ClientKept, Zenon DEF IInv
    <2>5. RevokedWasLogged' /\ PeerFits'
        BY <2>1, <2>2, PeerKept DEF IInv, RevokedWasLogged
    <2> QED
        BY <2>2, <2>4, <2>5, Zenon DEF IInv
<1> QED
    BY <1>1, <1>2, <1>3, <1>4, <1>5, <1>6, Zenon DEF DevicesNext

LEMMA SpecIInv == DevicesSpec => []IInv
BY InitIInv, NextIInv, PTL DEF DevicesSpec

-----------------------------------------------------------------------------
(* What the invariant says of the account.                                   *)

\* The log accounts for the account's devices, whatever calls are lost and
\* whichever tasks are given up: what a device verified and kept begins the log,
\* an enrolled device has exactly one record that adds it, and a signed device is
\* revoked only after the record that removes it.
THEOREM LogsStaySound == DevicesSpec => []LogsAreSound
<1>1. IInv => DevicesTypeOK
    <2> SUFFICES ASSUME IInv PROVE DevicesTypeOK
        BY Zenon
    <2>1. ASSUME NEW c \in Clients
          PROVE  /\ journal[c].phase \in Phases /\ journal[c].row \in 0 .. Len(rows)
                 /\ journal[c].record # <<>> =>
                        journal[c].phase \in {"appendingDeviceLog", "blocked"}
                 /\ task[c].step \in Steps /\ task[c].chain \in 0 .. Len(log)
                 /\ task[c].tries \in 0 .. 2
                 /\ own[c].pending # <<>> => journal[c].phase = "complete"
                 /\ own[c].pending # <<>> => own[c].posture # "normal"
        <3>1. journal[c] \in Journal /\ task[c] \in Task /\ Len(rows) \in Nat
            BY Domains, Zenon DEF IInv, Types
        <3>2. journal[c].row \in Nat /\ journal[c].phase \in Phases /\ task[c].step \in Steps
            BY <3>1 DEF Journal, Task
        <3>3. /\ journal[c].row <= Len(rows)
              /\ journal[c].record # <<>> =>
                     journal[c].phase \in {"appendingDeviceLog", "blocked"}
            BY AtTask, Zenon DEF ClientInv, EnrolmentFits
        <3>4. /\ own[c].pending # <<>> => journal[c].phase = "complete"
              /\ own[c].pending # <<>> => own[c].posture # "normal"
            BY AtTask, Zenon DEF RemovalFits
        <3>5. /\ task[c].chain \in Nat /\ task[c].chain <= Len(log)
              /\ task[c].tries \in Nat /\ task[c].tries <= 2 /\ Len(log) \in Nat
            BY AtTask, Zenon
        <3> QED
            BY <3>1, <3>2, <3>3, <3>4, <3>5
    <2>2. ASSUME NEW c \in Clients,
                 NEW r \in {own[c].pending[i].record : i \in DOMAIN own[c].pending}
                     \cup {journal[c].record[i] : i \in DOMAIN journal[c].record}
          PROVE  r.sequence <= Len(log) + 1 /\ r.id <= made
        <3>1. CASE r \in {own[c].pending[i].record : i \in DOMAIN own[c].pending}
            BY <3>1, AtTask, Zenon DEF RemovalFits
        <3>2. CASE r \in {journal[c].record[i] : i \in DOMAIN journal[c].record}
            <4>1. EnrolmentFits(c)
                BY AtTask, Zenon DEF ClientInv
            <4> QED
                BY <3>2, <4>1, Zenon DEF EnrolmentFits
        <3> QED
            BY <2>2, <3>1, <3>2, Zenon
    <2>3. \A i \in DOMAIN rows : rows[i].owner \in Clients
        BY Domains DEF IInv, Row
    <2>4. peer.head \in 0 .. Len(log)
        <3>1. peer.head \in Nat /\ peer.head <= Len(log)
            BY DEF IInv, Types, Peer, PeerFits
        <3>2. Len(log) \in Nat
            BY Domains, Zenon DEF IInv
        <3> QED
            BY <3>1, <3>2
    <2> QED
        BY <2>1, <2>2, <2>3, <2>4, Zenon DEF DevicesTypeOK
<1>2. IInv => StoredIsChain
    BY DEF IInv, ClientInv, StoredIsPrefix, StoredIsChain
<1>3. IInv => EnrolledIsLogged
    BY Zenon DEF IInv, ClientInv, EnrolledHasRecord, EnrolledIsLogged
<1>4. IInv => EnrolsOnce
    <2> SUFFICES ASSUME IInv, NEW c \in Clients PROVE Cardinality(Adds(c)) <= 1
        BY Zenon DEF EnrolsOnce, Adds
    <2>1. \A k, m \in Adds(c) : k = m
        BY DEF IInv, ClientInv, AddedOnce
    <2>2. CASE Adds(c) = {}
        <3>1. Cardinality(Adds(c)) = 0
            BY <2>2, FS_EmptySet
        <3> QED
            BY <3>1
    <2>3. CASE Adds(c) # {}
        <3>1. PICK k : Adds(c) = {k}
            BY <2>1, <2>3
        <3>2. Cardinality(Adds(c)) = 1
            BY <3>1, FS_Singleton
        <3> QED
            BY <3>2
    <2> QED
        BY <2>2, <2>3
<1>5. IInv => LogsAreSound
    BY <1>1, <1>2, <1>3, <1>4, Zenon DEF LogsAreSound, IInv
<1> QED
    BY <1>5, SpecIInv, PTL

\* A peer uses a list only when a record it verified covers it, and the head it
\* keeps never goes back and never changes under the same number.
THEOREM PeersSeeOneLog == DevicesSpec => PeerSeesOneLog
<1> DEFINE Moves == /\ PeerListWasSigned'
                    /\ peer'.head >= peer.head
                    /\ peer'.head = peer.head => peer'.hash = peer.hash
<1>1. IInv /\ IInv' /\ [DevicesNext]_devVars => [Moves]_<<peer, log>>
    <2> SUFFICES ASSUME IInv, IInv', [DevicesNext]_devVars PROVE Moves
        OBVIOUS
    <2>1. PeerListWasSigned'
        BY DEF IInv, PeerFits
    <2>2. CASE peer' = peer
        <3>1. peer.head \in Nat
            BY DEF IInv, Types, Peer
        <3> QED
            BY <2>1, <2>2, <3>1
    <2>3. CASE _readDeviceList \/ _readDeviceLog
        BY <2>1, <2>3, PeerSteps, Zenon
    <2>4. CASE peer' # peer
        <3>1. ASSUME NEW c \in Clients PROVE ~EnrolStep(c)
            BY <2>4, Zenon DEF EnrolStep, loadOrStart, registerDevice, prepareFirstIdentity,
               publishIdentity, confirmRecoverySecret, fetchBackup, restoreWithRecoverySecret,
               finishPrekeys, uploadBackup, _prepareLogRecord, persistRecord, _finishDeviceLog,
               appendDeviceLog, acceptSecurityNotice, Rest
        <3>2. ASSUME NEW c \in Clients PROVE ~RefreshStep(c)
            BY <2>4 DEF RefreshStep, resumePendingMutation, _finishPendingRemovalIfNeeded,
               fetchPublicDevices, _verifyPublicList
        <3>3. ASSUME NEW c \in Clients PROVE ~(RemovalStep(c) \/ revoke(c) \/ GiveUp(c))
            BY <2>4, Zenon DEF RemovalStep, appendLiveSetMutation, sendMutation, confirmMutation,
               retryMutation, revokeDevice, revoke, GiveUp
        <3>4. ~UNCHANGED devVars
            BY <2>4 DEF devVars
        <3> QED
            BY <2>3, <3>1, <3>2, <3>3, <3>4, Zenon DEF DevicesNext
    <2> QED
        BY <2>2, <2>4
<1> QED
    BY <1>1, SpecIInv, PTL DEF DevicesSpec, PeerSeesOneLog

\* A posture is reset only by a step of that device, from a posture or a list that
\* allows it.
LEMMA ForkStays ==
    ASSUME IInv, [DevicesNext]_devVars, NEW c \in Clients,
           own[c].posture = "deviceLogFork", own'[c].posture # "deviceLogFork"
    PROVE  /\ Linked(log) /\ task[c].head = Len(log)
           /\ task[c].list = log[Len(log)].live
<1>1. own \in [Clients -> Own] /\ own' # own
    BY DEF IInv, Types
<1>2. ASSUME NEW d \in Clients PROVE ~(EnrolStep(d) \/ GiveUp(d))
    BY <1>1, Zenon
       DEF EnrolStep, loadOrStart, registerDevice, prepareFirstIdentity, publishIdentity,
       confirmRecoverySecret, fetchBackup, restoreWithRecoverySecret, finishPrekeys,
       uploadBackup, _prepareLogRecord, persistRecord, _finishDeviceLog, appendDeviceLog,
       acceptSecurityNotice, Rest, GiveUp
<1>3. ~(_readDeviceList \/ _readDeviceLog \/ UNCHANGED devVars)
    BY <1>1 DEF _readDeviceList, _readDeviceLog, devVars
<1>4. ASSUME NEW d \in Clients, revoke(d) PROVE FALSE
    <2>1. own[d].posture = "normal" /\ d # c
        BY <1>4 DEF revoke
    <2> QED
        BY <1>1, <1>4, <2>1, Zenon DEF revoke, _commitVerifiedChain, Posture, Own
<1>5. ASSUME NEW d \in Clients, retryMutation(d) PROVE FALSE
    <2>1. own[d].posture = "normal"
        BY <1>5, AtTask, Zenon DEF retryMutation, At, RemovalFits
    <2> QED
        BY <1>1, <1>5, <2>1, Zenon DEF retryMutation, _commitVerifiedChain, Posture, Own
<1>6. ASSUME NEW d \in Clients, appendLiveSetMutation(d) PROVE FALSE
    <2>1. own[d].posture = "normal"
        BY <1>6, AtTask, Zenon DEF appendLiveSetMutation, At, RemovalFits
    <2>2. d # c
        BY <2>1
    <2> QED
        BY <1>1, <1>6, <2>2, Zenon DEF appendLiveSetMutation, Posture
<1>7. ASSUME NEW d \in Clients, sendMutation(d) \/ fetchPublicDevices(d) PROVE FALSE
    BY <1>1, <1>7, Zenon DEF sendMutation, fetchPublicDevices
<1>8. ASSUME NEW d \in Clients, confirmMutation(d) PROVE FALSE
    <2>1. CASE own' = [own EXCEPT ![d].pending[1].confirmed = TRUE]
        BY <1>1, <2>1 DEF Own
    <2>2. CASE /\ task[d].step = "confirm"
               /\ own' = [own EXCEPT ![d].pending = <<>>, ![d].posture = "normal"]
        <3>1. own[d].posture = "pendingDeviceChange"
            BY <2>2, AtTask DEF RemovalFits
        <3> QED
            BY <1>1, <2>2, <3>1, Zenon
    <2> QED
        BY <1>1, <1>8, <2>1, <2>2, Zenon DEF confirmMutation
<1>9. ASSUME NEW d \in Clients, revokeDevice(d) PROVE FALSE
    <2>1. own[d].posture = "pendingDeviceChange"
        BY <1>9, AtTask, Zenon DEF revokeDevice, At, RemovalFits
    <2>2. d # c
        BY <2>1, Zenon
    <2> QED
        BY <1>1, <1>9, <2>2, Zenon DEF revokeDevice, Cleared
<1>10. ASSUME NEW d \in Clients, resumePendingMutation(d) PROVE FALSE
    <2>1. CASE own' = [own EXCEPT ![d].pending[1].confirmed = TRUE]
        BY <1>1, <2>1, Zenon DEF Own
    <2>2. CASE own' = Posture(d, "deviceLogFork")
        BY <1>1, <2>2, Zenon DEF Posture, Own
    <2> QED
        BY <1>1, <1>10, <2>1, <2>2, Zenon DEF resumePendingMutation
<1>11. ASSUME NEW d \in Clients, _finishPendingRemovalIfNeeded(d) PROVE FALSE
    <2>1. own' = Cleared(d) /\ rows[task[d].target].live /\ task[d].step = "finish"
        BY <1>1, <1>11 DEF _finishPendingRemovalIfNeeded, At
    <2>2. d = c
        BY <1>1, <2>1, Zenon DEF Cleared
    <2>3. own[c].pending # <<>> /\ task[c].target = own[c].pending[1].record.target
        BY <2>1, <2>2, AtTask, Zenon DEF RemovalFits, Sending
    <2> QED
        BY <2>1, <2>2, <2>3, AtTask, Zenon DEF ForkFits
<1>12. ASSUME NEW d \in Clients, _verifyPublicList(d)
       PROVE  /\ Linked(log) /\ task[c].head = Len(log)
              /\ task[c].list = log[Len(log)].live
    <2> DEFINE verdict == IF task[d].head # Len(log) THEN "conflict"
                          ELSE judge(task[d].list, log[Len(log)].live)
    <2>1. CASE own' = Posture(d, "deviceLogFork")
        BY <1>1, <2>1 DEF Posture, Own
    <2>2. CASE \E p \in {"deviceLogFork", own[d].posture} :
                   own' = [own EXCEPT ![d].stored = log, ![d].posture = p]
        BY <1>1, <2>2 DEF Own
    <2>3. CASE /\ Linked(log) /\ verdict = "authenticated"
               /\ own' = [Cleared(d) EXCEPT ![d].stored = log]
        <3>1. d = c
            BY <1>1, <2>3 DEF Cleared
        <3>2. task[d].head = Len(log) /\ task[d].list = log[Len(log)].live
            BY <2>3, Zenon DEF judge
        <3> QED
            BY <2>3, <3>1, <3>2, Zenon
    <2> QED
        BY <1>12, <2>1, <2>2, <2>3, Zenon DEF _verifyPublicList
<1>13. \E d \in Clients : _verifyPublicList(d)
    BY <1>2, <1>3, <1>4, <1>5, <1>6, <1>7, <1>8, <1>9, <1>10, <1>11, Zenon
       DEF DevicesNext, RemovalStep, RefreshStep
<1> QED
    BY <1>12, <1>13

\* A fork that a device noticed is forgotten only when the whole log links and its
\* head covers the list the device read.
THEOREM ForksForgottenOnProof == DevicesSpec => ForkIsForgottenOnProof
<1> DEFINE Proof == \A c \in Clients :
        own[c].posture = "deviceLogFork" /\ own'[c].posture # "deviceLogFork" =>
            /\ Linked(log) /\ task[c].head = Len(log)
            /\ task[c].list = log[Len(log)].live
<1>1. IInv /\ [DevicesNext]_devVars => [Proof]_own
    BY ForkStays
<1> QED
    BY <1>1, SpecIInv, PTL DEF DevicesSpec, ForkIsForgottenOnProof
=============================================================================
