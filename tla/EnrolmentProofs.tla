-------------------------- MODULE EnrolmentProofs --------------------------
(***************************************************************************)
(* Proofs about Devices, for any account, any number of clients, and any    *)
(* number of removals, lost calls and tasks given up.                       *)
(*                                                                          *)
(* None of the properties is inductive.  An enrolment is logged once because *)
(* a record that is in the log, wherever it landed, shows in the length of  *)
(* the log, and that length is what the enrolment compares before it sends  *)
(* (AddedOnce).  A device is revoked after its record because a step that   *)
(* revokes has a removal on disk whose record was found in the log          *)
(* (RemovalFits), and records do not move.  A fork is not forgotten because  *)
(* a removal that met one is either unconfirmed over a log that will never  *)
(* link again, or its device is already gone (ForkFits).                    *)
(***************************************************************************)
EXTENDS Devices, TLAPS

DeviceIds == Nat \X BOOLEAN

Record == [id : Nat, by : Clients, sequence : Nat, previous : Nat,
           live : SUBSET DeviceIds, target : Nat]
Row == [owner : Clients, signed : BOOLEAN, live : BOOLEAN]
Journal == [phase : Phases, row : Nat, record : Seq(Record)]
Removal == [confirmed : BOOLEAN, record : Record]
Own == [posture : {"normal", "pendingDeviceChange", "deviceLogFork"},
        pending : Seq(Removal), stored : Seq(Record)]
Task == [step : Steps, chain : Nat, list : SUBSET DeviceIds, head : Nat, target : Nat,
         tries : Nat, failed : BOOLEAN]
Reader == [list : SUBSET DeviceIds, head : Nat]
Peer == [state : {"blocked", "unverified"}, list : SUBSET DeviceIds, head : Nat, hash : Nat,
         reading : Seq(Reader)]

Types ==
    /\ rows \in Seq(Row) /\ log \in Seq(Record) /\ made \in Nat
    /\ journal \in [Clients -> Journal]
    /\ own \in [Clients -> Own]
    /\ task \in [Clients -> Task]
    /\ peer \in Peer

\* Phases before the device has a row.
Early == {"none", "registrationReady", "registrationOutcomeUnknown"}

\* The enrolment on disk: the row it has, the record it signed, and what the task
\* that works it off may be doing.
EnrolmentFits(c) ==
    LET j == journal[c]
    IN  /\ j.row <= Len(rows)
        /\ j.phase \notin Early \cup {"blocked"} => j.row # 0
        /\ j.record # <<>> =>
               /\ j.phase \in {"appendingDeviceLog", "blocked"}
               /\ j.record[1].by = c /\ j.record[1].target = 0
               /\ <<j.row, TRUE>> \in j.record[1].live
        /\ \A i \in DOMAIN j.record :
               j.record[i].sequence <= Len(log) + 1 /\ j.record[i].id <= made
        /\ task[c].step \in {"prepare", "append"} => j.phase = "appendingDeviceLog"
        /\ task[c].step = "append" => j.record # <<>>
        /\ task[c].step = "prepare" => j.record = <<>>
        /\ task[c].chain <= Len(log) /\ task[c].tries <= 2
        /\ task[c].step = "idle" => task[c] = Idle

\* Steps of a task that have a removal on disk to work on.
Sending == {"send", "confirm", "delete", "resend", "reconfirm", "finish"}

\* The removal on disk: what a task that works on it may take for granted.
RemovalFits(c) ==
    LET o == own[c]
        t == task[c]
        r == o.pending[1].record
    IN  /\ o.pending # <<>> =>
               /\ journal[c].phase = "complete" /\ o.posture # "normal"
               /\ r.target \in DOMAIN rows
               /\ o.pending[1].confirmed => InLog(r)
        /\ \A i \in DOMAIN o.pending :
               /\ o.pending[i].record.sequence <= Len(log) + 1
               /\ o.pending[i].record.id <= made
        /\ t.step \notin {"idle", "prepare", "append"} => journal[c].phase = "complete"
        /\ t.step \in Sending => o.pending # <<>>
        /\ t.step \in {"judge", "again"} => o.pending = <<>> /\ o.posture = "normal"
        /\ t.step \in {"judge", "again", "send", "confirm"} => t.target \in DOMAIN rows
        /\ t.step \in {"send", "confirm", "delete"} => o.posture = "pendingDeviceChange"
        /\ t.step \in {"delete", "finish"} => o.pending[1].confirmed /\ t.target = r.target
        /\ t.step \in {"list", "chain"} =>
               IF t.failed
               THEN o.pending # <<>> /\ o.pending[1].confirmed /\ t.target = r.target
               ELSE o.pending = <<>>
        /\ t.step = "chain" /\ t.failed => ~rows[t.target].live

\* A removal beside a noticed fork: the log will never link again, or the device
\* is gone already.
ForkFits(c) ==
    own[c].posture = "deviceLogFork" /\ own[c].pending # <<>> =>
        \/ /\ ~own[c].pending[1].confirmed /\ ~Linked(log)
           /\ task[c].step = "idle"
        \/ own[c].pending[1].confirmed /\ ~rows[own[c].pending[1].record.target].live

Adds(c) == {k \in DOMAIN log : log[k].by = c /\ log[k].target = 0}

\* The record of an enrolment is in the log once, and an enrolment that may still
\* send one has none there.
AddedOnce(c) ==
    /\ \A k, m \in Adds(c) : k = m
    /\ \A k \in Adds(c) :
        /\ journal[c].phase \in {"appendingDeviceLog", "blocked", "securityNotice",
                                 "complete", "wiped"}
        /\ journal[c].phase = "appendingDeviceLog" =>
               /\ journal[c].record # <<>> /\ task[c].step # "append"
               /\ journal[c].record[1].sequence <= k

StoredIsPrefix(c) ==
    \A k \in DOMAIN own[c].stored :
        /\ k \in DOMAIN log /\ log[k] = own[c].stored[k]
        /\ log[k].sequence = k
        /\ k > 1 => log[k].previous = log[k - 1].id

EnrolledHasRecord(c) ==
    journal[c].phase \in {"securityNotice", "complete"} =>
        \E k \in DOMAIN log :
            /\ log[k].by = c /\ log[k].sequence = k /\ log[k].target = 0
            /\ <<journal[c].row, TRUE>> \in log[k].live

AllSigned(list) == \A d \in list : d[2]

\* What a peer keeps, and what it is reading.
PeerFits ==
    /\ peer.head <= Len(log)
    /\ PeerListWasSigned
    /\ peer.reading # <<>> =>
           /\ peer.head < peer.reading[1].head /\ peer.reading[1].head <= Len(log)
           /\ AllSigned(peer.reading[1].list)

ClientInv(c) ==
    /\ EnrolmentFits(c) /\ RemovalFits(c) /\ ForkFits(c)
    /\ AddedOnce(c) /\ StoredIsPrefix(c) /\ EnrolledHasRecord(c)

IInv ==
    /\ Types
    /\ \A c \in Clients : ClientInv(c)
    /\ RevokedWasLogged
    /\ PeerFits

-----------------------------------------------------------------------------
(* What every step leaves true of the server: the log and the rows only     *)
(* grow, and a revoked row stays revoked.                                    *)

Grew ==
    /\ Len(log) <= Len(log') /\ \A k \in DOMAIN log : log'[k] = log[k]
    /\ Len(rows) <= Len(rows')
    /\ \A i \in DOMAIN rows : ~rows[i].live => ~rows'[i].live
    /\ made <= made'

LEMMA FirstOf ==
    ASSUME NEW S, NEW q \in Seq(S), q # <<>>
    PROVE  1 \in DOMAIN q /\ q[1] \in S
OBVIOUS

LEMMA ElementsOf ==
    ASSUME NEW S, NEW q \in Seq(S)
    PROVE  \A i \in DOMAIN q : q[i] \in S
OBVIOUS

LEMMA Domains ==
    ASSUME Types
    PROVE  /\ Len(log) \in Nat /\ DOMAIN log = 1 .. Len(log)
           /\ Len(rows) \in Nat /\ DOMAIN rows = 1 .. Len(rows)
           /\ \A k \in DOMAIN log : log[k] \in Record
           /\ \A i \in DOMAIN rows : rows[i] \in Row
BY DEF Types

LEMMA DomainsGrew ==
    ASSUME Types, Types', Grew
    PROVE  DOMAIN log \subseteq DOMAIN log' /\ DOMAIN rows \subseteq DOMAIN rows'
<1>1. Types => Len(log) \in Nat /\ DOMAIN log = 1 .. Len(log)
                 /\ Len(rows) \in Nat /\ DOMAIN rows = 1 .. Len(rows)
    BY Domains
<1>2. Len(log)' \in Nat /\ (DOMAIN log)' = 1 .. Len(log)'
                 /\ Len(rows)' \in Nat /\ (DOMAIN rows)' = 1 .. Len(rows)'
    BY DEF Types
<1> QED
    BY <1>1, <1>2 DEF Grew

\* A log that does not link never links again.
LEMMA UnlinkedStays ==
    ASSUME Types, Types', Grew, Linked(log)'
    PROVE  Linked(log)
<1> SUFFICES ASSUME NEW k \in DOMAIN log
             PROVE  /\ log[k].sequence = k
                    /\ log[k].previous = IF k = 1 THEN 0 ELSE log[k - 1].id
    BY DEF Linked
<1>1. k \in DOMAIN log' /\ (k # 1 => k - 1 \in DOMAIN log)
    BY Domains, DomainsGrew
<1>2. /\ log'[k].sequence = k
      /\ log'[k].previous = IF k = 1 THEN 0 ELSE log'[k - 1].id
    BY <1>1 DEF Linked
<1> QED
    BY <1>1, <1>2 DEF Grew

LEMMA IdleIsTask ==
    /\ Idle \in Task /\ Idle.step = "idle"
    /\ Idle.chain = 0 /\ Idle.tries = 0 /\ Idle.failed = FALSE
BY DEF Idle, Task, Steps, DeviceIds

\* A client that does nothing, or gives up what it is doing, keeps its invariant,
\* whatever others do.
LEMMA ClientKept ==
    ASSUME Types, Types', Grew, NEW c \in Clients, ClientInv(c),
           journal'[c] = journal[c], own'[c] = own[c], task'[c] = task[c] \/ task'[c] = Idle,
           \A k \in DOMAIN log' : k > Len(log) => ~(log'[k].by = c /\ log'[k].target = 0)
    PROVE  ClientInv(c)'
<1>0. /\ Len(log) \in Nat /\ Len(rows) \in Nat /\ Len(log') \in Nat /\ Len(rows') \in Nat
      /\ made \in Nat /\ made' \in Nat
      /\ DOMAIN log \subseteq DOMAIN log' /\ DOMAIN rows \subseteq DOMAIN rows'
    BY DomainsGrew DEF Types
<1>1. EnrolmentFits(c)'
    <2>1. journal[c] \in Journal /\ task[c] \in Task
        BY DEF Types
    <2>2. \A i \in DOMAIN journal[c].record : journal[c].record[i] \in Record
        BY <2>1, ElementsOf DEF Journal
    <2>3. EnrolmentFits(c)
        BY DEF ClientInv
    <2>4. \A i \in DOMAIN journal[c].record :
               /\ journal[c].record[i].sequence <= Len(log') + 1
               /\ journal[c].record[i].id <= made'
        <3> SUFFICES ASSUME NEW i \in DOMAIN journal[c].record
                     PROVE  /\ journal[c].record[i].sequence <= Len(log') + 1
                            /\ journal[c].record[i].id <= made'
            OBVIOUS
        <3>1. journal[c].record[i].sequence \in Nat /\ journal[c].record[i].id \in Nat
            BY <2>2 DEF Record
        <3>2. /\ journal[c].record[i].sequence <= Len(log) + 1
              /\ journal[c].record[i].id <= made
            BY <2>3 DEF EnrolmentFits
        <3> QED
            BY <1>0, <3>1, <3>2 DEF Grew
    <2>5. journal[c].row <= Len(rows') /\ task'[c].chain <= Len(log') /\ task'[c].tries <= 2
        <3>1. /\ journal[c].row \in Nat /\ journal[c].row <= Len(rows)
              /\ task[c].chain \in Nat /\ task[c].chain <= Len(log) /\ task[c].tries <= 2
            BY <2>1, <2>3 DEF EnrolmentFits, Journal, Task
        <3>2. Len(log) <= Len(log') /\ Len(rows) <= Len(rows')
            BY DEF Grew
        <3>3. CASE task'[c] = task[c]
            BY <1>0, <3>1, <3>2, <3>3
        <3>4. CASE task'[c] = Idle
            BY <1>0, <3>1, <3>2, <3>4, IdleIsTask
        <3> QED
            BY <3>3, <3>4
    <2> QED
        BY <2>3, <2>4, <2>5, IdleIsTask DEF EnrolmentFits
<1>2. RemovalFits(c)'
    <2>1. own[c] \in Own /\ task[c] \in Task
        BY DEF Types
    <2>2. \A i \in DOMAIN own[c].pending : own[c].pending[i].record \in Record
        <3>1. \A i \in DOMAIN own[c].pending : own[c].pending[i] \in Removal
            BY <2>1, ElementsOf DEF Own
        <3> QED
            BY <3>1 DEF Removal
    <2>3. RemovalFits(c)
        BY DEF ClientInv
    <2>4. own[c].pending # <<>> /\ InLog(own[c].pending[1].record)
             => InLog(own[c].pending[1].record)'
        BY <1>0 DEF InLog, Grew
    <2>5. \A i \in DOMAIN own[c].pending :
               /\ own'[c].pending[i].record.sequence <= Len(log') + 1
               /\ own'[c].pending[i].record.id <= made'
        <3> SUFFICES ASSUME NEW i \in DOMAIN own[c].pending
                     PROVE  /\ own[c].pending[i].record.sequence <= Len(log') + 1
                            /\ own[c].pending[i].record.id <= made'
            OBVIOUS
        <3>1. /\ own[c].pending[i].record.sequence \in Nat
              /\ own[c].pending[i].record.id \in Nat
            BY <2>2 DEF Record
        <3>2. /\ own[c].pending[i].record.sequence <= Len(log) + 1
              /\ own[c].pending[i].record.id <= made
            BY <2>3 DEF RemovalFits
        <3> QED
            BY <1>0, <3>1, <3>2 DEF Grew
    <2> QED
        BY <1>0, <2>3, <2>4, <2>5, IdleIsTask, Zenon DEF RemovalFits, Grew, Sending
<1>3. ForkFits(c)'
    BY UnlinkedStays, IdleIsTask DEF ClientInv, ForkFits, RemovalFits, Grew
<1>4. AddedOnce(c)'
    <2>1. Adds(c)' = Adds(c)
        <3>1. \A k \in DOMAIN log' : k \in DOMAIN log \/ k > Len(log)
            BY <1>0, Domains DEF Types
        <3> QED
            BY <1>0, <3>1 DEF Adds, Grew
    <2>2. task[c].step # "append" => task'[c].step # "append"
        BY IdleIsTask
    <2> QED
        BY <2>1, <2>2 DEF ClientInv, AddedOnce
<1>5. StoredIsPrefix(c)'
    <2>1. \A k \in DOMAIN log : k > 1 => k - 1 \in DOMAIN log
        BY Domains
    <2> QED
        BY <1>0, <2>1 DEF ClientInv, StoredIsPrefix, Grew
<1>6. EnrolledHasRecord(c)'
    BY <1>0, Zenon DEF ClientInv, EnrolledHasRecord, Grew
<1> QED
    BY <1>1, <1>2, <1>3, <1>4, <1>5, <1>6 DEF ClientInv

\* A peer that does nothing keeps what it has of a log that grew.
LEMMA PeerKept ==
    ASSUME Types, Types', Grew, PeerFits, peer' = peer
    PROVE  PeerFits'
<1>1. /\ Len(log) \in Nat /\ Len(log') \in Nat /\ peer.head \in Nat
      /\ DOMAIN log = 1 .. Len(log)
    BY DEF Types, Peer
<1>2. peer.reading # <<>> => peer.reading[1].head \in Nat
    <2>1. peer.reading \in Seq(Reader)
        BY DEF Types, Peer
    <2>2. peer.reading # <<>> => peer.reading[1] \in Reader
        BY <2>1, FirstOf
    <2> QED
        BY <2>2 DEF Reader
<1>3. PeerListWasSigned'
    BY <1>1 DEF PeerFits, PeerListWasSigned, Grew
<1> QED
    BY <1>1, <1>2, <1>3 DEF PeerFits, Grew

\* A row that was revoked after its record stays so.
LEMMA RevokedKept ==
    ASSUME Types, Types', Grew, RevokedWasLogged,
           \A i \in DOMAIN rows' : rows'[i].signed /\ ~rows'[i].live =>
               \/ i \in DOMAIN rows /\ rows[i].signed /\ ~rows[i].live
               \/ \E k \in DOMAIN log' : log'[k].target = i /\ log'[k].sequence = k
    PROVE  RevokedWasLogged'
BY DomainsGrew DEF RevokedWasLogged, Grew

\* The invariant after a step of client c.
LEMMA ClientStep ==
    ASSUME IInv, Types', Grew, NEW c \in Clients, ClientInv(c)', peer' = peer,
           \A o \in Clients \ {c} : journal'[o] = journal[o],
           \A o \in Clients \ {c} : own'[o] = own[o],
           \A o \in Clients \ {c} : task'[o] = task[o],
           \A k \in DOMAIN log' : k > Len(log) => log'[k].by = c \/ log'[k].target # 0,
           \A i \in DOMAIN rows' : rows'[i].signed /\ ~rows'[i].live =>
               \/ i \in DOMAIN rows /\ rows[i].signed /\ ~rows[i].live
               \/ \E k \in DOMAIN log' : log'[k].target = i /\ log'[k].sequence = k
    PROVE  IInv'
<1>1. ASSUME NEW o \in Clients \ {c} PROVE ClientInv(o)'
    BY ClientKept DEF IInv
<1> QED
    BY <1>1, PeerKept, RevokedKept DEF IInv

-----------------------------------------------------------------------------
(* What the two ways of writing a client's state do.                         *)

LEMMA EnterEffect ==
    ASSUME Types, NEW c \in Clients, NEW p \in Phases, Enter(c, p)
    PROVE  /\ journal' \in [Clients -> Journal]
           /\ \A o \in Clients \ {c} : journal'[o] = journal[o]
           /\ journal'[c].phase = p
           /\ journal'[c].row = journal[c].row
           /\ journal'[c].record = journal[c].record
BY Zenon DEF Types, Enter, Journal

LEMMA DoEffect ==
    ASSUME Types, NEW c \in Clients, NEW t \in Task, Do(c, t)
    PROVE  /\ task' \in [Clients -> Task]
           /\ \A o \in Clients \ {c} : task'[o] = task[o]
           /\ task'[c] = t
BY DEF Types, Do

LEMMA ListingIsDevices ==
    ASSUME Types
    PROVE  Listing \in SUBSET DeviceIds
BY Domains DEF Listing, Row, DeviceIds

\* The actions of an enrolment that change nothing but the phase of it and what
\* the server has beside the rows and the log.
LEMMA PhaseStep ==
    ASSUME IInv, NEW c \in Clients, NEW p \in Phases, Enter(c, p),
           rows' = rows, log' = log, own' = own, task' = task, made' = made, peer' = peer,
           task[c].step = "idle",
           journal[c].phase \notin {"appendingDeviceLog", "blocked", "complete", "wiped"},
           p # "appendingDeviceLog" => p \notin Early \/ journal[c].phase \in Early,
           p = "securityNotice" => FALSE,
           p = "complete" <=> journal[c].phase = "securityNotice",
           journal[c].phase \in Early => p \in Early \cup {"blocked"}
    PROVE  IInv'
<1>1. Types'
    BY EnterEffect DEF IInv, Types
<1>2. Grew
    BY DEF Grew, IInv, Types
<1>3. ClientInv(c)
    BY Zenon DEF IInv
<1>4. EnrolmentFits(c)'
    BY <1>3, EnterEffect DEF IInv, ClientInv, EnrolmentFits, Types, Early
<1>5. RemovalFits(c)'
    BY <1>3, EnterEffect, Zenon DEF IInv, ClientInv, RemovalFits, InLog
<1>6. ForkFits(c)'
    BY <1>3, EnterEffect, Zenon DEF IInv, ClientInv, ForkFits, RemovalFits
<1>7. AddedOnce(c)'
    BY <1>3, EnterEffect DEF IInv, ClientInv, AddedOnce, Adds
<1>8. StoredIsPrefix(c)'
    BY <1>3 DEF ClientInv, StoredIsPrefix
<1>9. EnrolledHasRecord(c)'
    BY <1>3, EnterEffect, Zenon DEF IInv, ClientInv, EnrolledHasRecord
<1>10. ClientInv(c)'
    BY <1>4, <1>5, <1>6, <1>7, <1>8, <1>9 DEF ClientInv
<1> QED
    BY <1>1, <1>2, <1>10, EnterEffect, ClientStep DEF IInv, Types

\* The steps of an enrolment before it registers and between its registration
\* and its record, and the one after.
LEMMA EnterSteps ==
    ASSUME IInv, NEW c \in Clients,
           \/ loadOrStart(c) \/ prepareFirstIdentity(c) \/ publishIdentity(c)
           \/ confirmRecoverySecret(c) \/ fetchBackup(c) \/ restoreWithRecoverySecret(c)
           \/ uploadBackup(c) \/ acceptSecurityNotice(c)
    PROVE  IInv'
<1> USE DEF In, Phases, Early, Server, Rest
<1>0. task[c] = Idle => task[c].step = "idle"
    BY IdleIsTask
<1>1. CASE loadOrStart(c)
    BY <1>0, <1>1, PhaseStep DEF loadOrStart
<1>2. CASE prepareFirstIdentity(c)
    BY <1>0, <1>2, PhaseStep, Zenon DEF prepareFirstIdentity
<1>3. CASE publishIdentity(c)
    <2>1. PICK p \in {"recoverySecret", "blocked", "publishingIdentity"} : Enter(c, p)
        BY <1>3 DEF publishIdentity
    <2> QED
        BY <1>0, <1>3, <2>1, PhaseStep DEF publishIdentity
<1>4. CASE confirmRecoverySecret(c)
    BY <1>0, <1>4, PhaseStep, Zenon DEF confirmRecoverySecret
<1>5. CASE fetchBackup(c)
    <2>1. PICK p \in {"awaitingRecoverySecret", "blocked"} : Enter(c, p)
        BY <1>5, Zenon DEF fetchBackup
    <2> QED
        BY <1>0, <1>5, <2>1, PhaseStep DEF fetchBackup
<1>6. CASE restoreWithRecoverySecret(c)
    <2>1. PICK p \in {"finishingSecureSetup", "awaitingRecoverySecret"} : Enter(c, p)
        BY <1>6, Zenon DEF restoreWithRecoverySecret
    <2> QED
        BY <1>0, <1>6, <2>1, PhaseStep DEF restoreWithRecoverySecret
<1>7. CASE uploadBackup(c)
    <2>1. PICK p \in {"appendingDeviceLog", "blocked", "uploadingBackup"} : Enter(c, p)
        BY <1>7 DEF uploadBackup
    <2> QED
        BY <1>0, <1>7, <2>1, PhaseStep, Zenon DEF uploadBackup
<1>8. CASE acceptSecurityNotice(c)
    BY <1>0, <1>8, PhaseStep DEF acceptSecurityNotice
<1> QED
    BY <1>1, <1>2, <1>3, <1>4, <1>5, <1>6, <1>7, <1>8

\* A registration adds a row, which the client may never hear of.
LEMMA RegisterStep ==
    ASSUME IInv, NEW c \in Clients, registerDevice(c)
    PROVE  IInv'
<1> DEFINE row == [owner |-> c, signed |-> FALSE, live |-> TRUE]
<1>0. /\ task[c].step = "idle" /\ journal[c].phase = "registrationReady"
      /\ log' = log /\ own' = own /\ task' = task /\ made' = made /\ peer' = peer
    BY IdleIsTask DEF registerDevice, In, Rest
<1>1. rows' = rows \/ rows' = Append(rows, row)
    BY DEF registerDevice
<1>2. /\ journal' \in [Clients -> Journal]
      /\ \A o \in Clients \ {c} : journal'[o] = journal[o]
      /\ journal'[c].record = journal[c].record
      /\ \/ /\ journal'[c].phase \in {"blocked", "registrationOutcomeUnknown"}
            /\ journal'[c].row \in {0, journal[c].row}
         \/ /\ journal'[c].phase = "registeredUnsigned"
            /\ rows' = Append(rows, row) /\ journal'[c].row = Len(rows) + 1
    <2>1. PICK outcome \in Outcomes :
              IF \E i \in DOMAIN rows : rows[i].live /\ ~published
              THEN /\ Enter(c, IF outcome = "ok" THEN "blocked" ELSE "registrationOutcomeUnknown")
                   /\ rows' = rows
              ELSE /\ rows' = IF outcome = "never" THEN rows ELSE Append(rows, row)
                   /\ journal' = [journal EXCEPT
                       ![c].phase = IF outcome = "ok" THEN "registeredUnsigned"
                                    ELSE "registrationOutcomeUnknown",
                       ![c].row = IF outcome = "ok" THEN Len(rows) + 1 ELSE 0]
        BY DEF registerDevice
    <2>2. CASE \E i \in DOMAIN rows : rows[i].live /\ ~published
        <3>1. PICK p \in {"blocked", "registrationOutcomeUnknown"} : Enter(c, p)
            BY <2>1, <2>2
        <3> QED
            BY <3>1, EnterEffect DEF IInv, Phases
    <2>3. CASE ~ \E i \in DOMAIN rows : rows[i].live /\ ~published
        <3>1. Len(rows) + 1 \in Nat
            BY Domains DEF IInv
        <3>2. CASE outcome = "ok"
            <4>1. journal' = [journal EXCEPT ![c].phase = "registeredUnsigned",
                                             ![c].row = Len(rows) + 1]
                BY <2>1, <2>3, <3>2
            <4>2. rows' = Append(rows, row)
                BY <2>1, <2>3, <3>2
            <4> QED
                BY <3>1, <4>1, <4>2, Zenon DEF IInv, Types, Journal, Phases
        <3>3. CASE outcome # "ok"
            <4>1. journal' = [journal EXCEPT ![c].phase = "registrationOutcomeUnknown",
                                             ![c].row = 0]
                BY <2>1, <2>3, <3>3
            <4> QED
                BY <4>1, Zenon DEF IInv, Types, Journal, Phases
        <3> QED
            BY <3>2, <3>3
    <2> QED
        BY <2>2, <2>3
<1>3. row \in Row
    BY DEF Row
<1>4. /\ Len(rows) \in Nat /\ rows \in Seq(Row) /\ DOMAIN rows = 1 .. Len(rows)
      /\ Len(log) \in Nat /\ made \in Nat
    BY Domains DEF IInv, Types
<1> HIDE DEF row
<1>5. /\ rows' \in Seq(Row)
      /\ Len(rows') \in {Len(rows), Len(rows) + 1} /\ DOMAIN rows' = 1 .. Len(rows')
      /\ rows' = Append(rows, row) => Len(rows') = Len(rows) + 1
      /\ \A i \in DOMAIN rows : rows'[i] = rows[i]
      /\ \A i \in DOMAIN rows' : i \in DOMAIN rows \/ rows'[i] = row
    BY <1>1, <1>3, <1>4
<1>51. Len(rows) <= Len(rows') /\ Len(rows') \in Nat
    <2>1. Len(rows) \in Nat
        BY <1>4
    <2>2. Len(rows') = Len(rows) \/ Len(rows') = Len(rows) + 1
        BY <1>5, Zenon
    <2> HIDE <1>1, <1>2, <1>4, <1>5
    <2> QED
        BY <2>1, <2>2
<1>6. Types'
    BY <1>0, <1>2, <1>5, Zenon DEF IInv, Types
<1>7. Grew
    <2>1. Len(log) <= Len(log') /\ made <= made'
        BY <1>0, <1>4
    <2>2. (\A k \in DOMAIN log : log'[k] = log[k])
          /\ \A i \in DOMAIN rows : ~rows[i].live => ~rows'[i].live
        BY <1>0, <1>5, Zenon
    <2> QED
        BY <1>51, <2>1, <2>2 DEF Grew
<1>8. ClientInv(c)
    BY DEF IInv
<1>9. journal[c].row \in Nat
    BY Zenon DEF IInv, Types, Journal
<1>10. EnrolmentFits(c)'
    <2>1. journal'[c].row <= Len(rows')
        <3>1. journal[c].row <= Len(rows)
            BY <1>8 DEF ClientInv, EnrolmentFits
        <3>2. \/ journal'[c].row = 0 \/ journal'[c].row = journal[c].row
              \/ journal'[c].row = Len(rows')
            BY <1>2, <1>5, Zenon
        <3>3. Len(rows) \in Nat
            BY <1>4, Zenon
        <3> QED
            BY <1>51, <1>9, <3>1, <3>2, <3>3
    <2>2. journal'[c].phase \notin Early \cup {"blocked"} => journal'[c].row # 0
        BY <1>2, <1>4 DEF Early
    <2>3. journal[c].record = <<>>
        BY <1>0, <1>8, Zenon DEF ClientInv, EnrolmentFits
    <2> QED
        BY <1>0, <1>2, <1>8, <2>1, <2>2, <2>3 DEF ClientInv, EnrolmentFits
<1>11. own[c].pending = <<>>
    BY <1>0, <1>8, Zenon DEF ClientInv, RemovalFits
<1>12. RemovalFits(c)'
    BY <1>0, <1>8, <1>11, Zenon DEF ClientInv, RemovalFits, Sending
<1>13. ForkFits(c)'
    BY <1>0, <1>11 DEF ForkFits
<1>14. Adds(c) = {}
    BY <1>0, <1>8 DEF ClientInv, AddedOnce
<1>15. AddedOnce(c)'
    BY <1>0, <1>14 DEF AddedOnce, Adds
<1>16. StoredIsPrefix(c)'
    BY <1>0, <1>8 DEF ClientInv, StoredIsPrefix
<1>17. EnrolledHasRecord(c)'
    BY <1>2 DEF EnrolledHasRecord
<1>18. ClientInv(c)'
    BY <1>10, <1>12, <1>13, <1>15, <1>16, <1>17 DEF ClientInv
<1>19. \A i \in DOMAIN rows' : rows'[i].signed /\ ~rows'[i].live =>
           i \in DOMAIN rows /\ rows[i].signed /\ ~rows[i].live
    <2>1. ~row.signed
        BY DEF row
    <2> QED
        BY <1>5, <2>1, Zenon
<1> QED
    BY <1>0, <1>2, <1>4, <1>6, <1>7, <1>18, <1>19, Domains, ClientStep DEF IInv

LEMMA GrewSame ==
    ASSUME Types, rows' = rows, log' = log, made' = made \/ made' = made + 1
    PROVE  Grew
<1>1. Len(log) \in Nat /\ Len(rows) \in Nat /\ made \in Nat
    BY Domains DEF Types
<1>2. Len(log) <= Len(log') /\ Len(rows) <= Len(rows') /\ made <= made'
    BY <1>1
<1> QED
    BY <1>2 DEF Grew

\* A step that leaves the server as it is.
LEMMA ClientOnlyStep ==
    ASSUME IInv, Types', NEW c \in Clients, ClientInv(c)', peer' = peer,
           rows' = rows, log' = log, made' = made \/ made' = made + 1,
           \A o \in Clients \ {c} : journal'[o] = journal[o],
           \A o \in Clients \ {c} : own'[o] = own[o],
           \A o \in Clients \ {c} : task'[o] = task[o]
    PROVE  IInv'
<1>1. Grew
    BY GrewSame DEF IInv
<1>2. \A k \in DOMAIN log' : ~(k > Len(log))
    BY Domains DEF IInv
<1> QED
    BY <1>1, <1>2, ClientStep

\* The cross-signature of a live row.
LEMMA PrekeysStep ==
    ASSUME IInv, NEW c \in Clients, finishPrekeys(c)
    PROVE  IInv'
<1>0. /\ task[c].step = "idle" /\ journal[c].phase = "finishingSecureSetup" /\ Online(c)
      /\ log' = log /\ own' = own /\ task' = task /\ made' = made /\ peer' = peer
    BY IdleIsTask DEF finishPrekeys, In, Rest
<1>1. PICK p \in {"finishingSecureSetup", "uploadingBackup", "appendingDeviceLog"} : Enter(c, p)
    BY DEF finishPrekeys
<1>2. /\ journal' \in [Clients -> Journal]
      /\ \A o \in Clients \ {c} : journal'[o] = journal[o]
      /\ journal'[c].phase = p /\ journal'[c].row = journal[c].row
      /\ journal'[c].record = journal[c].record
    BY <1>1, EnterEffect DEF IInv, Phases
<1>3. ClientInv(c)
    BY DEF IInv
<1>4. /\ Len(rows) \in Nat /\ DOMAIN rows = 1 .. Len(rows) /\ rows \in Seq(Row)
      /\ \A i \in DOMAIN rows : rows[i] \in Row
    BY Domains DEF IInv, Types
<1>5. journal[c].row \in DOMAIN rows
    <2>1. journal[c].row # 0 /\ journal[c].row <= Len(rows)
        BY <1>0, <1>3 DEF ClientInv, EnrolmentFits, Early
    <2>2. journal[c].row \in Nat
        BY DEF IInv, Types, Journal
    <2> QED
        BY <1>4, <2>1, <2>2
<1>6. rows[journal[c].row].live
    BY <1>0, <1>4, <1>5 DEF Online
<1>7. rows' = rows \/ rows' = [rows EXCEPT ![journal[c].row].signed = TRUE]
    BY DEF finishPrekeys
<1>8. /\ rows' \in Seq(Row) /\ Len(rows') = Len(rows) /\ DOMAIN rows' = DOMAIN rows
      /\ \A i \in DOMAIN rows : rows'[i].live = rows[i].live
      /\ \A i \in DOMAIN rows : i # journal[c].row => rows'[i] = rows[i]
    <2>1. CASE rows' = rows
        BY <1>4, <2>1
    <2>2. CASE rows' = [rows EXCEPT ![journal[c].row].signed = TRUE]
        <3> DEFINE new == [rows[journal[c].row] EXCEPT !.signed = TRUE]
        <3>1. rows' = [rows EXCEPT ![journal[c].row] = new]
            BY <2>2
        <3>2. new \in Row /\ new.live = rows[journal[c].row].live
            BY <1>4, <1>5, Zenon DEF Row
        <3> HIDE DEF new
        <3> QED
            BY <1>4, <1>5, <3>1, <3>2
    <2> QED
        BY <1>7, <2>1, <2>2
<1>9. Types'
    BY <1>0, <1>2, <1>8 DEF IInv, Types
<1>10. Grew
    <2>1. Len(log) \in Nat /\ made \in Nat
        BY Domains, Zenon DEF IInv, Types
    <2> QED
        BY <1>0, <1>4, <1>8, <2>1 DEF Grew
<1>11. EnrolmentFits(c)'
    BY <1>0, <1>2, <1>3, <1>8, Zenon DEF ClientInv, EnrolmentFits, Early
<1>12. own[c].pending = <<>>
    BY <1>0, <1>3, Zenon DEF ClientInv, RemovalFits
<1>13. RemovalFits(c)'
    BY <1>0, <1>3, <1>12 DEF ClientInv, RemovalFits, Sending
<1>14. ForkFits(c)'
    BY <1>0, <1>12 DEF ForkFits
<1>15. Adds(c) = {}
    BY <1>0, <1>3 DEF ClientInv, AddedOnce
<1>16. AddedOnce(c)'
    BY <1>0, <1>15 DEF AddedOnce, Adds
<1>17. StoredIsPrefix(c)'
    BY <1>0, <1>3 DEF ClientInv, StoredIsPrefix
<1>18. EnrolledHasRecord(c)'
    BY <1>2 DEF EnrolledHasRecord
<1>19. ClientInv(c)'
    BY <1>11, <1>13, <1>14, <1>16, <1>17, <1>18, Zenon DEF ClientInv
<1>20. \A i \in DOMAIN rows' : rows'[i].signed /\ ~rows'[i].live =>
           i \in DOMAIN rows /\ rows[i].signed /\ ~rows[i].live
    BY <1>6, <1>8
<1>21. \A k \in DOMAIN log' : ~(k > Len(log))
    BY <1>0, Domains DEF IInv
<1> QED
    BY <1>0, <1>2, <1>9, <1>10, <1>19, <1>20, <1>21, ClientStep

\* A record is signed for the place after the chain it was built on.
LEMMA RecordOf ==
    ASSUME Types, NEW c \in Clients, NEW chain \in Nat, chain <= Len(log),
           NEW live \in SUBSET DeviceIds, NEW target \in Nat
    PROVE  LET r == NewRecord(c, chain, live, target)
           IN  /\ r \in Record /\ r.by = c /\ r.target = target /\ r.live = live
               /\ r.sequence = chain + 1 /\ r.id = made + 1
<1>1. chain # 0 => log[chain].id \in Nat
    BY Domains DEF Record
<1>2. made + 1 \in Nat
    BY DEF Types
<1> QED
    BY <1>1, <1>2 DEF NewRecord, Record

\* A task that is given up.
LEMMA GiveUpStep ==
    ASSUME IInv, NEW c \in Clients, Do(c, Idle), UNCHANGED <<rows, log, journal, own, made, peer>>
    PROVE  IInv'
<1>1. /\ task' \in [Clients -> Task] /\ task'[c] = Idle
      /\ \A o \in Clients \ {c} : task'[o] = task[o]
    BY DoEffect, IdleIsTask DEF IInv
<1>2. Types'
    BY <1>1 DEF IInv, Types
<1>3. \A k \in DOMAIN log' : ~(k > Len(log))
    BY Domains DEF IInv
<1>4. ClientInv(c)'
    BY <1>1, <1>2, <1>3, GrewSame, ClientKept DEF IInv
<1> QED
    BY <1>1, <1>2, <1>4, ClientOnlyStep, Zenon

\* A device with no removal on disk and no task on one has nothing to fit.
LEMMA NothingPending ==
    ASSUME NEW c \in Clients, own'[c].pending = <<>>,
           task'[c].step \in {"idle", "prepare", "append"}
    PROVE  RemovalFits(c)' /\ ForkFits(c)'
<1>1. RemovalFits(c)'
    BY DEF RemovalFits, Sending
<1>2. ForkFits(c)'
    BY DEF ForkFits
<1> QED
    BY <1>1, <1>2, Zenon

\* The record is built on the log as it is now.
LEMMA PrepareStep ==
    ASSUME IInv, NEW c \in Clients, _prepareLogRecord(c)
    PROVE  IInv'
<1> DEFINE t == [Idle EXCEPT !.step = "prepare", !.chain = Len(log)]
<1>0. /\ task[c].step = "idle" /\ journal[c].phase = "appendingDeviceLog"
      /\ journal[c].record = <<>> /\ Do(c, t)
      /\ UNCHANGED <<rows, log, journal, own, made, peer>>
    BY IdleIsTask DEF _prepareLogRecord, Appending, Server
<1>1. Len(log) \in Nat
    BY Domains DEF IInv
<1>2. t \in Task /\ t.step = "prepare" /\ t.chain = Len(log) /\ t.tries = 0
    BY <1>1, IdleIsTask, Zenon DEF Idle, Task, Steps
<1> HIDE DEF t
<1>3. /\ task' \in [Clients -> Task] /\ task'[c] = t
      /\ \A o \in Clients \ {c} : task'[o] = task[o]
    BY <1>0, <1>2, DoEffect, Zenon DEF IInv
<1>4. Types'
    BY <1>0, <1>3, Zenon DEF IInv, Types
<1>5. ClientInv(c)
    BY Zenon DEF IInv
<1>6. EnrolmentFits(c)'
    <2>1. journal[c].row <= Len(rows) /\ journal[c].row # 0
        BY <1>0, <1>5, Zenon DEF ClientInv, EnrolmentFits, Early
    <2>2. \A i \in DOMAIN journal[c].record :
            journal[c].record[i].sequence <= Len(log) + 1 /\ journal[c].record[i].id <= made
        BY <1>5 DEF ClientInv, EnrolmentFits
    <2>3. Len(log) <= Len(log) /\ 0 <= 2
        BY <1>1
    <2> QED
        BY <1>0, <1>2, <1>3, <2>1, <2>2, <2>3, Zenon DEF EnrolmentFits
<1>7. RemovalFits(c)' /\ ForkFits(c)'
    <2>1. own[c].pending = <<>>
        BY <1>0, <1>5, Zenon DEF ClientInv, RemovalFits
    <2> QED
        BY <1>0, <1>2, <1>3, <2>1, NothingPending, Zenon
<1>8. AddedOnce(c)' /\ StoredIsPrefix(c)' /\ EnrolledHasRecord(c)'
    BY <1>0, <1>2, <1>3, <1>5 DEF ClientInv, AddedOnce, Adds, StoredIsPrefix, EnrolledHasRecord
<1>9. ClientInv(c)'
    BY <1>6, <1>7, <1>8 DEF ClientInv
<1> QED
    BY <1>0, <1>3, <1>4, <1>9, ClientOnlyStep

\* The record is put on disk before it is sent.
LEMMA PersistStep ==
    ASSUME IInv, NEW c \in Clients, persistRecord(c)
    PROVE  IInv'
<1> DEFINE r == NewRecord(c, task[c].chain, Listing, 0)
<1>0. /\ journal[c].phase = "appendingDeviceLog" /\ task[c].step = "prepare"
      /\ Do(c, Idle) /\ UNCHANGED <<rows, log, own, peer>>
    BY Zenon DEF persistRecord, Appending, Server
<1>1. CASE UNCHANGED <<journal, made>>
    BY <1>0, <1>1, GiveUpStep
<1>2. CASE ~ UNCHANGED <<journal, made>>
    <2>1. /\ Len(log) = task[c].chain /\ <<journal[c].row, TRUE>> \in Listing
          /\ journal' = [journal EXCEPT ![c].record = <<r>>]
          /\ made' = made + 1
        BY <1>2 DEF persistRecord
    <2>2. Len(log) \in Nat /\ made \in Nat
        BY Domains DEF IInv, Types
    <2>3. /\ r \in Record /\ r.by = c /\ r.target = 0 /\ r.live = Listing
          /\ r.sequence = Len(log) + 1 /\ r.id = made + 1
        BY <2>1, <2>2, RecordOf, ListingIsDevices DEF IInv
    <2> HIDE DEF r
    <2>4. <<r>> \in Seq(Record) /\ <<r>> # <<>> /\ <<r>>[1] = r /\ DOMAIN <<r>> = {1}
        BY <2>3
    <2>5. /\ journal' \in [Clients -> Journal]
          /\ \A o \in Clients \ {c} : journal'[o] = journal[o]
          /\ journal'[c].phase = "appendingDeviceLog" /\ journal'[c].row = journal[c].row
          /\ journal'[c].record = <<r>>
        BY <1>0, <2>1, <2>4, Zenon DEF IInv, Types, Journal
    <2>6. /\ task' \in [Clients -> Task] /\ task'[c] = Idle
          /\ \A o \in Clients \ {c} : task'[o] = task[o]
        BY <1>0, DoEffect, IdleIsTask DEF IInv
    <2>7. Types'
        BY <1>0, <2>1, <2>2, <2>5, <2>6 DEF IInv, Types
    <2>8. ClientInv(c)
        BY Zenon DEF IInv
    <2>9. EnrolmentFits(c)'
        <3>1. \A i \in DOMAIN journal'[c].record :
                  /\ journal'[c].record[i].sequence <= Len(log') + 1
                  /\ journal'[c].record[i].id <= made'
            BY <1>0, <2>1, <2>2, <2>3, <2>4, <2>5
        <3>2. journal[c].row <= Len(rows) /\ journal[c].row # 0
            BY <1>0, <2>8, Zenon DEF ClientInv, EnrolmentFits, Early
        <3>3. 0 <= Len(log')
            BY <1>0, <2>2
        <3> QED
            BY <1>0, <2>1, <2>3, <2>4, <2>5, <2>6, <3>1, <3>2, <3>3, IdleIsTask DEF EnrolmentFits
    <2>10. own[c].pending = <<>>
        BY <1>0, <2>8 DEF ClientInv, RemovalFits
    <2>11. RemovalFits(c)' /\ ForkFits(c)'
        BY <1>0, <2>6, <2>10, IdleIsTask, NothingPending, Zenon
    <2>12. Adds(c) = {}
        <3>1. CASE journal[c].record = <<>>
            BY <1>0, <2>8, <3>1, Zenon DEF ClientInv, AddedOnce
        <3> QED
            BY <1>0, <2>8, <3>1, Zenon DEF ClientInv, EnrolmentFits
    <2>13. AddedOnce(c)'
        BY <1>0, <2>12, Zenon DEF AddedOnce, Adds
    <2>14. StoredIsPrefix(c)' /\ EnrolledHasRecord(c)'
        BY <1>0, <2>5, <2>8 DEF ClientInv, StoredIsPrefix, EnrolledHasRecord
    <2>15. ClientInv(c)'
        BY <2>9, <2>11, <2>13, <2>14 DEF ClientInv
    <2> QED
        BY <1>0, <2>1, <2>5, <2>6, <2>7, <2>15, ClientOnlyStep
<1> QED
    BY <1>1, <1>2

\* An append puts the record at the end of the log and moves nothing.
LEMMA LogAppended ==
    ASSUME Types, NEW r \in Record, log' = log \/ log' = Append(log, r)
    PROVE  /\ log' \in Seq(Record) /\ Len(log') \in Nat /\ DOMAIN log' = 1 .. Len(log')
           /\ Len(log) <= Len(log') /\ DOMAIN log \subseteq DOMAIN log'
           /\ \A k \in DOMAIN log : log'[k] = log[k]
           /\ log' = Append(log, r) =>
                  Len(log) + 1 \in DOMAIN log' /\ log'[Len(log) + 1] = r
           /\ \A k \in DOMAIN log' : k \notin DOMAIN log =>
                  log' = Append(log, r) /\ k = Len(log) + 1 /\ log'[k] = r
<1>1. log \in Seq(Record) /\ Len(log) \in Nat /\ DOMAIN log = 1 .. Len(log)
    BY Domains DEF Types
<1>2. CASE log' = Append(log, r)
    <2>1. /\ log' \in Seq(Record) /\ Len(log') = Len(log) + 1
          /\ \A i \in 1 .. Len(log) : log'[i] = log[i]
          /\ log'[Len(log) + 1] = r
        BY <1>1, <1>2
    <2>2. DOMAIN log' = 1 .. Len(log) + 1
        BY <2>1
    <2> QED
        BY <1>1, <1>2, <2>1, <2>2
<1>3. CASE log' = log /\ log' # Append(log, r)
    <2>1. Len(log) <= Len(log)
        BY <1>1
    <2> QED
        BY <1>1, <1>3, <2>1, Zenon
<1> QED
    BY <1>2, <1>3

LEMMA LogLonger ==
    ASSUME Types, NEW r \in Record, log' = log \/ log' = Append(log, r)
    PROVE  Len(log) \in Nat /\ Len(log') \in Nat /\ Len(log) <= Len(log') /\ 0 <= Len(log')
<1>1. Len(log) \in Nat /\ Len(log') \in Nat /\ Len(log) <= Len(log')
    BY Domains, LogAppended
<1> DEFINE n == Len(log')
<1>2. n \in Nat
    BY <1>1
<1> HIDE DEF n
<1>3. 0 <= n
    BY <1>2
<1> QED
    BY <1>1, <1>3 DEF n

\* Looking for the record before it is sent.
LEMMA FinishLogStep ==
    ASSUME IInv, NEW c \in Clients, _finishDeviceLog(c)
    PROVE  IInv'
<1> DEFINE r == journal[c].record[1]
<1>0. /\ journal[c].phase = "appendingDeviceLog" /\ task[c].step = "idle" /\ task[c] = Idle
      /\ journal[c].record # <<>> /\ UNCHANGED <<rows, log, own, made, peer>>
    BY IdleIsTask, Zenon DEF _finishDeviceLog, Appending, Server
<1>1. ClientInv(c)
    BY Zenon DEF IInv
<1>2. own[c].pending = <<>>
    BY <1>0, <1>1, Zenon DEF ClientInv, RemovalFits
<1>3. journal[c].row # 0
    BY <1>0, <1>1 DEF ClientInv, EnrolmentFits, Early
<1>4. CASE /\ InLog(r)
           /\ journal' = [journal EXCEPT ![c].phase = "securityNotice", ![c].record = <<>>]
           /\ task' = task
    <2>1. /\ journal' \in [Clients -> Journal]
          /\ \A o \in Clients \ {c} : journal'[o] = journal[o]
          /\ journal'[c].phase = "securityNotice" /\ journal'[c].row = journal[c].row
          /\ journal'[c].record = <<>>
        <3>1. <<>> \in Seq(Record)
            OBVIOUS
        <3> QED
            BY <1>4, <3>1, Zenon DEF IInv, Types, Journal, Phases
    <2>2. Types'
        BY <1>0, <1>4, <2>1 DEF IInv, Types
    <2>3. EnrolmentFits(c)'
        BY <1>0, <1>1, <1>3, <1>4, <2>1 DEF ClientInv, EnrolmentFits
    <2>4. RemovalFits(c)' /\ ForkFits(c)'
        BY <1>0, <1>2, <1>4, NothingPending, Zenon
    <2>5. AddedOnce(c)' /\ StoredIsPrefix(c)'
        BY <1>0, <1>1, <2>1 DEF ClientInv, AddedOnce, Adds, StoredIsPrefix
    <2>6. EnrolledHasRecord(c)'
        <3>1. r.by = c /\ r.target = 0 /\ <<journal[c].row, TRUE>> \in r.live
            BY <1>0, <1>1 DEF ClientInv, EnrolmentFits
        <3> QED
            BY <1>0, <1>4, <2>1, <3>1, Zenon DEF InLog, EnrolledHasRecord
    <2>7. ClientInv(c)'
        BY <2>3, <2>4, <2>5, <2>6, Zenon DEF ClientInv
    <2> QED
        BY <1>0, <1>4, <2>1, <2>2, <2>7, ClientOnlyStep
<1>5. CASE Enter(c, "blocked") /\ task' = task
    <2>1. /\ journal' \in [Clients -> Journal]
          /\ \A o \in Clients \ {c} : journal'[o] = journal[o]
          /\ journal'[c].phase = "blocked" /\ journal'[c].row = journal[c].row
          /\ journal'[c].record = journal[c].record
        BY <1>5, EnterEffect, Zenon DEF IInv, Phases
    <2>2. Types'
        BY <1>0, <1>5, <2>1, Zenon DEF IInv, Types
    <2>3. EnrolmentFits(c)'
        BY <1>0, <1>1, <1>5, <2>1, Zenon DEF ClientInv, EnrolmentFits
    <2>4. RemovalFits(c)' /\ ForkFits(c)'
        BY <1>0, <1>2, <1>5, NothingPending, Zenon
    <2>5. AddedOnce(c)' /\ StoredIsPrefix(c)' /\ EnrolledHasRecord(c)'
        BY <1>0, <1>1, <2>1 DEF ClientInv, AddedOnce, Adds, StoredIsPrefix, EnrolledHasRecord
    <2>6. ClientInv(c)'
        BY <2>3, <2>4, <2>5, Zenon DEF ClientInv
    <2> QED
        BY <1>0, <1>5, <2>1, <2>2, <2>6, ClientOnlyStep, Zenon
<1>6. CASE /\ Len(log) = r.sequence - 1
           /\ Do(c, [Idle EXCEPT !.step = "append"]) /\ journal' = journal
    <2> DEFINE t == [Idle EXCEPT !.step = "append"]
    <2>1. t \in Task /\ t.step = "append" /\ t.chain = 0 /\ t.tries = 0
        BY IdleIsTask, Zenon DEF Idle, Task, Steps
    <2> HIDE DEF t
    <2>2. /\ task' \in [Clients -> Task] /\ task'[c] = t
          /\ \A o \in Clients \ {c} : task'[o] = task[o]
        BY <1>6, <2>1, DoEffect DEF IInv, t
    <2>3. Types'
        BY <1>0, <1>6, <2>2 DEF IInv, Types
    <2>4. Len(log) \in Nat /\ DOMAIN log = 1 .. Len(log)
        BY Domains, Zenon DEF IInv
    <2>5. EnrolmentFits(c)'
        BY <1>0, <1>1, <1>6, <2>1, <2>2, <2>4 DEF ClientInv, EnrolmentFits
    <2>6. RemovalFits(c)' /\ ForkFits(c)'
        BY <1>0, <1>2, <2>1, <2>2, NothingPending
    <2>7. r.sequence \in Nat
        <3>1. journal[c].record \in Seq(Record)
            BY DEF IInv, Types, Journal
        <3>2. r \in Record
            BY <1>0, <3>1, FirstOf
        <3> QED
            BY <3>2 DEF Record
    <2>8. Adds(c) = {}
        <3>1. \A k \in Adds(c) : r.sequence <= k
            BY <1>0, <1>1, Zenon DEF ClientInv, AddedOnce
        <3>2. \A k \in Adds(c) : k \in 1 .. Len(log)
            BY <2>4 DEF Adds
        <3> QED
            BY <1>6, <2>4, <2>7, <3>1, <3>2
    <2>9. AddedOnce(c)' /\ StoredIsPrefix(c)' /\ EnrolledHasRecord(c)'
        BY <1>0, <1>1, <1>6, <2>8, Zenon
           DEF ClientInv, AddedOnce, Adds, StoredIsPrefix, EnrolledHasRecord
    <2>10. ClientInv(c)'
        BY <2>5, <2>6, <2>9, Zenon DEF ClientInv
    <2> QED
        BY <1>0, <1>6, <2>2, <2>3, <2>10, ClientOnlyStep
<1> QED
    BY <1>4, <1>5, <1>6 DEF _finishDeviceLog

\* The record of an enrolment is sent, once, and the answer is read.
LEMMA AppendStep ==
    ASSUME IInv, NEW c \in Clients, appendDeviceLog(c)
    PROVE  IInv'
<1> DEFINE r == journal[c].record[1]
<1>0. /\ journal[c].phase = "appendingDeviceLog" /\ task[c].step = "append"
      /\ Do(c, Idle) /\ UNCHANGED <<rows, own, made, peer>>
    BY Zenon DEF appendDeviceLog, Appending
<1>1. ClientInv(c)
    BY Zenon DEF IInv
<1>2. /\ journal[c].record # <<>> /\ journal[c].record \in Seq(Record)
      /\ journal[c].row # 0 /\ r.by = c /\ r.target = 0 /\ <<journal[c].row, TRUE>> \in r.live
    BY <1>0, <1>1, Zenon DEF IInv, Types, Journal, ClientInv, EnrolmentFits, Early
<1>3. r \in Record /\ 1 \in DOMAIN journal[c].record
    BY <1>2, FirstOf
<1>4. r.sequence <= Len(log) + 1 /\ r.sequence \in Nat
    BY <1>1, <1>3, Zenon DEF ClientInv, EnrolmentFits, Record
<1>5. own[c].pending = <<>> /\ Adds(c) = {}
    BY <1>0, <1>1, Zenon DEF ClientInv, RemovalFits, AddedOnce
<1>6. /\ task' \in [Clients -> Task] /\ task'[c] = Idle /\ task'[c].step = "idle"
      /\ \A o \in Clients \ {c} : task'[o] = task[o]
    BY <1>0, DoEffect, IdleIsTask, Zenon DEF IInv
<1>7. /\ journal' \in [Clients -> Journal]
      /\ \A o \in Clients \ {c} : journal'[o] = journal[o]
      /\ journal'[c].row = journal[c].row
      /\ \/ /\ journal'[c].phase = "appendingDeviceLog" /\ journal'[c].record = journal[c].record
            /\ log' = log \/ log' = Append(log, r)
         \/ /\ journal'[c].phase = "blocked" /\ journal'[c].record = journal[c].record
            /\ log' = Append(log, r)
         \/ /\ journal'[c].phase = "securityNotice" /\ journal'[c].record = <<>>
            /\ log' = Append(log, r) /\ Len(log) + 1 = r.sequence
    <2>1. PICK outcome \in Outcomes :
              /\ append_log(r, outcome)
              /\ journal' = [journal EXCEPT
                   ![c].phase = IF outcome # "ok" THEN @
                                ELSE IF Len(log) + 1 = r.sequence THEN "securityNotice" ELSE "blocked",
                   ![c].record = IF outcome = "ok" /\ Len(log) + 1 = r.sequence THEN <<>> ELSE @]
        BY Zenon DEF appendDeviceLog
    <2>2. CASE outcome # "ok"
        <3>1. journal' = [journal EXCEPT ![c].phase = @, ![c].record = @]
            BY <2>1, <2>2
        <3>2. log' = log \/ log' = Append(log, r)
            BY <2>1, Zenon DEF append_log
        <3> QED
            BY <1>0, <3>1, <3>2, Zenon DEF IInv, Types, Journal
    <2>3. CASE outcome = "ok" /\ Len(log) + 1 = r.sequence
        <3>1. journal' = [journal EXCEPT ![c].phase = "securityNotice", ![c].record = <<>>]
            BY <2>1, <2>3
        <3>2. log' = Append(log, r)
            BY <2>1, <2>3 DEF append_log
        <3>3. <<>> \in Seq(Record)
            OBVIOUS
        <3>4. /\ journal' \in [Clients -> Journal]
              /\ \A o \in Clients \ {c} : journal'[o] = journal[o]
              /\ journal'[c].row = journal[c].row
              /\ journal'[c].phase = "securityNotice" /\ journal'[c].record = <<>>
            BY <3>1, <3>3, Zenon DEF IInv, Types, Journal, Phases
        <3> QED
            BY <2>3, <3>2, <3>4
    <2>4. CASE outcome = "ok" /\ Len(log) + 1 # r.sequence
        <3>1. journal' = [journal EXCEPT ![c].phase = "blocked", ![c].record = @]
            BY <2>1, <2>4
        <3>2. log' = Append(log, r)
            BY <2>1, <2>4, Zenon DEF append_log
        <3> QED
            BY <3>1, <3>2, Zenon DEF IInv, Types, Journal, Phases
    <2> QED
        BY <2>2, <2>3, <2>4
<1> HIDE DEF r
<1>8. /\ log' \in Seq(Record) /\ Len(log') \in Nat /\ DOMAIN log' = 1 .. Len(log')
      /\ Len(log) <= Len(log') /\ DOMAIN log \subseteq DOMAIN log'
      /\ \A k \in DOMAIN log : log'[k] = log[k]
      /\ log' = Append(log, r) => Len(log) + 1 \in DOMAIN log' /\ log'[Len(log) + 1] = r
      /\ \A k \in DOMAIN log' : k \notin DOMAIN log =>
             log' = Append(log, r) /\ k = Len(log) + 1 /\ log'[k] = r
    BY <1>3, <1>7, LogAppended DEF IInv
<1>80. Len(log) \in Nat /\ Len(log') \in Nat /\ Len(log) <= Len(log') /\ 0 <= Len(log')
    BY <1>3, <1>7, LogLonger DEF IInv
<1>9. Types'
    BY <1>0, <1>6, <1>7, <1>8, Zenon DEF IInv, Types
<1>10. Len(log) \in Nat /\ Len(rows) \in Nat /\ made \in Nat /\ DOMAIN log = 1 .. Len(log)
    BY Domains DEF IInv, Types
<1>11. Grew
    <2>1. Len(rows) <= Len(rows') /\ made <= made'
        BY <1>0, <1>10
    <2> QED
        BY <1>0, <1>8, <2>1, Zenon DEF Grew
<1>12. EnrolmentFits(c)'
    <2>1. /\ journal'[c].row <= Len(rows') /\ journal'[c].row # 0
        BY <1>0, <1>1, <1>2, <1>7, Zenon DEF ClientInv, EnrolmentFits
    <2>2. journal'[c].record # <<>> =>
               /\ journal'[c].phase \in {"appendingDeviceLog", "blocked"}
               /\ journal'[c].record[1] = r
        BY <1>7 DEF r
    <2>3. \A i \in DOMAIN journal'[c].record :
               /\ journal'[c].record[i].sequence <= Len(log') + 1
               /\ journal'[c].record[i].id <= made'
        <3> SUFFICES ASSUME journal'[c].record = journal[c].record, NEW i \in DOMAIN journal[c].record
                     PROVE  /\ journal[c].record[i].sequence <= Len(log') + 1
                            /\ journal[c].record[i].id <= made
            BY <1>0, <1>7
        <3>0. journal[c].record[i] \in Record
            BY <1>2, ElementsOf
        <3>1. journal[c].record[i].sequence \in Nat
            BY <3>0, Zenon DEF Record
        <3>2. /\ journal[c].record[i].sequence <= Len(log) + 1
              /\ journal[c].record[i].id <= made
            BY <1>1 DEF ClientInv, EnrolmentFits
        <3> QED
            BY <1>80, <3>1, <3>2
    <2>4. 0 <= Len(log')
        BY <1>80, Zenon
    <2> QED
        BY <1>2, <1>6, <1>7, <2>1, <2>2, <2>3, <2>4, IdleIsTask DEF EnrolmentFits
<1>13. RemovalFits(c)' /\ ForkFits(c)'
    BY <1>0, <1>5, <1>6, NothingPending, Zenon
<1>14. AddedOnce(c)'
    <2>1. \A k \in Adds(c)' : k = Len(log) + 1
        BY <1>5, <1>8, Zenon DEF Adds
    <2>2. journal'[c].phase = "appendingDeviceLog" =>
              journal'[c].record # <<>> /\ journal'[c].record[1] = r
        BY <1>2, <1>7 DEF r
    <2> QED
        BY <1>4, <1>6, <1>7, <2>1, <2>2 DEF AddedOnce
<1>15. StoredIsPrefix(c)'
    <2>1. \A k \in DOMAIN log : k > 1 => k - 1 \in DOMAIN log
        BY <1>10
    <2> QED
        BY <1>0, <1>1, <1>8, <2>1, Zenon DEF ClientInv, StoredIsPrefix
<1>16. EnrolledHasRecord(c)'
    BY <1>2, <1>7, <1>8, Zenon DEF EnrolledHasRecord, r
<1>17. ClientInv(c)'
    BY <1>12, <1>13, <1>14, <1>15, <1>16 DEF ClientInv
<1>18. \A k \in DOMAIN log' : k > Len(log) => log'[k].by = c
    <2>1. \A k \in DOMAIN log : ~(k > Len(log))
        BY <1>10
    <2> QED
        BY <1>2, <1>8, <2>1, Zenon DEF r
<1> QED
    BY <1>0, <1>6, <1>7, <1>9, <1>11, <1>17, <1>18, ClientStep
=============================================================================
