------------------------------ MODULE Devices ------------------------------
(***************************************************************************)
(* The devices of one account: how a device enrols, how one removes         *)
(* another, and how the signed device log ties both to the list the server  *)
(* serves.  The server (devices/services.py) keeps the rows, numbers the    *)
(* records and checks nothing.  The clients run                             *)
(* device_enrollment_coordinator.dart, own_device_log_coordinator.dart and  *)
(* linked_device_manager.dart; a peer runs client_authentication_service.   *)
(*                                                                          *)
(* A row is its place in rows and a device is <<row, signed>>.  A record    *)
(* has an id, standing for its hash: Enrollment shows that a record cannot  *)
(* be edited and that its live set is a set.  Each remote call is a step,   *)
(* so that others move between two of them.  A call is answered, or lost    *)
(* with or without its effect; a call that only reads and fails is a task   *)
(* given up.  The server is honest, and so is every device.                 *)
(***************************************************************************)
EXTENDS Integers, Sequences, FiniteSets

CONSTANTS Clients,      \* installations of the application
          First,        \* the one that signed the account up
          Enrolled,     \* those enrolled at the start, in order
          MaxRemovals,  \* removals asked for
          MaxFaults     \* calls lost and tasks given up

ASSUME DevicesAssumption ==
    /\ First \in Clients
    /\ MaxRemovals \in Nat /\ MaxFaults \in Nat
    /\ Enrolled \in Seq(Clients)
    /\ \A i, j \in DOMAIN Enrolled : Enrolled[i] = Enrolled[j] => i = j

VARIABLES rows,       \* the server's devices, in the order they registered
          log,        \* its device log
          published,  \* whether it has the account's identity
          backup,     \* and the backup of it
          journal,    \* each client's enrolment, on disk
          own,        \* its posture, pending removal and verified log, on disk
          task,       \* what it is doing, in memory
          made,       \* records signed so far
          removals, faults,
          peer        \* what another account's client keeps about this one

devVars == <<rows, log, published, backup, journal, own, task, made, removals, faults, peer>>

Listing == {<<i, rows[i].signed>> : i \in {j \in DOMAIN rows : rows[j].live}}

-----------------------------------------------------------------------------
(* Records and the log.                                                     *)

NewRecord(c, chain, live, target) ==
    [id |-> made + 1, by |-> c, sequence |-> chain + 1,
     previous |-> IF chain = 0 THEN 0 ELSE log[chain].id, live |-> live, target |-> target]

\* A log that is not compared link by link.
LinkedBySequence(records) == TRUE

\* Every record is signed for its place and for the record before it.
Linked(records) ==
    \A k \in DOMAIN records :
        /\ records[k].sequence = k
        /\ records[k].previous = IF k = 1 THEN 0 ELSE records[k - 1].id

InLog(record) ==
    record.sequence \in DOMAIN log /\ log[record.sequence] = record

Outcomes == IF faults < MaxFaults THEN {"ok", "lost", "never"} ELSE {"ok"}

Spent(outcome) == faults' = IF outcome = "ok" THEN faults ELSE faults + 1

\* append_log numbers the record; the number is the length of the log after it.
append_log(record, outcome) ==
    log' = IF outcome = "never" THEN log ELSE Append(log, record)

-----------------------------------------------------------------------------
(* Judging the list against the head record.                                *)

\* The list with the devices of out left out and those of back put back unsigned.
Reading(list, out, back) ==
    (list \ (out \cup back)) \cup {<<d[1], FALSE>> : d \in back}

judge(list, live) ==
    IF list = live THEN "authenticated"
    ELSE IF \E out, back \in SUBSET list :
                /\ out \cap back = {}
                /\ \A d \in back : d[2]
                /\ Cardinality(out \cup back) \in 1 .. 2
                /\ Reading(list, out, back) = live
    THEN "pending" ELSE "mismatch"

-----------------------------------------------------------------------------
(* Enrolment.  The phase is on disk before and after each call.             *)

Idle == [step |-> "idle", chain |-> 0, list |-> {}, head |-> 0, target |-> 0,
         tries |-> 0, failed |-> FALSE]

NoJournal == [phase |-> "none", row |-> 0, record |-> <<>>]

NoOwn == [posture |-> "normal", pending |-> <<>>, stored |-> <<>>]

\* A device whose row was revoked has no session left.
Online(c) == journal[c].row # 0 => rows[journal[c].row].live

In(c, phase) == journal[c].phase = phase /\ task[c] = Idle /\ Online(c)

Enter(c, phase) == journal' = [journal EXCEPT ![c].phase = phase]

Server == <<rows, log, published, backup>>
Rest == <<own, task, made, removals, peer>>

loadOrStart(c) ==
    /\ In(c, "none")
    /\ Enter(c, "registrationReady")
    /\ UNCHANGED <<Server, Rest, faults>>

\* Without an identity only the first device registers.  A lost answer leaves a
\* row whose session nobody holds, and the enrolment waits for another device.
registerDevice(c) ==
    \E outcome \in Outcomes :
        /\ In(c, "registrationReady")
        /\ Spent(outcome)
        /\ IF \E i \in DOMAIN rows : rows[i].live /\ ~published
           THEN /\ Enter(c, IF outcome = "ok" THEN "blocked" ELSE "registrationOutcomeUnknown")
                /\ rows' = rows
           ELSE /\ rows' = IF outcome = "never" THEN rows
                           ELSE Append(rows, [owner |-> c, signed |-> FALSE, live |-> TRUE])
                /\ journal' = [journal EXCEPT
                       ![c].phase = IF outcome = "ok" THEN "registeredUnsigned"
                                    ELSE "registrationOutcomeUnknown",
                       ![c].row = IF outcome = "ok" THEN Len(rows) + 1 ELSE 0]
        /\ UNCHANGED <<log, published, backup, Rest>>

prepareFirstIdentity(c) ==
    /\ In(c, "registeredUnsigned") /\ c = First
    /\ Enter(c, "publishingIdentity")
    /\ UNCHANGED <<Server, Rest, faults>>

\* A version the server already has makes the device prepare another identity.
publishIdentityAgain(c) ==
    \E outcome \in Outcomes :
        /\ In(c, "publishingIdentity")
        /\ published' = (published \/ outcome # "never")
        /\ Enter(c, IF outcome # "ok" THEN "publishingIdentity"
                    ELSE IF published THEN "registeredUnsigned" ELSE "recoverySecret")
        /\ Spent(outcome)
        /\ UNCHANGED <<rows, log, backup, Rest>>

\* A version the server already has is read back and compared; it is this
\* device's own, unless the read fails.
publishIdentity(c) ==
    \E outcome, reread \in Outcomes :
        /\ In(c, "publishingIdentity")
        /\ published' = (published \/ outcome # "never")
        /\ IF published /\ outcome = "ok"
           THEN /\ Enter(c, IF reread = "ok" THEN "recoverySecret" ELSE "blocked")
                /\ Spent(reread)
           ELSE /\ Enter(c, IF outcome = "ok" THEN "recoverySecret" ELSE "publishingIdentity")
                /\ Spent(outcome) /\ reread = "ok"
        /\ UNCHANGED <<rows, log, backup, Rest>>

confirmRecoverySecret(c) ==
    /\ In(c, "recoverySecret")
    /\ Enter(c, "finishingSecureSetup")
    /\ UNCHANGED <<Server, Rest, faults>>

fetchBackup(c) ==
    /\ In(c, "registeredUnsigned") /\ c # First
    /\ Enter(c, IF backup THEN "awaitingRecoverySecret" ELSE "blocked")
    /\ UNCHANGED <<Server, Rest, faults>>

\* A wrong secret, or an identity that cannot be read, asks for the secret again.
restoreWithRecoverySecret(c) ==
    \E right \in BOOLEAN :
        /\ In(c, "awaitingRecoverySecret")
        /\ Enter(c, IF right /\ published THEN "finishingSecureSetup"
                    ELSE "awaitingRecoverySecret")
        /\ UNCHANGED <<Server, Rest, faults>>

\* The device uploads the cross-signature of its bundle.
finishPrekeys(c) ==
    \E outcome \in Outcomes :
        /\ In(c, "finishingSecureSetup")
        /\ rows' = IF outcome = "never" THEN rows
                   ELSE [rows EXCEPT ![journal[c].row].signed = TRUE]
        /\ Enter(c, IF outcome # "ok" THEN "finishingSecureSetup"
                    ELSE IF c = First THEN "uploadingBackup" ELSE "appendingDeviceLog")
        /\ Spent(outcome)
        /\ UNCHANGED <<log, published, backup, Rest>>

uploadBackup(c) ==
    \E outcome, reread \in Outcomes :
        /\ In(c, "uploadingBackup")
        /\ backup' = (backup \/ outcome # "never")
        /\ IF backup /\ outcome = "ok"
           THEN /\ Enter(c, IF reread = "ok" THEN "appendingDeviceLog" ELSE "blocked")
                /\ Spent(reread)
           ELSE /\ Enter(c, IF outcome = "ok" THEN "appendingDeviceLog" ELSE "uploadingBackup")
                /\ Spent(outcome) /\ reread = "ok"
        /\ UNCHANGED <<rows, log, published, Rest>>

-----------------------------------------------------------------------------
(* The last phase of an enrolment: one record over the list.                *)

Do(c, t) == task' = [task EXCEPT ![c] = t]

Appending(c) == journal[c].phase = "appendingDeviceLog" /\ Online(c)

\* Reads the log to build on; one that does not link pauses the enrolment.
_prepareLogRecord(c) ==
    /\ Appending(c) /\ task[c] = Idle /\ journal[c].record = <<>>
    /\ Linked(log)
    /\ Do(c, [Idle EXCEPT !.step = "prepare", !.chain = Len(log)])
    /\ UNCHANGED <<Server, journal, own, made, removals, faults, peer>>

\* A record that is not on disk before it is sent.
persistRecordNever(c) ==
    LET chain == task[c].chain
    IN  /\ Appending(c) /\ task[c].step = "prepare"
        /\ IF Len(log) # chain \/ <<journal[c].row, TRUE>> \notin Listing
           THEN Do(c, Idle) /\ UNCHANGED <<log, made>>
           ELSE /\ log' = Append(log, NewRecord(c, chain, Listing, 0))
                /\ made' = made + 1
                /\ Do(c, Idle)
        /\ UNCHANGED <<rows, published, backup, journal, own, removals, faults, peer>>

\* Reads the list, which must show the same head and this device signed, and
\* puts the record on disk.
persistRecord(c) ==
    LET chain == task[c].chain
    IN  /\ Appending(c) /\ task[c].step = "prepare"
        /\ IF Len(log) # chain \/ <<journal[c].row, TRUE>> \notin Listing
           THEN Do(c, Idle) /\ UNCHANGED <<journal, made>>
           ELSE /\ journal' = [journal EXCEPT
                       ![c].record = <<NewRecord(c, chain, Listing, 0)>>]
                /\ made' = made + 1
                /\ Do(c, Idle)
        /\ UNCHANGED <<Server, own, removals, faults, peer>>

\* Looks for the record in the log before it is sent, the first time or again.
_finishDeviceLog(c) ==
    /\ Appending(c) /\ task[c] = Idle /\ journal[c].record # <<>>
    /\ Linked(log)
    /\ LET record == journal[c].record[1]
       IN  \/ /\ InLog(record)
              /\ journal' = [journal EXCEPT ![c].phase = "securityNotice", ![c].record = <<>>]
              /\ task' = task
           \/ /\ ~InLog(record) /\ Len(log) # record.sequence - 1
              /\ Enter(c, "blocked")
              /\ task' = task
           \/ /\ Len(log) = record.sequence - 1
              /\ Do(c, [Idle EXCEPT !.step = "append"])
              /\ journal' = journal
    /\ UNCHANGED <<Server, own, made, removals, faults, peer>>

\* The answer is taken for this device's number without being read.
appendDeviceLogAnywhere(c) ==
    \E outcome \in Outcomes :
        /\ Appending(c) /\ task[c].step = "append"
        /\ append_log(journal[c].record[1], outcome)
        /\ journal' = [journal EXCEPT
               ![c].phase = IF outcome = "ok" THEN "securityNotice" ELSE @]
        /\ Do(c, Idle)
        /\ Spent(outcome)
        /\ UNCHANGED <<rows, published, backup, own, made, removals, peer>>

\* Sends the record; the number it was given must be the one it was signed for.
appendDeviceLog(c) ==
    \E outcome \in Outcomes :
        LET record == journal[c].record[1]
            inPlace == Len(log) + 1 = record.sequence
        IN  /\ Appending(c) /\ task[c].step = "append"
            /\ append_log(record, outcome)
            /\ journal' = [journal EXCEPT
                   ![c].phase = IF outcome # "ok" THEN @
                                ELSE IF inPlace THEN "securityNotice" ELSE "blocked",
                   ![c].record = IF outcome = "ok" /\ inPlace THEN <<>> ELSE @]
            /\ Do(c, Idle)
            /\ Spent(outcome)
            /\ UNCHANGED <<rows, published, backup, own, made, removals, peer>>

acceptSecurityNotice(c) ==
    /\ In(c, "securityNotice")
    /\ Enter(c, "complete")
    /\ UNCHANGED <<Server, Rest, faults>>

-----------------------------------------------------------------------------
(* Removing a device of the account.                                        *)

Ready(c) == journal[c].phase = "complete" /\ Online(c)

At(c, step) == Ready(c) /\ task[c].step = step

\* The device has wiped itself once it removed itself.
Settle(c, target) ==
    journal' = [journal EXCEPT ![c].phase = IF target = journal[c].row THEN "wiped" ELSE @]

Posture(c, posture) == [own EXCEPT ![c].posture = posture]

\* Verifies the whole log, then keeps it; what was kept before must begin it.
_commitVerifiedChain(c, then) ==
    IF Linked(log) /\ SubSeq(log, 1, Len(own[c].stored)) = own[c].stored
    THEN own' = [own EXCEPT ![c].stored = log] /\ Do(c, then)
    ELSE own' = Posture(c, "deviceLogFork") /\ Do(c, Idle)

revoke(c) ==
    \E target \in DOMAIN rows :
        /\ Ready(c) /\ task[c] = Idle
        /\ removals < MaxRemovals
        /\ own[c].posture = "normal" /\ own[c].pending = <<>>
        /\ <<target, TRUE>> \in Listing
        /\ _commitVerifiedChain(c, [Idle EXCEPT !.step = "judge", !.chain = Len(log),
                                        !.target = target])
        /\ removals' = removals + 1
        /\ UNCHANGED <<Server, journal, made, faults, peer>>

\* Reads the list, judges it, signs the removal and puts it on disk.  The log of
\* an enrolled device is not empty.
appendLiveSetMutation(c) ==
    LET t == task[c]
        target == <<t.target, TRUE>>
        verdict == IF Len(log) # t.chain THEN "conflict" ELSE judge(Listing, log[t.chain].live)
    IN  /\ At(c, "judge")
        /\ \/ /\ verdict = "authenticated" /\ target \in Listing
              /\ own' = [own EXCEPT
                     ![c].pending = <<[confirmed |-> FALSE,
                         record |-> NewRecord(c, t.chain, Listing \ {target}, t.target)]>>,
                     ![c].posture = "pendingDeviceChange"]
              /\ made' = made + 1
              /\ Do(c, [t EXCEPT !.step = "send"])
           \/ /\ ~(verdict = "authenticated" /\ target \in Listing)
              /\ own' = IF verdict = "mismatch" THEN Posture(c, "deviceLogFork") ELSE own
              /\ Do(c, Idle) /\ made' = made
        /\ UNCHANGED <<Server, journal, removals, faults, peer>>

\* Sends the removal, for the first time or when it is resumed.
sendMutation(c) ==
    \E outcome \in Outcomes :
        LET record == own[c].pending[1].record
        IN  /\ At(c, "send") \/ At(c, "resend")
            /\ append_log(record, outcome)
            /\ Do(c, [task[c] EXCEPT
                   !.step = IF @ = "send" THEN "confirm" ELSE "reconfirm",
                   !.failed = (outcome # "ok")])
            /\ Spent(outcome)
            /\ UNCHANGED <<rows, published, backup, journal, own, made, removals, peer>>

\* Looks for the exact record at its number.  A removal that failed while others
\* appended is signed again over the new head, twice at most.
confirmMutation(c) ==
    \E outcome \in Outcomes :
        LET t == task[c]
            record == own[c].pending[1].record
            contained == outcome = "ok" /\ InLog(record)
        IN  /\ At(c, "confirm") \/ At(c, "reconfirm")
            /\ Spent(outcome)
            /\ \/ /\ contained
                  /\ own' = [own EXCEPT ![c].pending[1].confirmed = TRUE]
                  /\ Do(c, [t EXCEPT !.step = IF @ = "confirm" THEN "delete" ELSE "finish",
                                     !.target = record.target])
               \/ /\ ~contained /\ t.step = "confirm" /\ t.failed /\ t.tries < 2
                  /\ Len(log) >= record.sequence
                  /\ own' = [own EXCEPT ![c].pending = <<>>, ![c].posture = "normal"]
                  /\ Do(c, [Idle EXCEPT !.step = "again", !.target = t.target,
                                        !.tries = t.tries + 1])
               \/ /\ ~contained
                  /\ ~(t.step = "confirm" /\ t.failed /\ t.tries < 2
                       /\ Len(log) >= record.sequence)
                  /\ Do(c, Idle) /\ own' = own
            /\ UNCHANGED <<Server, journal, made, removals, peer>>

retryMutation(c) ==
    /\ At(c, "again")
    /\ _commitVerifiedChain(c, [task[c] EXCEPT !.step = "judge", !.chain = Len(log)])
    /\ UNCHANGED <<Server, journal, made, removals, faults, peer>>

\* The server revokes a live row once.
Revoked(target, outcome) ==
    rows' = IF outcome = "never" THEN rows ELSE [rows EXCEPT ![target].live = FALSE]

\* The removal stays on disk.
ClearedPosture(c) == Posture(c, "normal")

Cleared(c) == [own EXCEPT ![c].pending = <<>>, ![c].posture = "normal"]

\* A removal that revokes before its record is known to be in the log.
revokeDeviceEarly(c) ==
    /\ At(c, "confirm") \/ At(c, "delete")
    /\ rows' = [rows EXCEPT ![own[c].pending[1].record.target].live = FALSE]
    /\ own' = Cleared(c) /\ Do(c, Idle) /\ Settle(c, own[c].pending[1].record.target)
    /\ UNCHANGED <<log, published, backup, made, removals, faults, peer>>

revokeDevice(c) ==
    \E outcome \in Outcomes :
        LET target == task[c].target
        IN  /\ At(c, "delete")
            /\ Revoked(target, outcome)
            /\ IF outcome = "ok" /\ rows[target].live
               THEN own' = Cleared(c) /\ Settle(c, target)
               ELSE UNCHANGED <<own, journal>>
            /\ Do(c, Idle)
            /\ Spent(outcome)
            /\ UNCHANGED <<log, published, backup, made, removals, peer>>

-----------------------------------------------------------------------------
(* Refreshing the list: first what a removal left behind, then the list.    *)

\* A confirmed removal does not have to be finished before the list is read.
resumePendingMutationOrNot(c) ==
    /\ Ready(c) /\ task[c] = Idle
    /\ \E step \in {"list", "finish"} :
           /\ step = "finish" => own[c].pending # <<>> /\ own[c].pending[1].confirmed
           /\ Do(c, [Idle EXCEPT !.step = step,
                  !.target = IF step = "list" THEN 0 ELSE own[c].pending[1].record.target])
    /\ UNCHANGED <<Server, journal, own, made, removals, faults, peer>>

\* A removal found in the log is confirmed, one that can still be placed is sent
\* again, and any other stays as it is.
resumePendingMutation(c) ==
    /\ Ready(c) /\ task[c] = Idle
    /\ LET pending == own[c].pending
           record == pending[1].record
           to(step) == Do(c, [Idle EXCEPT !.step = step,
                                  !.target = IF pending = <<>> THEN 0 ELSE record.target])
       IN  \/ pending = <<>> /\ to("list") /\ own' = own
           \/ pending # <<>> /\ pending[1].confirmed /\ to("finish") /\ own' = own
           \/ /\ pending # <<>> /\ ~pending[1].confirmed
              /\ \/ ~Linked(log) /\ own' = Posture(c, "deviceLogFork") /\ task' = task
                 \/ /\ Linked(log) /\ InLog(record)
                    /\ own' = [own EXCEPT ![c].pending[1].confirmed = TRUE]
                    /\ to("finish")
                 \/ /\ Linked(log) /\ Len(log) = record.sequence - 1
                    /\ to("resend") /\ own' = own
    /\ UNCHANGED <<Server, journal, made, removals, faults, peer>>

\* Revokes what a confirmed removal names.  When that fails the row may be gone
\* already, and only an authenticated list without it ends the removal.
_finishPendingRemovalIfNeeded(c) ==
    \E outcome \in Outcomes :
        LET target == task[c].target
        IN  /\ At(c, "finish")
            /\ Revoked(target, outcome)
            /\ IF outcome = "ok" /\ rows[target].live
               THEN /\ own' = Cleared(c) /\ Settle(c, target)
                    /\ Do(c, IF target = journal[c].row THEN Idle
                             ELSE [Idle EXCEPT !.step = "list"])
               ELSE /\ Do(c, [task[c] EXCEPT !.step = "list", !.failed = TRUE])
                    /\ UNCHANGED <<own, journal>>
            /\ Spent(outcome)
            /\ UNCHANGED <<log, published, backup, made, removals, peer>>

fetchPublicDevices(c) ==
    /\ At(c, "list")
    /\ LET t == task[c]
       IN  IF t.failed /\ rows[t.target].live THEN Do(c, Idle)
           ELSE Do(c, [t EXCEPT !.step = "chain", !.list = Listing, !.head = Len(log)])
    /\ UNCHANGED <<Server, journal, own, made, removals, faults, peer>>

\* The list was read first, then the log.
_verifyPublicList(c) ==
    LET t == task[c]
        verified == Linked(log) /\ SubSeq(log, 1, Len(own[c].stored)) = own[c].stored
        verdict == IF t.head # Len(log) THEN "conflict" ELSE judge(t.list, log[Len(log)].live)
    IN  /\ At(c, "chain")
        /\ \/ /\ ~verified
              /\ own' = Posture(c, "deviceLogFork") /\ journal' = journal
           \/ /\ verified /\ verdict = "authenticated" /\ t.failed
              /\ own' = [Cleared(c) EXCEPT ![c].stored = log] /\ Settle(c, t.target)
           \/ /\ verified /\ ~(verdict = "authenticated" /\ t.failed)
              /\ own' = [own EXCEPT ![c].stored = log,
                             ![c].posture = IF verdict = "mismatch" THEN "deviceLogFork" ELSE @]
              /\ journal' = journal
        /\ Do(c, Idle)
        /\ UNCHANGED <<Server, made, removals, faults, peer>>

\* A task given up: the application stopped, or a call that only reads failed.
GiveUp(c) ==
    /\ task[c] # Idle /\ faults < MaxFaults
    /\ Do(c, Idle)
    /\ faults' = faults + 1
    /\ UNCHANGED <<Server, journal, own, made, removals, peer>>

-----------------------------------------------------------------------------
(* Another account reads this one: the list, then the records it lacks.     *)

NoPeer == [state |-> "blocked", list |-> {}, head |-> 0, hash |-> 0, reading |-> <<>>]

\* A list can be used when the identity is there and every device of it is signed.
Usable == published /\ Listing # {} /\ \A d \in Listing : d[2]

Blocked == [peer EXCEPT !.state = "blocked", !.reading = <<>>]

\* A list that changed under the same head is taken at once.
_readDeviceListSoon ==
    /\ peer.reading = <<>>
    /\ peer' = IF ~Usable \/ Len(log) = 0 \/ Len(log) < peer.head THEN Blocked
               ELSE IF Len(log) = peer.head
               THEN [peer EXCEPT !.state = "unverified", !.list = Listing]
               ELSE [peer EXCEPT !.reading = <<[list |-> Listing, head |-> Len(log)]>>]
    /\ UNCHANGED <<Server, journal, own, task, made, removals, faults>>

\* Reads the list.  One that changed under the same head waits for its record:
\* the read fails and nothing is kept.
_readDeviceList ==
    /\ peer.reading = <<>>
    /\ peer' = IF ~Usable \/ Len(log) = 0 \/ Len(log) < peer.head THEN Blocked
               ELSE IF Len(log) = peer.head
               THEN [peer EXCEPT !.state = IF Listing = peer.list THEN "unverified" ELSE @]
               ELSE [peer EXCEPT !.reading = <<[list |-> Listing, head |-> Len(log)]>>]
    /\ UNCHANGED <<Server, journal, own, task, made, removals, faults>>

\* A log that does not match is read from its start the next time.
_readDeviceLogAfresh ==
    /\ peer.reading # <<>>
    /\ LET read == peer.reading[1]
       IN  peer' = IF Len(log) = read.head /\ log[read.head].live = read.list
                   THEN [state |-> "unverified", list |-> read.list, head |-> read.head,
                         hash |-> log[read.head].id, reading |-> <<>>]
                   ELSE NoPeer
    /\ UNCHANGED <<Server, journal, own, task, made, removals, faults>>

\* The records from the stored head on must link, and the last must cover the
\* list; a log that grew since the list was read does not match it.
_readDeviceLog ==
    /\ peer.reading # <<>>
    /\ LET read == peer.reading[1]
           extends ==
               \A k \in peer.head + 1 .. read.head :
                   /\ log[k].sequence = k
                   /\ log[k].previous = IF k = peer.head + 1 THEN peer.hash ELSE log[k - 1].id
       IN  peer' = IF Len(log) = read.head /\ extends /\ log[read.head].live = read.list
                   THEN [state |-> "unverified", list |-> read.list, head |-> read.head,
                         hash |-> log[read.head].id, reading |-> <<>>]
                   ELSE Blocked
    /\ UNCHANGED <<Server, journal, own, task, made, removals, faults>>

-----------------------------------------------------------------------------
DevicesInit ==
    LET n == Len(Enrolled)
        Covers(k) == {<<i, TRUE>> : i \in 1 .. k}
        place(c) == CHOOSE i \in 1 .. n : Enrolled[i] = c
    IN  /\ rows = [i \in 1 .. n |-> [owner |-> Enrolled[i], signed |-> TRUE, live |-> TRUE]]
        /\ log = [k \in 1 .. n |-> [id |-> k, by |-> Enrolled[k], sequence |-> k,
                                    previous |-> k - 1, live |-> Covers(k), target |-> 0]]
        /\ published = (n > 0) /\ backup = (n > 0)
        /\ journal = [c \in Clients |->
               IF \E i \in 1 .. n : Enrolled[i] = c
               THEN [NoJournal EXCEPT !.phase = "complete", !.row = place(c)] ELSE NoJournal]
        /\ own = [c \in Clients |-> NoOwn]
        /\ task = [c \in Clients |-> Idle]
        /\ made = n /\ removals = 0 /\ faults = 0
        /\ peer = NoPeer

EnrolStep(c) ==
    \/ loadOrStart(c) \/ registerDevice(c) \/ prepareFirstIdentity(c) \/ publishIdentity(c)
    \/ confirmRecoverySecret(c) \/ fetchBackup(c) \/ restoreWithRecoverySecret(c)
    \/ finishPrekeys(c) \/ uploadBackup(c)
    \/ _prepareLogRecord(c) \/ persistRecord(c) \/ _finishDeviceLog(c) \/ appendDeviceLog(c)
    \/ acceptSecurityNotice(c)

RefreshStep(c) ==
    \/ resumePendingMutation(c) \/ _finishPendingRemovalIfNeeded(c)
    \/ fetchPublicDevices(c) \/ _verifyPublicList(c)

RemovalStep(c) ==
    \/ appendLiveSetMutation(c) \/ sendMutation(c) \/ confirmMutation(c)
    \/ retryMutation(c) \/ revokeDevice(c)

DevicesNext ==
    \/ \E c \in Clients : EnrolStep(c) \/ revoke(c) \/ RemovalStep(c) \/ RefreshStep(c)
                              \/ GiveUp(c)
    \/ _readDeviceList \/ _readDeviceLog

DevicesSpec == DevicesInit /\ [][DevicesNext]_devVars

Ended == {"none", "complete", "blocked", "registrationOutcomeUnknown", "wiped"}

\* An enrolment can move on, unless the log it has to append to does not link.
Enrolling(c) ==
    /\ journal[c].phase \notin Ended /\ Online(c)
    /\ journal[c].phase = "appendingDeviceLog" /\ task[c] = Idle => Linked(log)

\* A device has a task to go on with, or a list or a confirmed removal to see to.
Working(c) ==
    /\ Ready(c)
    /\ task[c] # Idle \/ own[c].pending = <<>> \/ own[c].pending[1].confirmed

\* An application that stays open works its enrolment and its removals off; its
\* user types the right secret in the end.  This is weak fairness, with the
\* states in which the step is possible written out.
DevicesFairSpec ==
    /\ DevicesSpec
    /\ \A c \in Clients :
        /\ []<>~Enrolling(c) \/ []<><<EnrolStep(c)>>_devVars
        /\ []<>~Working(c) \/ []<><<RefreshStep(c) \/ RemovalStep(c)>>_devVars

-----------------------------------------------------------------------------
Phases == {"none", "registrationReady", "registrationOutcomeUnknown", "registeredUnsigned",
           "publishingIdentity", "recoverySecret", "awaitingRecoverySecret",
           "finishingSecureSetup", "uploadingBackup", "appendingDeviceLog", "securityNotice",
           "complete", "blocked", "wiped"}

Steps == {"idle", "prepare", "append", "judge", "send", "confirm", "again", "delete",
          "resend", "reconfirm", "finish", "list", "chain"}

\* What each client has on disk and in memory fits its phase: a record waits only
\* while the log is being appended to, only an enrolled device has a removal, a
\* pending removal shows in the posture until it ends, and nothing is signed past
\* the end of the log.
DevicesTypeOK ==
    /\ \A c \in Clients :
        /\ journal[c].phase \in Phases /\ journal[c].row \in 0 .. Len(rows)
        /\ journal[c].record # <<>> =>
               journal[c].phase \in {"appendingDeviceLog", "blocked"}
        /\ task[c].step \in Steps /\ task[c].chain \in 0 .. Len(log)
        /\ task[c].tries \in 0 .. 2
        /\ own[c].pending # <<>> => journal[c].phase = "complete"
        /\ (own[c].pending # <<>>) => own[c].posture # "normal"
        /\ \A r \in {own[c].pending[i].record : i \in DOMAIN own[c].pending}
                     \cup {journal[c].record[i] : i \in DOMAIN journal[c].record} :
               r.sequence <= Len(log) + 1 /\ r.id <= made
    /\ \A i \in DOMAIN rows : rows[i].owner \in Clients
    /\ peer.head \in 0 .. Len(log)

\* The log a client has verified and kept is one chain, every record signed for
\* its number and for the record before it, and it is the log the server holds up
\* to that point: _verifiedLog and _commitVerifiedChain.
StoredIsChain ==
    \A c \in Clients : \A k \in DOMAIN own[c].stored :
        /\ log[k] = own[c].stored[k]
        /\ log[k].sequence = k
        /\ k > 1 => log[k].previous = log[k - 1].id

\* An enrolment that ended has its own record in the log, at the number the record
\* was signed for, and that record covers the device signed.
EnrolledIsLogged ==
    \A c \in Clients :
        journal[c].phase \in {"securityNotice", "complete"} =>
            \E k \in DOMAIN log :
                /\ log[k].by = c /\ log[k].sequence = k /\ log[k].target = 0
                /\ <<journal[c].row, TRUE>> \in log[k].live

\* However often it stopped and was resumed, an enrolment puts at most one record
\* into the log: appends cannot be undone and are not idempotent.
EnrolsOnce ==
    \A c \in Clients :
        Cardinality({k \in DOMAIN log : log[k].by = c /\ log[k].target = 0}) <= 1

\* A signed device is revoked only after the record that removes it is in the log,
\* at the number it was signed for.
RevokedWasLogged ==
    \A i \in DOMAIN rows :
        rows[i].signed /\ ~rows[i].live =>
            \E k \in DOMAIN log : log[k].target = i /\ log[k].sequence = k

\* The log accounts for the account's devices: what is stored is a chain, an enrolled device has
\* exactly one record that adds it, and a revoked device was removed by a record first
\* (_verifiedLog, _finishDeviceLog, revoke).
LogsAreSound ==
    /\ DevicesTypeOK
    /\ StoredIsChain
    /\ EnrolledIsLogged
    /\ EnrolsOnce
    /\ RevokedWasLogged

\* The list a peer sends to is the one that the head record it keeps was signed
\* over, and every device of it is signed.
PeerListWasSigned ==
    peer.head > 0 => peer.list = log[peer.head].live /\ \A d \in peer.list : d[2]

\* A peer uses a device list only when a record it verified covers it, and the
\* head it keeps moves forward only, along one chain (_refresh of
\* client_authentication_service.dart).
PeerSeesOneLog ==
    [][/\ PeerListWasSigned'
       /\ peer'.head >= peer.head
       /\ peer'.head = peer.head => peer'.hash = peer.hash]_<<peer, log>>

\* A removal whose record is in the log, as its device knows, and whose device is
\* not revoked yet.
Owing(c) ==
    /\ Online(c) /\ own[c].pending # <<>>
    /\ own[c].pending[1].confirmed /\ rows[own[c].pending[1].record.target].live

\* A removal whose record is confirmed is carried out, by the device that asked
\* for it, unless that device is itself removed first: no crash or lost call
\* leaves a device that the log has removed on the list for good.
ConfirmedRemovalRevokes == \A c \in Clients : Owing(c) ~> ~Owing(c)

\* An enrolment ends: done, refused, or waiting for another device to say what
\* became of a registration.  Only a log that no longer links keeps it waiting.
EnrolmentEnds ==
    \A c \in Clients :
        (journal[c].phase # "none")
        ~> (\/ journal[c].phase \in {"complete", "blocked", "registrationOutcomeUnknown", "wiped"}
            \/ ~Linked(log) \/ ~Online(c))

\* A fork that a device noticed is forgotten only when the whole log links and its
\* head covers the list: no step of a removal under way resets the posture.
ForkIsForgottenOnProof ==
    [][\A c \in Clients :
        own[c].posture = "deviceLogFork" /\ own'[c].posture # "deviceLogFork" =>
            /\ Linked(log) /\ task[c].head = Len(log)
            /\ task[c].list = log[Len(log)].live]_own

\* The list of an honest account is never read as a fork while its log links:
\* changes that have not reached the log are undone before the verdict, an
\* enrolment under way while a removal waits for its revocation included.
PendingIsNotAFork ==
    Linked(log) => \A c \in Clients : own[c].posture # "deviceLogFork"
=============================================================================
