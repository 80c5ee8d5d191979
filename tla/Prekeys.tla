------------------------------ MODULE Prekeys ------------------------------
(***************************************************************************)
(* The prekeys of one device: the native device state that owns their       *)
(* private halves, the maintenance service that replenishes and rotates     *)
(* them behind a durable plan, the server that stores and hands them out,   *)
(* and the first messages of peers that use them up.                       *)
(*                                                                         *)
(* A key is its id.  The classical and the post-quantum signed prekey are   *)
(* one pair: the code makes, publishes, retires and erases them together,   *)
(* and each takes the next id.  A stored state stands for its revision      *)
(* number: every write of a state compares the state it read with the one   *)
(* stored.  A local database transaction is one step, a request to the      *)
(* server another, and the process may die between any two.                *)
(***************************************************************************)
EXTENDS Integers, Sequences, FiniteSets, FiniteSetsExt, TLC

CONSTANTS
    Kinds,          \* the one-time pools: classical and post-quantum
    RotationDays,   \* days between two rotations of the signed pair
    RetentionDays,  \* days a retired pair is kept
    MAX_RETIRED_SIGNED_PAIRS,
    KEY_ID_MAX,     \* the last id of a one-time key
    LowWatermark,   \* a server pool below this is refilled
    Target,         \* ... up to this
    MAX_STORED,     \* the server's cap on a pool
    MAX_ONE_TIME,   \* the device's cap on a pool
    Enrolled,       \* one-time keys of each kind made at enrollment
    MaxDay,         \* bound: days
    MaxClaims,      \* bound: bundles peers claim
    MaxTroubles     \* bound: lost requests or answers, process deaths, messages
                    \* held, and records of other own devices

ASSUME PrekeyAssumption ==
    /\ {RotationDays, RetentionDays, KEY_ID_MAX, LowWatermark, Target,
        MAX_STORED, MAX_ONE_TIME, Enrolled, MAX_RETIRED_SIGNED_PAIRS,
        MaxDay, MaxClaims, MaxTroubles}
         \subseteq Nat
    /\ RotationDays > 0
    /\ RotationDays <= RetentionDays
    /\ RetentionDays < 2 * RotationDays
    /\ LowWatermark <= Target /\ Target <= MAX_STORED
    /\ Enrolled <= KEY_ID_MAX
    /\ IsFiniteSet(Kinds)

VARIABLES
    device,   \* the stored native device state
    row,      \* the devices row: bundle version and last rotation day
    plan,     \* the durable maintenance plan, or None
    run,      \* the maintenance run in memory
    server,   \* the server's copy: one-time pools, pair, bundle version
    log,      \* the account's device log, as the server stores it
    claims,   \* the bundles handed to peers and what became of each message
    day,
    troubles, \* how many so far
    offered   \* one-time keys that ever were on the server (for the properties)

maintenanceVars == <<row, plan, run>>
prekeyVars == <<device, maintenanceVars, server, log, claims, day, troubles,
                offered>>

None == [none |-> TRUE]

Trouble == troubles < MaxTroubles /\ troubles' = troubles + 1

-----------------------------------------------------------------------------
(* The native device state.  A package made at enrollment (format 1) carries *)
(* no creation day and no high-water marks; decoding it supplies them.       *)

Exhausted == KEY_ID_MAX + 1

initial_next_id(ids) ==
    LET current == Max(ids \cup {0})
    IN  IF current = KEY_ID_MAX THEN Exhausted ELSE current + 1

\* The ids taken from a high-water mark: all of them, or none when they run out.
take_next_ids(highWater, n) == highWater .. (highWater + n - 1)

AfterTaking(highWater, n) ==
    IF highWater + n > KEY_ID_MAX THEN Exhausted ELSE highWater + n

saturating_sub(a, b) == IF a < b THEN 0 ELSE a - b

\* A legacy pair counts as due for rotation at once.
decode_v1(d, migrationDay) ==
    [d EXCEPT !.created = saturating_sub(migrationDay, RotationDays),
              !.next = [k \in Kinds |-> initial_next_id(d.otpk[k])]]

decode_device_state(d, migrationDay) ==
    IF d.format = 1 THEN decode_v1(d, migrationDay) ELSE d

\* Every state is written in format 2.
encode_device_state(d) == [d EXCEPT !.format = 2]

\* The checks of decode_v2.
decode_v2(d) ==
    /\ Cardinality(d.retired) <= MAX_RETIRED_SIGNED_PAIRS
    /\ d.bundle > 0
    /\ \A k \in Kinds : /\ Cardinality(d.otpk[k]) <= MAX_ONE_TIME
                        /\ \A id \in d.otpk[k] : id < d.next[k]
                        /\ d.next[k] <= Exhausted

\* Signatures and key pairs always match in a state this device wrote itself.
validate_device_material(d) ==
    /\ \A p, q \in d.retired : p.id = q.id => p = q
    /\ \A p \in d.retired : p.id < d.spk

PairIds(d) == {d.spk} \cup {p.id : p \in d.retired}

\* Mutant: a pair is kept a day past its last.
prune_retiredLate(d, coarseDay) ==
    [d EXCEPT !.retired = {p \in @ : coarseDay <= p.retain + 1}]

prune_retired(d, coarseDay) ==
    [d EXCEPT !.retired = {p \in @ : coarseDay <= p.retain}]

operation_prune(d, coarseDay) ==
    encode_device_state(prune_retired(decode_device_state(d, coarseDay), coarseDay))

\* What the core refuses: a batch beside a pending rotation, or one for which
\* there is no room or no id.
MayReplenish(d, add) ==
    /\ d.pending # None => ~d.pending.rotation
    /\ d.pending = None => \A k \in Kinds :
          /\ Cardinality(d.otpk[k]) + add[k] <= MAX_ONE_TIME
          /\ add[k] > 0 => d.next[k] + add[k] - 1 <= KEY_ID_MAX

\* Mutant: the high-water marks stay where they were.
prepare_replenishmentUnmarked(d, add) ==
    LET made == [k \in Kinds |-> take_next_ids(d.next[k], add[k])]
    IN  [d EXCEPT !.otpk = [k \in Kinds |-> @[k] \cup made[k]],
                  !.pending = [rotation |-> FALSE, keys |-> made]]

\* Mutant: ids continue from the keys that are left.
prepare_replenishmentFromLeft(d, add) ==
    LET first == [k \in Kinds |-> initial_next_id(d.otpk[k])]
        made  == [k \in Kinds |-> take_next_ids(first[k], add[k])]
    IN  [d EXCEPT !.otpk = [k \in Kinds |-> @[k] \cup made[k]],
                  !.next = [k \in Kinds |-> AfterTaking(first[k], add[k])],
                  !.pending = [rotation |-> FALSE, keys |-> made]]

\* A pending batch is given out again as it is.
prepare_replenishment(d, add) ==
    LET made == [k \in Kinds |-> take_next_ids(d.next[k], add[k])]
    IN  IF d.pending # None THEN d
        ELSE [d EXCEPT
                !.otpk = [k \in Kinds |-> @[k] \cup made[k]],
                !.next = [k \in Kinds |-> IF add[k] = 0 THEN @[k]
                                          ELSE AfterTaking(@[k], add[k])],
                !.pending = [rotation |-> FALSE, keys |-> made]]

MayRotate(d, coarseDay) ==
    /\ d.pending # None => d.pending.rotation
    /\ d.pending = None =>
          /\ coarseDay >= d.created + RotationDays
          /\ Cardinality(prune_retired(d, coarseDay).retired)
               < MAX_RETIRED_SIGNED_PAIRS

\* Mutant: the old pair is dropped, not retired.
prepare_rotationDropping(d, coarseDay) ==
    [prune_retired(d, coarseDay) EXCEPT
        !.spk = d.spk + 1, !.created = coarseDay, !.bundle = d.bundle + 1,
        !.pending = [rotation |-> TRUE, keys |-> [k \in Kinds |-> {}]]]

\* Mutant: the retention counts from the day the pair was made.
prepare_rotationFromCreation(d, coarseDay) ==
    [prune_retired(d, coarseDay) EXCEPT
        !.retired = @ \cup {[id |-> d.spk,
                             retain |-> d.created + RetentionDays]},
        !.spk = d.spk + 1, !.created = coarseDay, !.bundle = d.bundle + 1,
        !.pending = [rotation |-> TRUE, keys |-> [k \in Kinds |-> {}]]]

\* The day of the rotation prunes before the current pair retires.
prepare_rotation(d, coarseDay) ==
    IF d.pending # None THEN d
    ELSE [prune_retired(d, coarseDay) EXCEPT
            !.retired = @ \cup {[id |-> d.spk,
                                 retain |-> coarseDay + RetentionDays]},
            !.spk = d.spk + 1,
            !.created = coarseDay,
            !.bundle = d.bundle + 1,
            !.pending = [rotation |-> TRUE, keys |-> [k \in Kinds |-> {}]]]

\* A rotation is committed only once its record is in the log.
MayCommit(d, upload, logged) ==
    /\ d.pending = upload
    /\ upload.rotation => logged

commit_pending_upload(d) == [d EXCEPT !.pending = None]

\* responder_initial_secrets: every key the header names is still here.
CanOpen(d, m) ==
    /\ m.spk \in PairIds(d)
    /\ \A k \in Kinds : m.keys[k] \subseteq d.otpk[k]

\* accept_initial consumes the one-time keys the header names.
accept_initial(d, m) ==
    encode_device_state(
        [d EXCEPT !.otpk = [k \in Kinds |-> @[k] \ m.keys[k]]])

-----------------------------------------------------------------------------
(* The server. *)

\* replenish: both caps are checked against the batch as sent, then the signed
\* bundle is replaced and the keys are inserted, stored ids being skipped.
Refused(upload) ==
    \E k \in Kinds : Cardinality(server.stored[k]) + Cardinality(upload.keys[k])
                       > MAX_STORED

replenish(upload) ==
    /\ server' = [stored |-> [k \in Kinds |-> server.stored[k] \cup upload.keys[k]],
                  spk |-> IF upload.rotation THEN plan.state.spk ELSE server.spk,
                  bundle |-> IF upload.rotation THEN plan.state.bundle
                             ELSE server.bundle]
    /\ offered' = [k \in Kinds |-> offered[k] \cup upload.keys[k]]

\* _take_one_each: the stored key with the lowest id, or none.
Taken(k) == IF server.stored[k] = {} THEN {} ELSE {Min(server.stored[k])}

\* For the properties: how long a bundle claimed now works at least, a midnight
\* that passes while a rotation is prepared taken off.
OpenableUntil == IF server.spk = device.spk THEN day + RetentionDays - 1 ELSE 0

\* claim: a peer takes a bundle and at most one key of each pool, and sends a
\* first message made with them.  It may never
\* arrive, as when the answer to the claim is lost.
Claim ==
    /\ Len(claims) < MaxClaims
    /\ server' = [server EXCEPT !.stored = [k \in Kinds |-> @[k] \ Taken(k)]]
    /\ claims' = Append(claims, [spk |-> server.spk,
                                 keys |-> [k \in Kinds |-> Taken(k)],
                                 at |-> "wire", hold |-> 0, kept |-> FALSE,
                                 until |-> OpenableUntil,
                                 marker |-> FALSE, opened |-> 0])
    /\ UNCHANGED <<device, maintenanceVars, log, day, troubles, offered>>

\* The chain as a reader verifies it: every record signed for its own place.
Verified(l) == \A i \in DOMAIN l : l[i].seq = i - 1

\* A record of another device of the account, appended where it was signed for.
OtherAppend ==
    /\ Trouble
    /\ Verified(log)
    /\ log' = Append(log, [seq |-> Len(log), bundle |-> 0])
    /\ UNCHANGED <<device, maintenanceVars, server, claims, day, offered>>

-----------------------------------------------------------------------------
(* First messages. *)

At(i, at) == claims[i].at = at

\* The pair of a message has not passed its last day.
KeptOn(d, m, today) ==
    \/ m.spk = d.spk
    \/ \E p \in d.retired : p.id = m.spk /\ today <= p.retain

\* A first message that cannot be opened is rejected.
Reject(i) ==
    /\ claims[i].at \in {"wire", "held"}
    /\ ~CanOpen(decode_device_state(device, day), claims[i])
    /\ claims' = [claims EXCEPT ![i].at = "rejected"]
    /\ UNCHANGED <<device, maintenanceVars, server, log, day, troubles, offered>>

\* A first message whose sender is not verified yet is held with its hold day.
Hold(i) ==
    LET d == decode_device_state(device, day)
    IN  /\ At(i, "wire")
        /\ CanOpen(d, claims[i])
        /\ Trouble
        /\ claims' = [claims EXCEPT ![i].at = "held",
                                    ![i].hold = day,
                                    ![i].kept = KeptOn(d, claims[i], day)]
        /\ UNCHANGED <<device, maintenanceVars, server, log, day, offered>>

\* A first message is opened and its session stored, with a replay marker, in one
\* transaction.  It waits while there is a plan.
Open(i) ==
    LET d == decode_device_state(device, day)
    IN  /\ claims[i].at \in {"wire", "held"}
        /\ CanOpen(d, claims[i])
        /\ plan = None
        /\ device' = accept_initial(d, claims[i])
        /\ claims' = [claims EXCEPT ![i].at = "opened", ![i].marker = TRUE,
                                    ![i].opened = 1]
        /\ UNCHANGED <<maintenanceVars, server, log, day, troubles, offered>>

\* A held message expires.
Expire(i) ==
    /\ At(i, "held")
    /\ claims' = [claims EXCEPT ![i].at = "expired"]
    /\ UNCHANGED <<device, maintenanceVars, server, log, day, troubles, offered>>

\* The sender repeats a message whose answer it lost, and the copy arrives after
\* the first was opened.  Its replay marker, or the missing keys, stop it.
Repeat(i) ==
    LET m == claims[i]
        d == decode_device_state(device, day)
    IN  /\ At(i, "opened")
        /\ m.opened < 2
        /\ ~m.marker
        /\ CanOpen(d, m)
        /\ plan = None
        /\ device' = accept_initial(d, m)
        /\ claims' = [claims EXCEPT ![i].opened = 2]
        /\ UNCHANGED <<maintenanceVars, server, log, day, troubles, offered>>

-----------------------------------------------------------------------------
(* Maintenance.  Failing ends the run; the plan, if there is one, stays and  *)
(* the next run resumes it.                                                  *)

Resting == [pc |-> "idle"]

Goto(pc) == run' = [run EXCEPT !.pc = pc]

Fail == run' = Resting

\* maintain: a stored plan is resumed, provided the stored state is the one it
\* was stored with; otherwise the server's counts are read first.
Maintain ==
    /\ run.pc = "idle"
    /\ \/ /\ plan # None
          /\ device = plan.state
          /\ run' = [pc |-> plan.stage]
       \/ /\ plan = None
          /\ run' = [pc |-> "counted",
                     counts |-> [k \in Kinds |-> Cardinality(server.stored[k])]]
    /\ UNCHANGED <<device, row, plan, server, log, claims, day, troubles, offered>>

HoldDays == {claims[i].hold : i \in {j \in DOMAIN claims : At(j, "held")}}

\* The day, the earliest hold day if there is one, and the stored state.
ReadContext ==
    /\ run.pc = "counted"
    /\ run' = [pc |-> "read", counts |-> run.counts, day |-> day,
               held |-> IF HoldDays = {} THEN {} ELSE {Min(HoldDays)},
               base |-> device]
    /\ UNCHANGED <<device, row, plan, server, log, claims, day, troubles, offered>>

\* Mutant: pruning forgets the replay marker of every message.
PruneMarkers ==
    LET u == Min(run.held \cup {run.day})
        d == operation_prune(run.base, u)
    IN  /\ run.pc = "read"
        /\ device = run.base
        /\ device' = d
        /\ row' = [row EXCEPT !.rotated = d.created]
        /\ claims' = [i \in DOMAIN claims |->
                         [claims[i] EXCEPT !.marker = FALSE]]
        /\ Goto("pruned")
        /\ UNCHANGED <<plan, server, log, day, troubles, offered>>

\* pruneRetainedSignedPrekeys and persistNativeSummary: retired pairs past their
\* last day are erased with the replay markers of their messages.  The binding
\* refuses an answer whose current pair is younger than the day it pruned with.
Prune ==
    LET u == Min(run.held \cup {run.day})
        d == operation_prune(run.base, u)
    IN  /\ run.pc = "read"
        /\ IF \/ d.created > u
              \/ d.bundle # row.bundle
              \/ device # run.base
           THEN /\ Fail
                /\ UNCHANGED <<device, row, claims>>
           ELSE /\ device' = d
                /\ row' = [row EXCEPT !.rotated = d.created]
                /\ claims' = [i \in DOMAIN claims |->
                       [claims[i] EXCEPT !.marker =
                           @ /\ claims[i].spk \in PairIds(d)]]
                /\ Goto("pruned")
        /\ UNCHANGED <<plan, server, log, day, troubles, offered>>

\* The state is read again.
Reread ==
    /\ run.pc = "pruned"
    /\ run' = [run EXCEPT !.pc = "reread", !.base = device]
    /\ UNCHANGED <<device, row, plan, server, log, claims, day, troubles, offered>>

Needed(counts) ==
    [k \in Kinds |-> IF counts[k] < LowWatermark THEN Target - counts[k] ELSE 0]

\* Mutant: a due rotation never waits.
_rotationNeverWaits(today, last, held) == FALSE

\* A due rotation waits while a held message may need a pair it would erase.
_rotationWouldEraseHeldPair(today, last, held) ==
    \E h \in held : \/ h <= last + (RetentionDays - RotationDays)
                    \/ today > last + RetentionDays /\ h <= last + RetentionDays

rotate ==
    /\ run.day >= row.rotated + RotationDays
    /\ ~_rotationWouldEraseHeldPair(run.day, row.rotated, run.held)

\* Mutant: the plan is stored and the state that owns its keys is not.
PrepareUnsaved ==
    LET add  == Needed(run.counts)
        next == IF rotate THEN prepare_rotation(run.base, run.day)
                ELSE prepare_replenishment(run.base, add)
    IN  /\ run.pc = "reread"
        /\ \/ rotate /\ MayRotate(run.base, run.day)
           \/ ~rotate /\ MayReplenish(run.base, add)
        /\ plan' = [stage |-> "prepared", state |-> next,
                    upload |-> next.pending, seq |-> 0]
        /\ run' = [pc |-> "prepared"]
        /\ UNCHANGED <<device, row, server, log, claims, day, troubles, offered>>

\* prepare and persistPrepared: the candidate state and the plan are stored
\* together, unless the state changed since it was read.
Prepare ==
    LET add  == Needed(run.counts)
        next == IF rotate THEN prepare_rotation(run.base, run.day)
                ELSE prepare_replenishment(run.base, add)
    IN  /\ run.pc = "reread"
        /\ IF \/ ~rotate /\ \A k \in Kinds : add[k] = 0
              \/ rotate /\ ~MayRotate(run.base, run.day)
              \/ ~rotate /\ ~MayReplenish(run.base, add)
              \/ device # run.base
           THEN /\ Fail
                /\ UNCHANGED <<device, plan>>
           ELSE /\ device' = next
                /\ plan' = [stage |-> "prepared", state |-> next,
                            upload |-> next.pending, seq |-> 0]
                /\ run' = [pc |-> "prepared"]
        /\ UNCHANGED <<row, server, log, claims, day, troubles, offered>>

\* upload: the request may not arrive, its answer may not come back, and the
\* server may refuse it for its cap.
Upload ==
    /\ run.pc = "prepared"
    /\ \/ /\ Trouble /\ Fail
          /\ UNCHANGED <<server, offered>>
       \/ /\ Refused(plan.upload) /\ Fail
          /\ UNCHANGED <<server, offered, troubles>>
       \/ /\ ~Refused(plan.upload)
          /\ replenish(plan.upload)
          /\ \/ Trouble /\ Fail
             \/ /\ Goto(IF plan.upload.rotation THEN "uploaded" ELSE "commit")
                /\ UNCHANGED troubles
    /\ UNCHANGED <<device, row, plan, log, claims, day>>

MarkUploadAccepted ==
    /\ run.pc = "uploaded"
    /\ plan' = [plan EXCEPT !.stage = "accepted"]
    /\ Goto("accepted")
    /\ UNCHANGED <<device, row, server, log, claims, day, troubles, offered>>

\* prepareOwnRotation: the record is signed for the place after the verified
\* head, once the server lists the rotated bundle.
PrepareOwnRotation ==
    /\ run.pc = "accepted"
    /\ IF Verified(log) /\ server.bundle = device.bundle
       THEN /\ plan' = [plan EXCEPT !.stage = "logPrepared", !.seq = Len(log)]
            /\ Goto("logPrepared")
       ELSE Fail /\ UNCHANGED plan
    /\ UNCHANGED <<device, row, server, log, claims, day, troubles, offered>>

Record == [seq |-> plan.seq, bundle |-> device.bundle]

InLog == /\ Verified(log)
         /\ Len(log) > plan.seq
         /\ log[plan.seq + 1] = Record

\* Mutant: the record is appended again without looking for it.
ReconcileBlind ==
    /\ run.pc = "logPrepared"
    /\ Goto("append")
    /\ UNCHANGED <<device, row, plan, server, log, claims, day, troubles, offered>>

\* Mutant: a record that is there already is not recognised.
ReconcileForgetful ==
    /\ run.pc = "logPrepared"
    /\ IF Verified(log) /\ Len(log) = plan.seq THEN Goto("append") ELSE Fail
    /\ UNCHANGED <<device, row, plan, server, log, claims, day, troubles, offered>>

\* appendOrReconcile, up to the append: the record may be there already.
Reconcile ==
    /\ run.pc = "logPrepared"
    /\ IF InLog THEN Goto("commit")
       ELSE IF Verified(log) /\ Len(log) = plan.seq THEN Goto("append") ELSE Fail
    /\ UNCHANGED <<device, row, plan, server, log, claims, day, troubles, offered>>

\* The append, and the second reading of the log when its answer did not come or
\* names another place.
AppendRecord ==
    /\ run.pc = "append"
    /\ \/ /\ log' = Append(log, Record)
          /\ IF Len(log) = plan.seq
             THEN \/ Goto("commit") /\ UNCHANGED troubles
                  \/ Trouble /\ Goto("recheck")
             ELSE Goto("recheck") /\ UNCHANGED troubles
       \/ /\ Trouble /\ Goto("recheck")
          /\ UNCHANGED log
    /\ UNCHANGED <<device, row, plan, server, claims, day, offered>>

Recheck ==
    /\ run.pc = "recheck"
    /\ IF InLog THEN Goto("commit") ELSE Fail
    /\ UNCHANGED <<device, row, plan, server, log, claims, day, troubles, offered>>

\* commitPendingUpload, the second reading of the counts, and complete.
Complete ==
    /\ run.pc = "commit"
    /\ Fail
    /\ \/ /\ Trouble
          /\ UNCHANGED <<device, row, plan>>
       \/ /\ device # plan.state \/ ~MayCommit(plan.state, plan.upload, TRUE)
          /\ UNCHANGED <<device, row, plan, troubles>>
       \/ /\ device = plan.state /\ MayCommit(plan.state, plan.upload, TRUE)
          /\ device' = commit_pending_upload(plan.state)
          /\ row' = [bundle |-> device.bundle, rotated |-> device.created]
          /\ plan' = None
          /\ UNCHANGED troubles
    /\ UNCHANGED <<server, log, claims, day, offered>>

Crash ==
    /\ run.pc # "idle"
    /\ Trouble
    /\ Fail
    /\ UNCHANGED <<device, row, plan, server, log, claims, day, offered>>

\* The steps from reading the day to storing the plan are local: at most one
\* midnight passes during them.  The steps after the upload neither read the day
\* nor change what others do with it, so no day needs to pass between them.
Tick ==
    /\ day < MaxDay
    /\ \/ run.pc \in {"idle", "prepared"}
       \/ run.pc \in {"read", "pruned", "reread"} /\ day = run.day
    /\ day' = day + 1
    /\ UNCHANGED <<device, maintenanceVars, server, log, claims, troubles, offered>>

-----------------------------------------------------------------------------

AtEnrollment == [k \in Kinds |-> 1 .. Enrolled]

PrekeyInit ==
    /\ device = [format |-> 1, bundle |-> 1, spk |-> 1, created |-> 0,
                 retired |-> {}, next |-> [k \in Kinds |-> 0],
                 otpk |-> AtEnrollment, pending |-> None]
    /\ row = [bundle |-> 1, rotated |-> 0]
    /\ plan = None
    /\ run = Resting
    /\ server = [stored |-> AtEnrollment, spk |-> 1, bundle |-> 1]
    /\ log = <<[seq |-> 0, bundle |-> 1]>>
    /\ claims = << >>
    /\ day = 0
    /\ troubles = 0
    /\ offered = AtEnrollment

MaintenanceStep ==
    \/ Maintain \/ ReadContext \/ Prune \/ Reread \/ Prepare \/ Upload \/ MarkUploadAccepted
    \/ PrepareOwnRotation \/ Reconcile \/ AppendRecord \/ Recheck \/ Complete

PrekeyNext ==
    \/ MaintenanceStep
    \/ Claim \/ OtherAppend \/ Crash \/ Tick
    \/ \E i \in DOMAIN claims : 
         Reject(i) \/ Hold(i) \/ Open(i) \/ Expire(i) \/ Repeat(i)

PrekeySpec == PrekeyInit /\ [][PrekeyNext]_prekeyVars

\* The scheduler offers maintenance a turn again and again.
PrekeyFairSpec == PrekeySpec /\ WF_prekeyVars(MaintenanceStep)

-----------------------------------------------------------------------------
(* Properties. *)

ClaimKeys(k) == UNION {claims[i].keys[k] : i \in DOMAIN claims}

\* The variables have their types, and whatever was stored last is a device state
\* that the core decodes: bounded, with every id below its high-water mark.
PrekeyTypeOK ==
    /\ decode_v2(decode_device_state(device, day))
    /\ validate_device_material(device)
    /\ row.bundle \in Nat /\ row.rotated \in 0 .. MaxDay
    /\ plan # None => plan.stage \in {"prepared", "accepted", "logPrepared"}
    /\ \A k \in Kinds : offered[k] \subseteq 1 .. KEY_ID_MAX
    /\ day \in 0 .. MaxDay

\* A rotation never meets the bound on retired pairs: two at most are kept, since
\* a rotation prunes and rotations are RotationDays apart, whatever was held back
\* or retried in between.
RetiredBound == Cardinality(device.retired) <= 2

\* A one-time key on the server has its private half on the device, unless a peer
\* was handed it before: the state that owns a key is stored before its upload.
StoredIsOwned ==
    \A k \in Kinds : server.stored[k] \subseteq device.otpk[k] \cup ClaimKeys(k)

\* The signed pair the server hands out is one the device can still use, however
\* long the upload of the next one is delayed.
PublishedPairIsHeld == server.spk \in PairIds(device)

\* A message held while its pair was kept stays openable until it leaves the hold,
\* across every pruning and rotation (ADR-093).
HeldStaysOpenable ==
    \A i \in DOMAIN claims :
        At(i, "held") /\ claims[i].kept => claims[i].spk \in PairIds(device)

Reused(i) == \E j \in DOMAIN claims \ {i} : \E k \in Kinds :
                claims[i].keys[k] \cap claims[j].keys[k] # {}

\* A first message is rejected only when it comes later than the retention after
\* its bundle was claimed, when the bundle was claimed while a newer pair waited
\* for its upload, or when the server handed one of its keys out twice.
InTimeOpens ==
    [][\A i \in DOMAIN claims :
          claims'[i].at = "rejected" /\ claims[i].at # "rejected"
             => day > claims[i].until \/ Reused(i)]_prekeyVars

\* One first message opens one session: its marker outlives every key it used.
FirstOpenedOnce == \A i \in DOMAIN claims : claims[i].opened <= 1

\* The published version moves only after its record is in the log, and no
\* rotation is recorded twice, whatever answers were lost.
RotationIsLogged ==
    /\ \E i \in DOMAIN log : log[i].bundle = row.bundle
    /\ \A i, j \in DOMAIN log :
          log[i].bundle = log[j].bundle /\ log[i].bundle > 0 => i = j

\* Whatever the directory can hand out the device holds, for as long as a message claimed with it
\* may arrive or is held; a first message opens once; and a rotation the device committed is in
\* its log, whatever was lost, repeated or cut short on the way (maintain, _resume,
\* appendOrReconcile, prune_retired).
PrekeysAreHeld ==
    /\ PrekeyTypeOK
    /\ RetiredBound
    /\ StoredIsOwned
    /\ PublishedPairIsHeld
    /\ HeldStaysOpenable
    /\ FirstOpenedOnce
    /\ RotationIsLogged

KeySet(f) == UNION {{k} \X f[k] : k \in Kinds}

Spent == {i \in DOMAIN claims : At(i, "opened")}

Life == INSTANCE KeyLife WITH
    held <- KeySet(device.otpk),
    offered <- KeySet(offered),
    spent <- UNION {KeySet(claims[i].keys) : i \in Spent}

\* The device keeps the promise KeyLife states: no key is made twice, no key is
\* offered that is not stored, and a key that opened a message never comes back.
KeepsPromise == Life!LifeSpec

\* The upload landed before and the server refuses its repetition for the cap.
RefusedRetry ==
    /\ plan # None
    /\ plan.stage = "prepared"
    /\ Refused(plan.upload)

\* The place the rotation was signed for is taken, or the chain is broken.
PlaceTaken ==
    /\ plan # None
    /\ plan.stage = "logPrepared"
    /\ ~InLog
    /\ Len(log) > plan.seq

\* The log does not verify, so no record can be signed for it.
LogBroken == ~Verified(log)

\* Every plan ends and first messages are opened again, but for a batch the server
\* refuses and a rotation whose place in the log another device took.
PlanEndsUnlessRefused ==
    (plan # None) ~> (plan = None \/ RefusedRetry \/ PlaceTaken \/ LogBroken)

\* Every plan ends: the retry interval bounds how long a pending plan defers a
\* first message.
PlanEnds == (plan # None) ~> (plan = None)
=============================================================================
