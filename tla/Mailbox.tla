------------------------------ MODULE Mailbox ------------------------------
(***************************************************************************)
(* The durable server mailbox of the messenger: one queue of undelivered   *)
(* envelopes for each device, written by the batch send, emptied by the    *)
(* acknowledgement, by the retention sweep and by revocation.              *)
(*                                                                         *)
(* The unit of atomicity is the committed PostgreSQL statement or, where   *)
(* the code opens a transaction that takes the device row lock before it   *)
(* reads, the transaction.  The sweep takes no lock before its UPDATE, so  *)
(* its three statements are three steps and the other units run between    *)
(* them.                                                                   *)
(***************************************************************************)
EXTENDS Integers, Sequences, FiniteSets, FiniteSetsExt

CONSTANTS
    Devices,            \* device rows
    Batches,            \* send calls: for each device the sizes of its copies
    MAILBOX_MAX_BYTES,  \* ceiling of undelivered bytes of one mailbox
    ENVELOPE_TTL_DAYS,  \* retention window of an undelivered envelope
    BATCH,              \* rows one sweep transaction removes at most
    MaxSeq,             \* bound: envelopes ever queued to one device
    MaxDay,             \* bound: last day of the run
    MaxFaults           \* bound: sweeps that die before their commit

ASSUME SizesAssumption == Batches \subseteq [Devices -> Seq(Nat \ {0})]

ASSUME BoundsAssumption ==
    /\ MAILBOX_MAX_BYTES \in Nat
    /\ ENVELOPE_TTL_DAYS \in Nat
    /\ BATCH \in Nat \ {0}
    /\ MaxSeq \in Nat
    /\ MaxDay \in Nat
    /\ MaxFaults \in Nat

VARIABLES
    queue_seq,              \* last sequence number given out, by device
    queue_pruned_through,   \* retention watermark shown to the device
    revoked,                \* devices whose row carries a revoked_date
    inactive,               \* devices whose account is not active
    mailbox,                \* undelivered rows, by device
    today,                  \* the UTC day
    sweep,                  \* the retention sweep and what it has read
    faults,                 \* sweeps that died so far
    \* what became of a row, kept for the properties only
    acked, pruned, dropped

deviceVars == <<queue_seq, queue_pruned_through, revoked, inactive>>
history == <<acked, pruned, dropped>>
vars == <<deviceVars, mailbox, today, sweep, faults, history>>

-----------------------------------------------------------------------------
(* State. *)

Row == [seq : Nat, day : Nat, size : Nat]

Seqs(rows) == {r.seq : r \in rows}

\* The sweep: idle, about to read a batch of ids, holding the ids, or holding
\* the ids and the highest sequence number of each device they name (0: none).
Idle == [pc |-> "idle", cutoff |-> 0,
         ids |-> [d \in Devices |-> {}], top |-> [d \in Devices |-> 0]]

Live(d) == d \notin revoked /\ d \notin inactive

Bytes(rows) == MapThenSumSet(LAMBDA r : r.size, rows)

Incoming(copies) == MapThenSumSet(LAMBDA n : copies[n], DOMAIN copies)

Init ==
    /\ queue_seq = [d \in Devices |-> 0]
    /\ queue_pruned_through = [d \in Devices |-> 0]
    /\ revoked = {}
    /\ inactive = {}
    /\ mailbox = [d \in Devices |-> {}]
    /\ today = 0
    /\ sweep = Idle
    /\ faults = 0
    /\ acked = [d \in Devices |-> {}]
    /\ pruned = [d \in Devices |-> {}]
    /\ dropped = [d \in Devices |-> {}]

-----------------------------------------------------------------------------
(* messaging/services.py: send and ack. *)

Wanted(batch) == {d \in Devices : batch[d] # <<>>}

\* Targets refused whole because this batch would pass the ceiling.
Full(batch) ==
    {d \in Wanted(batch) :
        Live(d) /\ Bytes(mailbox[d]) + Incoming(batch[d]) > MAILBOX_MAX_BYTES}

\* Mutant: the ceiling is not applied.
AcceptingAll(batch) == {d \in Wanted(batch) : Live(d)}

Accepting(batch) == {d \in Wanted(batch) : Live(d)} \ Full(batch)

\* Mutant: numbers start at the counter, so the first one is given out twice.
NewRowsFromCounter(d, copies) ==
    {[seq |-> queue_seq[d] + i - 1, day |-> today, size |-> copies[i]] :
        i \in 1..Len(copies)}

\* Mutant: the day is taken from a clock behind UTC.
NewRowsYesterday(d, copies) ==
    {[seq |-> queue_seq[d] + i, day |-> today - 1, size |-> copies[i]] :
        i \in 1..Len(copies)}

NewRows(d, copies) ==
    {[seq |-> queue_seq[d] + i, day |-> today, size |-> copies[i]] :
        i \in 1..Len(copies)}

Send(batch) ==
    /\ \A d \in Devices : queue_seq[d] + Len(batch[d]) <= MaxSeq
    /\ queue_seq' = [d \in Devices |->
            IF d \in Accepting(batch) THEN queue_seq[d] + Len(batch[d])
                                      ELSE queue_seq[d]]
    /\ mailbox' = [d \in Devices |->
            IF d \in Accepting(batch) THEN mailbox[d] \cup NewRows(d, batch[d])
                                      ELSE mailbox[d]]
    /\ UNCHANGED <<queue_pruned_through, revoked, inactive, today, sweep,
                   faults, history>>

\* Delete by id within the caller's own mailbox; an id that is gone matches
\* nothing.  The REST route authenticates every call, a bound socket none: an
\* acknowledgement may come from a device that is no longer live.
Ack(d, ids) ==
    LET gone == {r \in mailbox[d] : r.seq \in ids} IN
    /\ mailbox' = [mailbox EXCEPT ![d] = @ \ gone]
    /\ acked' = [acked EXCEPT ![d] = @ \cup Seqs(gone)]
    /\ UNCHANGED <<deviceVars, today, sweep, faults, pruned, dropped>>

-----------------------------------------------------------------------------
(* devices/services.py: revoke;  accounts/admin.py: (de)activation. *)

Revoke(d) ==
    /\ d \notin revoked
    /\ revoked' = revoked \cup {d}
    /\ dropped' = [dropped EXCEPT ![d] = @ \cup Seqs(mailbox[d])]
    /\ mailbox' = [mailbox EXCEPT ![d] = {}]
    /\ UNCHANGED <<queue_seq, queue_pruned_through, inactive, today, sweep,
                   faults, acked, pruned>>

Deactivate(d) ==
    /\ d \notin inactive
    /\ inactive' = inactive \cup {d}
    /\ UNCHANGED <<queue_seq, queue_pruned_through, revoked, mailbox, today,
                   sweep, faults, history>>

Activate(d) ==
    /\ d \in inactive
    /\ inactive' = inactive \ {d}
    /\ UNCHANGED <<queue_seq, queue_pruned_through, revoked, mailbox, today,
                   sweep, faults, history>>

-----------------------------------------------------------------------------
(* messaging/management/commands/prune.py: the envelope sweep. *)

\* Mutant: the day of the cutoff itself counts as expired.
ExpiredInclusive(r, cutoff) == r.day <= cutoff

Expired(r, cutoff) == r.day < cutoff

ExpiredRows(d, cutoff) == {r \in mailbox[d] : Expired(r, cutoff)}

\* Mutant: the window is one day too long.
SweepStartLate ==
    /\ sweep.pc = "idle"
    /\ sweep' = [Idle EXCEPT !.pc = "read", !.cutoff = today - ENVELOPE_TTL_DAYS - 1]
    /\ UNCHANGED <<deviceVars, mailbox, today, faults, history>>

\* The advisory lock admits one sweep; its cutoff is computed once.
SweepStart ==
    /\ sweep.pc = "idle"
    /\ sweep' = [Idle EXCEPT !.pc = "read", !.cutoff = today - ENVELOPE_TTL_DAYS]
    /\ UNCHANGED <<deviceVars, mailbox, today, faults, history>>

\* The ids a query ordered by queued_day alone may return: as many expired rows
\* as BATCH admits, oldest days first, ties in any order.
OldestFirst(ids, cutoff) ==
    LET expired == UNION {{<<d, r>> : r \in ExpiredRows(d, cutoff)} : d \in Devices}
        chosen == {p \in expired : p[2].seq \in ids[p[1]]}
    IN  /\ \A d \in Devices : ids[d] \subseteq Seqs(ExpiredRows(d, cutoff))
        /\ Cardinality(chosen) <= BATCH
        /\ Cardinality(chosen) < BATCH => chosen = expired
        /\ \A p \in chosen, q \in expired \ chosen : p[2].day <= q[2].day

SweepRead(ids) ==
    /\ sweep.pc = "read"
    /\ OldestFirst(ids, sweep.cutoff)
    /\ \E d \in Devices : ids[d] # {}
    /\ sweep' = [sweep EXCEPT !.pc = "aggregate", !.ids = ids]
    /\ UNCHANGED <<deviceVars, mailbox, today, faults, history>>

SweepDone ==
    /\ sweep.pc = "read"
    /\ \A d \in Devices : ExpiredRows(d, sweep.cutoff) = {}
    /\ sweep' = Idle
    /\ UNCHANGED <<deviceVars, mailbox, today, faults, history>>

Batch(d) == {r \in mailbox[d] : r.seq \in sweep.ids[d]}

\* Max(seq) of the batch for each device, over the rows that are still there.
SweepAggregate ==
    /\ sweep.pc = "aggregate"
    /\ sweep' = [sweep EXCEPT
            !.pc = "commit",
            !.top = [d \in Devices |->
                        IF Batch(d) = {} THEN 0 ELSE Max(Seqs(Batch(d)))]]
    /\ UNCHANGED <<deviceVars, mailbox, today, faults, history>>

\* Mutant: the watermark is overwritten.
Latest(a, b) == b

Greatest(a, b) == IF a >= b THEN a ELSE b

\* Mutant: the delete takes everything expired, not the batch it aggregated.
SweepCommitAll ==
    /\ sweep.pc = "commit"
    /\ queue_pruned_through' = [d \in Devices |->
            Greatest(queue_pruned_through[d], sweep.top[d])]
    /\ mailbox' = [d \in Devices |-> mailbox[d] \ ExpiredRows(d, sweep.cutoff)]
    /\ pruned' = [d \in Devices |-> pruned[d] \cup Seqs(ExpiredRows(d, sweep.cutoff))]
    /\ sweep' = [Idle EXCEPT !.pc = "read", !.cutoff = sweep.cutoff]
    /\ UNCHANGED <<queue_seq, revoked, inactive, today, faults, acked, dropped>>

\* UPDATE of the watermark, DELETE of the batch, COMMIT.
SweepCommit ==
    /\ sweep.pc = "commit"
    /\ queue_pruned_through' = [d \in Devices |->
            Greatest(queue_pruned_through[d], sweep.top[d])]
    /\ mailbox' = [d \in Devices |-> mailbox[d] \ Batch(d)]
    /\ pruned' = [d \in Devices |-> pruned[d] \cup Seqs(Batch(d))]
    /\ sweep' = [Idle EXCEPT !.pc = "read", !.cutoff = sweep.cutoff]
    /\ UNCHANGED <<queue_seq, revoked, inactive, today, faults, acked, dropped>>

\* The process dies or a statement fails: the open transaction rolls back and
\* the session lock goes with its backend.
SweepFail ==
    /\ sweep.pc # "idle"
    /\ faults < MaxFaults
    /\ faults' = faults + 1
    /\ sweep' = Idle
    /\ UNCHANGED <<deviceVars, mailbox, today, history>>

-----------------------------------------------------------------------------

NextDay ==
    /\ today < MaxDay
    /\ today' = today + 1
    /\ UNCHANGED <<deviceVars, mailbox, sweep, faults, history>>

Sweep ==
    \/ SweepStart
    \/ \E ids \in [Devices -> SUBSET (1..MaxSeq)] : SweepRead(ids)
    \/ SweepDone
    \/ SweepAggregate
    \/ SweepCommit

Next ==
    \/ \E batch \in Batches : Send(batch)
    \/ \E d \in Devices : \E ids \in SUBSET Seqs(mailbox[d]) : Ack(d, ids)
    \/ \E d \in Devices : Revoke(d)
    \/ \E d \in Devices : Deactivate(d)
    \/ \E d \in Devices : Activate(d)
    \/ Sweep
    \/ SweepFail
    \/ NextDay

Spec == Init /\ [][Next]_vars

\* The timer starts a sweep every hour and a started sweep runs.
FairSpec == Spec /\ WF_vars(Sweep)

-----------------------------------------------------------------------------
(* Properties. *)

\* Every variable has its type; a row's sequence number is one that was given
\* out, and the sweep holds ids and tops of given-out numbers.
TypeOK ==
    /\ queue_seq \in [Devices -> Nat]
    /\ queue_pruned_through \in [Devices -> Nat]
    /\ revoked \subseteq Devices
    /\ inactive \subseteq Devices
    /\ mailbox \in [Devices -> SUBSET Row]
    /\ today \in Nat
    /\ sweep \in [pc : {"idle", "read", "aggregate", "commit"}, cutoff : Int,
                  ids : [Devices -> SUBSET Nat], top : [Devices -> Nat]]
    /\ faults \in Nat
    /\ acked \in [Devices -> SUBSET Nat]
    /\ pruned \in [Devices -> SUBSET Nat]
    /\ dropped \in [Devices -> SUBSET Nat]

\* Every sequence number a device was ever given is in exactly one place: still
\* queued, acknowledged, removed by the retention sweep, or dropped with the
\* revoked device; and no two queued rows share one.  (send assigns under the
\* device lock; ack, sweep and revoke delete concurrently.)
Ledger ==
    \A d \in Devices :
        /\ 1..queue_seq[d] = Seqs(mailbox[d]) \cup acked[d] \cup pruned[d] \cup dropped[d]
        /\ \A r1, r2 \in mailbox[d] : r1.seq = r2.seq => r1 = r2
        /\ Seqs(mailbox[d]) \cap (acked[d] \cup pruned[d] \cup dropped[d]) = {}
        /\ acked[d] \cap (pruned[d] \cup dropped[d]) = {}
        /\ pruned[d] \cap dropped[d] = {}

\* Whatever the retention sweep removed is at or below the watermark the device
\* is shown, so no loss is invisible to it, however acknowledgements, sends and
\* failed sweeps interleave with the batches.
LossIsAnnounced ==
    \A d \in Devices : \A s \in pruned[d] : s <= queue_pruned_through[d]

\* A row still inside its retention window is above the watermark: a device is
\* never told that an envelope is lost which no sweep may remove yet.
RetainedIsAboveWatermark ==
    \A d \in Devices : \A r \in mailbox[d] :
        r.day >= today - ENVELOPE_TTL_DAYS => r.seq > queue_pruned_through[d]

\* The watermark a device is shown is true in both directions: whatever the sweep removed is at
\* or below it, and whatever is kept inside the retention window is above it (_prune_envelopes).
WatermarkIsTrue == LossIsAnnounced /\ RetainedIsAboveWatermark

\* The undelivered bytes of a mailbox never pass the ceiling, also when several
\* sends race each other and the sweep.
WithinCeiling ==
    \A d \in Devices : Bytes(mailbox[d]) <= MAILBOX_MAX_BYTES

\* The counter and the watermark of a device only grow, and the watermark moves
\* only when the sweep commits.
CountersGrow ==
    [][\A d \in Devices :
        /\ queue_seq'[d] >= queue_seq[d]
        /\ queue_pruned_through'[d] >= queue_pruned_through[d]
        /\ queue_pruned_through'[d] # queue_pruned_through[d] => sweep.pc = "commit"]_vars

\* A row past its window leaves the mailbox: a later sweep finishes what a
\* failed one left.
ExpiredIsRemoved ==
    \A d \in Devices : \A s \in 1..MaxSeq :
        (\E r \in mailbox[d] : r.seq = s /\ r.day < today - ENVELOPE_TTL_DAYS)
            ~> s \notin Seqs(mailbox[d])

\* What prune.py says its transaction guarantees: a device is not told it lost
\* an envelope that it can still fetch.
WatermarkBelowMailbox ==
    \A d \in Devices : \A r \in mailbox[d] : r.seq > queue_pruned_through[d]

\* What devices/models.py says the column holds: the highest sequence number
\* the sweep has deleted from this mailbox.
WatermarkIsHighestPruned ==
    \A d \in Devices \ revoked :
        queue_pruned_through[d] = IF pruned[d] = {} THEN 0 ELSE Max(pruned[d])
=============================================================================
