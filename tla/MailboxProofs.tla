--------------------------- MODULE MailboxProofs ---------------------------
(***************************************************************************)
(* Proofs about Mailbox for every set of devices, every set of batches and *)
(* every value of the bounds.                                              *)
(*                                                                         *)
(* RetainedIsAboveWatermark is not inductive: the sweep raises the         *)
(* watermark to a number it read two steps earlier.  The strengthening     *)
(* records that days are ordered as sequence numbers are, so every row at  *)
(* or below a number the sweep holds is itself past the cutoff.            *)
(***************************************************************************)
EXTENDS Mailbox, TLAPS, WellFoundedInduction

\* Queued rows carry numbers that were given out, on days that have come.
RowsNumbered ==
    \A d \in Devices : \A r \in mailbox[d] :
        r.seq \in 1..queue_seq[d] /\ r.day <= today

\* The day of a row follows its number.
DaysOrdered ==
    \A d \in Devices : \A r1, r2 \in mailbox[d] :
        r1.seq <= r2.seq => r1.day <= r2.day

\* The watermark is a number that was given out, and every row still queued at
\* or below it is past its window.
WatermarkExpired ==
    \A d \in Devices :
        /\ queue_pruned_through[d] <= queue_seq[d]
        /\ \A r \in mailbox[d] :
                r.seq <= queue_pruned_through[d] => r.day < today - ENVELOPE_TTL_DAYS

\* What the sweep holds between its statements.
SweepHolds ==
    /\ sweep.pc # "idle" => sweep.cutoff <= today - ENVELOPE_TTL_DAYS
    /\ sweep.pc \in {"idle", "read"} =>
            \A d \in Devices : sweep.ids[d] = {} /\ sweep.top[d] = 0
    /\ \A d \in Devices :
        /\ sweep.ids[d] \subseteq 1..queue_seq[d]
        /\ sweep.top[d] \in sweep.ids[d] \cup {0}
        /\ \A s \in sweep.ids[d] : \A r \in mailbox[d] :
                r.seq <= s => r.day < sweep.cutoff
        /\ sweep.pc = "commit" => \A r \in Batch(d) : r.seq <= sweep.top[d]

IInv ==
    /\ TypeOK
    /\ RowsNumbered
    /\ DaysOrdered
    /\ WatermarkExpired
    /\ SweepHolds
    /\ LossIsAnnounced
    /\ Ledger

-----------------------------------------------------------------------------

\* A non-empty set of naturals with an upper bound has a greatest element, and
\* Max returns it (the aggregate the sweep reads).
LEMMA MaxIsGreatest ==
    ASSUME NEW n \in Nat, NEW S \in SUBSET (0..n), S # {}
    PROVE  Max(S) \in S /\ \A y \in S : y <= Max(S)
<1> DEFINE T == {n - x : x \in S}
<1>1. T \subseteq Nat /\ T # {}
    OBVIOUS
<1>2. PICK m \in T : \A y \in T : ~ (<<y, m>> \in OpToRel(<, Nat))
    BY <1>1, WFMin, NatLessThanWellFounded, Zenon
<1>3. PICK x \in S : m = n - x
    OBVIOUS
<1>4. \A y \in S : y <= x
    <2> TAKE y \in S
    <2>1. n - y \in T /\ n - y \in Nat /\ m \in Nat
        BY <1>1
    <2>2. ~ (n - y < m)
        BY <1>2, <2>1 DEF OpToRel
    <2> QED
        BY <1>3, <2>2
<1>5. \E z \in S : \A y \in S : z >= y
    BY <1>4
<1> QED
    BY <1>5 DEF Max

-----------------------------------------------------------------------------

\* Init establishes the inductive invariant: every mailbox is empty.
LEMMA InitIInv == Init => IInv
BY BoundsAssumption DEF Init, IInv, TypeOK, RowsNumbered, DaysOrdered,
    WatermarkExpired, SweepHolds, LossIsAnnounced, Ledger, Idle, Seqs, Batch, Row

\* What send writes: fresh numbers above the counter, all on this day.
LEMMA SendIInv ==
    ASSUME IInv, NEW batch \in Batches, Send(batch)
    PROVE  IInv'
<1> USE DEF IInv
<1>1. batch \in [Devices -> Seq(Nat \ {0})]
    BY SizesAssumption
<1>2. \A d \in Devices : Len(batch[d]) \in Nat
    BY <1>1
<1>3. \A d \in Devices : NewRows(d, batch[d]) \subseteq Row
    BY <1>1 DEF NewRows, Row, TypeOK
<1>4. TypeOK'
    BY <1>2, <1>3 DEF Send, TypeOK, deviceVars, history
<1>5. \A d \in Devices :
        /\ queue_seq'[d] \in Nat /\ queue_seq'[d] >= queue_seq[d]
        /\ mailbox[d] \subseteq mailbox'[d]
        /\ \A r \in mailbox'[d] :
            \/ r \in mailbox[d]
            \/ r.seq \in (queue_seq[d] + 1)..queue_seq'[d] /\ r.day = today
    BY <1>2 DEF Send, NewRows, TypeOK
<1>6. \A d \in Devices : \A s \in (queue_seq[d] + 1)..queue_seq'[d] :
        \E r \in mailbox'[d] : r.seq = s
    <2> TAKE d \in Devices
    <2> TAKE s \in (queue_seq[d] + 1)..queue_seq'[d]
    <2>1. d \in Accepting(batch) /\ queue_seq'[d] = queue_seq[d] + Len(batch[d])
        BY <1>2 DEF Send, TypeOK
    <2>2. s - queue_seq[d] \in 1..Len(batch[d])
        BY <1>2, <2>1 DEF TypeOK
    <2> DEFINE row == [seq |-> queue_seq[d] + (s - queue_seq[d]), day |-> today,
                       size |-> batch[d][s - queue_seq[d]]]
    <2>3. row \in NewRows(d, batch[d])
        BY <2>2 DEF NewRows
    <2>4. row.seq = s
        BY <1>2 DEF TypeOK
    <2> QED
        BY <2>1, <2>3, <2>4 DEF Send
<1>7. \A d \in Devices : \A r1, r2 \in mailbox'[d] : r1.seq = r2.seq => r1 = r2
    <2> TAKE d \in Devices
    <2>1. \A r1, r2 \in NewRows(d, batch[d]) : r1.seq = r2.seq => r1 = r2
        BY <1>2 DEF NewRows, TypeOK
    <2>2. \A r1 \in mailbox[d], r2 \in NewRows(d, batch[d]) : r1.seq < r2.seq
        BY <1>2 DEF NewRows, TypeOK, RowsNumbered, Row
    <2> QED
        BY <2>1, <2>2, <1>3 DEF Send, Ledger, TypeOK, Row
<1>8. UNCHANGED <<queue_pruned_through, today, sweep, acked, pruned, dropped>>
    BY DEF Send, history
<1>9. RowsNumbered'
    BY <1>4, <1>5, <1>8 DEF RowsNumbered, TypeOK, Row
<1>10. DaysOrdered'
    BY <1>4, <1>5, <1>8 DEF DaysOrdered, RowsNumbered, TypeOK, Row
<1>11. WatermarkExpired'
    BY <1>4, <1>5, <1>8 DEF WatermarkExpired, TypeOK, Row
<1>12. SweepHolds'
    BY <1>4, <1>5, <1>8 DEF SweepHolds, TypeOK, Row, Batch
<1>13. LossIsAnnounced'
    BY <1>8 DEF LossIsAnnounced
<1>14. Ledger'
    <2> SUFFICES ASSUME NEW d \in Devices
                 PROVE  /\ 1..queue_seq'[d] = Seqs(mailbox'[d]) \cup acked[d]
                                \cup pruned[d] \cup dropped[d]
                        /\ Seqs(mailbox'[d]) \cap (acked[d] \cup pruned[d] \cup dropped[d]) = {}
        BY <1>7, <1>8 DEF Ledger, Seqs
    <2>1. Seqs(mailbox'[d]) = Seqs(mailbox[d]) \cup ((queue_seq[d] + 1)..queue_seq'[d])
        BY <1>5, <1>6 DEF Seqs
    <2> QED
        BY <1>4, <1>5, <2>1 DEF Ledger, TypeOK
<1> QED
    BY <1>4, <1>9, <1>10, <1>11, <1>12, <1>13, <1>14

\* Removing rows disturbs none of the facts about the rows that stay.
LEMMA FewerRows ==
    ASSUME IInv, TypeOK', today' = today,
           queue_seq' = queue_seq,
           \A d \in Devices : mailbox'[d] \subseteq mailbox[d]
    PROVE  /\ RowsNumbered' /\ DaysOrdered'
           /\ queue_pruned_through' = queue_pruned_through => WatermarkExpired'
           /\ sweep' = sweep => SweepHolds'
BY DEF IInv, TypeOK, RowsNumbered, DaysOrdered, WatermarkExpired, SweepHolds, Batch

\* A row that moves from the mailbox of a device to one of its histories keeps
\* the ledger.
LEMMA MovedRows ==
    ASSUME IInv, NEW d \in Devices, NEW gone \in SUBSET mailbox[d],
           NEW left, left = mailbox[d] \ gone
    PROVE  /\ Seqs(mailbox[d]) = Seqs(left) \cup Seqs(gone)
           /\ Seqs(left) \cap Seqs(gone) = {}
           /\ Seqs(gone) \subseteq Nat
BY DEF IInv, Ledger, Seqs, TypeOK, Row

\* ack deletes rows of the caller's own mailbox only.
LEMMA AckIInv ==
    ASSUME IInv, NEW d \in Devices, NEW ids, Ack(d, ids)
    PROVE  IInv'
<1> DEFINE gone == {r \in mailbox[d] : r.seq \in ids}
<1>1. /\ mailbox' = [mailbox EXCEPT ![d] = @ \ gone]
      /\ acked' = [acked EXCEPT ![d] = @ \cup Seqs(gone)]
      /\ UNCHANGED <<queue_seq, queue_pruned_through, revoked, inactive, today,
                     sweep, faults, pruned, dropped>>
    BY DEF Ack, deviceVars
<1>2. /\ Seqs(mailbox[d]) = Seqs(mailbox[d] \ gone) \cup Seqs(gone)
      /\ Seqs(mailbox[d] \ gone) \cap Seqs(gone) = {}
      /\ Seqs(gone) \subseteq Nat
    BY MovedRows
<1> HIDE DEF gone
<1>3. TypeOK'
    BY <1>1, <1>2 DEF IInv, TypeOK
<1>4. \A e \in Devices : mailbox'[e] \subseteq mailbox[e]
    BY <1>1 DEF IInv, TypeOK
<1>5. RowsNumbered' /\ DaysOrdered' /\ WatermarkExpired' /\ SweepHolds'
    BY <1>1, <1>3, <1>4, FewerRows
<1>6. LossIsAnnounced'
    BY <1>1 DEF IInv, LossIsAnnounced
<1>7. Ledger'
    <2> SUFFICES ASSUME NEW e \in Devices
                 PROVE  /\ 1..queue_seq[e] = Seqs(mailbox'[e]) \cup acked'[e]
                                \cup pruned[e] \cup dropped[e]
                        /\ \A r1, r2 \in mailbox'[e] : r1.seq = r2.seq => r1 = r2
                        /\ Seqs(mailbox'[e]) \cap (acked'[e] \cup pruned[e] \cup dropped[e]) = {}
                        /\ acked'[e] \cap (pruned[e] \cup dropped[e]) = {}
                        /\ pruned[e] \cap dropped[e] = {}
        BY <1>1 DEF Ledger, Seqs
    <2>1. CASE e = d
        <3>1. mailbox'[d] = mailbox[d] \ gone /\ acked'[d] = acked[d] \cup Seqs(gone)
            BY <1>1 DEF IInv, TypeOK
        <3>2. \A r1, r2 \in mailbox'[d] : r1.seq = r2.seq => r1 = r2
            BY <3>1 DEF IInv, Ledger
        <3>3. /\ 1..queue_seq[d] = Seqs(mailbox[d]) \cup acked[d] \cup pruned[d] \cup dropped[d]
              /\ Seqs(mailbox[d]) \cap (acked[d] \cup pruned[d] \cup dropped[d]) = {}
              /\ acked[d] \cap (pruned[d] \cup dropped[d]) = {}
              /\ pruned[d] \cap dropped[d] = {}
            BY DEF IInv, Ledger
        <3> QED
            BY <2>1, <3>1, <3>2, <3>3, <1>2
    <2>2. CASE e # d
        BY <2>2, <1>1 DEF IInv, Ledger, TypeOK
    <2> QED
        BY <2>1, <2>2
<1> QED
    BY <1>3, <1>5, <1>6, <1>7 DEF IInv

\* revoke empties one mailbox.
LEMMA RevokeIInv ==
    ASSUME IInv, NEW d \in Devices, Revoke(d)
    PROVE  IInv'
<1>1. /\ mailbox' = [mailbox EXCEPT ![d] = {}]
      /\ dropped' = [dropped EXCEPT ![d] = @ \cup Seqs(mailbox[d])]
      /\ revoked' = revoked \cup {d}
      /\ UNCHANGED <<queue_seq, queue_pruned_through, inactive, today, sweep,
                     faults, acked, pruned>>
    BY DEF Revoke
<1>2. TypeOK'
    BY <1>1, MovedRows DEF IInv, TypeOK, Seqs, Row
<1>3. \A e \in Devices : mailbox'[e] \subseteq mailbox[e]
    BY <1>1 DEF IInv, TypeOK
<1>4. RowsNumbered' /\ DaysOrdered' /\ WatermarkExpired' /\ SweepHolds'
    BY <1>1, <1>2, <1>3, FewerRows
<1>5. LossIsAnnounced'
    BY <1>1 DEF IInv, LossIsAnnounced
<1>6. Ledger'
    BY <1>1 DEF IInv, Ledger, TypeOK, Seqs
<1> QED
    BY <1>2, <1>4, <1>5, <1>6 DEF IInv

\* Steps that leave the mailboxes, the counters, the sweep and the histories.
LEMMA QuietIInv ==
    ASSUME IInv, TypeOK', today' >= today,
           UNCHANGED <<queue_seq, queue_pruned_through, mailbox, sweep, history>>
    PROVE  IInv'
<1>1. RowsNumbered' /\ DaysOrdered' /\ LossIsAnnounced' /\ Ledger'
    BY DEF IInv, RowsNumbered, DaysOrdered, LossIsAnnounced, Ledger, TypeOK, Row,
           history
<1>2. WatermarkExpired'
    BY BoundsAssumption DEF IInv, WatermarkExpired, TypeOK, Row
<1>3. SweepHolds'
    BY BoundsAssumption DEF IInv, SweepHolds, TypeOK, Batch
<1> QED
    BY <1>1, <1>2, <1>3 DEF IInv

\* The sweep reads: a batch of ids it read names rows past the cutoff.
LEMMA SweepReadIInv ==
    ASSUME IInv, NEW ids \in [Devices -> SUBSET (1..MaxSeq)], SweepRead(ids)
    PROVE  IInv'
<1>1. /\ sweep.pc = "read"
      /\ sweep' = [sweep EXCEPT !.pc = "aggregate", !.ids = ids]
      /\ UNCHANGED <<queue_seq, queue_pruned_through, revoked, inactive, mailbox,
                     today, faults, acked, pruned, dropped>>
    BY DEF SweepRead, deviceVars, history
<1>2. \A d \in Devices : ids[d] \subseteq Seqs(ExpiredRows(d, sweep.cutoff))
    BY Zenon DEF SweepRead, OldestFirst
<1>3. \A d \in Devices : \A s \in ids[d] :
        \E q \in mailbox[d] : q.seq = s /\ q.day < sweep.cutoff
    BY <1>2 DEF ExpiredRows, Expired, Seqs
<1>4. TypeOK'
    <2>1. ids \in [Devices -> SUBSET Nat]
        BY BoundsAssumption
    <2> QED
        BY <1>1, <2>1 DEF IInv, TypeOK
<1>5. sweep'.pc = "aggregate" /\ sweep'.cutoff = sweep.cutoff
        /\ sweep'.ids = ids /\ sweep'.top = sweep.top
    BY <1>1 DEF IInv, TypeOK
<1>6. \A d \in Devices : \A s \in ids[d] : \A r \in mailbox[d] :
        r.seq <= s => r.day < sweep.cutoff
    BY <1>3 DEF IInv, DaysOrdered, TypeOK, Row
<1>7. SweepHolds'
    BY <1>1, <1>3, <1>5, <1>6 DEF IInv, SweepHolds, RowsNumbered
<1> QED
    BY <1>1, <1>4, <1>7 DEF IInv, RowsNumbered, DaysOrdered, WatermarkExpired,
        LossIsAnnounced, Ledger

\* A sweep that starts, ends or dies holds no ids.
LEMMA SweepIdleIInv ==
    ASSUME IInv, SweepStart \/ SweepDone \/ SweepFail
    PROVE  IInv'
<1>1. UNCHANGED <<queue_seq, queue_pruned_through, revoked, inactive, mailbox,
                  today, acked, pruned, dropped>> /\ faults' \in Nat
    BY DEF SweepStart, SweepDone, SweepFail, deviceVars, history, IInv, TypeOK
<1>2. \/ sweep' = Idle
      \/ sweep' = [Idle EXCEPT !.pc = "read", !.cutoff = today - ENVELOPE_TTL_DAYS]
    BY DEF SweepStart, SweepDone, SweepFail
<1>3. \E pc \in {"idle", "read"}, cutoff \in Int :
        /\ sweep' = [pc |-> pc, cutoff |-> cutoff,
                     ids |-> [d \in Devices |-> {}], top |-> [d \in Devices |-> 0]]
        /\ pc = "read" => cutoff = today - ENVELOPE_TTL_DAYS
    <2>1. CASE sweep' = Idle
        <3>1. sweep' = [pc |-> "idle", cutoff |-> 0,
                        ids |-> [d \in Devices |-> {}], top |-> [d \in Devices |-> 0]]
            BY <2>1 DEF Idle
        <3> WITNESS "idle" \in {"idle", "read"}, 0 \in Int
        <3> QED
            BY <3>1
    <2>2. CASE sweep' = [Idle EXCEPT !.pc = "read", !.cutoff = today - ENVELOPE_TTL_DAYS]
        <3>1. today - ENVELOPE_TTL_DAYS \in Int
            BY BoundsAssumption DEF IInv, TypeOK
        <3>2. sweep' = [pc |-> "read", cutoff |-> today - ENVELOPE_TTL_DAYS,
                        ids |-> [d \in Devices |-> {}], top |-> [d \in Devices |-> 0]]
            BY <2>2 DEF Idle
        <3> QED
            BY <3>1, <3>2
    <2> QED
        BY <1>2, <2>1, <2>2
<1>4. TypeOK' /\ SweepHolds'
    <2>1. PICK pc \in {"idle", "read"}, cutoff \in Int :
            /\ sweep' = [pc |-> pc, cutoff |-> cutoff,
                         ids |-> [d \in Devices |-> {}], top |-> [d \in Devices |-> 0]]
            /\ pc = "read" => cutoff = today - ENVELOPE_TTL_DAYS
        BY <1>3
    <2>2. TypeOK'
        BY <1>1, <2>1 DEF IInv, TypeOK
    <2>3. SweepHolds'
        BY <1>1, <2>1, BoundsAssumption DEF IInv, TypeOK, SweepHolds
    <2> QED
        BY <2>2, <2>3
<1> QED
    BY <1>1, <1>4 DEF IInv, RowsNumbered, DaysOrdered, WatermarkExpired,
        LossIsAnnounced, Ledger

\* The aggregate: the top of a device is the greatest number of its batch.
LEMMA SweepAggregateIInv ==
    ASSUME IInv, SweepAggregate
    PROVE  IInv'
<1> DEFINE top == [d \in Devices |-> IF Batch(d) = {} THEN 0 ELSE Max(Seqs(Batch(d)))]
<1>1. /\ sweep' = [sweep EXCEPT !.pc = "commit", !.top = top]
      /\ UNCHANGED <<queue_seq, queue_pruned_through, revoked, inactive, mailbox,
                     today, faults, acked, pruned, dropped>>
    BY DEF SweepAggregate, deviceVars, history
<1>2. ASSUME NEW d \in Devices
      PROVE  /\ top[d] \in Nat /\ top[d] \in sweep.ids[d] \cup {0}
             /\ \A r \in Batch(d) : r.seq <= top[d]
    <2>1. CASE Batch(d) = {}
        BY <2>1
    <2>2. CASE Batch(d) # {}
        <3>1. Seqs(Batch(d)) \subseteq 0..queue_seq[d] /\ Seqs(Batch(d)) # {}
                /\ Seqs(Batch(d)) \subseteq sweep.ids[d]
            BY <2>2 DEF IInv, RowsNumbered, Batch, Seqs
        <3>2. queue_seq[d] \in Nat
            BY DEF IInv, TypeOK
        <3>3. /\ Max(Seqs(Batch(d))) \in Seqs(Batch(d))
              /\ \A y \in Seqs(Batch(d)) : y <= Max(Seqs(Batch(d)))
            BY <3>1, <3>2, MaxIsGreatest
        <3>4. \A r \in Batch(d) : r.seq \in Seqs(Batch(d))
            BY DEF Seqs
        <3> QED
            BY <2>2, <3>1, <3>2, <3>3, <3>4
    <2> QED
        BY <2>1, <2>2
<1> HIDE DEF top
<1>3. top \in [Devices -> Nat]
    BY <1>2 DEF top
<1>4. TypeOK'
    BY <1>1, <1>3 DEF IInv, TypeOK
<1>5. sweep'.pc = "commit" /\ sweep'.cutoff = sweep.cutoff
        /\ sweep'.ids = sweep.ids /\ sweep'.top = top
    BY <1>1 DEF IInv, TypeOK
<1>6. sweep.pc = "aggregate"
    BY DEF SweepAggregate
<1>7. SweepHolds'
    BY <1>1, <1>2, <1>5, <1>6 DEF IInv, SweepHolds, Batch
<1> QED
    BY <1>1, <1>4, <1>7 DEF IInv, RowsNumbered, DaysOrdered, WatermarkExpired,
        LossIsAnnounced, Ledger

\* The commit: every row at or below the raised watermark is past the window,
\* and every deleted row is at or below it.
LEMMA SweepCommitIInv ==
    ASSUME IInv, SweepCommit
    PROVE  IInv'
<1>1. /\ sweep.pc = "commit"
      /\ queue_pruned_through' = [d \in Devices |->
                Greatest(queue_pruned_through[d], sweep.top[d])]
      /\ mailbox' = [d \in Devices |-> mailbox[d] \ Batch(d)]
      /\ pruned' = [d \in Devices |-> pruned[d] \cup Seqs(Batch(d))]
      /\ sweep' = [pc |-> "read", cutoff |-> sweep.cutoff,
                   ids |-> [d \in Devices |-> {}], top |-> [d \in Devices |-> 0]]
      /\ UNCHANGED <<queue_seq, revoked, inactive, today, faults, acked, dropped>>
    BY DEF SweepCommit, Idle
<1>2. \A d \in Devices :
        /\ Seqs(mailbox[d]) = Seqs(mailbox'[d]) \cup Seqs(Batch(d))
        /\ Seqs(mailbox'[d]) \cap Seqs(Batch(d)) = {}
        /\ Seqs(Batch(d)) \subseteq Nat
    <2> TAKE d \in Devices
    <2>1. Batch(d) \in SUBSET mailbox[d] /\ mailbox'[d] = mailbox[d] \ Batch(d)
        BY <1>1 DEF Batch
    <2> QED
        BY <2>1, MovedRows
<1>3. TypeOK'
    BY <1>1, <1>2 DEF IInv, TypeOK, Greatest
<1>4. RowsNumbered' /\ DaysOrdered'
    BY <1>1, <1>3, FewerRows
<1>5. WatermarkExpired'
    <2> SUFFICES ASSUME NEW d \in Devices
                 PROVE  /\ queue_pruned_through'[d] <= queue_seq[d]
                        /\ \A r \in mailbox'[d] : r.seq <= queue_pruned_through'[d]
                                => r.day < today - ENVELOPE_TTL_DAYS
        BY <1>1 DEF WatermarkExpired
    <2>1. queue_pruned_through'[d] \in {queue_pruned_through[d], sweep.top[d]}
        BY <1>1 DEF Greatest
    <2>2. CASE queue_pruned_through'[d] = queue_pruned_through[d]
        BY <1>1, <2>2 DEF IInv, WatermarkExpired
    <2>3. CASE queue_pruned_through'[d] = sweep.top[d] /\ sweep.top[d] \in sweep.ids[d]
        <3>1. sweep.top[d] <= queue_seq[d]
            BY <2>3 DEF IInv, SweepHolds, TypeOK
        <3>2. \A r \in mailbox[d] : r.seq <= sweep.top[d] => r.day < sweep.cutoff
            BY <2>3 DEF IInv, SweepHolds
        <3>3. sweep.cutoff <= today - ENVELOPE_TTL_DAYS
            BY <1>1 DEF IInv, SweepHolds
        <3> QED
            BY <1>1, <2>3, <3>1, <3>2, <3>3, BoundsAssumption DEF IInv, TypeOK, Row
    <2>4. CASE queue_pruned_through'[d] = sweep.top[d] /\ sweep.top[d] = 0
        BY <1>1, <2>4 DEF IInv, RowsNumbered, TypeOK
    <2> QED
        BY <2>1, <2>2, <2>3, <2>4 DEF IInv, SweepHolds
<1>6. SweepHolds'
    BY <1>1, <1>3 DEF IInv, SweepHolds, TypeOK
<1>7. LossIsAnnounced'
    <2> SUFFICES ASSUME NEW d \in Devices, NEW s \in pruned'[d]
                 PROVE  s <= queue_pruned_through'[d]
        BY DEF LossIsAnnounced
    <2>1. /\ queue_pruned_through'[d] \in Nat /\ s \in Nat
          /\ queue_pruned_through'[d] >= queue_pruned_through[d]
          /\ queue_pruned_through'[d] >= sweep.top[d]
        BY <1>1, <1>3 DEF IInv, TypeOK, Greatest
    <2>2. CASE s \in pruned[d]
        BY <2>1, <2>2 DEF IInv, LossIsAnnounced, TypeOK
    <2>3. CASE s \in Seqs(Batch(d))
        <3>1. s <= sweep.top[d]
            BY <1>1, <2>3 DEF IInv, SweepHolds, Seqs
        <3> QED
            BY <2>1, <3>1 DEF IInv, TypeOK
    <2> QED
        BY <1>1, <2>2, <2>3
<1>8. Ledger'
    <2> SUFFICES ASSUME NEW d \in Devices
                 PROVE  /\ 1..queue_seq[d] = Seqs(mailbox'[d]) \cup acked[d]
                                \cup pruned'[d] \cup dropped[d]
                        /\ \A r1, r2 \in mailbox'[d] : r1.seq = r2.seq => r1 = r2
                        /\ Seqs(mailbox'[d]) \cap (acked[d] \cup pruned'[d] \cup dropped[d]) = {}
                        /\ acked[d] \cap (pruned'[d] \cup dropped[d]) = {}
                        /\ pruned'[d] \cap dropped[d] = {}
        BY <1>1 DEF Ledger, Seqs
    <2>1. mailbox'[d] = mailbox[d] \ Batch(d) /\ pruned'[d] = pruned[d] \cup Seqs(Batch(d))
        BY <1>1
    <2>2. \A r1, r2 \in mailbox'[d] : r1.seq = r2.seq => r1 = r2
        BY <2>1 DEF IInv, Ledger
    <2>3. /\ 1..queue_seq[d] = Seqs(mailbox[d]) \cup acked[d] \cup pruned[d] \cup dropped[d]
          /\ Seqs(mailbox[d]) \cap (acked[d] \cup pruned[d] \cup dropped[d]) = {}
          /\ acked[d] \cap (pruned[d] \cup dropped[d]) = {}
          /\ pruned[d] \cap dropped[d] = {}
        BY DEF IInv, Ledger
    <2> QED
        BY <1>2, <2>1, <2>2, <2>3
<1> QED
    BY <1>3, <1>4, <1>5, <1>6, <1>7, <1>8 DEF IInv

-----------------------------------------------------------------------------

\* The inductive step, one action at a time.
LEMMA NextIInv == IInv /\ [Next]_vars => IInv'
<1> SUFFICES ASSUME IInv, [Next]_vars
             PROVE  IInv'
    OBVIOUS
<1>1. ASSUME NEW batch \in Batches, Send(batch) PROVE IInv'
    BY <1>1, SendIInv
<1>2. ASSUME NEW d \in Devices, NEW ids, Ack(d, ids) PROVE IInv'
    BY <1>2, AckIInv
<1>3. ASSUME NEW d \in Devices, Revoke(d) PROVE IInv'
    BY <1>3, RevokeIInv
<1>4. ASSUME NEW d \in Devices, Deactivate(d) \/ Activate(d) PROVE IInv'
    <2>1. TypeOK' /\ today' >= today
        BY <1>4 DEF Deactivate, Activate, IInv, TypeOK, history
    <2> QED
        BY <1>4, <2>1, QuietIInv DEF Deactivate, Activate
<1>5. CASE Sweep
    BY <1>5, SweepReadIInv, SweepIdleIInv, SweepAggregateIInv, SweepCommitIInv DEF Sweep
<1>6. CASE SweepFail
    BY <1>6, SweepIdleIInv
<1>7. CASE NextDay
    <2>1. TypeOK' /\ today' >= today
        BY <1>7 DEF NextDay, IInv, TypeOK, history, deviceVars
    <2> QED
        BY <1>7, <2>1, QuietIInv DEF NextDay, deviceVars
<1>8. CASE UNCHANGED vars
    <2>1. TypeOK' /\ today' >= today
        BY <1>8 DEF vars, IInv, TypeOK, history, deviceVars
    <2> QED
        BY <1>8, <2>1, QuietIInv DEF vars, deviceVars
<1> QED
    BY <1>1, <1>2, <1>3, <1>4, <1>5, <1>6, <1>7, <1>8 DEF Next

LEMMA SpecIInv == Spec => []IInv
BY InitIInv, NextIInv, PTL DEF Spec

\* Every variable keeps its type in every behaviour of the mailbox.
THEOREM TypeCorrect == Spec => []TypeOK
<1>1. IInv => TypeOK
    BY DEF IInv
<1> QED
    BY <1>1, SpecIInv, PTL

\* Every number a device was given is queued, acknowledged, pruned or dropped,
\* and in only one of these, whatever send, ack, revoke and the sweep do beside
\* each other.
THEOREM LedgerHolds == Spec => []Ledger
<1>1. IInv => Ledger
    BY DEF IInv
<1> QED
    BY <1>1, SpecIInv, PTL

\* The watermark the drain answers with is true both ways: no row the sweep
\* removed is above it, and it never passes a row that is still inside its
\* retention window.
THEOREM WatermarkHolds == Spec => []WatermarkIsTrue
<1>1. IInv => RetainedIsAboveWatermark
    BY BoundsAssumption DEF IInv, WatermarkExpired, RetainedIsAboveWatermark, TypeOK, Row
<1>2. IInv => WatermarkIsTrue
    BY <1>1 DEF IInv, WatermarkIsTrue
<1> QED
    BY <1>2, SpecIInv, PTL

\* The counter and the watermark of a device never go back, and only a
\* committing sweep moves the watermark.
THEOREM CountersOnlyGrow == Spec => CountersGrow
<1> DEFINE Grows == \A d \in Devices :
        /\ queue_seq'[d] >= queue_seq[d]
        /\ queue_pruned_through'[d] >= queue_pruned_through[d]
        /\ queue_pruned_through'[d] # queue_pruned_through[d] => sweep.pc = "commit"
<1>1. IInv /\ [Next]_vars => [Grows]_vars
    <2> SUFFICES ASSUME IInv, Next, NEW d \in Devices
                 PROVE  /\ queue_seq'[d] >= queue_seq[d]
                        /\ queue_pruned_through'[d] >= queue_pruned_through[d]
                        /\ queue_pruned_through'[d] # queue_pruned_through[d] => sweep.pc = "commit"
        OBVIOUS
    <2> USE DEF IInv, TypeOK
    <2>1. ASSUME NEW batch \in Batches, Send(batch)
          PROVE  queue_seq'[d] >= queue_seq[d] /\ queue_pruned_through' = queue_pruned_through
        <3>1. Len(batch[d]) \in Nat
            BY SizesAssumption
        <3> QED
            BY <2>1, <3>1 DEF Send
    <2>2. CASE SweepCommit
        BY <2>2 DEF SweepCommit, Greatest
    <2>3. CASE /\ ~ SweepCommit
               /\ ~ \E batch \in Batches : Send(batch)
        <3>1. UNCHANGED <<queue_seq, queue_pruned_through>>
            BY <2>3 DEF Next, Sweep, Ack, Revoke, Deactivate, Activate, SweepStart,
                SweepRead, SweepDone, SweepAggregate, SweepFail, NextDay, deviceVars
        <3> QED
            BY <3>1
    <2> QED
        BY <2>1, <2>2, <2>3
<1> QED
    BY <1>1, SpecIInv, PTL DEF Spec, CountersGrow
=============================================================================
