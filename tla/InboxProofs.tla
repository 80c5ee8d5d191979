---------------------------- MODULE InboxProofs ----------------------------
(***************************************************************************)
(* Proofs about InboxSync for every mailbox, every number of groups, every *)
(* page size, inbox bound and bound on faults.                             *)
(*                                                                         *)
(* None of the properties is inductive.  That an acknowledged envelope is  *)
(* kept depends on what a row promises in each of its states, and on the   *)
(* acknowledgements that are still on the wire (AcksFit).  That an outcome *)
(* is reached once depends on no page bringing back an envelope whose row  *)
(* is gone: such an envelope lies below the baseline, and a row leaves     *)
(* only in a state that shows the server has no copy (Fits, Served).  What *)
(* the engine read before an await is tied to the state it meets after it  *)
(* (EngineFits), and the baseline to the losses on record (CheckpointFits).*)
(* Their conjunction with the mailbox's own invariant, SyncIInv, is        *)
(* inductive; the lemmas below show it action by action.                   *)
(***************************************************************************)
EXTENDS InboxSync, MailboxProofs

Rows == [st : States, held : {"no", "initial", "followUp"}, wait : BOOLEAN]

Pcs == {"idle", "inbox", "inspect", "acks", "acking", "acked", "ackless",
        "drain", "authed", "page"}

Engines ==
    [pc : Pcs, at : Nat, handled : SUBSET Nat, batch : SUBSET Nat, seen : Nat,
     rows : SUBSET Nat, more : {"first", "yes", "no"}, moved : BOOLEAN]

\* The envelope of the row has not had its outcome.
Pending(r) == r.held # "no" \/ r.st \in {"received", "inspecting"}

\* The row shows that the server has no copy any more: it was acknowledged, or
\* it is held or released after its acknowledgement.
Served(r) ==
    \/ r.st \in {"acknowledged", "held"}
    \/ r.held # "no" /\ r.st \in {"received", "inspecting"}

\* What a row of envelope s says is so: of its outcome (n is how often it was
\* reached) and of the server's copy.
RowFits(s, r, n) ==
    /\ r \in Rows
    /\ r.st = "held" => r.held # "no"
    /\ r.st = "acknowledged" => r.held = "no"
    /\ n = IF Pending(r) THEN 0 ELSE 1
    /\ Served(r) => s \notin Seqs(mailbox[me])

\* The rows fit; and an envelope without a row that had its outcome is below the
\* baseline, so no page makes a new row of it.
Fits(ib, oc, base) ==
    /\ \A s \in DOMAIN ib : RowFits(s, ib[s], oc[s])
    /\ \A s \in 1..MaxSeq :
            s \notin DOMAIN ib => oc[s] = 0 \/ (oc[s] = 1 /\ s <= base)

\* Applied or quarantined, or held here.
Keeps(ib, oc, s) == oc[s] = 1 \/ s \in Marked(ib)

\* Whatever is acknowledged, or asked to be, has its outcome or is held.
AcksFit ==
    /\ \A s \in acked[me] : Keeps(inbox, outcomes, s)
    /\ \A ids \in wire : ids \subseteq 1..queue_seq[me] /\ \A s \in ids : Keeps(inbox, outcomes, s)

\* What the engine holds in memory, and from which state of the server.
EngineFits ==
    /\ engine \in Engines
    /\ engine.pc = "inspect" =>
            engine.at \in DOMAIN inbox /\ inbox[engine.at].st = "inspecting"
    /\ \A s \in engine.batch :
            /\ engine.pc \in {"acking", "acked"}
            /\ s \in DOMAIN inbox /\ inbox[s].st = "acknowledgementSending"
            /\ engine.pc = "acked" => s \notin Seqs(mailbox[me])
    /\ engine.rows \subseteq 1..queue_seq[me]
    /\ engine.pc \in {"authed", "page"} =>
            prunedSeen <= engine.seen /\ engine.seen <= queue_pruned_through[me]

\* The checkpoint: every loss it passed was recorded, and so was every watermark
\* it stored that is still above it.
CheckpointFits ==
    /\ contiguous \in 0..queue_seq[me]
    /\ prunedSeen <= queue_pruned_through[me]
    /\ prunedSeen <= contiguous \/ prunedSeen <= told
    /\ \A s \in 1..contiguous : Missed(s) => s <= told
    /\ requests \subseteq Groups
    /\ gap = (requests # {})
    /\ refused = FALSE

SyncTypes ==
    /\ DOMAIN inbox \subseteq 1..queue_seq[me]
    /\ queue_seq[me] <= MaxSeq
    /\ prunedSeen \in Nat
    /\ told \in Nat
    /\ outcomes \in [1..MaxSeq -> Nat]

SyncIInv ==
    /\ IInv
    /\ SyncTypes
    /\ Fits(inbox, outcomes, contiguous)
    /\ AcksFit
    /\ EngineFits
    /\ CheckpointFits
-----------------------------------------------------------------------------
(* What a transaction may do to a row. *)

\* The row stays a sound one, and the server's copy is gone where it says so.
Sound(s, r, q) ==
    /\ q \in Rows
    /\ q.st = "held" => q.held # "no"
    /\ q.st = "acknowledged" => q.held = "no"
    /\ Served(q) => Served(r) \/ s \notin Seqs(mailbox[me])

\* The envelope reaches its outcome.
Settles(s, r, q) == Sound(s, r, q) /\ Pending(r) /\ ~Pending(q)

\* It does not, and a held row stays marked.
Moves(s, r, q) ==
    /\ Sound(s, r, q)
    /\ Pending(r) <=> Pending(q)
    /\ r.held # "no" => q.held # "no"

Plus(oc, S) == [s \in 1..MaxSeq |-> oc[s] + IF s \in S THEN 1 ELSE 0]

\* Rows rewritten in place, those of S reaching their outcome, still fit, and
\* nothing kept is given up.
LEMMA TurnFits ==
    ASSUME NEW ib, NEW oc \in [1..MaxSeq -> Nat], NEW base, Fits(ib, oc, base),
           DOMAIN ib \subseteq 1..MaxSeq,
           NEW ib2, DOMAIN ib2 = DOMAIN ib, NEW S \in SUBSET DOMAIN ib,
           \A s \in S : Settles(s, ib[s], ib2[s]),
           \A s \in DOMAIN ib \ S : Moves(s, ib[s], ib2[s])
    PROVE  /\ Fits(ib2, Plus(oc, S), base)
           /\ \A s \in 1..MaxSeq : Keeps(ib, oc, s) => Keeps(ib2, Plus(oc, S), s)
<1>1. \A s \in S : Plus(oc, S)[s] = oc[s] + 1
    BY DEF Plus
<1>2. \A s \in (1..MaxSeq) \ S : Plus(oc, S)[s] = oc[s]
    BY DEF Plus
<1>3. \A s \in S : RowFits(s, ib2[s], Plus(oc, S)[s])
    <2> TAKE s \in S
    <2>1. RowFits(s, ib[s], oc[s]) /\ Settles(s, ib[s], ib2[s])
        BY DEF Fits
    <2>2. oc[s] = 0 /\ Plus(oc, S)[s] = 1
        BY <1>1, <2>1 DEF RowFits, Settles
    <2> QED
        BY <2>1, <2>2 DEF RowFits, Settles, Sound
<1>4. \A s \in DOMAIN ib \ S : RowFits(s, ib2[s], Plus(oc, S)[s])
    <2> TAKE s \in DOMAIN ib \ S
    <2>1. RowFits(s, ib[s], oc[s]) /\ Moves(s, ib[s], ib2[s])
        BY DEF Fits
    <2>2. Plus(oc, S)[s] = oc[s]
        BY <1>2
    <2> QED
        BY <2>1, <2>2 DEF RowFits, Moves, Sound
<1>5. Fits(ib2, Plus(oc, S), base)
    BY <1>2, <1>3, <1>4 DEF Fits
<1>6. ASSUME NEW s \in 1..MaxSeq, Keeps(ib, oc, s)
      PROVE  Keeps(ib2, Plus(oc, S), s)
    <2>1. CASE s \in S
        <3>1. RowFits(s, ib2[s], Plus(oc, S)[s]) /\ ~Pending(ib2[s])
            BY <1>3, <2>1 DEF Settles
        <3> QED
            BY <3>1 DEF RowFits, Keeps
    <2>2. CASE s \in DOMAIN ib \ S
        <3>1. Moves(s, ib[s], ib2[s]) /\ Plus(oc, S)[s] = oc[s]
            BY <1>2, <2>2
        <3> QED
            BY <1>6, <2>2, <3>1 DEF Moves, Keeps, Marked
    <2>3. CASE s \notin DOMAIN ib
        BY <1>2, <1>6, <2>3 DEF Keeps, Marked
    <2> QED
        BY <2>1, <2>2, <2>3
<1> QED
    BY <1>5, <1>6

\* Rows that leave with the baseline had their outcome and are below it.
LEMMA TrimFits ==
    ASSUME NEW ib, NEW oc, NEW base \in Nat, Fits(ib, oc, base),
           DOMAIN ib \subseteq 1..MaxSeq,
           NEW upTo \in Nat, base <= upTo
    PROVE  /\ Fits(Trim(ib, upTo), oc, upTo)
           /\ \A s \in 1..MaxSeq : Keeps(ib, oc, s) => Keeps(Trim(ib, upTo), oc, s)
           /\ DOMAIN Trim(ib, upTo) \subseteq DOMAIN ib
           /\ \A s \in DOMAIN Trim(ib, upTo) : Trim(ib, upTo)[s] = ib[s]
           /\ \A s \in DOMAIN ib \ DOMAIN Trim(ib, upTo) :
                    oc[s] = 1 /\ ib[s].st = "acknowledged"
<1> DEFINE t == Trim(ib, upTo)
<1>1. /\ DOMAIN t = {s \in DOMAIN ib : ~(ib[s].st = "acknowledged" /\ s <= upTo)}
      /\ \A s \in DOMAIN t : t[s] = ib[s]
    BY DEF Trim, Restrict
<1> HIDE DEF t
<1>2. \A s \in DOMAIN ib : RowFits(s, ib[s], oc[s])
    BY DEF Fits
<1>3. \A s \in DOMAIN ib \ DOMAIN t : oc[s] = 1 /\ ib[s].st = "acknowledged" /\ s <= upTo
    BY <1>1, <1>2 DEF RowFits, Pending
<1>4. Fits(t, oc, upTo)
    BY <1>1, <1>2, <1>3 DEF Fits
<1>5. \A s \in 1..MaxSeq : Keeps(ib, oc, s) => Keeps(t, oc, s)
    BY <1>1, <1>3 DEF Keeps, Marked
<1> QED
    BY <1>1, <1>3, <1>4, <1>5 DEF t

\* The walk from a baseline goes up, stays within the rows, and passes only rows
\* that are acknowledged or held.
LEMMA WalkPasses ==
    ASSUME NEW n \in Nat, NEW from \in 0..n, NEW ib, DOMAIN ib \subseteq 1..n
    PROVE  /\ Walk(from, ib) \in from..n
           /\ \A k \in (from + 1)..Walk(from, ib) :
                    k \in DOMAIN ib /\ ib[k].st \in {"acknowledged", "held"}
<1> DEFINE W == {from} \cup {m \in DOMAIN ib :
                    \A k \in (from + 1)..m : k \in InState(ib, {"acknowledged", "held"})}
<1>1. W \in SUBSET (0..n) /\ W # {} /\ from \in W
    OBVIOUS
<1>2. Max(W) \in W /\ \A y \in W : y <= Max(W)
    BY <1>1, MaxIsGreatest, Zenon
<1>3. Walk(from, ib) = Max(W)
    BY DEF Walk
<1>4. Max(W) \in from..n
    BY <1>1, <1>2
<1>5. \A k \in (from + 1)..Max(W) : k \in InState(ib, {"acknowledged", "held"})
    BY <1>2
<1> QED
    BY <1>3, <1>4, <1>5 DEF InState

\* A row left alone moves.
LEMMA SameRow ==
    ASSUME NEW s, NEW r, NEW n, RowFits(s, r, n)
    PROVE  Moves(s, r, r)
BY DEF RowFits, Moves, Sound

\* A marked row that is retired reaches its outcome; what it still owes the
\* server it keeps.
LEMMA RetiredSettles ==
    ASSUME NEW s, NEW r, NEW n, RowFits(s, r, n), r.held # "no"
    PROVE  Settles(s, r, RetiredRow(r))
<1>1. r \in Rows /\ r.st # "acknowledged"
    BY DEF RowFits
<1>2. CASE r.st \in {"readyToAcknowledge", "acknowledgementSending"}
    <2>1. RetiredRow(r) = [r EXCEPT !.held = "no"]
        BY <1>2 DEF RetiredRow
    <2>2. RetiredRow(r) \in Rows /\ RetiredRow(r).st = r.st /\ RetiredRow(r).held = "no"
        BY <1>1, <2>1 DEF Rows
    <2> QED
        BY <1>2, <2>2 DEF Settles, Sound, Pending, Served
<1>3. CASE r.st \notin {"readyToAcknowledge", "acknowledgementSending"}
    <2>1. RetiredRow(r) = [st |-> "acknowledged", held |-> "no", wait |-> FALSE]
        BY <1>3 DEF RetiredRow
    <2>2. Served(r)
        BY <1>1, <1>3 DEF Rows, States, Served
    <2> QED
        BY <2>1, <2>2 DEF Settles, Sound, Pending, Served, Rows, States
<1> QED
    BY <1>2, <1>3

\* An inspected row that is committed or quarantined reaches its outcome.
LEMMA CommittedSettles ==
    ASSUME NEW s, NEW r, NEW n, RowFits(s, r, n), r.st = "inspecting"
    PROVE  Settles(s, r, CommittedRow(r))
<1>1. CASE r.held = "no"
    <2>1. CommittedRow(r) = [st |-> "readyToAcknowledge", held |-> "no", wait |-> FALSE]
        BY <1>1 DEF CommittedRow
    <2> QED
        BY <1>1, <2>1 DEF Settles, Sound, Pending, Served, Rows, States
<1>2. CASE r.held # "no"
    <2>1. CommittedRow(r) = [st |-> "acknowledged", held |-> "no", wait |-> FALSE]
        BY <1>2 DEF CommittedRow
    <2> QED
        BY <1>2, <2>1 DEF Settles, Sound, Pending, Served, Rows, States
<1> QED
    BY <1>1, <1>2

\* A row whose acknowledgement was answered is acknowledged or held.
LEMMA AcknowledgedMoves ==
    ASSUME NEW s, NEW r, NEW n, RowFits(s, r, n), r.st = "acknowledgementSending",
           s \notin Seqs(mailbox[me])
    PROVE  Moves(s, r, AcknowledgedRow(r))
<1>1. AcknowledgedRow(r) =
        [r EXCEPT !.st = IF r.held = "no" THEN "acknowledged" ELSE "held", !.wait = FALSE]
    BY DEF AcknowledgedRow
<1>2. /\ AcknowledgedRow(r) \in Rows
      /\ AcknowledgedRow(r).st = IF r.held = "no" THEN "acknowledged" ELSE "held"
      /\ AcknowledgedRow(r).held = r.held
    BY <1>1, Zenon DEF RowFits, Rows, States
<1> QED
    BY <1>2 DEF Moves, Sound, Pending, Served

\* What else a transaction writes into a row: a new state that claims neither an
\* outcome nor the server's copy that the row did not claim before.
LEMMA RestatedMoves ==
    ASSUME NEW s, NEW r, NEW n, RowFits(s, r, n),
           NEW q \in Rows, q.held = r.held,
           \/ /\ r.st \in {"received", "inspecting"}
              /\ q.st \in {"received", "inspecting"}
           \/ r.st = "held" /\ q.st = "received"
           \/ /\ r.st \in {"readyToAcknowledge", "acknowledgementSending"}
              /\ q.st \in {"readyToAcknowledge", "acknowledgementSending"}
    PROVE  Moves(s, r, q)
BY DEF RowFits, Moves, Sound, Pending, Served

-----------------------------------------------------------------------------
(* Steps of the client. *)

\* A step in which no envelope reaches its outcome.
LEMMA PlusNone ==
    ASSUME outcomes \in [1..MaxSeq -> Nat], outcomes' = outcomes
    PROVE  outcomes' = Plus(outcomes, {})
BY DEF Plus

\* The numbers of local rows are within the bound of the run.
LEMMA RowsBounded ==
    ASSUME SyncIInv
    PROVE  /\ DOMAIN inbox \subseteq 1..MaxSeq
           /\ DOMAIN inbox \subseteq 1..queue_seq[me]
           /\ queue_seq[me] \in Nat /\ MaxSeq \in Nat
           /\ queue_pruned_through[me] \in Nat
           /\ queue_pruned_through[me] <= queue_seq[me]
<1>1. /\ queue_seq[me] \in Nat /\ queue_pruned_through[me] \in Nat
      /\ queue_pruned_through[me] <= queue_seq[me]
    BY ClientAssumption DEF SyncIInv, IInv, TypeOK, WatermarkExpired
<1>2. MaxSeq \in Nat
    BY BoundsAssumption
<1> QED
    BY <1>1, <1>2 DEF SyncIInv, SyncTypes

\* A step that rewrites rows in place and leaves the checkpoint alone.
LEMMA InPlace ==
    ASSUME SyncIInv, UNCHANGED <<vars, contiguous, prunedSeen, gap, requests, told, refused>>,
           NEW S \in SUBSET DOMAIN inbox, outcomes' = Plus(outcomes, S),
           DOMAIN inbox' = DOMAIN inbox,
           \A s \in S : Settles(s, inbox[s], inbox'[s]),
           \A s \in DOMAIN inbox \ S : Moves(s, inbox[s], inbox'[s]),
           \A ids \in wire' :
                ids \subseteq 1..queue_seq[me] /\ \A s \in ids : Keeps(inbox, outcomes, s),
           EngineFits'
    PROVE  SyncIInv'
<1>1. IInv'
    BY NextIInv DEF SyncIInv
<1>2. /\ queue_seq' = queue_seq /\ mailbox' = mailbox /\ acked' = acked
      /\ queue_pruned_through' = queue_pruned_through
    BY DEF vars, deviceVars, history
<1>3. /\ DOMAIN inbox \subseteq 1..MaxSeq /\ DOMAIN inbox \subseteq 1..queue_seq[me]
      /\ queue_seq[me] \in Nat /\ MaxSeq \in Nat
    BY RowsBounded
<1>4. outcomes \in [1..MaxSeq -> Nat] /\ outcomes' \in [1..MaxSeq -> Nat]
    BY DEF SyncIInv, SyncTypes, Plus
<1>5. /\ Fits(inbox', outcomes', contiguous)
      /\ \A s \in 1..MaxSeq : Keeps(inbox, outcomes, s) => Keeps(inbox', outcomes', s)
    BY <1>3, <1>4, TurnFits, Zenon DEF SyncIInv
<1>6. Fits(inbox, outcomes, contiguous)'
    BY <1>2, <1>5 DEF Fits, RowFits
<1>7. SyncTypes'
    BY <1>2, <1>4 DEF SyncIInv, SyncTypes
<1>8. AcksFit'
    <2>1. acked[me] \subseteq 1..MaxSeq
        BY <1>3, ClientAssumption DEF SyncIInv, SyncTypes, IInv, Ledger
    <2>2. \A s \in acked'[me] : Keeps(inbox', outcomes', s)
        BY <1>2, <1>5, <2>1 DEF SyncIInv, AcksFit
    <2>3. \A ids \in wire' : ids \subseteq 1..MaxSeq
        BY <1>3 DEF SyncIInv, SyncTypes
    <2> QED
        BY <1>2, <1>5, <2>2, <2>3 DEF AcksFit
<1>9. CheckpointFits'
    <2>1. \A s \in 1..contiguous : Missed(s)' => Missed(s)
        <3> TAKE s \in 1..contiguous
        <3>1. s \in 1..MaxSeq
            BY <1>3 DEF SyncIInv, SyncTypes, CheckpointFits
        <3>2. outcomes'[s] = 0 => outcomes[s] = 0
            BY <1>4, <3>1 DEF Plus
        <3> QED
            BY <3>2 DEF Missed
    <2> QED
        BY <1>2, <2>1 DEF SyncIInv, CheckpointFits
<1> QED
    BY <1>1, <1>6, <1>7, <1>8, <1>9 DEF SyncIInv

\* An engine that holds nothing fits.
LEMMA EmptyHanded ==
    ASSUME engine' \in Engines, engine'.pc \notin {"inspect", "authed", "page"},
           engine'.batch = {}, engine'.rows = {}
    PROVE  EngineFits'
BY DEF EngineFits

\* At the start of a run, or when the process died.
LEMMA AtRest ==
    ASSUME NEW p \in {"idle", "inbox", "drain"}, NEW m \in {"first", "yes", "no"},
           engine' = [pc |-> p, at |-> 0, handled |-> {}, batch |-> {}, seen |-> 0,
                      rows |-> {}, more |-> m, moved |-> FALSE]
    PROVE  EngineFits'
<1>1. p \in Pcs /\ 0 \in Nat /\ {} \in SUBSET Nat
    BY DEF Pcs
<1>2. engine' \in Engines /\ engine'.pc = p /\ engine'.batch = {} /\ engine'.rows = {}
    BY <1>1, Zenon DEF Engines
<1> QED
    BY <1>2, EmptyHanded

LEMMA AtIdle == ASSUME engine' = Resting PROVE EngineFits'
<1>1. "idle" \in Pcs /\ 0 \in Nat /\ {} \in SUBSET Nat
    BY DEF Pcs
<1>2. engine' \in Engines /\ engine'.pc = "idle" /\ engine'.batch = {} /\ engine'.rows = {}
    BY <1>1, Zenon DEF Engines, Resting
<1> QED
    BY <1>2, EmptyHanded

\* A step of the engine that leaves the database alone.
LEMMA EngineOnly ==
    ASSUME SyncIInv, EngineFits',
           UNCHANGED <<vars, inbox, contiguous, prunedSeen, gap, requests, wire,
                       outcomes, told, refused>>
    PROVE  SyncIInv'
<1>1. outcomes' = Plus(outcomes, {})
    BY PlusNone DEF SyncIInv, SyncTypes
<1>2. \A s \in DOMAIN inbox : Moves(s, inbox[s], inbox[s])
    BY SameRow DEF SyncIInv, Fits
<1>3. \A ids \in wire :
        ids \subseteq 1..queue_seq[me] /\ \A s \in ids : Keeps(inbox, outcomes, s)
    BY DEF SyncIInv, AcksFit
<1> QED
    BY <1>1, <1>2, <1>3, InPlace

LEMMA EndInspectionsFits == ASSUME SyncIInv, EndInspections PROVE SyncIInv'
<1>1. engine \in Engines /\ engine.pc = "inbox" /\ engine.batch = {}
    BY DEF EndInspections, SyncIInv, EngineFits
<1>2. engine' = [engine EXCEPT !.pc = "acks", !.handled = {}]
    BY DEF EndInspections
<1>3. /\ engine' \in Engines /\ engine'.pc = "acks" /\ engine'.batch = {}
      /\ engine'.rows = engine.rows
    BY <1>1, <1>2, Zenon DEF Engines, Pcs
<1>4. EngineFits'
    BY <1>3 DEF EngineFits, SyncIInv, EndInspections, vars, deviceVars
<1> QED
    BY <1>4, EngineOnly DEF EndInspections, checkpointVars, ghostVars

LEMMA EndAcksFits == ASSUME SyncIInv, EndAcks PROVE SyncIInv'
<1>1. engine.more \in {"first", "yes", "no"}
    BY DEF SyncIInv, EngineFits, Engines
<1>2. \/ engine' = [pc |-> "drain", at |-> 0, handled |-> {}, batch |-> {}, seen |-> 0,
                    rows |-> {}, more |-> engine.more, moved |-> FALSE]
      \/ engine' = Resting
    BY Zenon DEF EndAcks, Resting
<1>3. EngineFits'
    BY <1>1, <1>2, AtIdle, AtRest
<1> QED
    BY <1>3, EngineOnly DEF EndAcks, checkpointVars, ghostVars

\* The process dies or the drain request fails: the database is as it was.
LEMMA GivenUpFits == ASSUME SyncIInv, Crash \/ DrainFailure PROVE SyncIInv'
<1>1. engine' = Resting
    BY DEF Crash, DrainFailure
<1>3. EngineFits'
    BY <1>1, AtIdle
<1> QED
    BY <1>3, EngineOnly DEF Crash, DrainFailure, checkpointVars, ghostVars

\* The watermark read at authentication is at least the stored one.
LEMMA DrainAuthenticateFits == ASSUME SyncIInv, DrainAuthenticate PROVE SyncIInv'
<1>1. engine \in Engines /\ engine.pc = "drain" /\ engine.batch = {}
    BY DEF DrainAuthenticate, SyncIInv, EngineFits
<1>2. engine' = [engine EXCEPT !.pc = "authed", !.seen = queue_pruned_through[me]]
    BY DEF DrainAuthenticate
<1>3. queue_pruned_through[me] \in Nat /\ prunedSeen <= queue_pruned_through[me]
    BY RowsBounded, Zenon DEF SyncIInv, CheckpointFits
<1>4. /\ engine' \in Engines /\ engine'.pc = "authed" /\ engine'.batch = {}
      /\ engine'.rows = engine.rows /\ engine'.seen = queue_pruned_through[me]
    BY <1>1, <1>2, <1>3, Zenon DEF Engines, Pcs
<1>5. /\ prunedSeen' = prunedSeen /\ queue_seq' = queue_seq
      /\ queue_pruned_through' = queue_pruned_through
    BY DEF DrainAuthenticate, checkpointVars, vars, deviceVars
<1>6. EngineFits'
    BY <1>3, <1>4, <1>5 DEF EngineFits, SyncIInv
<1> QED
    BY <1>6, EngineOnly DEF DrainAuthenticate, checkpointVars, ghostVars

\* The page names numbers that were given out.
LEMMA DrainReadFits == ASSUME SyncIInv, DrainRead PROVE SyncIInv'
<1>1. engine \in Engines /\ engine.pc = "authed" /\ engine.batch = {}
        /\ prunedSeen <= engine.seen /\ engine.seen <= queue_pruned_through[me]
    BY Zenon DEF DrainRead, SyncIInv, EngineFits
<1>2. PICK page \in SUBSET Seqs(mailbox[me]) :
        engine' = [engine EXCEPT !.pc = "page", !.rows = page,
                                 !.more = IF page = Seqs(mailbox[me]) THEN "no" ELSE "yes"]
    BY Zenon DEF DrainRead
<1>3. page \subseteq 1..queue_seq[me] /\ page \subseteq Nat
    BY ClientAssumption DEF SyncIInv, IInv, Ledger
<1>4. /\ engine' \in Engines /\ engine'.pc = "page" /\ engine'.batch = {}
      /\ engine'.rows = page /\ engine'.seen = engine.seen
    BY <1>1, <1>2, <1>3, Zenon DEF Engines, Pcs
<1>5. /\ prunedSeen' = prunedSeen /\ queue_seq' = queue_seq
      /\ queue_pruned_through' = queue_pruned_through
    BY DEF DrainRead, checkpointVars, vars, deviceVars
<1>6. EngineFits'
    BY <1>1, <1>3, <1>4, <1>5 DEF EngineFits
<1> QED
    BY <1>6, EngineOnly DEF DrainRead, checkpointVars, ghostVars

\* An honest server's page is refused for want of room only.
LEMMA RefusePageFits == ASSUME SyncIInv, RefusePage PROVE SyncIInv'
<1>1. engine' = Resting
    BY DEF RefusePage
<1>3. EngineFits'
    BY <1>1, AtIdle
<1>4. ~PageRefused
    <2>1. engine.pc = "page" /\ prunedSeen <= engine.seen
        BY DEF RefusePage, SyncIInv, EngineFits
    <2>2. prunedSeen \in Nat /\ engine.seen \in Nat
        BY DEF SyncIInv, SyncTypes, EngineFits, Engines
    <2> QED
        BY <2>1, <2>2 DEF PageRefused
<1>5. refused' = refused
    BY <1>4, Zenon DEF RefusePage, SyncIInv, CheckpointFits
<1> QED
    BY <1>3, <1>5, EngineOnly DEF RefusePage, checkpointVars, ghostVars

\* A step that rewrites rows and brings none to its outcome.
LEMMA NoOutcome ==
    ASSUME SyncIInv, EngineFits', DOMAIN inbox' = DOMAIN inbox,
           \A s \in DOMAIN inbox : Moves(s, inbox[s], inbox'[s]),
           UNCHANGED <<vars, contiguous, prunedSeen, gap, requests, wire, outcomes,
                       told, refused>>
    PROVE  SyncIInv'
<1>1. outcomes' = Plus(outcomes, {})
    BY PlusNone DEF SyncIInv, SyncTypes
<1>2. \A ids \in wire' :
        ids \subseteq 1..queue_seq[me] /\ \A s \in ids : Keeps(inbox, outcomes, s)
    BY DEF SyncIInv, AcksFit
<1> QED
    BY <1>1, <1>2, InPlace

\* What the engine holds is untouched when no row under inspection and no row of
\* a batch changes its state.
LEMMA EngineUntouched ==
    ASSUME SyncIInv, DOMAIN inbox' = DOMAIN inbox, UNCHANGED <<vars, engine, prunedSeen>>,
           \A s \in DOMAIN inbox :
                inbox[s].st \in {"inspecting", "acknowledgementSending"} =>
                    inbox'[s].st = inbox[s].st
    PROVE  EngineFits'
BY Zenon DEF SyncIInv, EngineFits, vars, deviceVars

LEMMA ReleaseHeldFits == ASSUME SyncIInv, ReleaseHeld PROVE SyncIInv'
<1>1. /\ DOMAIN inbox' = DOMAIN inbox
      /\ \A s \in DOMAIN inbox : inbox'[s] =
            IF inbox[s].st = "held" THEN [inbox[s] EXCEPT !.st = "received", !.wait = FALSE]
                                    ELSE inbox[s]
    BY Zenon DEF ReleaseHeld, With, InState
<1>2. \A s \in DOMAIN inbox : RowFits(s, inbox[s], outcomes[s])
    BY DEF SyncIInv, Fits
<1>3. ASSUME NEW s \in DOMAIN inbox
      PROVE  Moves(s, inbox[s], inbox'[s])
    <2>1. CASE inbox[s].st = "held"
        <3>1. inbox'[s] = [inbox[s] EXCEPT !.st = "received", !.wait = FALSE]
            BY <1>1, <2>1, Zenon
        <3>2. inbox[s] \in Rows /\ "received" \in States /\ FALSE \in BOOLEAN
            BY <1>2 DEF RowFits, States
        <3>3. /\ inbox'[s] \in Rows /\ inbox'[s].st = "received"
              /\ inbox'[s].held = inbox[s].held
            BY <3>1, <3>2, Zenon DEF Rows
        <3> QED
            BY <1>2, <2>1, <3>3, RestatedMoves, Zenon
    <2>2. CASE inbox[s].st # "held"
        BY <1>1, <1>2, <2>2, SameRow, Zenon
    <2> QED
        BY <2>1, <2>2
<1>4. EngineFits'
    <2>1. \A s \in DOMAIN inbox :
            inbox[s].st \in {"inspecting", "acknowledgementSending"} => inbox'[s].st = inbox[s].st
        BY <1>1, Zenon
    <2> QED
        BY <1>1, <2>1, EngineUntouched, Zenon DEF ReleaseHeld, checkpointVars
<1> QED
    BY <1>1, <1>3, <1>4, NoOutcome, Zenon DEF ReleaseHeld, checkpointVars, ghostVars

LEMMA RetryFallsDueFits ==
    ASSUME SyncIInv, NEW d \in DOMAIN inbox, RetryFallsDue(d)
    PROVE  SyncIInv'
<1>1. /\ DOMAIN inbox' = DOMAIN inbox
      /\ \A s \in DOMAIN inbox : inbox'[s] =
            IF s = d THEN [inbox[s] EXCEPT !.wait = FALSE] ELSE inbox[s]
    BY Zenon DEF RetryFallsDue
<1>2. \A s \in DOMAIN inbox : RowFits(s, inbox[s], outcomes[s])
    BY DEF SyncIInv, Fits
<1>3. inbox[d] \in Rows /\ RowFits(d, inbox[d], outcomes[d])
    BY <1>2 DEF RowFits
<1>4. inbox'[d] \in Rows /\ inbox'[d].st = inbox[d].st /\ inbox'[d].held = inbox[d].held
    BY <1>1, <1>3, Zenon DEF Rows
<1>5. Moves(d, inbox[d], inbox'[d])
    BY <1>3, <1>4 DEF RowFits, Moves, Sound, Pending, Served
<1>6. \A s \in DOMAIN inbox : Moves(s, inbox[s], inbox'[s])
    BY <1>1, <1>2, <1>5, SameRow
<1>7. EngineFits'
    BY <1>1, <1>4, EngineUntouched DEF RetryFallsDue, checkpointVars
<1> QED
    BY <1>1, <1>6, <1>7, NoOutcome DEF RetryFallsDue, checkpointVars, ghostVars

\* Rows that expire at the start of a run are retired; so are the follow-ups of
\* an expired initial.
LEMMA RetiredMarked ==
    ASSUME NEW ib, NEW S \in SUBSET Marked(ib)
    PROVE  Retired(ib, S) \in SUBSET Marked(ib)
BY DEF Retired, Marked

LEMMA StartRunFits ==
    ASSUME SyncIInv, NEW expired \in SUBSET Marked(inbox), StartRun(expired)
    PROVE  SyncIInv'
<1> DEFINE S == Retired(inbox, expired)
<1>1. S \in SUBSET Marked(inbox)
    BY RetiredMarked
<1>2. /\ DOMAIN inbox' = DOMAIN inbox
      /\ \A s \in DOMAIN inbox : inbox'[s] = IF s \in S THEN RetiredRow(inbox[s]) ELSE inbox[s]
    BY DEF StartRun, With
<1>3. outcomes' = Plus(outcomes, S)
    BY DEF StartRun, Reached, Plus
<1> HIDE DEF S
<1>4. \A s \in DOMAIN inbox : RowFits(s, inbox[s], outcomes[s])
    BY DEF SyncIInv, Fits
<1>5. \A s \in S : s \in DOMAIN inbox /\ inbox[s].held # "no"
    BY <1>1 DEF Marked
<1>6. \A s \in S : Settles(s, inbox[s], inbox'[s])
    BY <1>2, <1>4, <1>5, RetiredSettles
<1>7. \A s \in DOMAIN inbox \ S : Moves(s, inbox[s], inbox'[s])
    BY <1>2, <1>4, SameRow
<1>8. EngineFits'
    <2>1. engine' = [pc |-> "inbox", at |-> 0, handled |-> {}, batch |-> {}, seen |-> 0,
                     rows |-> {}, more |-> "first", moved |-> FALSE]
        BY Zenon DEF StartRun, Resting
    <2> QED
        BY <2>1, AtRest
<1>9. \A ids \in wire' :
        ids \subseteq 1..queue_seq[me] /\ \A s \in ids : Keeps(inbox, outcomes, s)
    BY DEF SyncIInv, AcksFit, StartRun
<1> QED
    BY <1>2, <1>3, <1>5, <1>6, <1>7, <1>8, <1>9, InPlace DEF StartRun, checkpointVars

-----------------------------------------------------------------------------
(* Inspections. *)

\* A row taken up is `inspecting`, and the engine is about it.
LEMMA BeginInspectionFits == ASSUME SyncIInv, BeginInspection PROVE SyncIInv'
<1>1. PICK d \in Inspectable :
        /\ inbox' = [inbox EXCEPT ![d].st = "inspecting"]
        /\ engine' = IF d \in engine.handled
                     THEN [engine EXCEPT !.pc = "acks", !.handled = {}]
                     ELSE [engine EXCEPT !.pc = "inspect", !.at = d, !.handled = @ \cup {d}]
    BY Zenon DEF BeginInspection
<1>2. d \in DOMAIN inbox /\ inbox[d].st \in {"received", "inspecting"}
    BY DEF Inspectable, Due, InState
<1>3. /\ DOMAIN inbox' = DOMAIN inbox
      /\ \A s \in DOMAIN inbox : inbox'[s] =
            IF s = d THEN [inbox[s] EXCEPT !.st = "inspecting"] ELSE inbox[s]
    BY <1>1
<1>4. \A s \in DOMAIN inbox : RowFits(s, inbox[s], outcomes[s])
    BY DEF SyncIInv, Fits
<1>5. inbox[d] \in Rows /\ inbox'[d] = [inbox[d] EXCEPT !.st = "inspecting"]
    BY <1>2, <1>3, <1>4 DEF RowFits
<1>6. /\ inbox'[d] \in Rows /\ inbox'[d].st = "inspecting"
      /\ inbox'[d].held = inbox[d].held
    BY <1>5 DEF Rows, States
<1>7. Moves(d, inbox[d], inbox'[d])
    BY <1>2, <1>4, <1>6, RestatedMoves
<1>8. \A s \in DOMAIN inbox : Moves(s, inbox[s], inbox'[s])
    BY <1>3, <1>4, <1>7, SameRow
<1>9. engine \in Engines /\ engine.pc = "inbox" /\ engine.batch = {} /\ d \in Nat
    BY <1>2, RowsBounded DEF BeginInspection, SyncIInv, EngineFits
<1>10. /\ engine' \in Engines /\ engine'.batch = {} /\ engine'.rows = engine.rows
       /\ engine'.pc \in {"acks", "inspect"}
       /\ engine'.pc = "inspect" => engine'.at = d
    <2>1. CASE d \in engine.handled
        BY <1>1, <1>9, <2>1, Zenon DEF Engines, Pcs
    <2>2. CASE d \notin engine.handled
        BY <1>1, <1>9, <2>2, Zenon DEF Engines, Pcs
    <2> QED
        BY <2>1, <2>2
<1>11. queue_seq' = queue_seq
    BY DEF BeginInspection, vars, deviceVars
<1>12. EngineFits'
    BY <1>2, <1>3, <1>6, <1>10, <1>11 DEF EngineFits, SyncIInv
<1> QED
    BY <1>3, <1>8, <1>12, NoOutcome DEF BeginInspection, checkpointVars, ghostVars

\* The row under inspection, and what the engine holds beside it.
LEMMA UnderInspection ==
    ASSUME SyncIInv, engine.pc = "inspect"
    PROVE  /\ engine.at \in DOMAIN inbox /\ inbox[engine.at].st = "inspecting"
           /\ engine \in Engines /\ engine.batch = {}
           /\ engine.rows \subseteq 1..queue_seq[me]
           /\ \A s \in DOMAIN inbox : RowFits(s, inbox[s], outcomes[s])
           /\ inbox[engine.at] \in Rows
BY DEF SyncIInv, EngineFits, Fits, RowFits

\* An inspection that ended leaves the engine empty-handed.
LEMMA AfterInspection ==
    ASSUME SyncIInv, engine.pc = "inspect", UNCHANGED vars,
           \/ engine' = [engine EXCEPT !.pc = "inbox", !.at = 0]
           \/ engine' = [engine EXCEPT !.pc = "inbox", !.at = 0, !.moved = TRUE]
    PROVE  EngineFits'
<1>1. engine \in Engines /\ engine.batch = {} /\ engine.rows \subseteq 1..queue_seq[me]
    BY UnderInspection
<1>2. /\ engine' \in Engines /\ engine'.pc = "inbox" /\ engine'.batch = {}
      /\ engine'.rows = engine.rows
    <2>1. CASE engine' = [engine EXCEPT !.pc = "inbox", !.at = 0]
        BY <1>1, <2>1, Zenon DEF Engines, Pcs
    <2>2. CASE engine' = [engine EXCEPT !.pc = "inbox", !.at = 0, !.moved = TRUE]
        BY <1>1, <2>2, Zenon DEF Engines, Pcs
    <2> QED
        BY <2>1, <2>2
<1>3. queue_seq' = queue_seq
    BY DEF vars, deviceVars
<1> QED
    BY <1>1, <1>2, <1>3 DEF EngineFits

LEMMA RetryInspectionFits == ASSUME SyncIInv, RetryInspection PROVE SyncIInv'
<1> DEFINE d == engine.at
<1>1. engine.pc = "inspect"
    BY DEF RetryInspection
<1>2. /\ d \in DOMAIN inbox /\ inbox[d].st = "inspecting" /\ inbox[d] \in Rows
      /\ \A s \in DOMAIN inbox : RowFits(s, inbox[s], outcomes[s])
    BY <1>1, UnderInspection
<1>3. /\ DOMAIN inbox' = DOMAIN inbox
      /\ \A s \in DOMAIN inbox : s # d => inbox'[s] = inbox[s]
      /\ inbox'[d] = [inbox[d] EXCEPT !.st = "received", !.wait = TRUE]
    BY <1>2 DEF RetryInspection
<1> HIDE DEF d
<1>4. /\ inbox'[d] \in Rows /\ inbox'[d].st = "received"
      /\ inbox'[d].held = inbox[d].held
    BY <1>2, <1>3, Zenon DEF Rows, States
<1>5. Moves(d, inbox[d], inbox'[d])
    BY <1>2, <1>4, RestatedMoves
<1>6. \A s \in DOMAIN inbox : Moves(s, inbox[s], inbox'[s])
    BY <1>2, <1>3, <1>5, SameRow
<1>7. EngineFits'
    BY <1>1, AfterInspection DEF RetryInspection
<1> QED
    BY <1>3, <1>6, <1>7, NoOutcome, Zenon DEF RetryInspection, checkpointVars, ghostVars

\* A rejected row is quarantined; a released one is retired with its follow-ups.
LEMMA RejectInspectionFits == ASSUME SyncIInv, RejectInspection PROVE SyncIInv'
<1> DEFINE d == engine.at
           gone == IF inbox[d].held = "no" THEN {} ELSE Retired(inbox, {d})
           S == {d} \cup gone
<1>1. engine.pc = "inspect"
    BY DEF RejectInspection
<1>2. /\ d \in DOMAIN inbox /\ inbox[d].st = "inspecting"
      /\ \A s \in DOMAIN inbox : RowFits(s, inbox[s], outcomes[s])
    BY <1>1, UnderInspection
<1>3. outcomes' = Plus(outcomes, S)
    BY DEF RejectInspection, Reached, Plus
<1>4. /\ DOMAIN inbox' = DOMAIN inbox /\ S \in SUBSET DOMAIN inbox
      /\ \A s \in S : Settles(s, inbox[s], inbox'[s])
      /\ \A s \in DOMAIN inbox \ S : inbox'[s] = inbox[s]
    <2>1. CASE inbox[d].held = "no"
        <3>1. S = {d} /\ inbox' = [inbox EXCEPT ![d] = CommittedRow(@)]
            BY <2>1 DEF RejectInspection
        <3>2. Settles(d, inbox[d], CommittedRow(inbox[d]))
            BY <1>2, CommittedSettles
        <3> QED
            BY <1>2, <3>1, <3>2
    <2>2. CASE inbox[d].held # "no"
        <3>1. d \in Marked(inbox) /\ S = Retired(inbox, {d}) /\ S # {} /\ d \in S
            BY <1>2, <2>2 DEF Marked, Retired
        <3>2. S \in SUBSET Marked(inbox)
            BY <3>1, RetiredMarked
        <3>3. inbox' = With(inbox, S, RetiredRow)
            BY <2>2, <3>1 DEF RejectInspection
        <3>4. /\ DOMAIN inbox' = DOMAIN inbox
              /\ \A s \in DOMAIN inbox :
                    inbox'[s] = IF s \in S THEN RetiredRow(inbox[s]) ELSE inbox[s]
            BY <3>3 DEF With
        <3>5. \A s \in S : s \in DOMAIN inbox /\ inbox[s].held # "no"
            BY <3>2 DEF Marked
        <3>6. \A s \in S : Settles(s, inbox[s], RetiredRow(inbox[s]))
            BY <1>2, <3>5, RetiredSettles
        <3> HIDE DEF S
        <3> QED
            BY <3>4, <3>5, <3>6
    <2> QED
        BY <2>1, <2>2
<1> HIDE DEF S
<1>5. \A s \in DOMAIN inbox \ S : Moves(s, inbox[s], inbox'[s])
    BY <1>2, <1>4, SameRow
<1>6. EngineFits'
    BY <1>1, AfterInspection DEF RejectInspection
<1>7. \A ids \in wire' :
        ids \subseteq 1..queue_seq[me] /\ \A s \in ids : Keeps(inbox, outcomes, s)
    BY DEF SyncIInv, AcksFit, RejectInspection
<1> QED
    BY <1>3, <1>4, <1>5, <1>6, <1>7, InPlace, Zenon DEF RejectInspection, checkpointVars

\* The rows a limit takes are marked ones.
LEMMA EvictedMarked == Evicted(inbox) \in SUBSET Marked(inbox)
<1>1. {s \in Marked(inbox) : \A k \in Marked(inbox) : s <= k} \in SUBSET Marked(inbox)
    OBVIOUS
<1>2. Evicted(inbox) = {} \/
      Evicted(inbox) = Retired(inbox, {s \in Marked(inbox) : \A k \in Marked(inbox) : s <= k})
    BY DEF Evicted
<1> QED
    BY <1>1, <1>2, RetiredMarked

\* What recordEnvelopeHold leaves, case by case: a row held again, an orphan
\* quarantined, or a row held for the first time, with the rows evicted for it.
LEMMA HoldCases ==
    ASSUME NEW d, NEW kind
    PROVE  LET h == Hold(d, kind)
               ready == [st |-> "readyToAcknowledge", held |-> "no", wait |-> FALSE]
               room == With(inbox, Evicted(inbox), RetiredRow)
           IN  \/ /\ inbox[d].held # "no"
                  /\ h.rows = [inbox EXCEPT ![d] = [st |-> "held", held |-> kind, wait |-> FALSE]]
                  /\ h.out = {}
               \/ /\ inbox[d].held = "no"
                  /\ h.rows = [inbox EXCEPT ![d] = ready]
                  /\ h.out = {d}
               \/ /\ inbox[d].held = "no"
                  /\ h.rows = [room EXCEPT ![d] = ready]
                  /\ h.out = Evicted(inbox) \cup {d}
               \/ /\ inbox[d].held = "no"
                  /\ h.rows = [room EXCEPT ![d] = [ready EXCEPT !.held = kind]]
                  /\ h.out = Evicted(inbox)
BY DEF Hold

LEMMA HoldInspectionFits ==
    ASSUME SyncIInv, NEW kind \in {"initial", "followUp"}, HoldInspection(kind)
    PROVE  SyncIInv'
<1> DEFINE d == engine.at
           S == Hold(d, kind).out
           ready == [st |-> "readyToAcknowledge", held |-> "no", wait |-> FALSE]
           room == With(inbox, Evicted(inbox), RetiredRow)
<1>1. engine.pc = "inspect"
    BY DEF HoldInspection
<1>2. /\ d \in DOMAIN inbox /\ inbox[d].st = "inspecting" /\ inbox[d] \in Rows
      /\ \A s \in DOMAIN inbox : RowFits(s, inbox[s], outcomes[s])
    BY <1>1, UnderInspection
<1>3. outcomes' = Plus(outcomes, S)
    BY DEF HoldInspection, Reached, Plus
<1>4. inbox' = Hold(d, kind).rows
    BY DEF HoldInspection
<1>5. /\ DOMAIN room = DOMAIN inbox
      /\ \A s \in DOMAIN inbox : room[s] =
            IF s \in Evicted(inbox) THEN RetiredRow(inbox[s]) ELSE inbox[s]
    BY DEF With
<1>6. \A s \in Evicted(inbox) : s \in DOMAIN inbox /\ inbox[s].held # "no"
    BY EvictedMarked DEF Marked
<1>7. \A s \in Evicted(inbox) : Settles(s, inbox[s], RetiredRow(inbox[s]))
    BY <1>2, <1>6, RetiredSettles
<1>8. \A s \in DOMAIN inbox : Moves(s, inbox[s], inbox[s])
    BY <1>2, SameRow, Zenon
<1>9. inbox[d].held = "no" => Settles(d, inbox[d], ready)
    BY <1>2 DEF Settles, Sound, Pending, Served, Rows, States
<1>10. /\ DOMAIN inbox' = DOMAIN inbox /\ S \in SUBSET DOMAIN inbox
       /\ \A s \in S : Settles(s, inbox[s], inbox'[s])
       /\ \A s \in DOMAIN inbox \ S : Moves(s, inbox[s], inbox'[s])
    <2> HIDE DEF d, room, S
    <2>1. CASE /\ inbox[d].held # "no" /\ S = {}
               /\ inbox' = [inbox EXCEPT ![d] = [st |-> "held", held |-> kind, wait |-> FALSE]]
        <3>1. Moves(d, inbox[d], [st |-> "held", held |-> kind, wait |-> FALSE])
            BY <1>2, <2>1 DEF Moves, Sound, Pending, Served, Rows, States
        <3> QED
            BY <1>2, <1>8, <2>1, <3>1
    <2>2. CASE inbox[d].held = "no" /\ S = {d} /\ inbox' = [inbox EXCEPT ![d] = ready]
        <3> HIDE DEF ready
        <3> QED
            BY <1>2, <1>8, <1>9, <2>2
    <2>3. CASE /\ inbox[d].held = "no" /\ S = Evicted(inbox) \cup {d}
               /\ inbox' = [room EXCEPT ![d] = ready]
        <3> HIDE DEF ready
        <3>1. /\ DOMAIN inbox' = DOMAIN inbox /\ inbox'[d] = ready
              /\ \A s \in DOMAIN inbox : s # d => inbox'[s] = room[s]
            BY <1>2, <1>5, <2>3
        <3> QED
            BY <1>2, <1>5, <1>6, <1>7, <1>8, <1>9, <2>3, <3>1
    <2>4. CASE /\ inbox[d].held = "no" /\ S = Evicted(inbox)
               /\ inbox' = [room EXCEPT ![d] = [ready EXCEPT !.held = kind]]
        <3> DEFINE q == [ready EXCEPT !.held = kind]
        <3>1. q \in Rows /\ q.st = "readyToAcknowledge" /\ q.held = kind
            BY Zenon DEF Rows, States
        <3>2. Moves(d, inbox[d], q)
            BY <1>2, <2>4, <3>1 DEF Moves, Sound, Pending, Served
        <3> HIDE DEF q
        <3>3. /\ DOMAIN inbox' = DOMAIN inbox /\ inbox'[d] = q
              /\ \A s \in DOMAIN inbox : s # d => inbox'[s] = room[s]
            BY <1>2, <1>5, <2>4 DEF q
        <3>4. d \notin S
            BY <1>6, <2>4
        <3> QED
            BY <1>5, <1>6, <1>7, <1>8, <2>4, <3>2, <3>3, <3>4
    <2> QED
        BY <1>4, <2>1, <2>2, <2>3, <2>4, HoldCases, Zenon DEF S, room
<1>11. EngineFits'
    BY <1>1, AfterInspection DEF HoldInspection
<1>12. \A ids \in wire' :
        ids \subseteq 1..queue_seq[me] /\ \A s \in ids : Keeps(inbox, outcomes, s)
    BY DEF SyncIInv, AcksFit, HoldInspection
<1> HIDE DEF S
<1> QED
    BY <1>3, <1>10, <1>11, <1>12, InPlace DEF HoldInspection, checkpointVars

-----------------------------------------------------------------------------
(* Acknowledgements. *)

\* A batch is made of rows whose acknowledgement is owed; each has had its
\* outcome or is marked.
LEMMA BeginAckFits == ASSUME SyncIInv, BeginAck PROVE SyncIInv'
<1> DEFINE B == AckRows
<1>1. /\ B \in SUBSET DOMAIN inbox
      /\ \A s \in B : inbox[s].st \in {"readyToAcknowledge", "acknowledgementSending"}
    BY DEF AckRows, Due, InState
<1>2. /\ DOMAIN inbox' = DOMAIN inbox
      /\ \A s \in DOMAIN inbox : inbox'[s] =
            IF s \in B THEN [inbox[s] EXCEPT !.st = "acknowledgementSending"] ELSE inbox[s]
    BY DEF BeginAck, With
<1>3. /\ wire' = wire \cup {B}
      /\ engine' = [engine EXCEPT !.pc = "acking", !.batch = B]
      /\ engine.pc = "acks"
    BY DEF BeginAck
<1> HIDE DEF B
<1>4. \A s \in DOMAIN inbox : RowFits(s, inbox[s], outcomes[s])
    BY Zenon DEF SyncIInv, Fits
<1>5. ASSUME NEW s \in B
      PROVE  /\ Moves(s, inbox[s], inbox'[s])
             /\ inbox'[s].st = "acknowledgementSending"
             /\ Keeps(inbox, outcomes, s)
    <2>1. s \in DOMAIN inbox /\ inbox[s] \in Rows /\ RowFits(s, inbox[s], outcomes[s])
        BY <1>1, <1>4 DEF RowFits
    <2>2. inbox'[s] = [inbox[s] EXCEPT !.st = "acknowledgementSending"]
        BY <1>2, <2>1
    <2>3. /\ inbox'[s] \in Rows /\ inbox'[s].st = "acknowledgementSending"
          /\ inbox'[s].held = inbox[s].held
        BY <2>1, <2>2 DEF Rows, States
    <2>4. Keeps(inbox, outcomes, s)
        BY <1>1, <2>1 DEF Keeps, Marked, RowFits, Pending
    <2> QED
        BY <1>1, <2>1, <2>3, <2>4, RestatedMoves
<1>6. \A s \in DOMAIN inbox : Moves(s, inbox[s], inbox'[s])
    BY <1>2, <1>4, <1>5, SameRow
<1>7. DOMAIN inbox \subseteq 1..queue_seq[me] /\ queue_seq[me] \in Nat
    BY RowsBounded
<1>8. \A ids \in wire' :
        ids \subseteq 1..queue_seq[me] /\ \A s \in ids : Keeps(inbox, outcomes, s)
    BY <1>1, <1>3, <1>5, <1>7 DEF SyncIInv, AcksFit
<1>9. EngineFits'
    <2>1. engine \in Engines /\ engine.rows \subseteq 1..queue_seq[me] /\ B \in SUBSET Nat
        BY <1>1, <1>7 DEF SyncIInv, EngineFits
    <2>2. /\ engine' \in Engines /\ engine'.pc = "acking" /\ engine'.batch = B
          /\ engine'.rows = engine.rows
        BY <1>3, <2>1, Zenon DEF Engines, Pcs
    <2>3. queue_seq' = queue_seq
        BY DEF BeginAck, vars, deviceVars
    <2> QED
        BY <1>1, <1>2, <1>5, <2>1, <2>2, <2>3 DEF EngineFits
<1>10. outcomes' = Plus(outcomes, {})
    BY PlusNone DEF BeginAck, ghostVars, SyncIInv, SyncTypes
<1> QED
    BY <1>2, <1>6, <1>8, <1>9, <1>10, InPlace DEF BeginAck, checkpointVars, ghostVars

LEMMA AckFailureFits == ASSUME SyncIInv, AckFailure PROVE SyncIInv'
<1> DEFINE B == engine.batch
<1>1. /\ engine \in Engines /\ engine.rows \subseteq 1..queue_seq[me]
      /\ \A s \in B : s \in DOMAIN inbox /\ inbox[s].st = "acknowledgementSending"
    BY Zenon DEF SyncIInv, EngineFits
<1>2. /\ DOMAIN inbox' = DOMAIN inbox
      /\ \A s \in DOMAIN inbox : inbox'[s] =
            IF s \in B THEN [inbox[s] EXCEPT !.st = "readyToAcknowledge", !.wait = TRUE]
                       ELSE inbox[s]
    BY Zenon DEF AckFailure, With
<1>3. engine' = [engine EXCEPT !.pc = "ackless", !.batch = {}]
    BY DEF AckFailure
<1> HIDE DEF B
<1>4. \A s \in DOMAIN inbox : RowFits(s, inbox[s], outcomes[s])
    BY Zenon DEF SyncIInv, Fits
<1>5. ASSUME NEW s \in B
      PROVE  Moves(s, inbox[s], inbox'[s])
    <2>1. s \in DOMAIN inbox /\ inbox[s] \in Rows /\ RowFits(s, inbox[s], outcomes[s])
        BY <1>1, <1>4, Zenon DEF RowFits
    <2>2. inbox'[s] = [inbox[s] EXCEPT !.st = "readyToAcknowledge", !.wait = TRUE]
        BY <1>2, <2>1, Zenon
    <2>3. /\ inbox'[s] \in Rows /\ inbox'[s].st = "readyToAcknowledge"
          /\ inbox'[s].held = inbox[s].held
        BY <2>1, <2>2, Zenon DEF Rows, States
    <2> QED
        BY <1>1, <2>1, <2>3, RestatedMoves
<1>6. \A s \in DOMAIN inbox : Moves(s, inbox[s], inbox'[s])
    BY <1>2, <1>4, <1>5, SameRow, Zenon
<1>7. EngineFits'
    <2>1. /\ engine' \in Engines /\ engine'.pc = "ackless" /\ engine'.batch = {}
          /\ engine'.rows = engine.rows
        BY <1>1, <1>3, Zenon DEF Engines, Pcs
    <2>2. queue_seq' = queue_seq
        BY DEF AckFailure, vars, deviceVars
    <2> QED
        BY <1>1, <2>1, <2>2 DEF EngineFits
<1> QED
    BY <1>2, <1>6, <1>7, NoOutcome, Zenon DEF AckFailure, checkpointVars, ghostVars

-----------------------------------------------------------------------------
(* Steps that move the baseline. *)

\* Rows leave only after their outcome and with no copy left at the server.
Leaves ==
    \A s \in DOMAIN inbox \ DOMAIN inbox' :
        outcomes[s] = 1 /\ s \notin Seqs(mailbox[me])

\* The baseline goes up, and over a loss only when no group is waited for.
Passes ==
    /\ contiguous' >= contiguous
    /\ (\E s \in (contiguous + 1)..contiguous' : Missed(s)) => requests' = {}

\* An acknowledged row that fits had its outcome, and the server has no copy.
LEMMA AcknowledgedIsDone ==
    ASSUME NEW ib, NEW base, Fits(ib, outcomes, base),
           NEW s \in DOMAIN ib, ib[s].st = "acknowledged"
    PROVE  outcomes[s] = 1 /\ s \notin Seqs(mailbox[me])
BY DEF Fits, RowFits, Pending, Served

\* A transaction that moves the baseline over rows it had or losses it records.
LEMMA BaselineMoves ==
    ASSUME SyncIInv, EngineFits', UNCHANGED <<vars, wire, refused>>,
           Fits(inbox', outcomes', contiguous'),
           outcomes' \in [1..MaxSeq -> Nat],
           \A s \in 1..MaxSeq : outcomes[s] <= outcomes'[s],
           \A s \in 1..MaxSeq : Keeps(inbox, outcomes, s) => Keeps(inbox', outcomes', s),
           DOMAIN inbox' \subseteq 1..queue_seq[me],
           \A s \in DOMAIN inbox \ DOMAIN inbox' : outcomes'[s] = 1,
           contiguous' \in contiguous..queue_seq[me],
           told' \in Nat, told <= told',
           \A k \in (contiguous + 1)..contiguous' : k <= told' \/ ~Missed(k)',
           prunedSeen' \in Nat, prunedSeen' <= queue_pruned_through[me],
           prunedSeen' <= contiguous' \/ prunedSeen' <= told',
           requests' \subseteq Groups, gap' = (requests' # {})
    PROVE  SyncIInv'
<1>1. IInv'
    BY NextIInv DEF SyncIInv
<1>2. /\ queue_seq' = queue_seq /\ mailbox' = mailbox /\ acked' = acked
      /\ queue_pruned_through' = queue_pruned_through
    BY DEF vars, deviceVars, history
<1>3. /\ DOMAIN inbox \subseteq 1..MaxSeq /\ queue_seq[me] \in Nat /\ MaxSeq \in Nat
      /\ queue_seq[me] <= MaxSeq
    BY RowsBounded DEF SyncIInv, SyncTypes
<1>4. Fits(inbox, outcomes, contiguous)'
    BY <1>2 DEF Fits, RowFits
<1>5. SyncTypes'
    BY <1>2 DEF SyncIInv, SyncTypes
<1>6. AcksFit'
    <2>1. acked[me] \subseteq 1..MaxSeq
        BY <1>3, ClientAssumption DEF SyncIInv, IInv, Ledger
    <2>2. \A s \in acked'[me] : Keeps(inbox', outcomes', s)
        BY <1>2, <2>1 DEF SyncIInv, AcksFit
    <2>3. \A ids \in wire : ids \subseteq 1..queue_seq[me] /\ ids \subseteq 1..MaxSeq
        BY <1>3 DEF SyncIInv, AcksFit
    <2>4. \A ids \in wire : \A s \in ids : Keeps(inbox', outcomes', s)
        BY <2>3 DEF SyncIInv, AcksFit
    <2> QED
        BY <1>2, <2>2, <2>3, <2>4 DEF AcksFit
<1>7. CheckpointFits'
    <2>1. contiguous \in 0..queue_seq[me] /\ told \in Nat /\ refused = FALSE
        BY DEF SyncIInv, CheckpointFits, SyncTypes
    <2>2. ASSUME NEW s \in 1..contiguous', Missed(s)'
          PROVE  s <= told'
        <3>1. CASE s > contiguous
            BY <2>1, <2>2, <3>1
        <3>2. CASE s <= contiguous
            <4>1. s \in 1..MaxSeq /\ s \in 1..contiguous
                BY <1>3, <2>1, <3>2
            <4>2. s \notin DOMAIN inbox' /\ outcomes'[s] = 0
                BY <2>2 DEF Missed
            <4>3. outcomes[s] = 0
                BY <4>1, <4>2 DEF SyncIInv, SyncTypes
            <4>4. Missed(s)
                BY <4>2, <4>3 DEF Missed
            <4>5. s <= told
                BY <4>1, <4>4 DEF SyncIInv, CheckpointFits
            <4> QED
                BY <2>1, <4>1, <4>5
        <3> QED
            BY <2>1, <3>1, <3>2
    <2> QED
        BY <1>2, <2>1, <2>2 DEF CheckpointFits
<1> QED
    BY <1>1, <1>4, <1>5, <1>6, <1>7 DEF SyncIInv

\* The answer to an acknowledgement: its rows are acknowledged or held, and the
\* baseline walks over them.
LEMMA AckSuccessFits == ASSUME SyncIInv, AckSuccess PROVE SyncIInv' /\ Leaves /\ Passes
<1> DEFINE B == engine.batch
           ib == With(inbox, B, AcknowledgedRow)
           base == Walk(contiguous, ib)
<1>1. /\ engine.pc = "acked" /\ contiguous' = base /\ inbox' = Trim(ib, base)
      /\ engine' = [engine EXCEPT !.pc = "acks", !.batch = {}, !.moved = TRUE]
      /\ UNCHANGED <<vars, prunedSeen, gap, requests, wire, outcomes, told, refused>>
    BY DEF AckSuccess, ghostVars
<1>2. /\ engine \in Engines /\ engine.rows \subseteq 1..queue_seq[me]
      /\ \A s \in B : /\ s \in DOMAIN inbox /\ inbox[s].st = "acknowledgementSending"
                      /\ s \notin Seqs(mailbox[me])
    BY <1>1 DEF SyncIInv, EngineFits
<1>3. /\ DOMAIN ib = DOMAIN inbox
      /\ \A s \in DOMAIN inbox : ib[s] = IF s \in B THEN AcknowledgedRow(inbox[s]) ELSE inbox[s]
    BY DEF With
<1> HIDE DEF B, ib, base
<1>4. \A s \in DOMAIN inbox : RowFits(s, inbox[s], outcomes[s])
    BY Zenon DEF SyncIInv, Fits
<1>5. \A s \in DOMAIN inbox : Moves(s, inbox[s], ib[s])
    BY <1>2, <1>3, <1>4, AcknowledgedMoves, SameRow
<1>6. /\ DOMAIN inbox \subseteq 1..MaxSeq /\ DOMAIN inbox \subseteq 1..queue_seq[me]
      /\ queue_seq[me] \in Nat /\ contiguous \in 0..queue_seq[me]
      /\ outcomes \in [1..MaxSeq -> Nat] /\ outcomes = Plus(outcomes, {})
    BY <1>1, RowsBounded, PlusNone, Zenon DEF SyncIInv, CheckpointFits, SyncTypes
<1>7. /\ Fits(ib, outcomes, contiguous)
      /\ \A s \in 1..MaxSeq : Keeps(inbox, outcomes, s) => Keeps(ib, outcomes, s)
    <2>1. Fits(inbox, outcomes, contiguous)
        BY DEF SyncIInv
    <2>2. /\ Fits(ib, Plus(outcomes, {}), contiguous)
          /\ \A s \in 1..MaxSeq :
                Keeps(inbox, outcomes, s) => Keeps(ib, Plus(outcomes, {}), s)
        BY <1>3, <1>5, <1>6, <2>1, TurnFits
    <2> QED
        BY <1>6, <2>2
<1>8. /\ base \in contiguous..queue_seq[me]
      /\ \A k \in (contiguous + 1)..base : k \in DOMAIN ib
    BY <1>3, <1>6, WalkPasses DEF base
<1>9. /\ Fits(inbox', outcomes, base)
      /\ \A s \in 1..MaxSeq : Keeps(ib, outcomes, s) => Keeps(inbox', outcomes, s)
      /\ DOMAIN inbox' \subseteq DOMAIN ib
      /\ \A s \in DOMAIN ib \ DOMAIN inbox' :
            outcomes[s] = 1 /\ ib[s].st = "acknowledged"
    <2>1. /\ contiguous \in Nat /\ base \in Nat /\ contiguous <= base
          /\ DOMAIN ib \subseteq 1..MaxSeq
        BY <1>3, <1>6, <1>8
    <2> QED
        BY <1>1, <1>7, <2>1, TrimFits
<1>10. \A k \in (contiguous + 1)..base : ~Missed(k)'
    BY <1>1, <1>8, <1>9 DEF Missed
<1>11. EngineFits'
    <2>1. /\ engine' \in Engines /\ engine'.pc = "acks" /\ engine'.batch = {}
          /\ engine'.rows = engine.rows
        BY <1>1, <1>2, Zenon DEF Engines, Pcs
    <2>2. queue_seq' = queue_seq
        BY <1>1 DEF vars, deviceVars
    <2> QED
        BY <1>2, <2>1, <2>2 DEF EngineFits
<1>12. /\ prunedSeen \in Nat /\ told \in Nat /\ prunedSeen <= queue_pruned_through[me]
       /\ prunedSeen <= contiguous \/ prunedSeen <= told
       /\ requests \subseteq Groups /\ gap = (requests # {})
    BY DEF SyncIInv, SyncTypes, CheckpointFits
<1>13. prunedSeen <= base \/ prunedSeen <= told
    BY <1>6, <1>8, <1>12
<1>14. told <= told /\ \A s \in 1..MaxSeq : outcomes[s] <= outcomes[s]
    BY <1>6, <1>12
<1>15. SyncIInv'
    BY <1>1, <1>3, <1>6, <1>7, <1>8, <1>9, <1>10, <1>11, <1>12, <1>13, <1>14, BaselineMoves, Zenon
<1>16. Leaves
    BY <1>3, <1>7, <1>9, AcknowledgedIsDone DEF Leaves
<1>17. Passes
    BY <1>1, <1>3, <1>6, <1>8 DEF Passes, Missed
<1> QED
    BY <1>15, <1>16, <1>17

\* What settling a gap does: with a request left, nothing but to keep the gap
\* open; with none, the baseline moves through the watermark and the rows above.
LEMMA SettleGapMoves ==
    ASSUME NEW ib, NEW open, NEW n \in Nat, NEW watermark \in 0..n,
           contiguous \in 0..n, DOMAIN ib \subseteq 1..n
    PROVE  LET g == SettleGap(ib, open, watermark) IN
           /\ g.gap = (open # {})
           /\ g.contiguous \in contiguous..n
           /\ open # {} => g.contiguous = contiguous /\ g.inbox = ib
           /\ open = {} => g.inbox = Trim(ib, g.contiguous)
           /\ \A k \in (contiguous + 1)..g.contiguous :
                    k <= watermark \/ k \in DOMAIN ib
<1> DEFINE from == Greatest(watermark, contiguous)
           base == Walk(from, ib)
           g == SettleGap(ib, open, watermark)
<1>1. /\ from \in 0..n /\ from >= contiguous /\ from >= watermark
      /\ from = contiguous \/ from = watermark
    BY DEF Greatest
<1> HIDE DEF from
<1>2. /\ base \in from..n
      /\ \A k \in (from + 1)..base : k \in DOMAIN ib
    BY <1>1, WalkPasses
<1> HIDE DEF base
<1>3. /\ open = {} => g.contiguous = base /\ g.inbox = Trim(ib, base)
      /\ open # {} => g.contiguous = contiguous /\ g.inbox = ib
      /\ g.gap = (open # {})
    BY DEF SettleGap, base, from
<1> HIDE DEF g
<1>4. CASE open = {}
    <2>1. \A k \in (contiguous + 1)..base : k <= watermark \/ k \in DOMAIN ib
        BY <1>1, <1>2
    <2> QED
        BY <1>1, <1>2, <1>3, <1>4, <2>1 DEF g
<1>5. CASE open # {}
    BY <1>3, <1>5 DEF g
<1> QED
    BY <1>4, <1>5

\* An inspection that is committed: its row has its outcome, and when it brought
\* the last state a group waited for, the baseline moves over the loss.
LEMMA CommitInspectionFits ==
    ASSUME SyncIInv, NEW answered, CommitInspection(answered)
    PROVE  SyncIInv' /\ Leaves /\ Passes
<1> DEFINE d == engine.at
           open == requests \ answered
           g == SettleGap(inbox, open, prunedSeen)
           ib == IF answered = {} THEN inbox ELSE g.inbox
           base == IF answered = {} THEN contiguous ELSE g.contiguous
<1>1. /\ engine.pc = "inspect"
      /\ answered \subseteq requests /\ requests' = open
      /\ contiguous' = base /\ gap' = IF answered = {} THEN gap ELSE g.gap
      /\ inbox' = [ib EXCEPT ![d] = CommittedRow(@)]
      /\ outcomes' = Plus(outcomes, {d})
      /\ engine' = [engine EXCEPT !.pc = "inbox", !.at = 0, !.moved = TRUE]
      /\ UNCHANGED <<vars, prunedSeen, wire, told, refused>>
    BY DEF CommitInspection, Reached, Plus
<1>2. /\ d \in DOMAIN inbox /\ inbox[d].st = "inspecting"
      /\ \A s \in DOMAIN inbox : RowFits(s, inbox[s], outcomes[s])
    BY <1>1, UnderInspection
<1>3. /\ DOMAIN inbox \subseteq 1..MaxSeq /\ DOMAIN inbox \subseteq 1..queue_seq[me]
      /\ queue_seq[me] \in Nat /\ MaxSeq \in Nat
      /\ contiguous \in 0..queue_seq[me] /\ prunedSeen \in 0..queue_seq[me]
      /\ outcomes \in [1..MaxSeq -> Nat] /\ told \in Nat
    <2>1. prunedSeen \in Nat /\ prunedSeen <= queue_pruned_through[me]
        BY DEF SyncIInv, SyncTypes, CheckpointFits
    <2>2. prunedSeen \in 0..queue_seq[me]
        BY <2>1, RowsBounded
    <2> QED
        BY <2>2, RowsBounded, Zenon DEF SyncIInv, SyncTypes, CheckpointFits
<1>4. /\ prunedSeen <= queue_pruned_through[me]
      /\ prunedSeen <= contiguous \/ prunedSeen <= told
      /\ requests \subseteq Groups /\ gap = (requests # {})
      /\ Fits(inbox, outcomes, contiguous)
    BY DEF SyncIInv, CheckpointFits
<1>5. /\ g.gap = (open # {})
      /\ g.contiguous \in contiguous..queue_seq[me]
      /\ open # {} => g.contiguous = contiguous /\ g.inbox = inbox
      /\ open = {} => g.inbox = Trim(inbox, g.contiguous)
      /\ \A k \in (contiguous + 1)..g.contiguous : k <= prunedSeen \/ k \in DOMAIN inbox
    BY <1>3, SettleGapMoves, Zenon
<1> HIDE DEF g
<1>6. /\ base \in contiguous..queue_seq[me] /\ contiguous \in Nat /\ base \in Nat
      /\ contiguous <= base
      /\ (base = contiguous /\ ib = inbox) \/ ib = Trim(inbox, base)
      /\ \A k \in (contiguous + 1)..base : k <= prunedSeen \/ k \in DOMAIN inbox
      /\ gap' = (requests' # {})
      /\ base = contiguous \/ requests' = {}
    <2>1. CASE answered = {}
        BY <1>1, <1>3, <1>4, <2>1
    <2>2. CASE answered # {}
        BY <1>1, <1>3, <1>5, <2>2
    <2> QED
        BY <2>1, <2>2, Zenon
<1> HIDE DEF ib, base, open
<1>7. /\ Fits(ib, outcomes, base)
      /\ \A s \in 1..MaxSeq : Keeps(inbox, outcomes, s) => Keeps(ib, outcomes, s)
      /\ DOMAIN ib \subseteq DOMAIN inbox
      /\ \A s \in DOMAIN ib : ib[s] = inbox[s]
      /\ \A s \in DOMAIN inbox \ DOMAIN ib :
            outcomes[s] = 1 /\ inbox[s].st = "acknowledged"
    <2>1. CASE base = contiguous /\ ib = inbox
        BY <1>4, <2>1, Zenon
    <2>2. CASE ib = Trim(inbox, base)
        BY <1>3, <1>4, <1>6, <2>2, TrimFits
    <2> QED
        BY <1>6, <2>1, <2>2, Zenon
<1>8. d \in DOMAIN ib /\ ib[d] = inbox[d]
    BY <1>2, <1>7
<1>9. /\ DOMAIN inbox' = DOMAIN ib /\ inbox'[d] = CommittedRow(ib[d])
      /\ \A s \in DOMAIN ib \ {d} : inbox'[s] = ib[s]
    BY <1>1, <1>8, Zenon
<1>10. \A s \in {d} : Settles(s, ib[s], inbox'[s])
    BY <1>2, <1>8, <1>9, CommittedSettles
<1>11. \A s \in DOMAIN ib \ {d} : Moves(s, ib[s], inbox'[s])
    BY <1>2, <1>7, <1>9, SameRow
<1>12. /\ Fits(inbox', outcomes', base)
       /\ \A s \in 1..MaxSeq : Keeps(ib, outcomes, s) => Keeps(inbox', outcomes', s)
    <2>1. DOMAIN ib \subseteq 1..MaxSeq /\ {d} \in SUBSET DOMAIN ib
        BY <1>3, <1>7, <1>8
    <2> QED
        BY <1>1, <1>3, <1>7, <1>9, <1>10, <1>11, <2>1, TurnFits, Zenon
<1>13. /\ outcomes' \in [1..MaxSeq -> Nat]
       /\ \A s \in 1..MaxSeq : outcomes[s] <= outcomes'[s]
       /\ \A s \in 1..MaxSeq : s # d => outcomes'[s] = outcomes[s]
    BY <1>1, <1>3 DEF Plus
<1>14. \A s \in DOMAIN inbox \ DOMAIN inbox' : outcomes'[s] = 1
    BY <1>3, <1>7, <1>8, <1>9, <1>13
<1>15. \A k \in (contiguous + 1)..base : k <= told' \/ ~Missed(k)'
    <2> TAKE k \in (contiguous + 1)..base
    <2>1. CASE k <= prunedSeen
        BY <1>1, <1>3, <1>4, <1>6, <2>1
    <2>2. CASE k \in DOMAIN inbox
        BY <1>9, <1>14, <2>2 DEF Missed
    <2> QED
        BY <1>6, <2>1, <2>2
<1>16. EngineFits'
    BY <1>1, AfterInspection
<1>17. prunedSeen <= base \/ prunedSeen <= told
    BY <1>3, <1>4, <1>6
<1>18. requests' \subseteq Groups /\ told <= told /\ DOMAIN inbox' \subseteq 1..queue_seq[me]
    BY <1>1, <1>3, <1>4, <1>7, <1>9 DEF open
<1>19. \A s \in 1..MaxSeq : Keeps(inbox, outcomes, s) => Keeps(inbox', outcomes', s)
    BY <1>7, <1>12
<1>20. /\ contiguous' \in contiguous..queue_seq[me] /\ Fits(inbox', outcomes', contiguous')
       /\ \A k \in (contiguous + 1)..contiguous' : k <= told' \/ ~Missed(k)'
    BY <1>1, <1>6, <1>12, <1>15
<1>21. /\ told' \in Nat /\ told <= told' /\ prunedSeen' \in Nat
       /\ prunedSeen' <= queue_pruned_through[me]
       /\ prunedSeen' <= contiguous' \/ prunedSeen' <= told'
    BY <1>1, <1>3, <1>4, <1>17, <1>18
<1>22. SyncIInv'
    BY <1>1, <1>6, <1>13, <1>14, <1>16, <1>18, <1>19, <1>20, <1>21, BaselineMoves, Zenon
<1>23. Leaves
    BY <1>4, <1>7, <1>9, AcknowledgedIsDone DEF Leaves
<1>24. Passes
    BY <1>1, <1>6 DEF Passes
<1> QED
    BY <1>22, <1>23, <1>24

\* The inbox with the fresh rows of a page.
LEMMA FreshFits ==
    ASSUME SyncIInv, NEW ib,
           ib = [s \in Fresh \cup DOMAIN inbox |-> IF s \in Fresh THEN Received ELSE inbox[s]]
    PROVE  /\ Fits(ib, outcomes, contiguous)
           /\ \A s \in 1..MaxSeq : Keeps(inbox, outcomes, s) => Keeps(ib, outcomes, s)
           /\ DOMAIN inbox \subseteq DOMAIN ib
           /\ DOMAIN ib \subseteq 1..queue_seq[me] /\ DOMAIN ib \subseteq 1..MaxSeq
<1>1. /\ DOMAIN ib = Fresh \cup DOMAIN inbox
      /\ \A s \in Fresh : ib[s] = Received
      /\ \A s \in DOMAIN inbox : s \notin Fresh /\ ib[s] = inbox[s]
    BY Zenon DEF Fresh
<1>2. /\ DOMAIN inbox \subseteq 1..queue_seq[me] /\ queue_seq[me] \in Nat
      /\ queue_seq[me] <= MaxSeq /\ MaxSeq \in Nat /\ engine.rows \subseteq 1..queue_seq[me]
      /\ contiguous \in 0..queue_seq[me]
    BY RowsBounded, Zenon DEF SyncIInv, SyncTypes, EngineFits, CheckpointFits
<1>3. \A s \in Fresh : s \in 1..queue_seq[me] /\ s \in 1..MaxSeq /\ outcomes[s] = 0
    <2> TAKE s \in Fresh
    <2>1. s \in engine.rows /\ s > contiguous /\ s \notin DOMAIN inbox
        BY DEF Fresh
    <2>2. s \in 1..queue_seq[me] /\ s \in 1..MaxSeq /\ ~(s <= contiguous)
        BY <1>2, <2>1
    <2> QED
        BY <2>1, <2>2 DEF SyncIInv, Fits
<1>4. \A s \in Fresh : RowFits(s, Received, 0)
    <2>1. Received.st = "received" /\ Received.held = "no" /\ Received \in Rows
        BY DEF Received, Rows, States
    <2> QED
        BY <2>1 DEF RowFits, Pending, Served
<1>5. Fits(ib, outcomes, contiguous)
    BY <1>1, <1>3, <1>4 DEF SyncIInv, Fits
<1>6. \A s \in 1..MaxSeq : Keeps(inbox, outcomes, s) => Keeps(ib, outcomes, s)
    BY <1>1 DEF Keeps, Marked
<1> QED
    BY <1>1, <1>2, <1>3, <1>5, <1>6

\* A page is persisted: fresh rows come in, the watermark is stored, and a loss
\* under it is recorded before the baseline may pass it.
LEMMA PersistPageFits == ASSUME SyncIInv, PersistPage PROVE SyncIInv' /\ Leaves /\ Passes
<1> DEFINE ib == [s \in Fresh \cup DOMAIN inbox |-> IF s \in Fresh THEN Received ELSE inbox[s]]
           lost == contiguous < engine.seen
           g == SettleGap(ib, Groups, engine.seen)
<1>1. /\ engine.pc = "page"
      /\ prunedSeen' = engine.seen
      /\ contiguous' = IF lost THEN g.contiguous ELSE contiguous
      /\ inbox' = IF lost THEN g.inbox ELSE ib
      /\ gap' = IF lost THEN g.gap ELSE gap
      /\ requests' = IF lost THEN Groups ELSE requests
      /\ told' = IF lost THEN Greatest(told, engine.seen) ELSE told
      /\ engine' = [engine EXCEPT !.pc = "inbox", !.seen = 0, !.rows = {}]
      /\ UNCHANGED <<vars, wire, budget, outcomes, refused>>
    BY DEF PersistPage
<1>2. /\ Fits(ib, outcomes, contiguous)
      /\ \A s \in 1..MaxSeq : Keeps(inbox, outcomes, s) => Keeps(ib, outcomes, s)
      /\ DOMAIN inbox \subseteq DOMAIN ib
      /\ DOMAIN ib \subseteq 1..queue_seq[me] /\ DOMAIN ib \subseteq 1..MaxSeq
    BY FreshFits
<1> HIDE DEF ib
<1>3. /\ engine \in Engines /\ engine.batch = {}
      /\ engine.seen \in Nat /\ engine.seen <= queue_pruned_through[me]
    BY <1>1 DEF SyncIInv, EngineFits, Engines
<1>4. /\ queue_seq[me] \in Nat /\ engine.seen \in 0..queue_seq[me]
      /\ contiguous \in 0..queue_seq[me] /\ told \in Nat
      /\ outcomes \in [1..MaxSeq -> Nat]
      /\ requests \subseteq Groups /\ gap = (requests # {})
    <2>1. engine.seen \in 0..queue_seq[me] /\ queue_seq[me] \in Nat
        BY <1>3, RowsBounded
    <2> QED
        BY <2>1 DEF SyncIInv, SyncTypes, CheckpointFits
<1>5. /\ g.gap = (Groups # {})
      /\ g.contiguous \in contiguous..queue_seq[me]
      /\ Groups # {} => g.contiguous = contiguous /\ g.inbox = ib
      /\ Groups = {} => g.inbox = Trim(ib, g.contiguous)
      /\ \A k \in (contiguous + 1)..g.contiguous : k <= engine.seen \/ k \in DOMAIN ib
    <2>1. /\ queue_seq[me] \in Nat /\ engine.seen \in 0..queue_seq[me]
          /\ contiguous \in 0..queue_seq[me] /\ DOMAIN ib \subseteq 1..queue_seq[me]
        BY <1>2, <1>4
    <2> QED
        BY <2>1, SettleGapMoves, Zenon
<1> HIDE DEF g
<1>6. /\ contiguous' \in contiguous..queue_seq[me]
      /\ (contiguous' = contiguous /\ inbox' = ib) \/ inbox' = Trim(ib, contiguous')
      /\ requests' \subseteq Groups /\ gap' = (requests' # {})
      /\ contiguous' = contiguous \/ requests' = {}
    <2>1. CASE lost
        BY <1>1, <1>4, <1>5, <2>1
    <2>2. CASE ~lost
        BY <1>1, <1>4, <2>2
    <2> QED
        BY <2>1, <2>2
<1>7. /\ told' \in Nat /\ told <= told'
      /\ prunedSeen' <= contiguous' \/ prunedSeen' <= told'
      /\ \A k \in (contiguous + 1)..contiguous' : k <= told' \/ k \in DOMAIN ib
    <2>1. CASE lost
        <3>1. told' = Greatest(told, engine.seen) /\ contiguous' = g.contiguous
            BY <1>1, <2>1
        <3>2. told' \in Nat /\ told <= told' /\ engine.seen <= told'
            BY <1>4, <3>1 DEF Greatest
        <3>3. \A k \in (contiguous + 1)..contiguous' : k <= told' \/ k \in DOMAIN ib
            BY <1>4, <1>5, <3>1, <3>2
        <3> QED
            BY <1>1, <3>2, <3>3
    <2>2. CASE ~lost
        BY <1>1, <1>4, <2>2
    <2> QED
        BY <2>1, <2>2
<1>8. /\ Fits(inbox', outcomes, contiguous')
      /\ \A s \in 1..MaxSeq : Keeps(ib, outcomes, s) => Keeps(inbox', outcomes, s)
      /\ DOMAIN inbox' \subseteq DOMAIN ib
      /\ \A s \in DOMAIN ib \ DOMAIN inbox' :
            outcomes[s] = 1 /\ ib[s].st = "acknowledged"
    <2>1. CASE contiguous' = contiguous /\ inbox' = ib
        BY <1>2, <2>1, Zenon
    <2>2. CASE inbox' = Trim(ib, contiguous')
        <3>1. contiguous \in Nat /\ contiguous' \in Nat /\ contiguous <= contiguous'
            BY <1>4, <1>6
        <3> QED
            BY <1>2, <2>2, <3>1, TrimFits
    <2> QED
        BY <1>6, <2>1, <2>2, Zenon
<1>9. \A k \in (contiguous + 1)..contiguous' : k <= told' \/ ~Missed(k)'
    BY <1>1, <1>7, <1>8 DEF Missed
<1>10. EngineFits'
    <2>1. /\ engine' \in Engines /\ engine'.pc = "inbox" /\ engine'.batch = {}
          /\ engine'.rows = {}
        BY <1>1, <1>3, Zenon DEF Engines, Pcs
    <2> QED
        BY <2>1, EmptyHanded
<1>11. /\ \A s \in 1..MaxSeq : Keeps(inbox, outcomes, s) => Keeps(inbox', outcomes', s)
       /\ \A s \in 1..MaxSeq : outcomes[s] <= outcomes'[s]
       /\ \A s \in DOMAIN inbox \ DOMAIN inbox' : outcomes'[s] = 1
       /\ DOMAIN inbox' \subseteq 1..queue_seq[me]
       /\ Fits(inbox', outcomes', contiguous') /\ outcomes' \in [1..MaxSeq -> Nat]
    BY <1>1, <1>2, <1>4, <1>8
<1>12. prunedSeen' \in Nat /\ prunedSeen' <= queue_pruned_through[me]
    BY <1>1, <1>3
<1> HIDE DEF lost
<1>13. SyncIInv'
    BY <1>1, <1>6, <1>7, <1>9, <1>10, <1>11, <1>12, BaselineMoves
<1>14. Leaves
    BY <1>2, <1>8, AcknowledgedIsDone DEF Leaves
<1>15. Passes
    BY <1>4, <1>6 DEF Passes
<1> QED
    BY <1>13, <1>14, <1>15, Zenon

-----------------------------------------------------------------------------
(* Steps of the server. *)

\* What the server may do to this device's queue beside an acknowledgement: give
\* out higher numbers, remove rows, raise the watermark.
QueueMoves ==
    /\ queue_seq'[me] \in queue_seq[me]..MaxSeq
    /\ queue_pruned_through[me] <= queue_pruned_through'[me]
    /\ \A s \in 1..queue_seq[me] : s \notin Seqs(mailbox[me]) => s \notin Seqs(mailbox'[me])

LEMMA SendMovesQueue ==
    ASSUME SyncIInv, NEW batch \in Batches, Send(batch)
    PROVE  QueueMoves /\ acked' = acked
<1>1. /\ queue_seq \in [Devices -> Nat] /\ mailbox \in [Devices -> SUBSET Row]
      /\ queue_pruned_through \in [Devices -> Nat] /\ me \in Devices
      /\ Len(batch[me]) \in Nat /\ queue_seq[me] <= MaxSeq /\ MaxSeq \in Nat
    BY SizesAssumption, ClientAssumption, BoundsAssumption
       DEF SyncIInv, SyncTypes, IInv, TypeOK
<1>2. queue_seq'[me] \in queue_seq[me]..MaxSeq
    BY <1>1 DEF Send
<1>3. queue_pruned_through' = queue_pruned_through /\ acked' = acked
    BY Zenon DEF Send, history
<1>4. \A r \in mailbox'[me] : r \in mailbox[me] \/ r.seq > queue_seq[me]
    BY <1>1 DEF Send, NewRows
<1>5. \A s \in 1..queue_seq[me] : s \notin Seqs(mailbox[me]) => s \notin Seqs(mailbox'[me])
    BY <1>1, <1>4 DEF Seqs
<1> QED
    BY <1>1, <1>2, <1>3, <1>5 DEF QueueMoves

LEMMA SweepMovesQueue ==
    ASSUME SyncIInv, Sweep \/ SweepFail \/ NextDay
    PROVE  QueueMoves /\ acked' = acked
<1>1. /\ queue_seq \in [Devices -> Nat] /\ mailbox \in [Devices -> SUBSET Row]
      /\ queue_pruned_through \in [Devices -> Nat] /\ me \in Devices
      /\ sweep.top \in [Devices -> Nat] /\ queue_seq[me] <= MaxSeq /\ MaxSeq \in Nat
    BY ClientAssumption, BoundsAssumption DEF SyncIInv, SyncTypes, IInv, TypeOK
<1>2. CASE SweepCommit
    <2>1. queue_seq' = queue_seq /\ acked' = acked /\ mailbox'[me] \subseteq mailbox[me]
        BY <1>1, <1>2 DEF SweepCommit
    <2>2. queue_pruned_through[me] <= queue_pruned_through'[me]
        BY <1>1, <1>2 DEF SweepCommit, Greatest
    <2> QED
        BY <1>1, <2>1, <2>2 DEF QueueMoves, Seqs
<1>3. CASE ~SweepCommit
    <2>1. UNCHANGED <<queue_seq, queue_pruned_through, mailbox, acked>>
        BY <1>3, Zenon DEF Sweep, SweepStart, SweepRead, SweepDone, SweepAggregate, SweepFail,
            NextDay, deviceVars, history
    <2> QED
        BY <1>1, <2>1 DEF QueueMoves
<1> QED
    BY <1>2, <1>3

\* What the client's variables say of the server stays true as its queue moves.
LEMMA QueueMovesFits ==
    ASSUME SyncIInv, IInv', QueueMoves,
           UNCHANGED <<inbox, contiguous, prunedSeen, gap, requests, outcomes, told,
                       refused>>,
           EngineFits', AcksFit'
    PROVE  SyncIInv'
<1>1. /\ queue_seq[me] \in Nat /\ queue_seq'[me] \in Nat /\ queue_seq[me] <= queue_seq'[me]
      /\ queue_seq'[me] <= MaxSeq /\ MaxSeq \in Nat
      /\ DOMAIN inbox \subseteq 1..queue_seq[me]
    BY RowsBounded DEF QueueMoves
<1>2. /\ queue_pruned_through[me] \in Nat /\ queue_pruned_through'[me] \in Nat
      /\ queue_pruned_through[me] <= queue_pruned_through'[me]
    BY RowsBounded, ClientAssumption DEF QueueMoves, IInv, TypeOK
<1>3. SyncTypes'
    <2>1. DOMAIN inbox' \subseteq 1..queue_seq'[me]
        BY <1>1
    <2> QED
        BY <1>1, <2>1 DEF SyncIInv, SyncTypes
<1>4. Fits(inbox, outcomes, contiguous)'
    <2>1. \A s \in DOMAIN inbox : RowFits(s, inbox[s], outcomes[s])
        BY DEF SyncIInv, Fits
    <2>2. \A s \in DOMAIN inbox : s \notin Seqs(mailbox[me]) => s \notin Seqs(mailbox'[me])
        BY <1>1 DEF QueueMoves
    <2>3. \A s \in DOMAIN inbox : RowFits(s, inbox[s], outcomes[s])'
        BY <2>1, <2>2 DEF RowFits
    <2> QED
        BY <2>3 DEF SyncIInv, Fits
<1>5. CheckpointFits'
    <2>1. contiguous \in 0..queue_seq'[me] /\ prunedSeen <= queue_pruned_through'[me]
        BY <1>1, <1>2 DEF SyncIInv, CheckpointFits, SyncTypes
    <2>2. \A s \in 1..contiguous : Missed(s)' => s <= told
        BY DEF SyncIInv, CheckpointFits, Missed
    <2> QED
        BY <2>1, <2>2 DEF SyncIInv, CheckpointFits
<1> QED
    BY <1>3, <1>4, <1>5 DEF SyncIInv

LEMMA ServerFits == ASSUME SyncIInv, Server PROVE SyncIInv'
<1>1. /\ UNCHANGED <<inbox, contiguous, prunedSeen, gap, requests, engine, wire, outcomes,
                     told, refused>>
      /\ Next
    BY DEF Server, clientVars, checkpointVars, ghostVars, Next
<1>2. IInv'
    BY <1>1, NextIInv DEF SyncIInv
<1>3. QueueMoves /\ acked' = acked
    BY SendMovesQueue, SweepMovesQueue DEF Server
<1>4. /\ queue_seq[me] \in Nat /\ queue_seq'[me] \in Nat /\ queue_seq[me] <= queue_seq'[me]
      /\ DOMAIN inbox \subseteq 1..queue_seq[me]
    BY <1>3, RowsBounded DEF QueueMoves
<1>5. /\ queue_pruned_through[me] \in Nat /\ queue_pruned_through'[me] \in Nat
      /\ queue_pruned_through[me] <= queue_pruned_through'[me]
    BY <1>2, <1>3, RowsBounded, ClientAssumption, Zenon DEF QueueMoves, IInv, TypeOK
<1>6. EngineFits'
    <2>1. /\ engine.rows \subseteq 1..queue_seq'[me]
          /\ \A s \in DOMAIN inbox : s \notin Seqs(mailbox[me]) => s \notin Seqs(mailbox'[me])
        BY <1>3, <1>4 DEF SyncIInv, EngineFits, QueueMoves
    <2>2. engine.pc \in {"authed", "page"} =>
            prunedSeen <= engine.seen /\ engine.seen <= queue_pruned_through'[me]
        BY <1>5 DEF SyncIInv, EngineFits, Engines
    <2> QED
        BY <1>1, <2>1, <2>2, Zenon DEF SyncIInv, EngineFits
<1>7. AcksFit'
    <2>1. 1..queue_seq[me] \subseteq 1..queue_seq'[me]
        BY <1>4
    <2>2. \A s : Keeps(inbox, outcomes, s) = Keeps(inbox', outcomes', s)
        BY <1>1
    <2> QED
        BY <1>1, <1>3, <2>1, <2>2, Zenon DEF SyncIInv, AcksFit
<1> QED
    BY <1>1, <1>2, <1>3, <1>6, <1>7, QueueMovesFits

\* An acknowledgement served, late or not, deletes what is kept here.
LEMMA ServeAckFits ==
    ASSUME SyncIInv, NEW ids \in wire, ServeAck(ids)
    PROVE  SyncIInv'
<1> DEFINE gone == {r \in mailbox[me] : r.seq \in ids}
<1>1. /\ UNCHANGED <<inbox, contiguous, prunedSeen, gap, requests, outcomes, told, refused>>
      /\ Ack(me, ids)
      /\ wire' = wire \ {ids}
      /\ engine' = IF engine.pc = "acking" /\ engine.batch = ids
                   THEN [engine EXCEPT !.pc = "acked"] ELSE engine
    BY DEF ServeAck, checkpointVars, ghostVars
<1>2. /\ mailbox' = [mailbox EXCEPT ![me] = @ \ gone]
      /\ acked' = [acked EXCEPT ![me] = @ \cup Seqs(gone)]
      /\ UNCHANGED <<queue_seq, queue_pruned_through>>
    BY <1>1 DEF Ack, deviceVars
<1>3. IInv' /\ me \in Devices
    BY <1>1, AckIInv, ClientAssumption DEF SyncIInv
<1>4. /\ queue_seq \in [Devices -> Nat] /\ mailbox \in [Devices -> SUBSET Row]
      /\ queue_pruned_through \in [Devices -> Nat] /\ acked \in [Devices -> SUBSET Nat]
      /\ queue_seq[me] <= MaxSeq /\ MaxSeq \in Nat
    BY BoundsAssumption DEF SyncIInv, SyncTypes, IInv, TypeOK
<1>5. /\ mailbox'[me] = mailbox[me] \ gone
      /\ acked'[me] = acked[me] \cup Seqs(gone)
    BY <1>2, <1>3, <1>4
<1>6. QueueMoves
    BY <1>2, <1>3, <1>4, <1>5 DEF QueueMoves, Seqs
<1>7. \A s \in ids : s \notin Seqs(mailbox'[me])
    BY <1>5, Zenon DEF Seqs
<1>8. Seqs(gone) \subseteq ids
    BY DEF Seqs
<1> HIDE DEF gone
<1>9. AcksFit'
    BY <1>1, <1>2, <1>5, <1>8 DEF SyncIInv, AcksFit
<1>10. /\ engine \in Engines /\ engine.rows \subseteq 1..queue_seq[me]
       /\ \A s \in DOMAIN inbox : s \notin Seqs(mailbox[me]) => s \notin Seqs(mailbox'[me])
    BY <1>6, RowsBounded DEF SyncIInv, EngineFits, QueueMoves
<1>11. EngineFits'
    <2>1. CASE engine.pc = "acking" /\ engine.batch = ids
        <3>1. engine' = [engine EXCEPT !.pc = "acked"]
            BY <1>1, <2>1, Zenon
        <3>2. /\ engine' \in Engines /\ engine'.pc = "acked" /\ engine'.batch = ids
              /\ engine'.rows = engine.rows
            BY <1>10, <2>1, <3>1 DEF Engines, Pcs
        <3>3. \A s \in ids : s \in DOMAIN inbox /\ inbox[s].st = "acknowledgementSending"
            BY <2>1 DEF SyncIInv, EngineFits
        <3> QED
            BY <1>1, <1>2, <1>7, <1>10, <3>2, <3>3, Zenon DEF EngineFits
    <2>2. CASE ~(engine.pc = "acking" /\ engine.batch = ids)
        <3>1. engine' = engine
            BY <1>1, <2>2
        <3> QED
            BY <1>1, <1>2, <1>10, <3>1 DEF SyncIInv, EngineFits
    <2> QED
        BY <2>1, <2>2
<1>12. UNCHANGED <<inbox, contiguous, prunedSeen, gap, requests, outcomes, told, refused>>
    BY <1>1
<1> QED
    BY <1>3, <1>6, <1>9, <1>11, <1>12, QueueMovesFits

-----------------------------------------------------------------------------

LEMMA SyncInitIInv == SyncInit => SyncIInv
<1> SUFFICES ASSUME SyncInit
             PROVE  SyncIInv
    OBVIOUS
<1>1. IInv
    BY InitIInv DEF SyncInit
<1>2. /\ queue_seq[me] = 0 /\ queue_pruned_through[me] = 0 /\ acked[me] = {}
      /\ MaxSeq \in Nat
    BY ClientAssumption, BoundsAssumption DEF SyncInit, Init
<1>3. /\ DOMAIN inbox = {} /\ contiguous = 0 /\ prunedSeen = 0 /\ gap = FALSE
      /\ requests = {} /\ wire = {} /\ told = 0 /\ refused = FALSE
      /\ outcomes = [s \in 1..MaxSeq |-> 0] /\ engine = Resting
    BY DEF SyncInit
<1>4. SyncTypes
    BY <1>2, <1>3 DEF SyncTypes
<1>5. Fits(inbox, outcomes, contiguous)
    BY <1>3 DEF Fits
<1>6. AcksFit
    BY <1>2, <1>3 DEF AcksFit
<1>7. EngineFits
    <2>1. "idle" \in Pcs /\ 0 \in Nat /\ {} \in SUBSET Nat
        BY DEF Pcs
    <2>2. engine \in Engines /\ engine.pc = "idle" /\ engine.batch = {} /\ engine.rows = {}
        BY <1>3, <2>1, Zenon DEF Engines, Resting
    <2> QED
        BY <2>2 DEF EngineFits
<1>8. CheckpointFits
    <2>1. gap = (requests # {})
        BY <1>3
    <2>2. contiguous \in 0..queue_seq[me] /\ 1..contiguous = {}
        BY <1>2, <1>3
    <2> QED
        BY <1>2, <1>3, <2>1, <2>2 DEF CheckpointFits
<1> QED
    BY <1>1, <1>4, <1>5, <1>6, <1>7, <1>8 DEF SyncIInv

\* The steps that neither remove a row nor move the baseline.
LEMMA OthersStay ==
    ASSUME SyncIInv, DOMAIN inbox' = DOMAIN inbox, contiguous' = contiguous
    PROVE  Leaves /\ Passes
<1>1. contiguous \in Nat
    BY RowsBounded DEF SyncIInv, CheckpointFits
<1> QED
    BY <1>1 DEF Leaves, Passes

LEMMA HoldKeepsRows ==
    ASSUME NEW d, NEW kind
    PROVE  DOMAIN Hold(d, kind).rows = DOMAIN inbox
<1> DEFINE room == With(inbox, Evicted(inbox), RetiredRow)
<1> DEFINE rows == Hold(d, kind).rows
<1>1. DOMAIN room = DOMAIN inbox
    BY DEF With
<1>2. \A f, r : DOMAIN [f EXCEPT ![d] = r] = DOMAIN f
    OBVIOUS
<1> DEFINE ready == [st |-> "readyToAcknowledge", held |-> "no", wait |-> FALSE]
           kept == [st |-> "held", held |-> kind, wait |-> FALSE]
           marked == [ready EXCEPT !.held = kind]
<1>3. \/ rows = [inbox EXCEPT ![d] = kept]
      \/ rows = [inbox EXCEPT ![d] = ready]
      \/ rows = [room EXCEPT ![d] = ready]
      \/ rows = [room EXCEPT ![d] = marked]
    BY HoldCases
<1> HIDE DEF rows, room, ready, kept, marked
<1>4. DOMAIN rows = DOMAIN inbox
    BY <1>1, <1>2, <1>3
<1> QED
    BY <1>4 DEF rows

\* The inductive step, one action at a time, and what no step does to the rows
\* and to the baseline.
LEMMA SyncNextIInv ==
    ASSUME SyncIInv, [SyncNext]_syncVars
    PROVE  SyncIInv' /\ Leaves /\ Passes
<1>1. CASE \E expired \in SUBSET Marked(inbox) : StartRun(expired)
    <2>1. DOMAIN inbox' = DOMAIN inbox /\ contiguous' = contiguous
        BY <1>1, Zenon DEF StartRun, With, checkpointVars
    <2> QED
        BY <1>1, <2>1, StartRunFits, OthersStay
<1>2. CASE BeginInspection \/ EndInspections \/ RetryInspection \/ RejectInspection
    <2>1. DOMAIN inbox' = DOMAIN inbox /\ contiguous' = contiguous
        BY <1>2 DEF BeginInspection, EndInspections, RetryInspection, RejectInspection, With,
            checkpointVars
    <2> QED
        BY <1>2, <2>1, BeginInspectionFits, EndInspectionsFits, RetryInspectionFits,
           RejectInspectionFits, OthersStay
<1>3. CASE \E g \in {{}} \cup {{x} : x \in requests} : CommitInspection(g)
    BY <1>3, CommitInspectionFits
<1>4. CASE \E kind \in {"initial", "followUp"} : HoldInspection(kind)
    <2>1. DOMAIN inbox' = DOMAIN inbox /\ contiguous' = contiguous
        BY <1>4, HoldKeepsRows DEF HoldInspection, checkpointVars
    <2> QED
        BY <1>4, <2>1, HoldInspectionFits, OthersStay
<1>5. CASE AckSuccess
    BY <1>5, AckSuccessFits
<1>6. CASE PersistPage
    BY <1>6, PersistPageFits
<1>7. CASE BeginAck \/ EndAcks \/ AckFailure
    <2>1. DOMAIN inbox' = DOMAIN inbox /\ contiguous' = contiguous
        BY <1>7 DEF BeginAck, EndAcks, AckFailure, With, checkpointVars
    <2> QED
        BY <1>7, <2>1, BeginAckFits, EndAcksFits, AckFailureFits, OthersStay
<1>8. CASE DrainAuthenticate \/ DrainRead \/ RefusePage \/ DrainFailure \/ Crash
    <2>1. DOMAIN inbox' = DOMAIN inbox /\ contiguous' = contiguous
        BY <1>8 DEF DrainAuthenticate, DrainRead, RefusePage, DrainFailure, Crash,
            checkpointVars
    <2> QED
        BY <1>8, <2>1, DrainAuthenticateFits, DrainReadFits, RefusePageFits, GivenUpFits,
           OthersStay
<1>9. CASE ReleaseHeld \/ \E s \in DOMAIN inbox : RetryFallsDue(s)
    <2>1. DOMAIN inbox' = DOMAIN inbox /\ contiguous' = contiguous
        BY <1>9 DEF ReleaseHeld, RetryFallsDue, With, checkpointVars
    <2> QED
        BY <1>9, <2>1, ReleaseHeldFits, RetryFallsDueFits, OthersStay
<1>10. CASE (\E ids \in wire : ServeAck(ids)) \/ Server
    <2>1. DOMAIN inbox' = DOMAIN inbox /\ contiguous' = contiguous
        BY <1>10 DEF ServeAck, Server, clientVars, checkpointVars
    <2> QED
        BY <1>10, <2>1, ServeAckFits, ServerFits, OthersStay
<1>11. CASE UNCHANGED syncVars
    <2>1. UNCHANGED <<vars, inbox, contiguous, prunedSeen, gap, requests, engine, wire,
                      outcomes, told, refused>>
        BY <1>11 DEF syncVars, clientVars, checkpointVars, ghostVars
    <2>2. EngineFits'
        BY <2>1, EngineUntouched, Zenon
    <2> QED
        BY <2>1, <2>2, EngineOnly, OthersStay
<1> QED
    BY <1>1, <1>2, <1>3, <1>4, <1>5, <1>6, <1>7, <1>8, <1>9, <1>10, <1>11
       DEF SyncNext, Engine, Inspect

LEMMA SyncSpecIInv == SyncSpec => []SyncIInv
<1>1. SyncIInv /\ [SyncNext]_syncVars => SyncIInv'
    BY SyncNextIInv
<1> QED
    BY <1>1, SyncInitIInv, PTL DEF SyncSpec

\* The baseline of the drain is true: it passes only what this device had or was
\* told is lost, and persistDrainPage never refuses an honest server's page for
\* its watermark, although that is read before the page.
THEOREM CheckpointStaysTrue == SyncSpec => []CheckpointIsTrue
<1>1. SyncIInv => CheckpointIsTrue
    <2> SUFFICES ASSUME SyncIInv
                 PROVE  CheckpointIsTrue
        OBVIOUS
    <2>1. SyncTypeOK
        <3>1. /\ DOMAIN inbox \subseteq 1..queue_seq[me] /\ contiguous \in 0..queue_seq[me]
              /\ requests \subseteq Groups /\ (gap <=> requests # {})
              /\ outcomes \in [1..MaxSeq -> Nat] /\ told \in Nat /\ refused \in BOOLEAN
            BY DEF SyncIInv, SyncTypes, CheckpointFits
        <3>2. prunedSeen \in 0..queue_pruned_through[me]
            BY RowsBounded DEF SyncIInv, SyncTypes, CheckpointFits
        <3>3. \A s \in DOMAIN inbox : inbox[s] \in Rows
            BY DEF SyncIInv, Fits, RowFits
        <3>4. /\ engine.pc = "inspect" => inbox[engine.at].st = "inspecting"
              /\ engine.batch \subseteq DOMAIN inbox
              /\ \A ids \in wire : ids \subseteq 1..queue_seq[me]
            BY DEF SyncIInv, EngineFits, AcksFit
        <3> QED
            BY <3>1, <3>2, <3>3, <3>4, Zenon DEF SyncTypeOK, Rows
    <2>2. PassedIsRecorded
        <3> SUFFICES ASSUME NEW s \in 1..contiguous, Missed(s)
                     PROVE  s <= told /\ s \notin acked[me]
            BY DEF PassedIsRecorded
        <3>1. s \notin acked[me]
            BY DEF SyncIInv, AcksFit, Keeps, Missed, Marked
        <3> QED
            BY <3>1 DEF SyncIInv, CheckpointFits
    <2>3. ServerNeverRefused
        BY DEF ServerNeverRefused, SyncIInv, CheckpointFits
    <2> QED
        BY <2>1, <2>2, <2>3 DEF CheckpointIsTrue
<1> QED
    BY <1>1, SyncSpecIInv, PTL

\* Whatever the server deleted on this device's word (recordAcknowledgement)
\* has been applied or quarantined, or is held here.
THEOREM NothingAckedIsLost == SyncSpec => []AckedIsKept
<1>1. SyncIInv => AckedIsKept
    BY DEF SyncIInv, AcksFit, Keeps, AckedIsKept, Held
<1> QED
    BY <1>1, SyncSpecIInv, PTL

\* No envelope is applied or quarantined twice, whatever is served again,
\* retried, released or retired.
THEOREM OneOutcome == SyncSpec => []OutcomeOnce
<1>1. SyncIInv => OutcomeOnce
    <2> SUFFICES ASSUME SyncIInv, NEW s \in 1..MaxSeq
                 PROVE  outcomes[s] <= 1
        BY DEF OutcomeOnce
    <2>1. s \in DOMAIN inbox => RowFits(s, inbox[s], outcomes[s])
        BY DEF SyncIInv, Fits
    <2>2. outcomes[s] = 0 \/ outcomes[s] = 1
        BY <2>1 DEF SyncIInv, Fits, RowFits
    <2> QED
        BY <2>2
<1> QED
    BY <1>1, SyncSpecIInv, PTL

\* A local row leaves the inbox only after its outcome and once no page can bring
\* its envelope back.
THEOREM RowsLeaveForGood == SyncSpec => LeavesForGood
<1>1. SyncIInv /\ [SyncNext]_syncVars => [Leaves]_syncVars
    BY SyncNextIInv
<1> QED
    BY <1>1, SyncSpecIInv, PTL DEF SyncSpec, LeavesForGood, Leaves

\* The baseline never goes back, and _acknowledgeSettledQueueGapInsideTransaction
\* steps over a lost envelope only when no group is waited for.
THEOREM LossPassedLast == SyncSpec => LossPassedWhenAnswered
<1>1. SyncIInv /\ [SyncNext]_syncVars => [Passes]_syncVars
    BY SyncNextIInv
<1> QED
    BY <1>1, SyncSpecIInv, PTL DEF SyncSpec, LossPassedWhenAnswered, Passes
=============================================================================
