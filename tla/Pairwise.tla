------------------------------ MODULE Pairwise ------------------------------
(***************************************************************************)
(* The pairwise session of two devices: the ratchet of the native core     *)
(* (pairwise.rs), the session rows that keep its states                    *)
(* (drift_pairwise_transport_store.dart), and the four ways the client     *)
(* moves them: a durable send, a volatile seal, a volatile open, and the   *)
(* inspection of a durable envelope, which reads the row in one step and   *)
(* commits in a later one.                                                 *)
(*                                                                         *)
(* Keys are symbolic.  A public key is <<device, session, position>>; a    *)
(* Diffie-Hellman result is the set of its two public keys; a root key is  *)
(* the sequence of secrets mixed into it; a chain key is its root and its  *)
(* position, and so is the message key taken from it.  An envelope opens   *)
(* under exactly the key that sealed it.                                   *)
(***************************************************************************)
EXTENDS Integers, Sequences, FiniteSets, TLC

CONSTANTS
    MAX_SKIPPED_PER_SESSION,
    MAX_SKIPPED_ACCOUNT,
    Beside,         \* whether a room's fan-out may run beside an inspection
    OneTime,        \* whether a claimed bundle has one-time prekeys: TRUE, FALSE
    Requesters,     \* devices that ask for a repair on their own account
    MaxSent,        \* bound: envelopes and frames each device seals
    MaxVolatile     \* bound: how many of them are volatile frames

VARIABLES
    primary,        \* [Devices -> Row], the row of pairwise_sessions
    alternate,      \* [Devices -> Row], the row of pairwise_session_alternates
    spent,          \* sessions whose one-time prekeys this device has consumed
    job,            \* what the inspection under way will commit
    sent,           \* every envelope and frame ever sealed
    fate            \* what became of the envelopes and frames that arrived

pairVars == <<primary, alternate, spent, job, sent, fate>>

Devices == {1, 2}
Peer(d) == 3 - d

NoId == <<0, 0>>
SignedPrekey(d) == <<d, NoId, 0>>
DH(a, b) == {a, b}
NoChain == [root |-> << >>, n |-> 0]
Chain(root) == [root |-> root, n |-> 0]

chain_step(c) == [c EXCEPT !.n = @ + 1]

\* The key pair a device draws when the session's root key takes its next secret.
Drawn(d, s) == <<d, s.id, Len(s.root) + 1>>

NoState ==
    [id |-> NoId, initiator |-> 0, primary |-> FALSE, root |-> << >>,
     sending |-> NoChain, receiving |-> NoChain,
     local |-> SignedPrekey(1), remote |-> SignedPrekey(1),
     send_count |-> 0, receive_count |-> 0, previous_send_count |-> 0,
     skipped |-> {}, issued |-> FALSE, received |-> FALSE]

\* A row: the opaque state, its version, and where an authenticated repair of the
\* session stands.
NoRow == [state |-> NoState, version |-> 0, repair |-> "ready"]
NoJob == [env |-> NoId]

PairInit ==
    /\ primary = [d \in Devices |-> NoRow]
    /\ alternate = [d \in Devices |-> NoRow]
    /\ spent = [d \in Devices |-> {}]
    /\ job = [d \in Devices |-> NoJob]
    /\ sent = {}
    /\ fate = << >>

-----------------------------------------------------------------------------
(* The ratchet. *)

\* RatchetState::decode refuses a state that is not one of these.
Decodable(s) ==
    /\ s.primary \/ s.sending = NoChain
    /\ s.send_count > 0 => s.sending # NoChain
    /\ s.receive_count > 0 => s.receiving # NoChain
    /\ ~(s.issued /\ s.received)

\* initiate: the state after the first message of a session is sealed.
Initiated(d, sid) ==
    LET pub == <<d, sid, 1>>
        root == <<sid, DH(pub, SignedPrekey(Peer(d)))>>
    IN  [NoState EXCEPT !.id = sid, !.initiator = d, !.primary = TRUE, !.root = root,
            !.sending = chain_step(Chain(root)), !.local = pub,
            !.remote = SignedPrekey(Peer(d)), !.send_count = 1]

\* accept_initial: the state of the responder.
Accepted(d, e, wins) ==
    LET root == <<e.sid, DH(SignedPrekey(d), e.pub)>>
    IN  [NoState EXCEPT !.id = e.sid, !.initiator = Peer(d), !.primary = wins,
            !.root = root, !.receiving = chain_step(Chain(root)),
            !.local = SignedPrekey(d), !.remote = e.pub, !.receive_count = 1]

\* ratchet_encrypt, first half: a sending chain is started if there is none.
Sending(d, s) ==
    LET root == Append(s.root, DH(Drawn(d, s), s.remote))
    IN  IF s.sending # NoChain THEN s
        ELSE [s EXCEPT !.root = root, !.sending = Chain(root), !.local = Drawn(d, s),
                !.previous_send_count = s.send_count, !.send_count = 0]

\* ratchet_encrypt, second half: the state once one message is sealed.
Sealed(s) == [s EXCEPT !.sending = chain_step(@), !.send_count = @ + 1]

MayEncrypt(s, others) ==
    /\ Decodable(s) /\ s.primary
    /\ others + Cardinality(s.skipped) <= MAX_SKIPPED_ACCOUNT

\* Mutant: the bound leaves out the keys the session already keeps.
WithinBoundsFresh(s, additional, others) ==
    additional <= MAX_SKIPPED_PER_SESSION /\ others + additional <= MAX_SKIPPED_ACCOUNT

\* projected_skip_within_bounds.
WithinBounds(s, additional, others) ==
    LET projected == Cardinality(s.skipped) + additional
    IN  projected <= MAX_SKIPPED_PER_SESSION /\ others + projected <= MAX_SKIPPED_ACCOUNT

\* Mutant: the skipped keys are counted from the message that arrived.
SkippedToInclusive(s, until) ==
    [s EXCEPT
        !.skipped = @ \cup {[pub |-> s.remote, n |-> i,
                key |-> [s.receiving EXCEPT !.n = @ + (i - s.receive_count)]] :
                    i \in s.receive_count..until},
        !.receiving = [@ EXCEPT !.n = @ + (until - s.receive_count)],
        !.receive_count = until]

\* skip_receiving_keys: the keys of the messages before `until` are kept.
SkippedTo(s, until) ==
    [s EXCEPT
        !.skipped = @ \cup {[pub |-> s.remote, n |-> i,
                key |-> [s.receiving EXCEPT !.n = @ + (i - s.receive_count)]] :
                    i \in s.receive_count..(until - 1)},
        !.receiving = [@ EXCEPT !.n = @ + (until - s.receive_count)],
        !.receive_count = until]

\* Mutant: the receive counter is not reset.
TurnedCounting(d, s, pub) ==
    LET receiving == Append(s.root, DH(s.local, pub))
        fresh == <<d, s.id, Len(receiving) + 1>>
        sending == Append(receiving, DH(fresh, pub))
    IN  [s EXCEPT !.previous_send_count = s.send_count, !.send_count = 0,
            !.remote = pub, !.local = fresh, !.root = sending,
            !.receiving = Chain(receiving), !.sending = Chain(sending)]

\* The ratchet step a new public key of the peer asks for.
Turned(d, s, pub) ==
    LET receiving == Append(s.root, DH(s.local, pub))
        fresh == <<d, s.id, Len(receiving) + 1>>
        sending == Append(receiving, DH(fresh, pub))
    IN  [s EXCEPT !.previous_send_count = s.send_count, !.send_count = 0,
            !.receive_count = 0, !.remote = pub, !.local = fresh, !.root = sending,
            !.receiving = Chain(receiving), !.sending = Chain(sending)]

Refused(s) == [out |-> "refused", state |-> s]

\* Mutant: the key of a late message stays in the store.
OpenedLateKept(s, e) == s

\* A late message is opened with the key kept for it, which is then erased.
OpenedLate(s, e) ==
    [s EXCEPT !.skipped = {k \in @ : ~(k.pub = e.pub /\ k.n = e.n)}]

\* inspect_repair_control: a request for repair is noted in the state.
Noted(s, e) ==
    IF e.body # "control" THEN [out |-> "opened", state |-> s]
    ELSE IF s.received THEN Refused(s)
    ELSE [out |-> "control", state |-> [s EXCEPT !.received = TRUE]]

\* ratchet_decrypt.
Decrypted(d, s, e, others) ==
    LET turn == e.pub # s.remote
        gap == IF turn THEN (e.previous_chain_length - s.receive_count) + e.n
               ELSE e.n - s.receive_count
        base == IF turn THEN Turned(d, SkippedTo(s, e.previous_chain_length), e.pub) ELSE s
        at == SkippedTo(base, e.n)
    IN  CASE ~turn /\ e.n < s.receive_count ->
                IF \E k \in s.skipped : k.pub = e.pub /\ k.n = e.n /\ k.key = e.key
                THEN Noted(OpenedLate(s, e), e) ELSE Refused(s)
          [] turn /\ e.previous_chain_length < s.receive_count -> Refused(s)
          [] ~WithinBounds(s, gap, others) -> [out |-> "repair", state |-> s]
          [] turn /\ e.previous_chain_length > s.receive_count /\ s.receiving = NoChain ->
                Refused(s)
          [] at.receiving # e.key -> Refused(s)
          [] OTHER -> Noted([at EXCEPT !.receiving = chain_step(@),
                                       !.receive_count = @ + 1], e)

-----------------------------------------------------------------------------
(* The session rows. *)

OthersSkipped(d) == Cardinality(alternate[d].state.skipped)

Held(d) == {primary[d].state.id, alternate[d].state.id}

\* _applyPrimaryTransition with an expected version: the row is overwritten in
\* place and the alternate is dropped.
UpdatePrimary(d, state, repair) ==
    /\ primary' = [primary EXCEPT ![d] =
            [state |-> state, version |-> @.version + 1, repair |-> repair]]
    /\ alternate' = [alternate EXCEPT ![d] = NoRow]

NewRow(state) == [state |-> state, version |-> 1, repair |-> "ready"]

\* _applyPrimaryTransition and _applyAlternateTransition with no expected version.
\* A primary that is there by then is moved aside as it stands.
InsertSession(d, state) ==
    \/ /\ state.primary
       /\ primary' = [primary EXCEPT ![d] = NewRow(state)]
       /\ alternate' = IF primary[d].version = 0 THEN alternate
                       ELSE [alternate EXCEPT ![d] = primary[d]]
    \/ /\ ~state.primary
       /\ alternate' = [alternate EXCEPT ![d] = NewRow(state)]
       /\ UNCHANGED primary

\* _applyDemotedExistingTransition, then the insertion of the session that won:
\* the one that lost keeps no sending chain.
DemoteAndInsert(d, state) ==
    /\ primary' = [primary EXCEPT ![d] = NewRow(state)]
    /\ alternate' = [alternate EXCEPT ![d] =
            [primary[d] EXCEPT !.state.sending = NoChain, !.state.primary = FALSE,
                               !.version = @ + 1]]

\* _eraseAuthenticatedRepairSession, then the insertion of the replacement.
ReplaceSession(d, state) ==
    primary' = [primary EXCEPT ![d] = NewRow(state)] /\ UNCHANGED alternate

\* The transition a commit asks for, decided from the row that was read.
Transition(d, e, read, state) ==
    CASE e.kind = "regular" -> "update"
      [] e.repairs # NoId -> "replace"
      [] read.version > 0 /\ state.primary -> "demote"
      [] OTHER -> "insert"

\* Mutant: the version that was read is not compared.
MayApplyBlindly(d, j) ==
    CASE j.how = "update" -> alternate[d].state.id # j.state.id
      [] j.how = "replace" -> primary[d].state.id = j.env.repairs
      [] j.how = "demote" -> alternate[d].version = 0
      [] j.how = "insert" -> j.state.id \notin Held(d)

\* Whether the rows still allow the transition; if not the store reports a conflict.
MayApply(d, j) ==
    CASE j.how = "update" ->
            /\ primary[d].version = j.read.version
            /\ alternate[d].state.id # j.state.id
      [] j.how = "replace" ->
            /\ primary[d].state.id = j.env.repairs
            /\ primary[d].repair = "requested"
            /\ alternate[d].state.id # j.state.id
      [] j.how = "demote" ->
            /\ primary[d].version = j.read.version
            /\ primary[d].state.id = j.read.state.id
            /\ alternate[d].version = 0
            /\ j.state.id \notin Held(d)
      [] j.how = "insert" ->
            /\ j.state.id \notin Held(d)
            /\ primary[d].version > 0 \/ ~j.state.primary => alternate[d].version = 0

-----------------------------------------------------------------------------
(* Sealing. *)

SentBy(d) == {e \in sent : e.id[1] = d}

NextId(d) == <<d, Cardinality(SentBy(d)) + 1>>

\* An envelope of state t, whose sending chain is the one that seals it.
Regular(d, t, body, volatile) ==
    [id |-> NextId(d), kind |-> "regular", sid |-> t.id, pub |-> t.local,
     previous_chain_length |-> t.previous_send_count, n |-> t.send_count,
     key |-> t.sending, body |-> body, repairs |-> NoId, oneTime |-> FALSE,
     volatile |-> volatile]

\* The first envelope of a session; it repairs the session `repairs` when that is one.
Initial(d, s, repairs, oneTime) ==
    [id |-> NextId(d), kind |-> "initial", sid |-> s.id, pub |-> s.local,
     previous_chain_length |-> 0, n |-> 0, key |-> Chain(s.root), body |-> "text",
     repairs |-> repairs, oneTime |-> oneTime, volatile |-> FALSE]

NewSession(d) == <<d, Cardinality({e \in SentBy(d) : e.kind = "initial"}) + 1>>

MaySend(d) == Cardinality(SentBy(d)) < MaxSent[d]

\* prepareOutbound and commitPreparedSend for one target.  The engine sends and
\* inspects by turns; the fan-out of a room runs beside it.
Send(d, oneTime) ==
    LET p == primary[d]
        s == Initiated(d, NewSession(d))
        t == Sending(d, p.state)
    IN  /\ MaySend(d) /\ (Beside \/ job[d] = NoJob)
        /\ \/ /\ p.version = 0
              /\ InsertSession(d, s)
              /\ sent' = sent \cup {Initial(d, s, NoId, oneTime)}
           \/ /\ p.version > 0 /\ p.repair = "replacement"
              /\ UpdatePrimary(d, s, "ready")
              /\ sent' = sent \cup {Initial(d, s, p.state.id, oneTime)}
           \/ /\ p.version > 0 /\ p.repair = "ready"
              /\ MayEncrypt(p.state, OthersSkipped(d))
              /\ UpdatePrimary(d, Sealed(t), "ready")
              /\ sent' = sent \cup {Regular(d, t, "text", FALSE)}
        /\ UNCHANGED <<spent, job, fate>>

\* PairwiseVolatileSealer.seal: only on a session that is there and not in repair.
Seal(d) ==
    LET p == primary[d]
        t == Sending(d, p.state)
    IN  /\ MaySend(d)
        /\ Cardinality({e \in SentBy(d) : e.volatile}) < MaxVolatile
        /\ p.version > 0 /\ p.repair = "ready"
        /\ MayEncrypt(p.state, OthersSkipped(d))
        /\ UpdatePrimary(d, Sealed(t), "ready")
        /\ sent' = sent \cup {Regular(d, t, "text", TRUE)}
        /\ UNCHANGED <<spent, job, fate>>

\* create_repair: the state that asks for a repair, before its request is sealed.
Asking(d, s) == Sending(d, [s EXCEPT !.issued = TRUE])

MayAsk(d, p) ==
    p.repair = "ready" /\ ~p.state.issued /\ MayEncrypt(p.state, OthersSkipped(d))

\* PairwiseSessionRepairService.requestRepairWithUser, for the peer's device.
RequestRepair(d) ==
    LET p == primary[d]
        t == Asking(d, p.state)
    IN  /\ d \in Requesters /\ MaySend(d)
        /\ p.version > 0 /\ MayAsk(d, p)
        /\ UpdatePrimary(d, Sealed(t), "requested")
        /\ sent' = sent \cup {Regular(d, t, "control", FALSE)}
        /\ UNCHANGED <<spent, job, fate>>

-----------------------------------------------------------------------------
(* Opening. *)

Opens == {"opened", "control", "replacement"}

Fate(id) == IF id \in DOMAIN fate THEN fate[id] ELSE "none"

\* What became of an envelope: an opening is never forgotten, a second one shows.
Record(id, out) ==
    fate' = CASE Fate(id) \in Opens /\ out \in Opens -> [fate EXCEPT ![id] = "twice"]
              [] Fate(id) \in Opens \cup {"twice"} -> fate
              [] OTHER -> (id :> out) @@ fate

\* _inspectRegular up to its commit, on the row as it is read now.
RegularResult(d, e) ==
    LET p == primary[d]
        r == Decrypted(d, p.state, e, OthersSkipped(d))
        \* consume_repair_authorization decodes the state decryption returned.
        consumed == [r.state EXCEPT !.received = FALSE]
    IN  CASE p.version = 0 \/ p.state.id # e.sid \/ ~Decodable(p.state) -> Refused(NoState)
          [] r.out = "repair" -> IF MayAsk(d, p) THEN r ELSE Refused(NoState)
          [] r.out = "control" -> IF Decodable(r.state)
                                  THEN [r EXCEPT !.state = consumed] ELSE Refused(NoState)
          [] OTHER -> r

\* Mutant: the incoming session always wins.
IncomingWinsAlways(d) == TRUE

\* accept_initial: of two sessions started at once the smaller device's wins.
IncomingWins(d) == primary[d].version = 0 \/ Peer(d) < d

\* _inspectInitial and accept_initial up to the commit.
InitialResult(d, e) ==
    LET p == primary[d]
        replaces == e.repairs # NoId
        wins == replaces \/ IncomingWins(d)
        mayReplace == /\ p.version > 0 /\ p.state.id = e.repairs
                      /\ p.repair = "requested" /\ Decodable(p.state) /\ p.state.issued
        mayMeet == \/ p.version = 0
                   \/ Decodable(p.state) /\ p.state.initiator = d /\ p.state.primary
    IN  IF \/ e.oneTime /\ e.sid \in spent[d]
           \/ replaces /\ ~mayReplace
           \/ ~replaces /\ ~mayMeet
        THEN Refused(NoState)
        ELSE [out |-> IF replaces THEN "replacement" ELSE "opened",
              state |-> Accepted(d, e, wins)]

\* _inspectOne up to the commit.  What cannot be opened on the row as it is read is
\* quarantined; a frame of the bound is not sealed.
Inspect(d, e) ==
    LET r == IF e.kind = "regular" THEN RegularResult(d, e) ELSE InitialResult(d, e)
    IN  /\ job[d] = NoJob /\ ~e.volatile /\ e.id[1] = Peer(d)
        /\ r.out = "repair" => MaySend(d)
        /\ \/ /\ r.out = "refused"
              /\ Record(e.id, "refused")
              /\ UNCHANGED job
           \/ /\ r.out # "refused"
              /\ job' = [job EXCEPT ![d] =
                    [env |-> e, out |-> r.out, state |-> r.state, read |-> primary[d],
                     how |-> Transition(d, e, primary[d], r.state)]]
              /\ UNCHANGED fate
        /\ UNCHANGED <<primary, alternate, spent, sent>>

\* Mutant: the replay marker is not looked up.
ReplayedNever(j) == FALSE

\* The replay marker: the same bytes were committed before.
Replayed(j) == j.out # "repair" /\ Fate(j.env.id) \in Opens

\* _queueRepair: the envelope that met the bound asks for a repair and is spent.
CommitTrigger(d, j) ==
    LET t == Asking(d, j.read.state)
    IN  /\ j.out = "repair"
        /\ UpdatePrimary(d, Sealed(t), "requested")
        /\ sent' = sent \cup {Regular(d, t, "control", FALSE)}
        /\ Record(j.env.id, "trigger")
        /\ UNCHANGED spent

\* commitPreparedReceive.
CommitReceive(d, j) ==
    /\ j.out # "repair"
    /\ CASE j.how = "update" -> UpdatePrimary(d, j.state,
                IF j.out = "control" THEN "replacement" ELSE j.read.repair)
         [] j.how = "replace" -> ReplaceSession(d, j.state)
         [] j.how = "demote" -> DemoteAndInsert(d, j.state)
         [] j.how = "insert" -> InsertSession(d, j.state)
    /\ spent' = IF j.env.kind = "initial"
                THEN [spent EXCEPT ![d] = @ \cup {j.env.sid}] ELSE spent
    /\ Record(j.env.id, j.out)
    /\ UNCHANGED sent

\* The commit of an inspection.  A replay and a conflict are both failures that the
\* engine takes for the envelope's own: it is quarantined at once.
Commit(d) ==
    LET j == job[d]
    IN  /\ j # NoJob
        /\ job' = [job EXCEPT ![d] = NoJob]
        /\ \/ ~Replayed(j) /\ MayApply(d, j) /\ (CommitTrigger(d, j) \/ CommitReceive(d, j))
           \/ /\ Replayed(j) \/ ~MayApply(d, j)
              /\ Record(j.env.id, IF Replayed(j) THEN "refused" ELSE "conflict")
              /\ UNCHANGED <<primary, alternate, spent, sent>>

\* PairwiseVolatileOpener.open and the commit of its result.  A frame that meets the
\* bound asks for a repair and is dropped.
OpenVolatile(d, e) ==
    LET r == RegularResult(d, e)
        t == Asking(d, primary[d].state)
    IN  /\ e.volatile /\ e.id[1] = Peer(d)
        /\ r.out = "repair" => MaySend(d)
        /\ \/ /\ r.out = "opened"
              /\ UpdatePrimary(d, r.state, primary[d].repair)
              /\ Record(e.id, "opened")
              /\ UNCHANGED sent
           \/ /\ r.out = "repair"
              /\ UpdatePrimary(d, Sealed(t), "requested")
              /\ sent' = sent \cup {Regular(d, t, "control", FALSE)}
              /\ Record(e.id, "trigger")
           \/ /\ r.out \in {"refused", "control"}
              /\ Record(e.id, "refused")
              /\ UNCHANGED <<primary, alternate, sent>>
        /\ UNCHANGED <<spent, job>>

PairNext ==
    \E d \in Devices :
        \/ \E oneTime \in OneTime : Send(d, oneTime)
        \/ Seal(d)
        \/ RequestRepair(d)
        \/ Commit(d)
        \/ \E e \in sent : Inspect(d, e) \/ OpenVolatile(d, e)

PairSpec == PairInit /\ [][PairNext]_pairVars

-----------------------------------------------------------------------------
(* Properties. *)

Rows(d) == {primary[d], alternate[d]}

\* Every variable keeps its shape; a row names a session exactly when it has a version
\* (the row exists), the two rows of a device never name the same one, and the bounds
\* on skipped keys hold for each session and for the account.
PairTypeOK ==
    /\ DOMAIN primary = Devices /\ DOMAIN alternate = Devices
    /\ DOMAIN job = Devices /\ DOMAIN spent = Devices
    /\ DOMAIN fate \subseteq {e.id : e \in sent}
    /\ \A d \in Devices :
        /\ \A r \in Rows(d) :
            /\ r.repair \in {"ready", "requested", "replacement"}
            /\ (r.version = 0) = (r.state.id = NoId)
            /\ Cardinality(r.state.skipped) <= MAX_SKIPPED_PER_SESSION
        /\ primary[d].version > 0 => primary[d].state.id # alternate[d].state.id
        /\ Cardinality(primary[d].state.skipped) + OthersSkipped(d) <= MAX_SKIPPED_ACCOUNT

\* No envelope and no frame is opened twice, however often it is delivered: a durable
\* one has its replay marker, a volatile frame has only the ratchet, which erases the
\* key it opens with (commitVolatileOpen writes no marker for it).
OpenedOnce == \A id \in DOMAIN fate : fate[id] # "twice"

\* No message key seals two envelopes, whichever of the durable send, the volatile
\* seal and the repair request took it: every path commits the ratchet step before
\* the ciphertext leaves the store.
KeyUsedOnce == \A e, f \in sent : e.key = f.key => e = f

\* Every skipped key a device keeps is the key of something its peer sealed and the
\* device has not opened: no kept key is a guess, and none outlives its message.
SkippedAreOwed ==
    \A d \in Devices : \A r \in Rows(d) : \A k \in r.state.skipped :
        \E e \in SentBy(Peer(d)) :
            e.key = k.key /\ e.pub = k.pub /\ e.n = k.n /\ Fate(e.id) \notin Opens

\* An envelope that has not arrived yet, sealed on the session its recipient holds and
\* on the chain the recipient is receiving or a later one, is never refused, in
\* whatever order the others arrive: it opens, or it meets the bound on skipped keys.
InStepOpens ==
    \A d \in Devices : \A e \in SentBy(Peer(d)) :
        LET p == primary[d]
        IN  (/\ Fate(e.id) = "none" /\ e.kind = "regular" /\ e.body = "text"
             /\ p.version > 0 /\ p.state.id = e.sid
             /\ Len(e.key.root) >= Len(p.state.receiving.root))
            => Decrypted(d, p.state, e, OthersSkipped(d)).out \in {"opened", "repair"}

\* Both ends of a session stay in step: the counters and skipped keys are within their bounds,
\* a key is kept as skipped only for a message that is still owed, and the next message of the
\* chain both ends are on opens (ratchet_encrypt, ratchet_decrypt).
RatchetInStep == PairTypeOK /\ SkippedAreOwed /\ InStepOpens

\* Once every session that was started has been accepted by the other device, both
\* devices send on the same session, whoever started one and in whatever order the
\* first messages arrived (accept_initial compares the device ids).
SessionsConverge ==
    (/\ sent # {}
     /\ \A e \in sent : e.kind = "initial" => Fate(e.id) \in Opens)
    => primary[1].state.id = primary[2].state.id

\* No envelope is set aside for good that would open on the session as it now is:
\* what is quarantined is what the core or the policy refused.
QuarantinedWasRefused ==
    \A d \in Devices : \A e \in SentBy(Peer(d)) :
        (Fate(e.id) = "conflict" /\ e.kind = "regular")
            => RegularResult(d, e).out \notin Opens
=============================================================================
