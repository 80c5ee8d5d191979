---------------------------- MODULE ControlSync -----------------------------
(***************************************************************************)
(* How the devices of several accounts keep one group, or one voice room,   *)
(* in step: each device applies signed control events to its own copy       *)
(* (GroupControlStateMachine, RoomControlStateMachine), sends the events it *)
(* signs, asks a member for the state it may have missed, and answers with  *)
(* a transcript.  Envelopes are delayed, reordered and lost; nobody orders  *)
(* two changes signed at the same time, so a chat can fork, and a device    *)
(* that sees both branches quarantines it.                                  *)
(*                                                                          *)
(* Groups and rooms share the construction and differ in who may do what    *)
(* and in how a stale answer is treated: kind says which one it is.         *)
(* A state hash is the event it belongs to, which names its predecessor's.  *)
(***************************************************************************)
EXTENDS ControlCodec, SequencesExt

CONSTANTS Devices,       \* every device; UserOf gives its account, a number
          Foundings,     \* bound: the accounts a chat begins with; the lowest one creates it
          MaxChanges,    \* bound: events signed and envelopes dropped, together
          MaxLost,       \* bound: envelopes the server drops
          MaxMail,       \* bound: envelopes under way when a device signs or asks
          MaxBehind      \* maximumBehindAttempts

Users == {UserOf[d] : d \in Devices}
DevicesOf(U) == {d \in Devices : UserOf[d] \in U}
TheChat == 1

VARIABLES
    kind,      \* "group" or "room"
    store,     \* the stored state of each device: {} or {[log, members, life]}
    request,   \* the open state request of each device: {} or {[reason, peer, tries]}
    mail,      \* envelopes on their way
    missed,    \* devices the server has dropped an envelope of, not yet noticed
    signed,    \* how many events were signed
    lost       \* how many envelopes were dropped

syncVars == <<kind, store, request, mail, missed, signed, lost>>

The(S) == CHOOSE x \in S : TRUE
Revision(s) == Len(s.log)
Hash(s) == s.log[Len(s.log)]
IsActive(s, u) == s.members[u].is = "active"
Active(s) == {u \in Users : IsActive(s, u)}
Quarantined(s) == s.life = "forked"

-----------------------------------------------------------------------------
(* Who may do what: GroupAuthorization and RoomAuthorization.               *)

Role(s, u) == s.members[u].role

\* invitationPolicy is ownerAndAdmins, as CreateGroup sets it.
group_canAdd(s, u, targets) ==
    /\ IsActive(s, u) /\ Role(s, u) \in {"owner", "admin"}
    /\ Cardinality(Active(s) \cup targets) <= MAX_MEMBERS
    /\ targets \cap Active(s) = {}

group_canLeaveAnyone(s, u) == IsActive(s, u)

group_canLeave(s, u) ==
    IsActive(s, u) /\ (Role(s, u) = "owner" => Active(s) = {u})

group_canRemove(s, u, target) ==
    /\ u # target /\ IsActive(s, u) /\ Role(s, u) \in {"owner", "admin"}
    /\ IsActive(s, target) /\ Role(s, target) # "owner"
    /\ Role(s, u) = "owner" \/ Role(s, target) = "member"

\* canChangeRole, and canTransferOwnership when the new role is the owner's.
group_canChangeRole(s, u, target, role) ==
    /\ u # target /\ IsActive(s, u) /\ Role(s, u) = "owner"
    /\ IsActive(s, target) /\ Role(s, target) \notin {"owner", role}

group_authorized(s, c) ==
    CASE c.kind = "add" -> group_canAdd(s, c.user, Range(c.body.users))
      [] c.kind = "remove" -> IF c.body.user = c.user THEN group_canLeave(s, c.user)
                              ELSE group_canRemove(s, c.user, c.body.user)
      [] c.kind = "role" -> group_canChangeRole(s, c.user, c.body.user, c.body.role)
      [] c.kind = "rename" -> IsActive(s, c.user) /\ Role(s, c.user) \in {"owner", "admin"}
      [] OTHER -> FALSE

\* Every active member of a room has the same authority.
room_authorized(s, c) ==
    /\ IsActive(s, c.user)
    /\ CASE c.kind = "add" -> /\ Cardinality(Active(s) \cup Range(c.body.users)) <= MAX_MEMBERS
                              /\ Range(c.body.users) \cap Active(s) = {}
         [] c.kind = "remove" -> IsActive(s, c.body.user)
         [] c.kind = "rename" -> TRUE
         [] OTHER -> FALSE

authorized(s, c) == IF kind = "group" THEN group_authorized(s, c) ELSE room_authorized(s, c)

-----------------------------------------------------------------------------
(* The state machines: apply, on the device of account me.                  *)

Nobody == [u \in Users |-> [is |-> "never", role |-> "member"]]

\* The roster a create event sets up.
Founders(c) ==
    IF kind = "group"
    THEN [u \in Users |->
            IF \E i \in 1..Len(c.body.members) : c.body.members[i].user = u
            THEN [is |-> "active",
                  role |-> The({c.body.members[i].role :
                             i \in {j \in 1..Len(c.body.members) : c.body.members[j].user = u}})]
            ELSE Nobody[u]]
    ELSE [u \in Users |-> IF u \in Range(c.body.users)
                          THEN [is |-> "active", role |-> "member"] ELSE Nobody[u]]

create(c, me) ==
    LET m == Founders(c)
        signer == m[c.user]
    IN  IF c.kind # "create" \/ signer.is # "active" \/ (kind = "group" /\ signer.role # "owner")
        THEN [out |-> "refused", state |-> {}]
        ELSE [out |-> "accepted",
              state |-> {[log |-> <<c>>, members |-> m,
                          life |-> IF m[me].is = "active" THEN "active" ELSE "removed"]}]

\* Who is a member, and in which role, once an authorised event took effect.
Roster(m, c) ==
    CASE c.kind = "add" ->
           [u \in Users |-> IF u \in Range(c.body.users)
                            THEN [is |-> "active", role |-> "member"] ELSE m[u]]
      [] c.kind = "remove" ->
           [m EXCEPT ![c.body.user].is = IF c.body.user = c.user THEN "left" ELSE "removed"]
      [] c.kind = "role" /\ c.body.role = "owner" ->
           [m EXCEPT ![c.user].role = "admin", ![c.body.user].role = "owner"]
      [] c.kind = "role" -> [m EXCEPT ![c.body.user].role = c.body.role]
      [] OTHER -> m

\* The device's own place in the chat.
Lifecycle(s, c, me) ==
    CASE c.kind = "add" /\ me \in Range(c.body.users) -> "active"
      [] c.kind = "remove" /\ c.body.user = me ->
           IF c.user = me THEN "left" ELSE "removed"
      [] OTHER -> s.life

OneOwner(s) ==
    Cardinality({u \in Active(s) : Role(s, u) = "owner"}) = 1

\* GroupState counts everybody it ever recorded and wants exactly one active owner, unless the
\* device left; RoomState counts the active members.
WellFormed(s) ==
    IF kind = "group"
    THEN /\ Cardinality({u \in Users : s.members[u].is # "never"}) <= MAX_MEMBERS
         /\ s.life # "left" => OneOwner(s)
    ELSE Cardinality(Active(s)) <= MAX_MEMBERS

Extended(s, c, me) ==
    [log |-> Append(s.log, c), members |-> Roster(s.members, c), life |-> Lifecycle(s, c, me)]

applyUnlinked(held, c, me) ==
    IF held = {} THEN create(c, me)
    ELSE LET s == The(held)
             next == c.revision > Revision(s) /\ authorized(s, c)
         IN  [out |-> IF next THEN "accepted" ELSE "duplicate",
              state |-> IF next THEN {Extended(s, c, me)} ELSE held]

apply(held, c, me) ==
    IF held = {} THEN IF c.revision = 1 THEN create(c, me) ELSE [out |-> "ahead", state |-> {}]
    ELSE LET s == The(held)
             out == CASE c.revision = Revision(s) -> IF c = Hash(s) THEN "duplicate" ELSE "sibling"
                      [] c.revision < Revision(s) -> "stale"
                      [] c.revision > Revision(s) + 1 -> "ahead"
                      [] c.previous # {Hash(s)} -> "sibling"
                      [] ~authorized(s, c) -> "refused"
                      [] ~WellFormed(Extended(s, c, me)) -> "refused"
                      [] OTHER -> "accepted"
         IN  [out |-> out,
              state |-> IF out = "accepted" THEN {Extended(s, c, me)} ELSE held]

\* A run of events, applied until one of them is not accepted.
Replay(held, controls, me) ==
    FoldLeft(LAMBDA r, c : IF r.out = "accepted" THEN apply(r.state, c, me) ELSE r,
             [out |-> "accepted", state |-> held], controls)

-----------------------------------------------------------------------------
(* Envelopes.                                                               *)

Delivery(d, e, c) == [type |-> "control", from |-> d, to |-> e, c |-> c]

Transcript(d, e, base, log) ==
    [type |-> "transcript", from |-> d, to |-> e, base |-> base,
     before |-> IF base = 0 THEN {} ELSE {log[base]},
     entries |-> SubSeq(log, base + 1, Len(log))]

StateRequest(d, e) ==
    [type |-> "request", from |-> d, to |-> e,
     have |-> IF store[d] = {} THEN {} ELSE {Hash(The(store[d]))}]

OwedToEverybody(d, before, next, c) ==
    LET added == IF c.kind = "add" THEN Range(c.body.users) ELSE {}
        known == {u \in Users : next.members[u].is # "never"} \ added
    IN  {Delivery(d, e, c) : e \in DevicesOf(known \cup {UserOf[d]}) \ {d}}
        \cup {Transcript(d, e, 0, next.log) : e \in DevicesOf(added)}

\* forLocalControl: the event to whoever held the state it builds on and to the
\* signer's other devices, the whole transcript to whoever it adds.
Owed(d, before, next, c) ==
    LET added == IF c.kind = "add" THEN Range(c.body.users) ELSE {}
        holders == (IF before = {} THEN Active(next) ELSE Active(The(before))) \ added
    IN  {Delivery(d, e, c) : e \in DevicesOf(holders \cup {UserOf[d]}) \ {d}}
        \cup {Transcript(d, e, 0, next.log) : e \in DevicesOf(added)}

\* An event as every receiver opens it: sealed by its signer, verified and decoded.  The bytes
\* are the same for all of them, in a delivery or in a transcript, so it is worked out once.
Opened(c) ==
    IF kind = "group"
    THEN UNION {UNION {group_decode_projection(p) : p \in group_open(c.device, s.canonical, s.signature)} :
                  s \in group_seal(c.device, group_encode_projection(c))}
    ELSE UNION {UNION {room_decode_projection(p) : p \in room_open(c.device, s.canonical, s.signature)} :
                  s \in room_seal(c.device, room_encode_projection(c))}

\* An open request, of whatever reason, is left alone.
recordStateRequest(r, peer) ==
    IF r # {} THEN r ELSE {[reason |-> "behind", peer |-> peer, tries |-> 0]}

Fork(s) == {[s EXCEPT !.life = "forked"]}

\* An event that does not belong to the history held here: siblingControl, and _stale.
DisagreesAtHead(s, c, out) == out = "sibling"

Disagrees(s, c, out) == out = "sibling" \/ (out = "stale" /\ s.log[c.revision] # c)

FrozenNever(d) == FALSE

\* A quarantined chat takes nothing in.
Frozen(d) == store[d] # {} /\ Quarantined(The(store[d]))

\* What receiving an envelope does: the stored state, the request, and what it sends.
Kept(d) == [store |-> store[d], request |-> request[d], send |-> {}]

control(d, m) ==
    LET c == m.c
        held == store[d]
        r == apply(held, c, UserOf[d])
    IN  IF Frozen(d) THEN Kept(d)
        ELSE CASE r.out = "accepted" ->
                    IF held = {} /\ ~IsActive(The(r.state), UserOf[d]) THEN Kept(d)
                    ELSE [Kept(d) EXCEPT !.store = r.state]
               [] r.out = "ahead" ->
                    [Kept(d) EXCEPT !.request = recordStateRequest(@, UserOf[m.from])]
               [] held # {} /\ Disagrees(The(held), c, r.out) ->
                    [Kept(d) EXCEPT !.store = Fork(The(held))]
               [] OTHER -> Kept(d)

stateRequest(d, m) ==
    LET asker == UserOf[m.from]
        askBack == IF kind = "room"
                   THEN [Kept(d) EXCEPT !.request = recordStateRequest(@, asker)] ELSE Kept(d)
        s == The(store[d])
        have == IF m.have = {} THEN 0 ELSE The(m.have).revision
        base == IF have # 0 /\ s.log[have] = The(m.have) THEN have ELSE 0
    IN  IF store[d] = {} THEN askBack
        ELSE IF Quarantined(s) \/ ~IsActive(s, UserOf[d]) \/ ~IsActive(s, asker) THEN Kept(d)
        ELSE IF have > Revision(s) THEN askBack
        ELSE [Kept(d) EXCEPT !.send = {Transcript(d, m.from, base, s.log)}]

\* A chat this device does not hold, replayed from its first event.
bootstrap(d, m) ==
    LET r == Replay({}, m.entries, UserOf[d])
    IN  IF m.base # 0 \/ m.entries = <<>> \/ r.out # "accepted" THEN Kept(d)
        ELSE IF ~IsActive(The(r.state), UserOf[d])
                \/ (kind = "room" /\ ~IsActive(The(r.state), UserOf[m.from])) THEN Kept(d)
        ELSE [store |-> r.state, request |-> {}, send |-> {}]

transcript(d, m) ==
    LET s == The(store[d])
        top == m.base + Len(m.entries)
        shared == {i \in 1..Len(m.entries) : m.base + i <= Revision(s)}
        forked == \/ m.base > 0 /\ m.before # {s.log[m.base]}
                  \/ \E i \in shared : m.entries[i] # s.log[m.base + i]
        suffix == SubSeq(m.entries, Revision(s) - m.base + 1, Len(m.entries))
        same == top = Revision(s)
        r == Replay(store[d], suffix, UserOf[d])
    IN  IF store[d] = {} THEN bootstrap(d, m)
        ELSE IF Frozen(d) \/ m.base > Revision(s) THEN Kept(d)
        ELSE IF forked THEN [store |-> Fork(s), request |-> {}, send |-> {}]
        ELSE IF top <= Revision(s)
             THEN IF kind = "group" \/ same THEN [Kept(d) EXCEPT !.request = {}] ELSE Kept(d)
        ELSE IF r.out = "accepted" THEN [store |-> r.state, request |-> {}, send |-> {}]
        ELSE Kept(d)

-----------------------------------------------------------------------------
(* Steps.                                                                   *)

Event(d, k, body) ==
    LET held == store[d]
    IN  [chat |-> TheChat,
         revision |-> IF held = {} THEN 1 ELSE Revision(The(held)) + 1,
         previous |-> IF held = {} THEN {} ELSE {Hash(The(held))},
         user |-> UserOf[d], device |-> d, kind |-> k, body |-> body]

SignApplyAndCommitUnchecked(d, c) ==
    LET next == IF store[d] = {} THEN The(apply({}, c, UserOf[d]).state)
                ELSE Extended(The(store[d]), c, UserOf[d])
    IN  /\ store' = [store EXCEPT ![d] = {next}]
        /\ mail' = mail \cup Owed(d, store[d], next, c)
        /\ signed' = signed + 1
        /\ UNCHANGED <<kind, request, missed, lost>>

\* _signApplyAndCommit: the state, the events and what they owe, in one transaction.
SignApplyAndCommit(d, c) ==
    \E o \in Opened(c) :
        LET r == apply(store[d], o, UserOf[d])
        IN  /\ r.out = "accepted"
            /\ store' = [store EXCEPT ![d] = r.state]
            /\ mail' = mail \cup Owed(d, store[d], The(r.state), o)
            /\ signed' = signed + 1
            /\ UNCHANGED <<kind, request, missed, lost>>

\* CreateGroup and CreateRoom: the creator and at least one other account.
Create(d) ==
    /\ signed = 0
    /\ \E U \in Foundings :
        /\ UserOf[d] = Min(U) /\ Cardinality(U) \in 2..MAX_MEMBERS
        /\ LET users == SetToSortSeq(U, <)
               members == [i \in 1..Len(users) |->
                             [user |-> users[i],
                              role |-> IF users[i] = UserOf[d] THEN "owner" ELSE "member"]]
           IN  SignApplyAndCommit(d, Event(d, "create",
                 IF kind = "group" THEN [name |-> 1, policy |-> 1, members |-> members]
                 ELSE [name |-> 1, users |-> users]))

\* An open request means the roster may be stale: the chat is read-only until an answer.
MayAct(d) ==
    store[d] # {} /\ The(store[d]).life = "active" /\ request[d] = {}

Mutate(d) ==
    /\ MayAct(d) /\ signed + lost < MaxChanges /\ Cardinality(mail) <= MaxMail
    /\ \E u \in Users :
        \/ SignApplyAndCommit(d, Event(d, "add", [users |-> <<u>>]))
        \/ SignApplyAndCommit(d, Event(d, "remove", [user |-> u]))
        \/ \E r \in {"admin", "owner"} : /\ kind = "group"
                                         /\ SignApplyAndCommit(d, Event(d, "role", [user |-> u, role |-> r]))
        \/ u = UserOf[d] /\ SignApplyAndCommit(d, Event(d, "rename", [name |-> 1]))

\* One envelope received, and everything it changes committed with it.
Receive(d, m) ==
    CASE m.type = "control" -> control(d, m)
      [] m.type = "request" -> stateRequest(d, m)
      [] m.type = "transcript" -> transcript(d, m)

Pending(d, e, type) == {m \in mail : m.to = d /\ m.from = e /\ m.type = type}

Deliver(d, e, type) ==
    \E m \in Pending(d, e, type) :
        /\ LET r == Receive(d, m)
           IN  /\ store' = [store EXCEPT ![d] = r.store]
               /\ request' = [request EXCEPT ![d] = r.request]
               /\ mail' = (mail \ {m}) \cup r.send
        /\ UNCHANGED <<kind, missed, signed, lost>>

\* The server drops an envelope its receiver did not fetch in time.
Lose(m) ==
    /\ m \in mail /\ lost < MaxLost /\ signed + lost < MaxChanges
    /\ mail' = mail \ {m}
    /\ missed' = missed \cup {m.to}
    /\ lost' = lost + 1
    /\ UNCHANGED <<kind, store, request, signed>>

\* recordQueueGap: the gap may have held any event of an active chat.
NoticeGap(d) ==
    /\ d \in missed
    /\ missed' = missed \ {d}
    /\ request' =
         IF store[d] # {} /\ The(store[d]).life = "active"
         THEN [request EXCEPT ![d] =
                 {[reason |-> "gap", peer |-> 0,
                   tries |-> IF @ = {} THEN 0 ELSE The(@).tries]}]
         ELSE request
    /\ UNCHANGED <<kind, store, mail, signed, lost>>

\* Groups ask the owner first, then admins, then members; rooms go by account.
Candidates(s, me) ==
    LET rank(u) == CASE kind = "room" -> 0 [] Role(s, u) = "owner" -> 0
                     [] Role(s, u) = "admin" -> 1 [] OTHER -> 2
        before(u, v) == rank(u) < rank(v) \/ (rank(u) = rank(v) /\ u < v)
    IN  SetToSortSeq(Active(s) \ {me}, before)

\* Only tries % Len(candidates) matters, with at most three candidates.
Tries(r) == (r.tries + 1) % 6

Ask(d, r, peer) ==
    /\ request' = [request EXCEPT ![d] = {[r EXCEPT !.tries = Tries(r)]}]
    /\ mail' = mail \cup {StateRequest(d, e) : e \in DevicesOf({peer})}

Retire(d) ==
    request' = [request EXCEPT ![d] = {}] /\ UNCHANGED mail

NextPeerFirst(line, r) == line[1]

NextPeer(line, r) == line[(r.tries % Len(line)) + 1]

\* Bound: the earlier request has reached its peer by then.
Due(d) ==
    /\ request[d] # {}
    /\ ~\E m \in mail : m.type = "request" /\ m.from = d
    /\ Cardinality(mail) <= MaxMail

\* requestDueStates for this chat.
RequestDue(d) ==
    /\ Due(d)
    /\ LET r == The(request[d])
           line == IF store[d] = {} \/ The(store[d]).life # "active" THEN <<>>
                   ELSE Candidates(The(store[d]), UserOf[d])
       IN  IF r.reason = "gap"
           THEN IF line = <<>> THEN Retire(d) ELSE Ask(d, r, NextPeer(line, r))
           ELSE IF r.tries >= MaxBehind THEN Retire(d) ELSE Ask(d, r, r.peer)
    /\ UNCHANGED <<kind, store, missed, signed, lost>>

ControlInit ==
    /\ kind \in {"group", "room"}
    /\ store = [d \in Devices |-> {}]
    /\ request = [d \in Devices |-> {}]
    /\ mail = {} /\ missed = {} /\ signed = 0 /\ lost = 0

Types == {"control", "request", "transcript"}

ControlNext ==
    \/ \E d \in Devices : Create(d) \/ Mutate(d) \/ NoticeGap(d) \/ RequestDue(d)
    \/ \E d, e \in Devices, t \in Types : Deliver(d, e, t)
    \/ \E m \in mail : Lose(m)

ControlSpec == ControlInit /\ [][ControlNext]_syncVars

\* The client drains its mailbox and runs its maintenance timers for as long as it runs.  The
\* conjuncts are the weak fairness of each action, with its guard in place of ENABLED.
ControlFairSpec ==
    /\ ControlSpec
    /\ \A d \in Devices : WF_syncVars(NoticeGap(d))
    /\ \A d \in Devices : []<>~Due(d) \/ []<><<RequestDue(d)>>_syncVars
    /\ \A d, e \in Devices, t \in Types :
         []<>(Pending(d, e, t) = {}) \/ []<><<Deliver(d, e, t)>>_syncVars

-----------------------------------------------------------------------------
(* Properties.                                                              *)

\* Type invariant: every device stores nothing or one well-formed state, and at most one request.
ControlTypeOK ==
    /\ kind \in {"group", "room"}
    /\ \A d \in Devices :
        /\ Cardinality(store[d]) <= 1 /\ Cardinality(request[d]) <= 1
        /\ \A s \in store[d] :
            /\ s.life \in {"active", "removed", "left", "forked"}
            /\ \A i \in 1..Revision(s) : s.log[i].revision = i
            /\ \A u \in Users : s.members[u].is \in {"never", "active", "left", "removed"}
        /\ \A r \in request[d] : r.reason \in {"gap", "behind"} /\ r.tries \in 0..5
    /\ missed \subseteq Devices /\ signed \in 0..MaxChanges /\ lost \in 0..MaxLost

\* Two devices that hold the same state hash hold the same history and the same roster, in the
\* same roles, however each of them learnt it (state_hash: "two devices holding the same hash at
\* the same revision hold the same history").
SameHashSameRoster ==
    \A d, e \in Devices : \A s \in store[d], t \in store[e] :
        Hash(s) = Hash(t) => s.log = t.log /\ s.members = t.members

\* A group always has exactly one active owner, whoever is added, removed, promoted or leaves,
\* unless everybody is gone (canLeave, canTransferOwnership, the GroupState constructor).
OneOwnerAlways ==
    kind = "group" => \A d \in Devices : \A s \in store[d] : Active(s) # {} => OneOwner(s)

\* An account that is out of a chat learns nothing that happens after it left: an event goes only
\* to accounts that were active just before or just after it, a transcript only to an account that
\* is active in the state it ends in (forLocalControl, _stateRequest).
NothingAfterLeaving ==
    [][\A m \in mail' \ mail :
         LET u == UserOf[m.to]
         IN  \/ m.type = "request"
             \/ IsActive(The(store'[m.from]), u)
             \/ m.type = "control" /\ \E s \in store[m.from] : IsActive(s, u)]_syncVars

\* An event that extends the state its receiver holds is never refused there: a device signs
\* only what every device holding that state accepts (MutateGroup checks before it signs what
\* GroupControlStateMachine checks on arrival).
ExtensionIsAccepted ==
    \A m \in mail : m.type = "control" =>
        \A s \in store[m.to] :
            m.c.previous = {Hash(s)} => apply({s}, m.c, UserOf[m.to]).out = "accepted"

\* What a device seals opens, for whoever holds its key, as exactly the projection it was given;
\* it is never taken for an event of the other kind of chat, and a device only ever signs in the
\* name of its own account (seal, open and with_domain of group_control.rs and room_control.rs).
\* No variable matters to it: one look, before anything is signed, is enough.
SealedOpensAsItself == signed = 0 => SealAndOpenAgree

\* An event has one wire form, so that one event has one signature and one state hash: of all the
\* ways to write its map, in the event or in its body, only the one that seal writes is accepted
\* (the readers of application.rs, and decode_control encoding again what it decoded).
OneEventOneWire == signed = 0 => OneFormIsAccepted

\* Two devices that sign at the same revision of the same history cannot both go on unaware:
\* unless the server dropped an envelope, one of the two has quarantined the chat or has the
\* other's event on its way to it (_control, _stale).
ForkIsSeen ==
    lost = 0 => \A d, e \in Devices : \A s \in store[d], t \in store[e] :
        \A i \in 1..IF Revision(s) < Revision(t) THEN Revision(s) ELSE Revision(t) :
            LET c == s.log[i]
                x == t.log[i]
            IN  c.device = d /\ x.device = e /\ c # x /\ c.previous = x.previous
                => \/ Quarantined(s) \/ Quarantined(t)
                   \/ Delivery(d, e, c) \in mail \/ Delivery(e, d, x) \in mail

\* Devices that agree on a state hash agree on everything: history, roster and owner, and on
\* which event extends it; devices that do not agree notice (GroupControlStateMachine.apply,
\* _control, _stale, _transcript).
HistoriesAgree ==
    /\ ControlTypeOK
    /\ SameHashSameRoster
    /\ OneOwnerAlways
    /\ ExtensionIsAccepted
    /\ ForkIsSeen

\* A device never rewrites the history it accepted, never un-forks a chat and changes nothing in
\* a quarantined one, whatever arrives in whatever order.
HistoryOnlyGrows ==
    [][\A d \in Devices : \A s \in store[d] :
         \E t \in store'[d] :
            /\ IsPrefix(s.log, t.log)
            /\ Quarantined(s) => t = s]_syncVars

\* e would answer what d asks, and d would ask it.
CouldAnswer(e, d) ==
    \E s \in store[d], t \in store[e] :
        /\ e # d /\ IsActive(s, UserOf[e]) /\ ~Quarantined(t)
        /\ IsActive(t, UserOf[e]) /\ IsActive(t, UserOf[d]) /\ Revision(t) >= Revision(s)

\* A chat does not stay read-only for want of an answer: while some member could give it, the
\* request a queue gap opened is answered or retired, whoever else has left, has quarantined the
\* chat or lost the request (requestDueStates rotates over the members).
GapCloses ==
    \A d \in Devices : []<>(request[d] = {} \/ ~\E e \in Devices : CouldAnswer(e, d))
=============================================================================
