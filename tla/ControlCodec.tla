---------------------------- MODULE ControlCodec ----------------------------
(***************************************************************************)
(* The signed control events of groups and of voice rooms, as the native    *)
(* core reads and writes them (group_control.rs, room_control.rs).          *)
(*                                                                          *)
(* A control is a record.  Its wire form is a CBOR map: a sequence of cells *)
(* with a key, a value and whether every head in the cell has its shortest  *)
(* form.  Its projection is the frame the Dart side exchanges with the core.*)
(* A result that may be refused is a set: {} is the refusal.  A hash and a  *)
(* signature are injective: each is the value it was computed from.         *)
(* Left out: the event id, the time of creation, descriptions, and the size *)
(* of an encoding in bytes.  A name is its length; account 0 is the zero id.*)
(***************************************************************************)
EXTENDS Integers, Sequences, FiniteSets

CONSTANTS MAX_MEMBERS,   \* accounts a chat can hold at once
          MAX_NAME,      \* longest name
          UserOf         \* the account of every device

ASSUME CodecAssumption == MAX_MEMBERS \in Nat \ {0, 1} /\ MAX_NAME \in Nat \ {0}

VERSION == 1
ROLES == <<"member", "admin", "owner">>
MAX_POLICY == 2

Cell(k, v) == [key |-> k, val |-> v, short |-> TRUE]

\* read_exact_map and read_key for every key, and the heads the readers insist on.
ReadMap(w, n) ==
    /\ Len(w) = n
    /\ \A i \in 1..n : w[i].key = i - 1 /\ w[i].short

Ascending(s) == \A i \in 1..Len(s) - 1 : s[i] < s[i + 1]

\* What every control must satisfy, of a group or of a room.
Linked(c) ==
    LET first == c.revision = 1
    IN  /\ c.revision # 0
        /\ first = (c.kind = "create")
        /\ first = (c.previous = {})
        /\ c.chat # 0 /\ c.user # 0 /\ c.device # 0

ValidName(n) == n \in 1..MAX_NAME

-----------------------------------------------------------------------------
(* Group controls.                                                          *)

Ids(members) == [i \in 1..Len(members) |-> members[i].user]

group_validate(c) ==
    /\ Linked(c)
    /\ CASE c.kind = "create" ->
              /\ ValidName(c.body.name)
              /\ c.body.policy <= MAX_POLICY
              /\ Len(c.body.members) \in 1..MAX_MEMBERS
              /\ Cardinality({i \in 1..Len(c.body.members) : c.body.members[i].role = "owner"}) = 1
              /\ \A i \in 1..Len(c.body.members) :
                    \E r \in 1..Len(ROLES) : c.body.members[i].role = ROLES[r]
              /\ Ascending(Ids(c.body.members))
         [] c.kind = "add" ->
              Len(c.body.users) \in 1..MAX_MEMBERS - 1 /\ Ascending(c.body.users)
         [] c.kind = "remove" -> TRUE
         [] c.kind = "role" -> \E r \in 1..Len(ROLES) : c.body.role = ROLES[r]
         [] c.kind = "rename" -> ValidName(c.body.name)

\* ControlBody in its wire form.
group_body_cells(kind, b) ==
    CASE kind = "create" -> <<Cell(0, b.name), Cell(1, b.policy), Cell(2, b.members)>>
      [] kind = "add" -> <<Cell(0, b.users)>>
      [] kind = "remove" -> <<Cell(0, b.user)>>
      [] kind = "role" -> <<Cell(0, b.user), Cell(1, b.role)>>
      [] kind = "rename" -> <<Cell(0, b.name)>>

group_encode_control(c) ==
    <<Cell(0, VERSION), Cell(1, c.chat), Cell(2, c.revision), Cell(3, c.previous),
      Cell(4, c.user), Cell(5, c.device), Cell(6, c.kind),
      Cell(7, group_body_cells(c.kind, c.body))>>

group_decode_body(kind, w) ==
    CASE kind = "create" ->
           IF ReadMap(w, 3) /\ ValidName(w[1].val) /\ Len(w[3].val) <= MAX_MEMBERS
           THEN {[name |-> w[1].val, policy |-> w[2].val, members |-> w[3].val]} ELSE {}
      [] kind = "add" ->
           IF ReadMap(w, 1) /\ Len(w[1].val) < MAX_MEMBERS
           THEN {[users |-> w[1].val]} ELSE {}
      [] kind = "remove" -> IF ReadMap(w, 1) THEN {[user |-> w[1].val]} ELSE {}
      [] kind = "role" ->
           IF ReadMap(w, 2) THEN {[user |-> w[1].val, role |-> w[2].val]} ELSE {}
      [] kind = "rename" ->
           IF ReadMap(w, 1) /\ ValidName(w[1].val) THEN {[name |-> w[1].val]} ELSE {}
      [] OTHER -> {}

\* The control a body belongs to, read from the eight cells of its map.
Read(w, b) ==
    [chat |-> w[2].val, revision |-> w[3].val, previous |-> w[4].val,
     user |-> w[5].val, device |-> w[6].val, kind |-> w[7].val, body |-> b]

group_decode_controlLoose(w) ==
    IF Len(w) = 8 /\ (\A i \in 1..8 : w[i].key = i - 1) /\ w[1].val = VERSION
    THEN {c \in {Read(w, b) : b \in group_decode_body(w[7].val, w[8].val)} :
            group_validate(c)}
    ELSE {}

group_decode_control(w) ==
    IF ReadMap(w, 8) /\ w[1].val = VERSION
    THEN {c \in {Read(w, b) : b \in group_decode_body(w[7].val, w[8].val)} :
            group_validate(c) /\ group_encode_control(c) = w}
    ELSE {}

\* An optional hash is a presence byte and then the hash.
Optional(previous) == IF previous = {} THEN <<0>> ELSE <<1, previous>>

FromOptional(o) == IF o[1] = 0 THEN {} ELSE o[2]

\* The fields common to every control, in projection order.
ProjectHead(c) ==
    <<VERSION, c.chat, c.revision, Optional(c.previous), c.user, c.device, c.kind>>

ProjectedHead(p) ==
    [chat |-> p[2], revision |-> p[3], previous |-> FromOptional(p[4]),
     user |-> p[5], device |-> p[6], kind |-> p[7]]

group_encode_projection(c) ==
    ProjectHead(c) \o
    CASE c.kind = "create" ->
           <<c.body.name, c.body.policy, Len(c.body.members), c.body.members>>
      [] c.kind = "add" -> <<Len(c.body.users), c.body.users>>
      [] c.kind = "remove" -> <<c.body.user>>
      [] c.kind = "role" -> <<c.body.user, c.body.role>>
      [] c.kind = "rename" -> <<c.body.name>>

group_projected_body(p) ==
    CASE p[7] = "create" ->
           IF Len(p) = 11 /\ p[8] <= MAX_NAME /\ p[10] <= MAX_MEMBERS
           THEN {[name |-> p[8], policy |-> p[9], members |-> p[11]]} ELSE {}
      [] p[7] = "add" ->
           IF Len(p) = 9 /\ p[8] < MAX_MEMBERS THEN {[users |-> p[9]]} ELSE {}
      [] p[7] = "remove" -> IF Len(p) = 8 THEN {[user |-> p[8]]} ELSE {}
      [] p[7] = "role" -> IF Len(p) = 9 THEN {[user |-> p[8], role |-> p[9]]} ELSE {}
      [] p[7] = "rename" ->
           IF Len(p) = 8 /\ p[8] <= MAX_NAME THEN {[name |-> p[8]]} ELSE {}
      [] OTHER -> {}

group_decode_projection(p) ==
    IF p[1] # VERSION \/ p[4][1] \notin {0, 1} THEN {}
    ELSE LET h == ProjectedHead(p)
         IN  {c \in {[chat |-> h.chat, revision |-> h.revision, previous |-> h.previous,
                      user |-> h.user, device |-> h.device, kind |-> h.kind, body |-> b] :
                        b \in group_projected_body(p)} : group_validate(c)}

-----------------------------------------------------------------------------
(* Room controls: no roles, no policy, and at least two members to begin.   *)

NonZero(users) == \A i \in 1..Len(users) : users[i] # 0

room_validate(c) ==
    /\ Linked(c)
    /\ CASE c.kind = "create" ->
              /\ ValidName(c.body.name)
              /\ Len(c.body.users) \in 2..MAX_MEMBERS
              /\ NonZero(c.body.users) /\ Ascending(c.body.users)
              /\ \E i \in 1..Len(c.body.users) : c.body.users[i] = c.user
         [] c.kind = "add" ->
              /\ Len(c.body.users) \in 1..MAX_MEMBERS - 1
              /\ NonZero(c.body.users) /\ Ascending(c.body.users)
         [] c.kind = "remove" -> c.body.user # 0
         [] c.kind = "rename" -> ValidName(c.body.name)

room_body_cells(kind, b) ==
    CASE kind = "create" -> <<Cell(0, b.name), Cell(1, b.users)>>
      [] kind = "add" -> <<Cell(0, b.users)>>
      [] kind = "remove" -> <<Cell(0, b.user)>>
      [] kind = "rename" -> <<Cell(0, b.name)>>

room_encode_control(c) ==
    <<Cell(0, VERSION), Cell(1, c.chat), Cell(2, c.revision), Cell(3, c.previous),
      Cell(4, c.user), Cell(5, c.device), Cell(6, c.kind),
      Cell(7, room_body_cells(c.kind, c.body))>>

room_decode_body(kind, w) ==
    CASE kind = "create" ->
           IF ReadMap(w, 2) /\ ValidName(w[1].val) /\ Len(w[2].val) <= MAX_MEMBERS
           THEN {[name |-> w[1].val, users |-> w[2].val]} ELSE {}
      [] kind = "add" ->
           IF ReadMap(w, 1) /\ Len(w[1].val) <= MAX_MEMBERS - 1
           THEN {[users |-> w[1].val]} ELSE {}
      [] kind = "remove" -> IF ReadMap(w, 1) THEN {[user |-> w[1].val]} ELSE {}
      [] kind = "rename" ->
           IF ReadMap(w, 1) /\ ValidName(w[1].val) THEN {[name |-> w[1].val]} ELSE {}
      [] OTHER -> {}

room_decode_control(w) ==
    IF ReadMap(w, 8) /\ w[1].val = VERSION
    THEN {c \in {Read(w, b) : b \in room_decode_body(w[7].val, w[8].val)} :
            room_validate(c) /\ room_encode_control(c) = w}
    ELSE {}

room_encode_projection(c) ==
    ProjectHead(c) \o
    CASE c.kind = "create" -> <<c.body.name, Len(c.body.users), c.body.users>>
      [] c.kind = "add" -> <<Len(c.body.users), c.body.users>>
      [] c.kind = "remove" -> <<c.body.user>>
      [] c.kind = "rename" -> <<c.body.name>>

room_projected_body(p) ==
    CASE p[7] = "create" ->
           IF Len(p) = 10 /\ p[8] <= MAX_NAME /\ p[9] <= MAX_MEMBERS
           THEN {[name |-> p[8], users |-> p[10]]} ELSE {}
      [] p[7] = "add" ->
           IF Len(p) = 9 /\ p[8] <= MAX_MEMBERS - 1 THEN {[users |-> p[9]]} ELSE {}
      [] p[7] = "remove" -> IF Len(p) = 8 THEN {[user |-> p[8]]} ELSE {}
      [] p[7] = "rename" ->
           IF Len(p) = 8 /\ p[8] <= MAX_NAME THEN {[name |-> p[8]]} ELSE {}
      [] OTHER -> {}

room_decode_projection(p) ==
    IF p[1] # VERSION \/ p[4][1] \notin {0, 1} THEN {}
    ELSE LET h == ProjectedHead(p)
         IN  {c \in {[chat |-> h.chat, revision |-> h.revision, previous |-> h.previous,
                      user |-> h.user, device |-> h.device, kind |-> h.kind, body |-> b] :
                        b \in room_projected_body(p)} : room_validate(c)}

-----------------------------------------------------------------------------
(* Sealing and opening.  A signature covers its domain and the whole wire   *)
(* form, so one made for a group never verifies as one for a room.          *)

Signature(device, domain, w) == [by |-> device, domain |-> domain, of |-> w]

group_sealAnyone(device, p) ==
    {[canonical |-> group_encode_control(c),
      signature |-> Signature(device, "group", group_encode_control(c))] :
        c \in group_decode_projection(p)}

group_seal(device, p) ==
    {[canonical |-> group_encode_control(c),
      signature |-> Signature(device, "group", group_encode_control(c))] :
        c \in {x \in group_decode_projection(p) : x.user = UserOf[device]}}

group_open(device, w, signature) ==
    IF signature # Signature(device, "group", w) THEN {}
    ELSE {group_encode_projection(c) : c \in group_decode_control(w)}

room_seal(device, p) ==
    {[canonical |-> room_encode_control(c),
      signature |-> Signature(device, "room", room_encode_control(c))] :
        c \in {x \in room_decode_projection(p) : x.user = UserOf[device]}}

room_open(device, w, signature) ==
    IF signature # Signature(device, "room", w) THEN {}
    ELSE {room_encode_projection(c) : c \in room_decode_control(w)}

-----------------------------------------------------------------------------
(* What the codec promises, over every control in a bounded space: each kind, valid or   *)
(* not, up to one account more than a chat can hold.                        *)

Accounts == 0..MAX_MEMBERS + 1
Lists == UNION {[1..n -> 1..MAX_MEMBERS + 1] : n \in 0..2}
         \cup {[i \in 1..n |-> i] : n \in 0..MAX_MEMBERS + 1}

\* The members of a group with the owners at the given places.
Seated(users, owners) ==
    [i \in 1..Len(users) |->
        [user |-> users[i], role |-> IF i \in owners THEN "owner" ELSE "member"]]

Bodies(kind) ==
    CASE kind = "create" ->
           [name : 0..MAX_NAME + 1, policy : {0, MAX_POLICY, MAX_POLICY + 1},
            members : {Seated(l, o) : l \in Lists, o \in {{}, {1}, {2}, {1, 2}}}]
      [] kind = "add" -> [users : Lists]
      [] kind = "remove" -> [user : Accounts]
      [] kind = "role" -> [user : Accounts, role : {"member", "admin", "owner", "other"}]
      [] kind = "rename" -> [name : 0..MAX_NAME + 1]

\* The first event of a chat follows nothing; a later one may name any predecessor.
Headed(k, bodies) ==
    [chat : {1}, revision : 0..2, previous : {{}, {"hash"}}, user : {0, 1, 2},
     device : {1}, kind : {k}, body : bodies]

GroupControls == UNION {Headed(k, Bodies(k)) : k \in {"create", "add", "remove", "role", "rename"}}

RoomControls ==
    Headed("create", [name : 0..MAX_NAME + 1, users : Lists])
    \cup UNION {Headed(k, Bodies(k)) : k \in {"add", "remove", "rename"}}

\* Sealing and opening agree on every control.
SealAndOpenAgree ==
    /\ \A d \in DOMAIN UserOf, c \in GroupControls :
         LET p == group_encode_projection(c)
         IN  \A s \in group_seal(d, p) :
               /\ group_open(d, s.canonical, s.signature) = {p}
               /\ room_open(d, s.canonical, s.signature) = {}
               /\ c.user = UserOf[d]
    /\ \A d \in DOMAIN UserOf, c \in RoomControls :
         LET p == room_encode_projection(c)
         IN  \A s \in room_seal(d, p) :
               /\ room_open(d, s.canonical, s.signature) = {p}
               /\ group_open(d, s.canonical, s.signature) = {}
               /\ c.user = UserOf[d]

\* Other ways to write a map: a long head, two entries exchanged, an entry missing or repeated.
Edits(w) == [how : {"lengthen", "exchange", "drop", "repeat"}, at : 1..Len(w)]

Edited(w, e) ==
    LET next == (e.at % Len(w)) + 1
    IN  CASE e.how = "lengthen" -> [w EXCEPT ![e.at].short = FALSE]
          [] e.how = "exchange" -> [w EXCEPT ![e.at] = w[next], ![next] = w[e.at]]
          [] e.how = "drop" -> SubSeq(w, 1, e.at - 1) \o SubSeq(w, e.at + 1, Len(w))
          [] e.how = "repeat" -> SubSeq(w, 1, e.at) \o SubSeq(w, e.at, Len(w))

\* No other form of a valid control decodes to it.
OneFormIsAccepted ==
    /\ \A c \in GroupControls : group_validate(c) =>
         LET w == group_encode_control(c)
             OnlyForm(v) == c \in group_decode_control(v) => v = w
         IN  /\ c \in group_decode_control(w)
             /\ \A e \in Edits(w) : OnlyForm(Edited(w, e))
             /\ \A e \in Edits(w[8].val) : OnlyForm([w EXCEPT ![8].val = Edited(@, e)])
    /\ \A c \in RoomControls : room_validate(c) =>
         LET w == room_encode_control(c)
             OnlyForm(v) == c \in room_decode_control(v) => v = w
         IN  /\ c \in room_decode_control(w)
             /\ \A e \in Edits(w) : OnlyForm(Edited(w, e))
             /\ \A e \in Edits(w[8].val) : OnlyForm([w EXCEPT ![8].val = Edited(@, e)])
=============================================================================
