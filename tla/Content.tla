------------------------------- MODULE Content -------------------------------
(***************************************************************************)
(* The application events devices exchange (application.rs): a message, an   *)
(* edit, a reaction, a receipt.  An event has a wire form, a CBOR map, and a *)
(* projection, the frame the Dart side exchanges with the native core.      *)
(*                                                                          *)
(* Wire form, refusals and Cell are those of ControlCodec.  A text is its   *)
(* length, an optional value a set of at most one; opaque holds the values  *)
(* the core only carries: event id, conversation, user, device, time.       *)
(* Left out: bytes that are not UTF-8 and the size of a whole encoding.     *)
(***************************************************************************)
EXTENDS ControlCodec, SequencesExt

CONSTANTS MAX_REFERENCES,      \* ids an event can refer to
          MAX_TEXT,            \* longest text of a message
          MAX_QUOTE,           \* longest quotation, name or media type
          MAX_ATTACHMENTS,     \* attachments of one message
          MAX_THUMBNAIL,       \* largest thumbnail
          MAX_DEPTH,           \* nesting of a body the core does not know
          MAX_ITEMS,           \* values in such a body
          MAX_ENTRIES,         \* entries of one map in such a body
          MAX_BATCH            \* events in one history batch

APPLICATION_VERSION == 1

is_supported_kind(kind) ==
    kind \in {"create", "edit", "delete", "reaction", "pin", "delivered", "read", "typing"}

has_duplicates(s) == ~ IsInjective(s)

\* read_text and framed_text: a text that must not be empty, or may be.
Text(n, max, required) == n <= max /\ (required => n # 0)

\* read_nullable_text and optional_text: a text that is present is not empty.
OptionalText(o, max) == \A n \in o : Text(n, max, TRUE)

-----------------------------------------------------------------------------
(* Emoji.  A scalar is its class; "ri" is a regional indicator, which       *)
(* is_emoji_base accepts as well.                                           *)

is_emoji_base(c) == c \in {"base", "ri"}

\* The loop of is_single_emoji: whether a base is due, and whether one was seen.
Scan(s) ==
    FoldLeft(LAMBDA st, c :
        CASE ~st.ok -> st
          [] c = "zwj" -> [st EXCEPT !.ok = ~st.due /\ st.saw, !.due = TRUE]
          [] c \in {"modifier", "variation"} -> [st EXCEPT !.ok = ~st.due /\ st.saw]
          [] is_emoji_base(c) -> [ok |-> st.due \/ ~st.saw, due |-> FALSE, saw |-> TRUE]
          [] OTHER -> [st EXCEPT !.ok = FALSE],
        [ok |-> TRUE, due |-> TRUE, saw |-> FALSE], s)

\* How the scan must end; and the end as it would be if a trailing joiner were let through.
EndsAnywhere(st) == st.ok /\ st.saw

Ends(st) == st.ok /\ st.saw /\ ~st.due

is_single_emoji(s) ==
    CASE s = << >> -> FALSE
      [] Len(s) = 2 /\ \A i \in 1..2 : s[i] = "ri" -> TRUE
      [] Last(s) = "keycap" ->
           s[1] = "digit" /\ \A i \in 2..Len(s) - 1 : s[i] = "variation"
      [] OTHER -> Ends(Scan(s))

-----------------------------------------------------------------------------
(* Attachment descriptors.                                                  *)

\* A capability id is exactly 43 URL-safe characters, or is something else.
check_capability_id(a) == a.capability = "valid"

\* What both readers of a descriptor insist on.
DescriptorRead(a) ==
    /\ check_capability_id(a)
    /\ Text(a.name, MAX_QUOTE, TRUE) /\ Text(a.mime, MAX_QUOTE, TRUE)
    /\ a.media <= 1
    /\ OptionalText(a.caption, MAX_TEXT)
    /\ \A n \in a.thumbnail : n <= MAX_THUMBNAIL

\* Without a thumbnail its bytes are empty; reading no bytes gives no thumbnail.
ThumbnailKept(n) == {n}
ThumbnailBytes(t) == IF t = {} THEN 0 ELSE CHOOSE n \in t : TRUE
Thumbnail(n) == IF n = 0 THEN {} ELSE {n}

\* The fourteen values of a descriptor; secrets is key, header, stream header.
DescriptorValues(a) ==
    <<a.capability>> \o a.secrets \o a.sizes \o <<a.name, a.mime, a.media>>
    \o a.dimensions \o <<a.caption, ThumbnailBytes(a.thumbnail)>>

Descriptor(v) ==
    [capability |-> v[1], secrets |-> SubSeq(v, 2, 4), sizes |-> SubSeq(v, 5, 7),
     name |-> v[8], mime |-> v[9], media |-> v[10], dimensions |-> SubSeq(v, 11, 12),
     caption |-> v[13], thumbnail |-> Thumbnail(v[14])]

encode_cbor_attachment(a) ==
    LET v == DescriptorValues(a) IN [i \in 1..Len(v) |-> Cell(i - 1, v[i])]

read_cbor_attachment(w) ==
    IF ReadMap(w, 14)
    THEN {a \in {Descriptor([i \in 1..14 |-> w[i].val])} : DescriptorRead(a)}
    ELSE {}

push_projection_attachment(a) == DescriptorValues(a)

decode_projection_attachment(v) == {a \in {Descriptor(v)} : DescriptorRead(a)}

-----------------------------------------------------------------------------
(* A body of a kind this version does not know: a tree of values, each a    *)
(* leaf, a list, a map with its keys, or a value the protocol forbids.      *)

RECURSIVE validate_unknown_value(_, _, _)

\* The number of values counted once v is accepted.
validate_unknown_value(v, depth, count) ==
    LET n == count + 1
        Item(acc, i) == UNION {validate_unknown_value(v.items[i], depth + 1, m) : m \in acc}
        Entry(acc, i) ==
            UNION {validate_unknown_value(v.items[i], depth + 1, m + 1) :
                     m \in {m \in acc : m < MAX_ITEMS /\ (i > 1 => v.keys[i - 1] < v.keys[i])}}
        Indices == [i \in 1..Len(v.items) |-> i]
    IN  CASE depth > MAX_DEPTH \/ n > MAX_ITEMS -> {}
          [] v.type = "leaf" -> {n}
          [] v.type = "list" /\ Len(v.items) <= MAX_ITEMS - n -> FoldLeft(Item, {n}, Indices)
          [] v.type = "map" /\ Len(v.items) <= MAX_ENTRIES -> FoldLeft(Entry, {n}, Indices)
          [] OTHER -> {}

validate_unknown_bodyShallow(v) == v.type = "map" /\ validate_unknown_value(v, 1, 0) # {}

validate_unknown_body(v) == v.type = "map" /\ validate_unknown_value(v, 2, 0) # {}

-----------------------------------------------------------------------------
(* Bodies and events in their wire form.                                    *)

Cells(values) == [i \in 1..Len(values) |-> Cell(i - 1, values[i])]

\* A list that is empty is left out rather than written.
ListOf(s) == IF s = << >> THEN << >> ELSE <<s>>

Each(Op(_), s) == [i \in 1..Len(s) |-> Op(s[i])]

BodyCells(kind, b) ==
    Cells(CASE kind = "create" ->
                 <<b.id, b.content, b.text, b.reply, b.quote>>
                 \o ListOf(Each(encode_cbor_attachment, b.attachments))
            [] kind = "edit" -> <<b.target, b.text, b.revision>>
            [] kind = "delete" -> <<b.target>>
            [] kind = "reaction" -> <<b.target, b.emoji>>
            [] kind = "pin" -> <<b.target, b.pinned>>
            [] kind \in {"delivered", "read"} -> <<b.ids>>
            [] kind = "typing" -> <<b.on, b.expires>>)

encode_event_body(kind, b) ==
    CASE ~is_supported_kind(kind) -> {}
      [] kind = "create" /\ (b.content = 0) # (b.attachments = << >>) -> {}
      [] OTHER -> {BodyCells(kind, b)}

EventCells(e, body) ==
    Cells(<<e.version, e.opaque[1], e.opaque[2], e.kind, e.opaque[3], e.opaque[4],
            e.counter, e.opaque[5], e.references, body>>)

encode_event(e) == {EventCells(e, body) : body \in encode_event_body(e.kind, e.body)}

\* The attachments of a message, read from a list by the given reader.
ReadEach(Op(_), list) ==
    IF Len(list) <= MAX_ATTACHMENTS /\ \A i \in 1..Len(list) : Op(list[i]) # {}
    THEN {Each(LAMBDA c : CHOOSE a \in Op(c) : TRUE, list)}
    ELSE {}

MessageBody(v, attachments) ==
    [id |-> v[1], content |-> v[2], text |-> v[3], reply |-> v[4], quote |-> v[5],
     attachments |-> attachments]

\* The attachments in the values v of a message's map; key 5 is there only when one is.
read_attachmentsMaybeEmpty(v) ==
    IF Len(v) = 5 THEN {<< >>} ELSE ReadEach(read_cbor_attachment, v[6])

read_attachments(v) ==
    CASE Len(v) = 5 -> {<< >>}
      [] v[6] = << >> -> {}
      [] OTHER -> ReadEach(read_cbor_attachment, v[6])

decode_cbor_body(kind, w) ==
    LET v == [i \in 1..Len(w) |-> w[i].val]
        Fields == CASE kind = "create" -> {5, 6}
                    [] kind = "edit" -> {3}
                    [] kind \in {"delete", "delivered", "read"} -> {1}
                    [] OTHER -> {2}
    IN  CASE ~(Len(w) \in Fields /\ ReadMap(w, Len(w))) -> {}
          [] kind = "create" ->
               {b \in {MessageBody(v, a) : a \in read_attachments(v)} :
                  /\ b.content <= 2
                  /\ Text(b.text, MAX_TEXT, b.content = 0)
                  /\ OptionalText(b.quote, MAX_QUOTE)
                  /\ (b.content = 0) = (b.attachments = << >>)}
          [] kind = "edit" ->
               {b \in {[target |-> v[1], text |-> v[2], revision |-> v[3]]} :
                  Text(b.text, MAX_TEXT, TRUE) /\ b.revision # 0}
          [] kind = "delete" -> {[target |-> v[1]]}
          [] kind = "reaction" ->
               {b \in {[target |-> v[1], emoji |-> v[2]]} :
                  \A s \in b.emoji : is_single_emoji(s)}
          [] kind = "pin" -> {[target |-> v[1], pinned |-> v[2]]}
          [] kind \in {"delivered", "read"} ->
               {b \in {[ids |-> v[1]]} :
                  Len(b.ids) \in 1..MAX_REFERENCES /\ ~has_duplicates(b.ids)}
          [] kind = "typing" -> {[on |-> v[1], expires |-> v[2]]}

\* An event, or why the core passes it on unread: its version, or its kind.
Read_event(w, body) ==
    [version |-> w[1].val, opaque |-> <<w[2].val, w[3].val, w[5].val, w[6].val, w[8].val>>,
     kind |-> w[4].val, counter |-> w[7].val, references |-> w[9].val, body |-> body]

decode_event(w) ==
    LET body == w[10].val
    IN  CASE ~(Len(w) > 0 /\ w[1].key = 0 /\ w[1].short) -> {}
          [] w[1].val # APPLICATION_VERSION -> {[status |-> "version", event |-> w[1].val]}
          [] ~ReadMap(w, 10) \/ w[7].val = 0 -> {}
          [] Len(w[9].val) > MAX_REFERENCES \/ has_duplicates(w[9].val) -> {}
          [] is_supported_kind(w[4].val) ->
               {[status |-> "event", event |-> Read_event(w, b)] :
                  b \in decode_cbor_body(w[4].val, body)}
          [] validate_unknown_body(body) ->
               {[status |-> "kind", event |-> Read_event(w, "unsupported")]}
          [] OTHER -> {}

-----------------------------------------------------------------------------
(* Projections, and the operations the Dart side calls.                     *)

BodyProjection(kind, b) ==
    CASE kind = "create" ->
           <<b.id, b.content, b.text, b.reply, b.quote>>
           \o ListOf(Each(push_projection_attachment, b.attachments))
      [] kind = "edit" -> <<b.target, b.revision, b.text>>
      [] kind = "delete" -> <<b.target>>
      [] kind = "reaction" -> <<b.target, b.emoji>>
      [] kind = "pin" -> <<b.target, b.pinned>>
      [] kind \in {"delivered", "read"} -> <<b.ids>>
      [] kind = "typing" -> <<b.on, b.expires>>
      [] OTHER -> << >>

encode_projection(e) ==
    <<e.version, e.opaque, e.kind, e.counter, e.references>> \o BodyProjection(e.kind, e.body)

decode_projection_body(kind, v) ==
    LET Fields == CASE kind = "create" -> IF Len(v) > 1 /\ v[2] = 0 THEN {5} ELSE {6}
                    [] kind = "edit" -> {3}
                    [] kind \in {"delete", "delivered", "read"} -> {1}
                    [] OTHER -> {2}
        List == IF v[2] = 0 THEN {<< >>} ELSE ReadEach(decode_projection_attachment, v[6])
    IN  CASE ~is_supported_kind(kind) \/ Len(v) \notin Fields -> {}
          [] kind = "create" ->
               {b \in {MessageBody(v, a) : a \in List} :
                  /\ b.content <= 2
                  /\ Text(b.text, MAX_TEXT, b.content = 0)
                  /\ OptionalText(b.quote, MAX_QUOTE)
                  /\ b.content # 0 => b.attachments # << >>}
          [] kind = "edit" ->
               {b \in {[target |-> v[1], revision |-> v[2], text |-> v[3]]} :
                  b.revision # 0 /\ Text(b.text, MAX_TEXT, TRUE)}
          [] kind = "delete" -> {[target |-> v[1]]}
          [] kind = "reaction" ->
               {b \in {[target |-> v[1], emoji |-> v[2]]} :
                  \A s \in b.emoji : is_single_emoji(s)}
          [] kind = "pin" -> {[target |-> v[1], pinned |-> v[2]]}
          [] kind \in {"delivered", "read"} ->
               {b \in {[ids |-> v[1]]} :
                  Len(b.ids) \in 1..MAX_REFERENCES /\ ~has_duplicates(b.ids)}
          [] kind = "typing" -> {[on |-> v[1], expires |-> v[2]]}

decode_projection_request(p) ==
    IF p[1] # APPLICATION_VERSION \/ p[4] = 0
       \/ Len(p[5]) > MAX_REFERENCES \/ has_duplicates(p[5])
    THEN {}
    ELSE {[version |-> p[1], opaque |-> p[2], kind |-> p[3], counter |-> p[4],
           references |-> p[5], body |-> b] :
            b \in decode_projection_body(p[3], SubSeq(p, 6, Len(p)))}

encode_operation(p) == UNION {encode_event(e) : e \in decode_projection_request(p)}

\* The status byte (0 read, 1 of an unknown kind, 2 of another version) and what follows it.
decode_operation(w) ==
    {CASE r.status = "version" -> <<2, r.event>>
       [] r.status = "kind" -> <<1, encode_projection(r.event)>>
       [] r.status = "event" -> <<0, encode_projection(r.event)>> : r \in decode_event(w)}

\* The frames devices of one account exchange; a batch carries events in wire form.
validate_device_controlAnyEvent(f) ==
    /\ f.version = 1 /\ f.kind = "batch" /\ f.target # 0 /\ f.transfer # 0
    /\ f.completeness <= 1 /\ Len(f.events) \in 1..MAX_BATCH
    /\ \A i \in 1..Len(f.events) :
          \E r \in decode_event(f.events[i]) :
             r.status = "event" /\ f.events[i] \in encode_event(r.event)

validate_device_control(f) ==
    /\ f.version = 1
    /\ IF f.kind = "gossip" THEN f.target = 0 /\ f.transfer = 0
       ELSE f.target # 0 /\ f.transfer # 0
    /\ CASE f.kind = "gossip" -> Len(f.users) \in 1..MAX_BATCH /\ ~has_duplicates(f.users)
         [] f.kind \in {"request", "confirm"} -> TRUE
         [] f.kind = "batch" ->
              /\ f.completeness <= 1
              /\ Len(f.events) \in 1..MAX_BATCH
              /\ \A i \in 1..Len(f.events) :
                    \E r \in decode_event(f.events[i]) :
                       /\ r.status = "event" /\ r.event.kind # "typing"
                       /\ f.events[i] \in encode_event(r.event)
         [] f.kind = "end" -> f.reason <= 2
         [] OTHER -> FALSE

-----------------------------------------------------------------------------
(* What the codec promises, over a bounded space of events, valid or not.   *)

References == UNION {[1..n -> {1, 2}] : n \in 0..MAX_REFERENCES + 1}

GoodDescriptor ==
    [capability |-> "valid", secrets |-> <<1, 2, 3>>, sizes |-> <<4, 5, 6>>, name |-> 1,
     mime |-> 1, media |-> 1, dimensions |-> <<7, 8>>, caption |-> {}, thumbnail |-> {}]

Descriptors ==
    LET d == GoodDescriptor
    IN  {d, [d EXCEPT !.capability = "short"], [d EXCEPT !.media = 2],
         [d EXCEPT !.caption = {0}], [d EXCEPT !.caption = {1}],
         [d EXCEPT !.thumbnail = {1}], [d EXCEPT !.thumbnail = {MAX_THUMBNAIL + 1}]}
        \cup {[d EXCEPT !.name = n] : n \in {0, MAX_QUOTE + 1}}
        \cup {[d EXCEPT !.mime = n] : n \in {0, MAX_QUOTE + 1}}

Messages ==
    [id : {1}, content : 0..3, text : {0, 1, MAX_TEXT + 1}, reply : {{}, {1}},
     quote : {{}, {0}, {1}, {MAX_QUOTE + 1}},
     attachments : {<< >>, [i \in 1..MAX_ATTACHMENTS + 1 |-> GoodDescriptor]}
                   \cup {<<d>> : d \in Descriptors}]

EventBodies(kind) ==
    CASE kind = "create" -> Messages
      [] kind = "edit" -> [target : {1}, revision : 0..1, text : {0, 1, MAX_TEXT + 1}]
      [] kind = "delete" -> [target : {1}]
      [] kind = "reaction" ->
           [target : {1}, emoji : {{}, {<< >>}, {<<"base">>}, {<<"base", "base">>}}]
      [] kind = "pin" -> [target : {1}, pinned : BOOLEAN]
      [] kind \in {"delivered", "read"} -> [ids : References]
      [] kind = "typing" -> [on : BOOLEAN, expires : {0, 1}]

KINDS == {"create", "edit", "delete", "reaction", "pin", "delivered", "read", "typing"}

Headers == [version : {1, 2}, counter : 0..1, references : References]

EventOf(kind, h, b) ==
    [version |-> h.version, opaque |-> <<1, 2, 3, 4, 5>>, kind |-> kind,
     counter |-> h.counter, references |-> h.references, body |-> b]

PlainHeader == [version |-> 1, counter |-> 1, references |-> <<1>>]

Events ==
    {EventOf(k, PlainHeader, b) : <<k, b>> \in UNION {{k} \X EventBodies(k) : k \in KINDS}}
    \cup {EventOf("delete", h, [target |-> 1]) : h \in Headers}

WireOf(e) == EventCells(e, BodyCells(e.kind, e.body))

ReadsAs(w, e) == \E r \in decode_event(w) : r.status = "event" /\ r.event = e

\* The frame reader and the wire reader accept the same events, and each undoes the other.
ReadersAgree ==
    \A e \in Events :
        LET p == encode_projection(e)
            w == WireOf(e)
        IN  /\ (decode_projection_request(p) # {}) <=> ReadsAs(w, e)
            /\ \A v \in encode_operation(p) : v = w /\ decode_operation(v) = {<<0, p>>}

\* No other form of an event is read as that event: an edit of its map, of its body's, of an
\* attachment's, or a list of attachments that is there and empty.
OneWireForm ==
    \A e \in {e \in Events : ReadsAs(WireOf(e), e)} :
        LET w == WireOf(e)
            body == w[10].val
            OnlyForm(v) == ReadsAs(v, e) => v = w
        IN  /\ \A d \in Edits(w) : OnlyForm(Edited(w, d))
            /\ \A d \in Edits(body) : OnlyForm([w EXCEPT ![10].val = Edited(@, d)])
            /\ OnlyForm([w EXCEPT ![10].val = Append(@, Cell(Len(@), << >>))])
            /\ Len(body) = 6 => \A d \in Edits(body[6].val[1]) :
                  OnlyForm([w EXCEPT ![10].val[6].val[1] = Edited(@, d)])

\* Wires a history batch may meet: every kind, an unknown kind, another version, edited ones.
Sample(k) ==
    LET valid(b) == ReadsAs(WireOf(EventOf(k, PlainHeader, b)), EventOf(k, PlainHeader, b))
    IN  WireOf(EventOf(k, PlainHeader, CHOOSE b \in EventBodies(k) : valid(b)))

Variants(w) ==
    LET empty == [type |-> "map", keys |-> << >>, items |-> << >>]
    IN  <<w, [w EXCEPT ![1].val = 2], [w EXCEPT ![4].val = "future", ![10].val = empty]>>
        \o [i \in 1..Len(w) |-> Edited(w, [how |-> "lengthen", at |-> i])]

\* A history batch accepts exactly the events a device would accept as a message.
HistoryTakesWhatIsRead ==
    \A k \in KINDS, n \in 0..MAX_BATCH + 1 :
        LET wires == Variants(Sample(k))
        IN  \A j \in 1..Len(wires) :
              validate_device_control(
                  [version |-> 1, kind |-> "batch", target |-> 1, transfer |-> 1,
                   completeness |-> 0, events |-> [i \in 1..n |-> wires[j]]])
              <=> /\ n \in 1..MAX_BATCH
                  /\ \E o \in decode_operation(wires[j]) : o[1] = 0 /\ k # "typing"

\* One emoji, said at once: a flag, a keycap, or bases joined pairwise.
OneEmoji(s) ==
    \/ s = <<"ri", "ri">>
    \/ /\ Len(s) > 1 /\ s[1] = "digit" /\ Last(s) = "keycap"
       /\ \A i \in 2..Len(s) - 1 : s[i] = "variation"
    \/ /\ s # << >> /\ is_emoji_base(s[1]) /\ Last(s) # "zwj"
       /\ \A i \in 1..Len(s) : s[i] \in {"base", "ri", "modifier", "variation", "zwj"}
       /\ \A i \in 2..Len(s) : is_emoji_base(s[i]) <=> s[i - 1] = "zwj"

SCALARS == {"ri", "base", "modifier", "variation", "zwj", "keycap", "digit", "other"}

\* The scan accepts exactly the strings that are one emoji.
ScanFindsOneEmoji ==
    \A n \in 0..5 : \A s \in [1..n -> SCALARS] : is_single_emoji(s) <=> OneEmoji(s)

RECURSIVE Height(_), Weight(_), Allowed(_)

Parts(v) == IF v.type \in {"list", "map"} THEN Range(v.items) ELSE {}
Height(v) == 1 + Max({0} \cup {Height(x) : x \in Parts(v)})
Weight(v) ==
    CASE v.type = "list" -> 1 + FoldLeft(LAMBDA n, x : n + Weight(x), 0, v.items)
      [] v.type = "map" -> 1 + FoldLeft(LAMBDA n, x : n + 1 + Weight(x), 0, v.items)
      [] OTHER -> 1
Allowed(v) ==
    /\ v.type # "forbidden"
    /\ v.type = "map" => Len(v.items) <= MAX_ENTRIES /\ Ascending(v.keys)
    /\ \A x \in Parts(v) : Allowed(x)

\* Lists and maps of at most n parts taken from S.
Around(S, n) ==
    UNION {[type : {"list"}, items : [1..k -> S]]
           \cup [type : {"map"}, keys : [1..k -> {1, 2}], items : [1..k -> S]] : k \in 0..n}

Leaves == {[type |-> "leaf"], [type |-> "forbidden"]}
Flat == Around(Leaves, MAX_ENTRIES + 1)
Trees == LET leaf == {[type |-> "leaf"]}
             two == Around(Flat \cup Leaves, 1) \cup Around(Around(leaf, 2) \cup leaf, 2)
         IN  Flat \cup two \cup Around(two, 1)

\* An unknown body is kept exactly when it is within the protocol's bounds as a whole.
UnknownIsBounded ==
    \A v \in Trees :
        validate_unknown_body(v) <=>
            /\ v.type = "map" /\ Allowed(v)
            /\ Height(v) + 1 <= MAX_DEPTH /\ Weight(v) <= MAX_ITEMS
=============================================================================
