-------------------------- MODULE AttachmentStream --------------------------
(***************************************************************************)
(* The encrypted stream of an attachment (attachment.rs): a push session     *)
(* encrypts a file chunk by chunk, a pull session decrypts it.              *)
(*                                                                          *)
(* A chunk is its size; an encrypted chunk also records what the stream     *)
(* cipher binds it to: the key, the header, its place and whether it is the *)
(* last.  A refusal is the empty set.  Left out: the handle table and its   *)
(* limit of 64 sessions, and the bytes.                                     *)
(***************************************************************************)
EXTENDS Integers, SequencesExt

CONSTANTS CHUNK,      \* plaintext bytes a chunk holds
          ABYTES,     \* bytes encryption adds to a chunk
          HEADERS,    \* bytes of both headers
          BUCKETS     \* sizes a stored file can have

ASSUME StreamAssumption == CHUNK \in Nat \ {0} /\ ABYTES \in Nat \ {0} /\ BUCKETS \subseteq Nat

-----------------------------------------------------------------------------
(* Sizes and headers.                                                       *)

\* The size with a last chunk that is not full left uncounted.
encrypted_stream_sizeFloor(n) == n + ABYTES * (IF n < CHUNK THEN 1 ELSE n \div CHUNK)

encrypted_stream_size(n) ==
    n + ABYTES * (IF n = 0 THEN 1 ELSE (n + CHUNK - 1) \div CHUNK)

bucket_for_stream(stream) ==
    LET fit == {b \in BUCKETS : b >= stream + HEADERS}
    IN  IF fit = {} THEN {} ELSE {Min(fit)}

make_header(n, stream, bucket, metadata) ==
    IF stream + HEADERS > bucket THEN {}
    ELSE {[chunk |-> CHUNK, size |-> n, stream |-> stream, bucket |-> bucket,
           metadata |-> metadata]}

parse_headerAnyBucket(h) ==
    IF h.chunk # CHUNK \/ encrypted_stream_size(h.size) # h.stream THEN {}
    ELSE make_header(h.size, h.stream, h.bucket, h.metadata)

parse_header(h) ==
    IF \/ h.chunk # CHUNK
       \/ bucket_for_stream(h.stream) # {h.bucket}
       \/ encrypted_stream_size(h.size) # h.stream
    THEN {}
    ELSE make_header(h.size, h.stream, h.bucket, h.metadata)

-----------------------------------------------------------------------------
(* Sessions.                                                                *)

Session(header, key) ==
    [header |-> header, key |-> key, place |-> 0, plain |-> 0, stream |-> 0, final |-> FALSE]

create_push(n, chunk, bucket, metadata, key) ==
    LET stream == encrypted_stream_size(n)
    IN  IF chunk # CHUNK \/ bucket_for_stream(stream) # {bucket} THEN {}
        ELSE {Session(h, key) : h \in make_header(n, stream, bucket, metadata)}

create_pull(key, header, metadata) ==
    {Session(h, key) : h \in {h \in parse_header(header) : h.metadata = metadata}}

\* secretstream_push: the place of the stream moves on with every chunk.
Encrypt(s, n, last) ==
    [key |-> s.key, header |-> s.header, place |-> s.place, size |-> n, last |-> last]

\* A chunk that overruns the stream leaves the session advanced and never final.
push_chunk(s, n, last) ==
    LET plain == s.plain + n
        stream == s.stream + n + ABYTES
        seen == [s EXCEPT !.place = @ + 1, !.plain = plain, !.stream = stream]
    IN  CASE n > CHUNK \/ s.final \/ plain > s.header.size -> [session |-> s, out |-> {}]
          [] last # (plain = s.header.size) -> [session |-> s, out |-> {}]
          [] stream > s.header.stream -> [session |-> seen, out |-> {}]
          [] OTHER -> [session |-> [seen EXCEPT !.final = last], out |-> {Encrypt(s, n, last)}]

\* secretstream_pull opens the chunk at its place under the key and the header it was made with.
Opens(s, c) == c.key = s.key /\ c.header = s.header /\ c.place = s.place

pull_chunkAnyEnd(s, c) ==
    LET seen == [s EXCEPT !.place = @ + 1, !.plain = @ + c.size, !.stream = @ + c.size + ABYTES]
    IN  IF s.final \/ c.size > CHUNK \/ ~Opens(s, c)
           \/ seen.stream > s.header.stream \/ seen.plain > s.header.size
        THEN [session |-> s, out |-> {}]
        ELSE [session |-> [seen EXCEPT !.final = c.last], out |-> {c.size}]

\* The place moves on as soon as the chunk opens, the counts only when it is within bounds.
pull_chunk(s, c) ==
    LET opened == [s EXCEPT !.place = @ + 1]
        seen == [opened EXCEPT !.plain = @ + c.size, !.stream = @ + c.size + ABYTES]
        h == s.header
    IN  CASE s.final \/ c.size > CHUNK \/ ~Opens(s, c) -> [session |-> s, out |-> {}]
          [] seen.stream > h.stream \/ seen.plain > h.size -> [session |-> opened, out |-> {}]
          [] c.last /\ (seen.stream # h.stream \/ seen.plain # h.size) ->
               [session |-> seen, out |-> {}]
          [] OTHER -> [session |-> [seen EXCEPT !.final = c.last], out |-> {c.size}]

\* A session that is not complete can only be given up.
close_session(s, abort) == abort \/ s.final

-----------------------------------------------------------------------------
(* Whole files.  A caller stops at the first refusal and gives the session  *)
(* up.                                                                      *)

Run(Op(_, _), s, inputs) ==
    FoldLeft(LAMBDA st, i :
        IF st.failed THEN st
        ELSE LET r == Op(st.session, i)
             IN  [session |-> r.session, failed |-> r.out = {},
                  outs |-> st.outs \o SetToSeq(r.out)],
        [session |-> s, failed |-> FALSE, outs |-> << >>], inputs)

Push(s, chunks) == Run(LAMBDA t, c : push_chunk(t, c.size, c.last), s, chunks)
Pull(s, wire) == Run(pull_chunk, s, wire)
Total(sizes) == FoldLeft(LAMBDA a, b : a + b, 0, sizes)

FILES == 0..3 * CHUNK
Chunks == [size : 0..CHUNK + 1, last : BOOLEAN]
Cuts == UNION {[1..n -> Chunks] : n \in 0..4}

\* A file cut into full chunks and a rest.
FullChunks(n) ==
    LET count == IF n = 0 THEN 1 ELSE (n + CHUNK - 1) \div CHUNK
    IN  [i \in 1..count |-> [size |-> IF i = count THEN n - CHUNK * (count - 1) ELSE CHUNK,
                             last |-> i = count]]

Sessions(n) ==
    UNION {create_push(n, CHUNK, b, "m", "k") : b \in BUCKETS}

\* A file that fits a bucket is pushed to the end when it is cut as the client cuts it, and
\* whatever cut is pushed to the end is pulled to the end, chunk by chunk.
PushedFileArrives ==
    \A n \in FILES : \A s \in Sessions(n) :
        /\ Push(s, FullChunks(n)).session.final
        /\ \A cut \in Cuts :
             LET pushed == Push(s, cut)
                 pulled == Pull(CHOOSE t \in create_pull("k", s.header, "m") : TRUE, pushed.outs)
             IN  close_session(pushed.session, FALSE) =>
                   /\ close_session(pulled.session, FALSE) /\ ~pulled.failed
                   /\ pulled.outs = [i \in 1..Len(pushed.outs) |-> pushed.outs[i].size]
                   /\ Total(pulled.outs) = n

\* Whatever was encrypted under the key and the header, a pull hands out no more than the size
\* in the header, and ends only at exactly that size.
PullKeepsToTheHeader ==
    \A n \in FILES : \A s \in Sessions(n) : \A cut \in Cuts :
        LET wire == [i \in 1..Len(cut) |->
                        Encrypt([s EXCEPT !.place = i - 1], cut[i].size, cut[i].last)]
            pulled == Pull(s, wire)
        IN  /\ Total(pulled.outs) <= n
            /\ close_session(pulled.session, FALSE) => Total(pulled.outs) = n

\* The only header accepted for a size is the one a push makes for it.
OneHeaderPerSize ==
    \A h \in [chunk : {CHUNK, CHUNK + 1}, size : FILES, stream : 0..3 * (CHUNK + ABYTES),
              bucket : BUCKETS, metadata : {"m"}] :
        parse_header(h) = {s.header : s \in {s \in Sessions(h.size) : s.header = h}}
=============================================================================
