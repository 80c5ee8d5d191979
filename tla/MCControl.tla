----------------------------- MODULE MCControl ------------------------------
(* Instance of ControlSync for TLC, with the facts about the formats of      *)
(* application events and attachments, which TLC evaluates once, before the *)
(* first event is signed.                                                   *)
EXTENDS ControlSync, Content, AttachmentStream

MCDevices == {1, 2, 3}
MCFoundings == {{1, 2}}
MCUserOf == <<1, 2, 3>>

\* The event a device encodes from the client's frame is the event every other device reads back
\* to its client, and the frame reader accepts exactly what the wire reader accepts
\* (encode_operation, decode_operation: two parsers written apart).
EventsReadBackTheSame == signed = 0 => ReadersAgree

\* An event has one wire form: a long head, entries out of order, missing or repeated, and an
\* empty list of attachments under key 5 are all refused (decode_event compares no bytes, so
\* this rests on the readers).
OneEventOneEncoding == signed = 0 => OneWireForm

\* A history batch accepts exactly the events a device would accept as messages, typing apart:
\* what was once readable can be handed to a new device (validate_device_control).
HistoryIsWhatWasRead == signed = 0 => HistoryTakesWhatIsRead

\* is_single_emoji accepts exactly flags, keycaps and joined bases with their modifiers.
ReactionIsOneEmoji == signed = 0 => ScanFindsOneEmoji

\* A body of a future kind is kept exactly when its nesting, its number of values and its maps
\* are within the protocol's bounds, however these are spread over the tree
\* (validate_unknown_value threads one count through the recursion).
FutureBodyIsBounded == signed = 0 => UnknownIsBounded

\* A file the client pushes to the end is pulled to the end, whole and in order, for every size
\* and every way to cut it (push_chunk, pull_chunk, encrypted_stream_size).
AttachmentArrivesWhole == signed = 0 => PushedFileArrives

\* A pull never hands out more than its header promises, and completes at exactly that size,
\* whatever was encrypted under the key (pull_chunk).
AttachmentKeepsToItsSize == signed = 0 => PullKeepsToTheHeader

\* parse_header accepts one header for a size: the one create_push makes.
AttachmentHeaderIsCanonical == signed = 0 => OneHeaderPerSize

\* Every format of the core reads back what was written, and accepts one form of it: control
\* events, application events, future bodies, history batches, reactions, attachment streams
\* (group_control.rs, room_control.rs, application.rs, attachment.rs).
FormatsReadBack ==
    /\ SealedOpensAsItself /\ OneEventOneWire
    /\ EventsReadBackTheSame /\ OneEventOneEncoding /\ HistoryIsWhatWasRead
    /\ ReactionIsOneEmoji /\ FutureBodyIsBounded
    /\ AttachmentArrivesWhole /\ AttachmentKeepsToItsSize /\ AttachmentHeaderIsCanonical
=============================================================================
