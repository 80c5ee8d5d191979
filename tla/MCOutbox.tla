------------------------------ MODULE MCOutbox ------------------------------
(***************************************************************************)
(* Instances of Outbox for TLC.  The batches a send carries come from the  *)
(* outbox itself, so the send calls of Mailbox are not enumerated.         *)
(***************************************************************************)
EXTENDS Outbox

NoBatches == {}
=============================================================================
