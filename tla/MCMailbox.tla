----------------------------- MODULE MCMailbox -----------------------------
(***************************************************************************)
(* A small instance of Mailbox: one device with a long queue.              *)
(***************************************************************************)
EXTENDS Mailbox, TLC

CONSTANT d1

\* A copy of one byte, a copy of two, and two copies for the same device.
OneDeviceBatches == {d1 :> <<1>>, d1 :> <<2>>, d1 :> <<1, 1>>}
=============================================================================
