---------------------------- MODULE MCInboxSync ----------------------------
(***************************************************************************)
(* Instances of InboxSync for TLC: one device, envelopes of size 1 sent one *)
(* at a time.                                                              *)
(***************************************************************************)
EXTENDS InboxSync

CONSTANTS d1

OneByOne == {[d \in {d1} |-> <<1>>]}
=============================================================================
