----------------------------- MODULE MCPrekeys -----------------------------
(***************************************************************************)
(* Prekeys on a small instance: one pool, a rotation every day with a        *)
(* retention of one more, so that every held and every retired pair meets   *)
(* its last day, and a server that stores three keys and is refilled to two. *)
(***************************************************************************)
EXTENDS Prekeys

=============================================================================
