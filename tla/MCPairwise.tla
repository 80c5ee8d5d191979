----------------------------- MODULE MCPairwise -----------------------------
(***************************************************************************)
(* Pairwise for TLC.  The other constants are numbers, Booleans and sets   *)
(* of them and get their values in the configurations.                     *)
(***************************************************************************)
EXTENDS Pairwise

\* Four envelopes one way are what it takes to skip, to be late, and to meet a bound
\* of one skipped key; two the other way turn the ratchet back and answer a repair.
Talkative == <<4, 2>>
Even == <<2, 2>>
=============================================================================
