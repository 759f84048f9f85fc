---------------------------- MODULE MCAckProgress ----------------------------
(***************************************************************************)
(* Instances of the ack-progress timing for TLC.                           *)
(***************************************************************************)
EXTENDS AckProgress, TLC

JobSymmetry == Permutations(Jobs)
=============================================================================
