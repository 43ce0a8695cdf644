---------------------------- MODULE MCUvcStream ----------------------------
(* Model values for the runs of UvcStream. *)
EXTENDS UvcStream, TLC

Symmetry == Permutations(Transfer)
=============================================================================
