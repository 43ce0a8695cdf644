---------------------------- MODULE MCUVCPreview ----------------------------
(* Model values for the runs of UVCPreview. *)
EXTENDS UVCPreview, TLC

Symmetry == Permutations(Frame) \cup Permutations(Window)
              \cup Permutations(Callback)
=============================================================================
