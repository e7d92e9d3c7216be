----------------------------- MODULE MCPhotoSync -----------------------------
(* Model values and symmetry for the runs of PhotoSync. *)
EXTENDS PhotoSync, TLC

\* Photos, retrying threads and relay threads are compared for equality only.
Symmetry == Permutations(Photos) \cup Permutations(Retriers) \cup Permutations(Handlers)

==============================================================================
