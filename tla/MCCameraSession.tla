--------------------------- MODULE MCCameraSession ---------------------------
(* Model values and symmetry for the runs of CameraSession. *)
EXTENDS CameraSession, TLC

\* Sessions and cameras are compared for equality only.
Symmetry == Permutations(Sessions) \cup Permutations(Cameras)

==============================================================================
