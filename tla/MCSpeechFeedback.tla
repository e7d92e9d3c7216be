-------------------------- MODULE MCSpeechFeedback --------------------------
(***************************************************************************)
(* Two announcements: one may be new while the other is still in some      *)
(* thread's hands, or spoken.  One utterance of the web page: it has no    *)
(* caller, and one that follows another of the page concerns nobody else   *)
(* (with two the same properties hold).  A request that nobody has any     *)
(* more is made again, so behaviours do not end.                           *)
(***************************************************************************)
EXTENDS SpeechFeedback
==============================================================================
