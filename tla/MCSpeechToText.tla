--------------------------- MODULE MCSpeechToText ---------------------------
(***************************************************************************)
(* Two utterances, so that one may follow while the other's subtitle is    *)
(* still there; a pending restart and a BUSY answer beside the recognition *)
(* that is under way, as a stop followed by a start leaves behind.         *)
(***************************************************************************)
EXTENDS SpeechToText
==============================================================================
