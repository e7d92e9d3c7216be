------------------------------ MODULE MCRelayDay ------------------------------
(***************************************************************************)
(* A small account: an utterance of day 0 in the evening, one early in the *)
(* morning of day 1, which is still day 0 in UTC, and two photos of day 0. *)
(***************************************************************************)
EXTENDS RelayDay, TLC

CONSTANTS evening, morning, lunch, dinner

MCAt == evening :> 10 @@ morning :> 20 @@ lunch :> 3 @@ dinner :> 9
===============================================================================
