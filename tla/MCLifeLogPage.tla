---------------------------- MODULE MCLifeLogPage ----------------------------
(***************************************************************************)
(* An utterance of today and two of yesterday, one of them from another    *)
(* phone.  Loads enough for an old one to overtake those of the day picked *)
(* later and of the report.                                                *)
(***************************************************************************)
EXTENDS LifeLogPage, TLC

CONSTANTS now, theirs, before, today, yesterday

MCDayOf == now :> today @@ theirs :> yesterday @@ before :> yesterday
==============================================================================
