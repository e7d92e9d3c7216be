------------------------------- MODULE DayReport -------------------------------
(***************************************************************************)
(* What the relay promises of a day's report, whatever it takes to write   *)
(* one: entries that were accepted stay; a report covers every entry of    *)
(* its day that was accepted when it was asked for, and nothing of another *)
(* day.  It may leave out what came later, and asking may come to nothing. *)
(***************************************************************************)
CONSTANTS
    Entries,      \* what the phones send: records and photos
    Days,
    Requests,     \* the reports being written at one time
    OnDay(_, _),  \* OnDay(S, d): the entries of S that belong to day d
    None

VARIABLES
    entries,      \* accepted
    report,       \* report[d]: the entries the report of d was written from, or None
    asked         \* asked[q]: the day q is about and what its report has to cover, or None

vars == <<entries, report, asked>>

Init ==
    /\ entries = {}
    /\ report = [d \in Days |-> None]
    /\ asked = [q \in Requests |-> None]

\* S is sent, and accepted.
AcceptAll(S) ==
    /\ entries' = entries \cup S
    /\ UNCHANGED <<report, asked>>

Accept == \E S \in SUBSET Entries : AcceptAll(S)

\* S is sent with the request for a report of d; d must not be empty then.
AskFor(q, S, d) ==
    /\ asked[q] = None
    /\ entries' = entries \cup S
    /\ OnDay(entries', d) # {}
    /\ asked' = [asked EXCEPT ![q] = [day |-> d, upTo |-> OnDay(entries', d)]]
    /\ UNCHANGED report

Ask(q) == \E S \in SUBSET Entries, d \in Days : AskFor(q, S, d)

Report(q) ==
    /\ asked[q] # None
    /\ \E S \in SUBSET OnDay(entries, asked[q].day) :
          /\ asked[q].upTo \subseteq S
          /\ report' = [report EXCEPT ![asked[q].day] = S]
    /\ asked' = [asked EXCEPT ![q] = None]
    /\ UNCHANGED entries

GiveUp ==
    /\ \E Q \in SUBSET Requests : asked' = [q \in Requests |-> IF q \in Q THEN None ELSE asked[q]]
    /\ UNCHANGED <<entries, report>>

Next ==
    \/ Accept
    \/ GiveUp
    \/ \E q \in Requests : Ask(q) \/ Report(q)

Spec == Init /\ [][Next]_vars
================================================================================
