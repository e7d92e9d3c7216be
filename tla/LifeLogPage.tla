----------------------------- MODULE LifeLogPage -----------------------------
(***************************************************************************)
(* The LifeLog page of the web app (index.html, lifeLog): it shows one day *)
(* at a time, loads what phone and relay have of it, takes in utterances   *)
(* as they are spoken, and asks the relay for the day's report.            *)
(*                                                                         *)
(* JavaScript is one thread that other handlers enter at every await, so a *)
(* handler is one step up to its await and another one after it.  Each     *)
(* opening of the page is a closure of its own; when the page is left its  *)
(* requests go on, and find the document gone, or belonging to the next    *)
(* opening.                                                                *)
(*                                                                         *)
(* The relay is DayReport, the promise that RelayDay is proved to keep.    *)
(* Photos, which PhotoSync sends, what a report says, the calendar and the *)
(* layout are left out.                                                    *)
(***************************************************************************)
EXTENDS Integers, FiniteSets

CONSTANTS
    Records,     \* utterances
    Mine,        \* those of this phone; the others come from elsewhere
    DayOf,       \* the day of an utterance
    Days, Today,
    Requests,    \* reports being written at one time
    MaxOpens,    \* bound on the openings of the page
    MaxLoads,    \* bound on the loads of all openings
    None

ASSUME PageAssumption ==
    /\ Mine \subseteq Records
    /\ DayOf \in [Records -> Days]
    /\ Today \in Days
    /\ MaxOpens \in Nat /\ MaxLoads \in Nat
    /\ None \notin Days \cup Requests

VARIABLES
    \* ---- phone ----
    spoken,        \* utterances in the phone's database
    live,          \* those SpeechToTextViewModel shows, the last 50 of the process, of whatever day
                   \* (never so many here): their one attempt to be sent is over
    \* ---- page ----
    page,          \* number of the last opening
    shown,         \* is the LifeLog page in front?
    view,          \* the variables of each opening's closure
    draws,         \* loads that wait for the relay
    summarizing,   \* the request for a report of each opening
    handler,       \* whose handleNativeLifeLogUpdate is installed, 0 before the first
    panel,         \* the element #records
    \* ---- relay ----
    entries, report, asked

pageVars == <<page, shown, view, draws, summarizing, handler, panel>>
relayVars == <<entries, report, asked>>
vars == <<spoken, live, pageVars, relayVars>>

Opens == 1..MaxOpens

OnDay(S, d) == {e \in S : DayOf[e] = d}

Relay == INSTANCE DayReport WITH Entries <- Records

------------------------------------------------------------------------------
\* The page's variables

\* currentLog.  online: the relay answered; local: what the phone had when the load began.
Logs == [day : Days, records : SUBSET Records, local : SUBSET Records, online : BOOLEAN]

ASSUME NoneIsNoLog == None \notin Logs

\* isGenerating is busy, loadRequestId loads, finalizedSignature signature; pressed: the button is
\* disabled.
Views == [day : Days, log : Logs \cup {None}, mode : {"records", "report"}, busy : BOOLEAN,
          loads : 0..MaxLoads, pressed : BOOLEAN, signature : SUBSET Records]

\* A load: what it has read, and what its caller does when it is over.
Draws == [open : Opens, id : 1..MaxLoads, day : Days, local : SUBSET Records,
          at : {"syncing", "loading", "answered"}, rows : SUBSET Records,
          then : {"install", "enable", "nothing"}]

\* A request for a report; held: the records of its day that the page had when it was made.
Summarizing == [at : {"posting", "asked", "written"}, day : Days, batch : SUBSET Records,
                held : SUBSET Records, request : Requests \cup {None}]

\* #records: which opening wrote it (0: none or several), which day's log it shows, and which
\* records.
Panels == [by : 0..MaxOpens, day : Days \cup {None}, items : SUBSET Records,
           kind : {"gone", "loading", "generating", "records", "report"}]

Gone == [by |-> 0, day |-> None, items |-> {}, kind |-> "gone"]
Loading(c) == [by |-> c, day |-> None, items |-> {}, kind |-> "loading"]

NewView == [day |-> Today, log |-> None, mode |-> "records", busy |-> FALSE, loads |-> 0,
            pressed |-> FALSE, signature |-> {}]

\* renderPanel of opening c, with the variables v.
Rendered(c, v) ==
    [by |-> c,
     day |-> IF v.log = None THEN None ELSE v.log.day,
     items |-> IF v.log = None \/ v.mode = "report" \/ v.busy THEN {} ELSE v.log.records,
     kind |-> IF v.busy THEN "generating" ELSE v.mode]

Render(c, v) == panel' = IF shown THEN Rendered(c, v) ELSE panel

\* No loads are started beyond the bound; a pressed button may need one more.
MayLoad ==
    Cardinality({l \in Opens \X (1..MaxLoads) : l[2] <= view[l[1]].loads})
        + Cardinality({c \in Opens : view[c].pressed}) < MaxLoads

Init ==
    /\ spoken = {r \in Mine : DayOf[r] # Today}
    /\ live \in SUBSET spoken
    /\ page = 0 /\ shown = FALSE
    /\ view = [c \in Opens |-> NewView]
    /\ draws = {}
    /\ summarizing = [c \in Opens |-> None]
    /\ handler = 0
    /\ panel = Gone
    /\ Relay!Init

------------------------------------------------------------------------------
\* Loading a day

\* draw: opening c, whose variables are v by now, takes the phone's records of its day and asks the
\* relay; without the page's elements it ends at once.
Draw(c, v, then) ==
    LET counted == [v EXCEPT !.loads = @ + 1]
        local == OnDay(spoken, v.day)
    IN  IF shown'
        THEN /\ view' = [view EXCEPT ![c] = counted]
             /\ draws' = draws \cup
                   {[open |-> c, id |-> counted.loads, day |-> v.day, local |-> local,
                     at |-> IF local = {} THEN "loading" ELSE "syncing",
                     rows |-> {}, then |-> then]}
             /\ panel' = Loading(c)
        ELSE /\ view' = [view EXCEPT ![c] =
                            [counted EXCEPT !.pressed = @ /\ then # "enable"]]
             /\ UNCHANGED <<draws, panel>>

Goes(f, g) == draws' = (draws \ {f}) \cup {g}

\* Mutant: the load does not wait for the records to be stored.
SyncForgotten(f) ==
    /\ f.at = "syncing"
    /\ Goes(f, [f EXCEPT !.at = "loading"])
    /\ UNCHANGED <<page, shown, view, summarizing, handler, panel, relayVars>>

\* syncLifeLogRecords is answered.
RecordsSynced(f) ==
    /\ f.at = "syncing"
    /\ Relay!AcceptAll(f.local)
    /\ Goes(f, [f EXCEPT !.at = "loading"])
    /\ UNCHANGED <<page, shown, view, summarizing, handler, panel>>

\* get_lifelog reads the records of the day; the photos and the summary it reads next are left out.
RowsRead(f) ==
    /\ f.at = "loading"
    /\ Goes(f, [f EXCEPT !.at = "answered", !.rows = OnDay(entries, f.day)])
    /\ UNCHANGED <<page, shown, view, summarizing, handler, panel, relayVars>>

\* handleNativeLifeLogUpdate of opening c, whose variables are v: utterances that the timeline has
\* not been given yet, of another day too, are added to the log and, in place, to whatever the panel shows.
Updated(c, v, p) ==
    LET merged == v.log.records \cup live
    IN  IF v.log = None \/ v.day # Today THEN [view |-> v, panel |-> p]
        ELSE IF merged = v.signature THEN [view |-> v, panel |-> p]
        ELSE [view |-> [v EXCEPT !.log.records = merged, !.signature = merged],
              panel |-> IF v.mode = "records"
                        THEN [p EXCEPT !.items = @ \cup merged, !.by = IF @ = c THEN c ELSE 0]
                        ELSE p]

\* Mutant: an answer is shown whatever has been asked for since.
LandUnchecked(f, log) ==
    LET c == f.open
        v == [view[c] EXCEPT !.log = log, !.pressed = @ /\ f.then # "enable"]
    IN  /\ draws' = draws \ {f}
        /\ view' = [view EXCEPT ![c] = v]
        /\ panel' = IF shown THEN Rendered(c, v) ELSE panel
        /\ handler' = IF f.then = "install" THEN c ELSE handler
        /\ UNCHANGED <<page, shown, summarizing, relayVars>>

\* A load is over with this log.  It counts only if no other load was started since, for this or
\* another day; then the caller goes on.
Land(f, log) ==
    LET c == f.open
        v == view[c]
        newest == f.id = v.loads /\ f.day = v.day
        loaded == [v EXCEPT !.log = IF newest THEN log ELSE @, !.pressed = @ /\ f.then # "enable"]
        drawn == IF newest /\ shown THEN Rendered(c, loaded) ELSE panel
        refreshed == IF f.then = "install" /\ shown THEN Updated(c, loaded, drawn)
                     ELSE [view |-> loaded, panel |-> drawn]
    IN  /\ draws' = draws \ {f}
        /\ view' = [view EXCEPT ![c] = refreshed.view]
        /\ panel' = refreshed.panel
        /\ handler' = IF f.then = "install" THEN c ELSE handler
        /\ UNCHANGED <<page, shown, summarizing, relayVars>>

\* The answer: the relay's records of the day and those of the phone that it does not have.
LoadAnswered(f) ==
    /\ f.at = "answered"
    /\ Land(f, [day |-> f.day, records |-> f.rows \cup f.local, local |-> f.local,
                online |-> TRUE])

\* The relay or the network fails: the page shows what the phone has.
LoadFails(f) ==
    Land(f, [day |-> f.day, records |-> f.local, local |-> f.local, online |-> FALSE])

LoadStep(f) ==
    \/ RecordsSynced(f) \/ RowsRead(f) \/ LoadAnswered(f) \/ LoadFails(f)

------------------------------------------------------------------------------
\* The user

\* lifeLog, up to the await of its first load.
Open ==
    /\ ~shown
    /\ page < MaxOpens /\ MayLoad
    /\ page' = page + 1
    /\ shown' = TRUE
    /\ Draw(page', NewView, "install")
    /\ UNCHANGED <<summarizing, handler, relayVars>>

Leave ==
    /\ shown
    /\ shown' = FALSE
    /\ panel' = Gone
    /\ UNCHANGED <<page, view, draws, summarizing, handler, relayVars>>

\* A day of the calendar, or the button of today.
PickDay(d) ==
    /\ shown
    /\ MayLoad
    /\ UNCHANGED <<page, shown, summarizing, handler, relayVars>>
    /\ Draw(page, [view[page] EXCEPT !.day = d], "nothing")

\* The two buttons over the panel.
ChooseView(mode) ==
    LET v == [view[page] EXCEPT !.mode = mode]
    IN  /\ shown
        /\ view' = [view EXCEPT ![page] = v]
        /\ Render(page, v)
        /\ UNCHANGED <<page, shown, draws, summarizing, handler, relayVars>>

------------------------------------------------------------------------------
\* The report

\* Mutant: the records of the last load are sent, without those spoken since.
SummarizeLoaded ==
    LET v == [view[page] EXCEPT !.mode = "report", !.busy = TRUE, !.pressed = TRUE]
    IN  /\ shown /\ ~view[page].pressed /\ MayLoad
        /\ view[page].log # None /\ view[page].log.records # {}
        /\ view' = [view EXCEPT ![page] = v]
        /\ summarizing' = [summarizing EXCEPT ![page] =
                              [at |-> "posting", day |-> v.day, batch |-> v.log.local,
                               held |-> OnDay(v.log.records, v.day), request |-> None]]
        /\ Render(page, v)
        /\ UNCHANGED <<page, shown, draws, handler, relayVars>>

\* The button: a report of the selected day is requested with the records of currentLog, which may
\* still be another day's.
Summarize ==
    LET v == [view[page] EXCEPT !.mode = "report", !.busy = TRUE, !.pressed = TRUE]
    IN  /\ shown /\ ~view[page].pressed /\ MayLoad
        /\ view[page].log # None /\ view[page].log.records # {}
        /\ view' = [view EXCEPT ![page] = v]
        /\ summarizing' = [summarizing EXCEPT ![page] =
                              [at |-> "posting", day |-> v.day, batch |-> v.log.records,
                               held |-> OnDay(v.log.records, v.day), request |-> None]]
        /\ Render(page, v)
        /\ UNCHANGED <<page, shown, draws, handler, relayVars>>

\* Does a page wait for the report of request q?
Waited(q) == \E c \in Opens : summarizing[c] # None /\ summarizing[c].request = q

\* The relay begins to write.
ReportAsked(c) ==
    /\ summarizing[c] # None /\ summarizing[c].at = "posting"
    /\ \E q \in Requests :
          /\ ~Waited(q)
          /\ Relay!AskFor(q, summarizing[c].batch, summarizing[c].day)
          /\ summarizing' = [summarizing EXCEPT ![c].at = "asked", ![c].request = q]
    /\ UNCHANGED <<page, shown, view, draws, handler, panel>>

\* The relay stores the report.
ReportWritten(c) ==
    /\ summarizing[c] # None /\ summarizing[c].at = "asked"
    /\ Relay!Report(summarizing[c].request)
    /\ summarizing' = [summarizing EXCEPT ![c].at = "written", ![c].request = None]
    /\ UNCHANGED <<page, shown, view, draws, handler, panel>>

\* The answer comes: the day, whichever is selected by now, is loaded again.
ReportAnswered(c) ==
    /\ summarizing[c] # None /\ summarizing[c].at = "written"
    /\ summarizing' = [summarizing EXCEPT ![c] = None]
    /\ UNCHANGED <<page, shown, handler, relayVars>>
    /\ Draw(c, [view[c] EXCEPT !.busy = FALSE], "enable")

\* Mutant: the catch block forgets isGenerating.
ReportFailsBusy(c) ==
    /\ summarizing[c] # None
    /\ summarizing' = [summarizing EXCEPT ![c] = None]
    /\ view' = [view EXCEPT ![c].pressed = FALSE]
    /\ Render(c, view[c])
    /\ UNCHANGED <<page, shown, draws, handler, relayVars>>

\* The request fails, on its way, at the relay or on its way back; the relay may go on with it.
ReportFails(c) ==
    LET v == [view[c] EXCEPT !.busy = FALSE, !.pressed = FALSE]
    IN  /\ summarizing[c] # None
        /\ summarizing' = [summarizing EXCEPT ![c] = None]
        /\ view' = [view EXCEPT ![c] = v]
        /\ Render(c, v)
        /\ UNCHANGED <<page, shown, draws, handler, relayVars>>

ReportStep(c) == ReportAsked(c) \/ ReportWritten(c) \/ ReportAnswered(c) \/ ReportFails(c)

------------------------------------------------------------------------------
\* The phone and the others

\* An utterance ends up in the phone's database.
Speak(r) ==
    /\ r \in Mine \ spoken
    /\ spoken' = spoken \cup {r}
    /\ UNCHANGED <<live, pageVars, relayVars>>

\* Mutant: the utterance is shown while it is being stored.
TranscribedUnsaved(r) ==
    /\ r \in Mine \ live
    /\ live' = live \cup {r}
    /\ Relay!AcceptAll({r}) \/ UNCHANGED relayVars
    /\ UNCHANGED <<spoken, pageVars>>

\* syncRecord, its one attempt, arrives or is lost; then the utterance is shown.
Transcribed(r) ==
    /\ r \in spoken \ live
    /\ live' = live \cup {r}
    /\ Relay!AcceptAll({r}) \/ UNCHANGED relayVars
    /\ UNCHANGED <<spoken, pageVars>>

\* refreshVisionState, every 1.2 s.
Refresh ==
    /\ shown /\ handler # 0
    /\ LET after == Updated(handler, view[handler], panel)
       IN  /\ view' = [view EXCEPT ![handler] = after.view]
           /\ panel' = after.panel
    /\ UNCHANGED <<spoken, live, page, shown, draws, summarizing, handler, relayVars>>

\* Records of other phones arrive; requests that nobody waits for any more are written or given up.
Elsewhere ==
    /\ \/ \E r \in Records \ Mine : Relay!AcceptAll({r})
       \/ \E q \in Requests : Relay!Report(q) /\ ~Waited(q)
       \/ Relay!GiveUp
    /\ UNCHANGED <<spoken, live, pageVars>>

PageStep ==
    /\ \/ Open \/ Leave \/ Summarize
       \/ \E d \in Days : PickDay(d)
       \/ \E mode \in {"records", "report"} : ChooseView(mode)
       \/ \E f \in draws : LoadStep(f)
       \/ \E c \in Opens : ReportStep(c)
    /\ UNCHANGED <<spoken, live>>

Next == PageStep \/ Refresh \/ Elsewhere \/ \E r \in Mine : Speak(r) \/ Transcribed(r)

Spec == Init /\ [][Next]_vars

\* A request over the network ends, one way or the other.  The page's fetch sets no limit itself
\* (index.html:3322): the WebView gives up a connection that is dead, and the relay limits its
\* calls of its models.
Fairness ==
    /\ \A c \in Opens, i \in 1..MaxLoads :
          WF_vars(\E f \in draws : f.open = c /\ f.id = i /\ LoadStep(f) /\ UNCHANGED <<spoken, live>>)
    /\ \A c \in Opens : WF_vars(ReportStep(c) /\ UNCHANGED <<spoken, live>>)

FairSpec == Spec /\ Fairness

------------------------------------------------------------------------------
\* Properties

TypeOK ==
    /\ spoken \subseteq Mine /\ live \subseteq spoken
    /\ page \in 0..MaxOpens /\ shown \in BOOLEAN
    /\ view \in [Opens -> Views]
    /\ draws \subseteq Draws
    /\ summarizing \in [Opens -> Summarizing \cup {None}]
    /\ handler \in 0..MaxOpens
    /\ panel \in Panels
    /\ entries \subseteq Records

\* What the bridge may add to the view of day d.
Bridged(d) == IF d = Today THEN live ELSE {}

\* Does the page wait for nothing?
Settled == ~view[page].busy /\ \A f \in draws : f.open # page

\* Once its loads and requests are over, the page shows the selected day and nothing that a load
\* of another one has brought, in whichever order they ended: "A stale relay response must never
\* make another day's records appear in this timeline" (index.html:3388).  Records of another day
\* come from the bridge's transcripts alone, and only under today's date (index.html:3994: they are
\* not filtered by day).  Panels that an earlier opening has written late are not spoken of.
SettledPanelIsSelected ==
    shown /\ panel.by = page /\ Settled =>
        /\ panel.kind = view[page].mode
        /\ panel.day = view[page].day
        /\ panel.items \subseteq OnDay(Records, view[page].day) \cup Bridged(view[page].day)

\* What a page loaded from the relay repairs the utterances whose one attempt was lost: all that
\* the phone had of the day is stored by then (LifeLogSyncer.kt:43, index.html:3436).
LoadedIsStored ==
    \A c \in Opens :
        LET log == view[c].log IN log # None => (log.online => log.local \subseteq entries)

\* A report written for the page covers every record of its day that the page held when it was
\* requested, those spoken since the last load included (index.html:3961 with the relay's promise).
ReportCoversHeld ==
    [][\A c \in Opens :
          ReportWritten(c) => summarizing[c].held \subseteq report'[summarizing[c].day]]_vars

\* The page never keeps saying that it loads, nor that a report is being written.
WaitingEnds ==
    \A kind \in {"loading", "generating"} : panel.kind = kind ~> panel.kind # kind
==============================================================================
