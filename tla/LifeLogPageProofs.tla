-------------------------- MODULE LifeLogPageProofs --------------------------
(***************************************************************************)
(* Proofs about LifeLogPage for any records, days and openings of the page *)
(* and any number of loads: what a page loaded from the relay is stored,   *)
(* and a report covers what the page held when it asked for it.            *)
(*                                                                         *)
(* Three invariants carry them: the shape of the page's data, how far a    *)
(* load has come against what the relay has, and what the relay owes to a  *)
(* request that a page waits for.                                          *)
(***************************************************************************)
EXTENDS LifeLogPage, TLAPS

\* The data of the page, with no bound on loads and nothing of what the panel shows.
PageViews == [day : Days, log : Logs \cup {None}, mode : {"records", "report"}, busy : BOOLEAN,
              loads : Nat, pressed : BOOLEAN, signature : SUBSET Records]

PageDraws == [open : Opens, id : Nat, day : Days, local : SUBSET Records,
              at : {"syncing", "loading", "answered"}, rows : SUBSET Records,
              then : {"install", "enable", "nothing"}]

Callers == {"install", "enable", "nothing"}

Shaped ==
    /\ spoken \subseteq Records /\ live \subseteq Records /\ entries \subseteq Records
    /\ shown \in BOOLEAN /\ page \in 0..MaxOpens /\ (shown => page \in Opens)
    /\ view \in [Opens -> PageViews]
    /\ draws \subseteq PageDraws
    /\ summarizing \in [Opens -> Summarizing \cup {None}]
    /\ handler \in 0..MaxOpens

\* The records a load has sent, as far as it has come, are stored.
SentIsStored == \A f \in draws : f.at # "syncing" => f.local \subseteq entries

\* The relay's side of the requests.
RelayShaped ==
    /\ asked \in [Requests -> [day : Days, upTo : SUBSET Records] \cup {None}]
    /\ report \in [Days -> (SUBSET Records) \cup {None}]

\* What a page holds it posts; each waits for a request of its own, which, unless it was given up,
\* owes what is held; a is what the relay was asked.
Owes(s, a) ==
    /\ s.held \subseteq OnDay(s.batch, s.day)
    /\ s.at # "asked" => s.request = None
    /\ s.at = "asked" =>
          /\ s.request \in Requests
          /\ a[s.request] # None =>
                a[s.request].day = s.day /\ s.held \subseteq a[s.request].upTo

HeldIsOwed ==
    /\ \A c \in Opens : summarizing[c] # None => Owes(summarizing[c], asked)
    /\ \A c, d \in Opens :
          c # d /\ summarizing[c] # None /\ summarizing[d] # None
            /\ summarizing[c].at = "asked" /\ summarizing[d].at = "asked" =>
                summarizing[c].request # summarizing[d].request

IInv == Shaped /\ SentIsStored /\ LoadedIsStored /\ RelayShaped /\ HeldIsOwed

------------------------------------------------------------------------------
\* The page's data

\* The fields of what the page keeps.
LEMMA Fields ==
    ASSUME Shaped
    PROVE  /\ \A c \in Opens : view[c] \in PageViews
           /\ \A f \in draws : f \in PageDraws
           /\ \A c \in Opens : summarizing[c] # None => summarizing[c] \in Summarizing
           /\ shown => page \in Opens
           /\ handler # 0 => handler \in Opens
  BY PageAssumption DEF Shaped, Opens

\* Taking in live utterances changes the records of a log, and no other part of it.
LEMMA Updates ==
    ASSUME Shaped, NEW c, NEW v \in PageViews, NEW p
    PROVE  LET w == Updated(c, v, p).view
           IN  /\ w \in PageViews
               /\ w.log = None \/ v.log # None
               /\ w.log # None => w.log.local = v.log.local /\ w.log.online = v.log.online
<1> DEFINE merged == v.log.records \cup live
           w == Updated(c, v, p).view
<1>1. CASE w = v
  BY <1>1
<1>2. CASE v.log # None /\ w = [v EXCEPT !.log.records = merged, !.signature = merged]
  <2>1. v.log \in Logs
    BY <1>2 DEF PageViews
  <2>2. merged \subseteq Records
    BY <2>1 DEF Logs, Shaped
  <2> DEFINE l == [v.log EXCEPT !.records = merged]
  <2>3. l \in Logs /\ l.local = v.log.local /\ l.online = v.log.online
    BY <2>1, <2>2 DEF Logs
  <2>4. w = [v EXCEPT !.log = l, !.signature = merged]
    BY <1>2
  <2> HIDE DEF l, merged
  <2>5. w \in PageViews /\ w.log = l
    BY <2>2, <2>3, <2>4 DEF PageViews
  <2> QED
    BY <1>2, <2>3, <2>5
<1>3. w = v \/ (v.log # None /\ w = [v EXCEPT !.log.records = merged, !.signature = merged])
  BY DEF Updated
<1> QED
  BY <1>1, <1>2, <1>3

\* A load begins with the phone's records, which it has yet to send, and leaves the log alone.
LEMMA Drawn ==
    ASSUME Shaped, NEW c \in Opens, NEW v \in PageViews, NEW then \in Callers, Draw(c, v, then)
    PROVE  /\ \E w \in PageViews : w.log = v.log /\ view' = [view EXCEPT ![c] = w]
           /\ \/ draws' = draws
              \/ \E f \in PageDraws :
                    (f.at # "syncing" => f.local = {}) /\ draws' = draws \cup {f}
<1> DEFINE counted == [v EXCEPT !.loads = @ + 1]
           local == OnDay(spoken, v.day)
           f == [open |-> c, id |-> counted.loads, day |-> v.day, local |-> local,
                 at |-> IF local = {} THEN "loading" ELSE "syncing",
                 rows |-> {}, then |-> then]
           w == [counted EXCEPT !.pressed = @ /\ then # "enable"]
<1>1. counted \in PageViews /\ counted.log = v.log
  BY DEF PageViews
<1>2. (counted.pressed /\ then # "enable") \in BOOLEAN
  OBVIOUS
<1>3. w = [counted EXCEPT !.pressed = counted.pressed /\ then # "enable"]
  OBVIOUS
<1>4. w \in PageViews /\ w.log = v.log
  <2> HIDE DEF counted, w
  <2> QED
    BY <1>1, <1>2, <1>3 DEF PageViews
<1>5. local \subseteq Records
  BY DEF Shaped, OnDay
<1>6. f \in PageDraws /\ (f.at # "syncing" => f.local = {})
  <2>1. counted.loads \in Nat /\ v.day \in Days
    BY <1>1 DEF PageViews
  <2> HIDE DEF counted, local
  <2> QED
    BY <1>5, <2>1 DEF PageDraws, Callers
<1>7. CASE shown'
  <2>1. view' = [view EXCEPT ![c] = counted] /\ draws' = draws \cup {f}
    BY <1>7 DEF Draw
  <2> HIDE DEF counted, local, f
  <2> QED
    BY <1>1, <1>6, <2>1
<1>8. CASE ~shown'
  <2>1. view' = [view EXCEPT ![c] = w] /\ draws' = draws
    BY <1>8 DEF Draw
  <2> HIDE DEF w
  <2> QED
    BY <1>4, <2>1
<1> QED
  BY <1>7, <1>8

\* What a load that is over leaves in its opening's variables.
LEMMA Landed ==
    ASSUME Shaped, NEW f \in draws, NEW log \in Logs, Land(f, log)
    PROVE  /\ \E w \in PageViews :
                 /\ view' = [view EXCEPT ![f.open] = w]
                 /\ w.log # None =>
                       \/ w.log.local = log.local /\ w.log.online = log.online
                       \/ /\ view[f.open].log # None
                          /\ w.log.local = view[f.open].log.local
                          /\ w.log.online = view[f.open].log.online
           /\ draws' = draws \ {f}
           /\ handler' \in {handler, f.open}
<1> DEFINE c == f.open
           v == view[c]
           newest == f.id = v.loads /\ f.day = v.day
           loaded == [v EXCEPT !.log = IF newest THEN log ELSE @,
                               !.pressed = @ /\ f.then # "enable"]
           drawn == IF newest /\ shown THEN Rendered(c, loaded) ELSE panel
           refreshed == IF f.then = "install" /\ shown THEN Updated(c, loaded, drawn)
                        ELSE [view |-> loaded, panel |-> drawn]
<1>1. f \in PageDraws /\ c \in Opens
  BY Fields DEF PageDraws
<1>2. v \in PageViews
  BY <1>1, Fields
<1>3. loaded \in PageViews /\ loaded.log \in {log, v.log}
  <2>1. (v.pressed /\ f.then # "enable") \in BOOLEAN
    OBVIOUS
  <2>2. (IF newest THEN log ELSE v.log) \in Logs \cup {None}
    BY <1>2 DEF PageViews
  <2>3. ASSUME NEW l \in Logs \cup {None}, NEW b \in BOOLEAN
        PROVE  /\ [v EXCEPT !.log = l, !.pressed = b] \in PageViews
               /\ [v EXCEPT !.log = l, !.pressed = b].log = l
    <3> HIDE DEF v
    <3> QED
      BY <1>2 DEF PageViews
  <2>4. loaded = [v EXCEPT !.log = IF newest THEN log ELSE v.log,
                           !.pressed = v.pressed /\ f.then # "enable"]
    OBVIOUS
  <2> HIDE DEF loaded, newest, v
  <2> QED
    BY <2>1, <2>2, <2>3, <2>4
<1>4. /\ refreshed.view \in PageViews
      /\ refreshed.view.log # None =>
            /\ loaded.log # None
            /\ refreshed.view.log.local = loaded.log.local
            /\ refreshed.view.log.online = loaded.log.online
  <2> HIDE DEF loaded, drawn
  <2>1. CASE refreshed = Updated(c, loaded, drawn)
    BY <1>3, <2>1, Updates
  <2>2. CASE refreshed.view = loaded
    BY <1>3, <2>2
  <2> QED
    BY <2>1, <2>2
<1>5. /\ view' = [view EXCEPT ![c] = refreshed.view]
      /\ draws' = draws \ {f}
      /\ handler' = IF f.then = "install" THEN c ELSE handler
  BY DEF Land
<1> HIDE DEF refreshed, loaded
<1> QED
  BY <1>3, <1>4, <1>5

\* The page's part of the invariant.
PageInv == Shaped /\ SentIsStored /\ LoadedIsStored

\* A step keeps it that changes one opening's variables at most, adds no load and no log that
\* claims more than the relay has, and only adds to what the relay has.
LEMMA PageKept ==
    ASSUME PageInv,
           spoken' \subseteq Records, live' \subseteq Records,
           entries \subseteq entries', entries' \subseteq Records,
           shown' \in BOOLEAN, page' \in 0..MaxOpens, shown' => page' \in Opens,
           summarizing' \in [Opens -> Summarizing \cup {None}], handler' \in 0..MaxOpens,
           \/ view' = view
           \/ \E c \in Opens, w \in PageViews :
                 /\ view' = [view EXCEPT ![c] = w]
                 /\ w.log # None => (w.log.online => w.log.local \subseteq entries'),
           \A f \in draws' : \/ f \in draws
                             \/ f \in PageDraws /\ (f.at # "syncing" => f.local \subseteq entries')
    PROVE  PageInv'
<1>1. Shaped /\ SentIsStored /\ LoadedIsStored
  BY DEF PageInv
<1>2. view' \in [Opens -> PageViews]
  BY <1>1 DEF Shaped
<1>3. draws' \subseteq PageDraws
  BY <1>1 DEF Shaped
<1>4. Shaped'
  BY <1>2, <1>3 DEF Shaped
<1>5. SentIsStored'
  BY <1>1 DEF SentIsStored
<1>6. LoadedIsStored'
  <2>1. \A c \in Opens : LET log == view[c].log
                         IN  log # None => (log.online => log.local \subseteq entries')
    BY <1>1 DEF LoadedIsStored
  <2>2. CASE view' = view
    BY <2>1, <2>2 DEF LoadedIsStored
  <2>3. ASSUME NEW c \in Opens, NEW w \in PageViews, view' = [view EXCEPT ![c] = w],
               w.log # None => (w.log.online => w.log.local \subseteq entries')
        PROVE  LoadedIsStored'
    <3>1. view'[c] = w /\ \A d \in Opens \ {c} : view'[d] = view[d]
      BY <1>1, <2>3 DEF Shaped
    <3> QED
      BY <2>1, <2>3, <3>1 DEF LoadedIsStored
  <2> QED
    BY <2>2, <2>3
<1> QED
  BY <1>4, <1>5, <1>6 DEF PageInv

\* What an opening has loaded, by its log.
LEMMA LogStored ==
    ASSUME PageInv, NEW c \in Opens
    PROVE  view[c].log # None => (view[c].log.online => view[c].log.local \subseteq entries)
  BY DEF PageInv, LoadedIsStored

\* A step that begins a load, with variables that keep the log.
LEMMA DrawKeeps ==
    ASSUME PageInv, NEW c \in Opens, NEW v \in PageViews, NEW then \in Callers, Draw(c, v, then),
           v.log \in {None, view[c].log},
           UNCHANGED <<spoken, live, handler, entries>>,
           shown' \in BOOLEAN, page' \in 0..MaxOpens, shown' => page' \in Opens,
           summarizing' \in [Opens -> Summarizing \cup {None}]
    PROVE  PageInv'
<1>1. Shaped
  BY DEF PageInv
<1>2. /\ \E w \in PageViews : w.log = v.log /\ view' = [view EXCEPT ![c] = w]
      /\ \/ draws' = draws
         \/ \E f \in PageDraws :
               (f.at # "syncing" => f.local = {}) /\ draws' = draws \cup {f}
  BY <1>1, Drawn
<1>3. \A f \in draws' : \/ f \in draws
                        \/ f \in PageDraws /\ (f.at # "syncing" => f.local \subseteq entries')
  BY <1>2
<1>4. \E w \in PageViews :
         /\ view' = [view EXCEPT ![c] = w]
         /\ w.log # None => (w.log.online => w.log.local \subseteq entries')
  BY <1>2, LogStored
<1>5. /\ spoken' \subseteq Records /\ live' \subseteq Records /\ entries' \subseteq Records
      /\ entries \subseteq entries' /\ handler' \in 0..MaxOpens
  BY <1>1 DEF Shaped
<1> QED
  BY <1>3, <1>4, <1>5, PageKept

\* A step that changes an opening's variables and no log, and begins no load.
LEMMA ViewKeeps ==
    ASSUME PageInv, NEW c \in Opens, NEW w \in PageViews, view' = [view EXCEPT ![c] = w],
           w.log = view[c].log,
           UNCHANGED <<spoken, live, page, shown, handler, draws, entries>>,
           summarizing' \in [Opens -> Summarizing \cup {None}]
    PROVE  PageInv'
<1>1. Shaped
  BY DEF PageInv
<1>2. /\ spoken' \subseteq Records /\ live' \subseteq Records /\ entries' \subseteq Records
      /\ entries \subseteq entries' /\ handler' \in 0..MaxOpens
      /\ shown' \in BOOLEAN /\ page' \in 0..MaxOpens /\ (shown' => page' \in Opens)
  BY <1>1 DEF Shaped
<1> QED
  BY <1>2, LogStored, PageKept

\* A step of which the page notices nothing but that the relay has more, or a request gets on.
LEMMA OutsideKeeps ==
    ASSUME PageInv, UNCHANGED <<page, shown, view, handler, draws>>,
           spoken' \subseteq Records, live' \subseteq Records,
           entries \subseteq entries', entries' \subseteq Records,
           summarizing' \in [Opens -> Summarizing \cup {None}]
    PROVE  PageInv'
<1>1. Shaped
  BY DEF PageInv
<1>2. /\ handler' \in 0..MaxOpens
      /\ shown' \in BOOLEAN /\ page' \in 0..MaxOpens /\ (shown' => page' \in Opens)
  BY <1>1 DEF Shaped
<1> QED
  BY <1>2, PageKept

\* An opening begins without a log.
LEMMA NewViewShaped == NewView \in PageViews /\ NewView.log = None
  BY PageAssumption DEF NewView, PageViews

\* What the user does.
LEMMA UserKeeps ==
    ASSUME PageInv, UNCHANGED <<spoken, live>>,
           \/ Open \/ Leave \/ Summarize
           \/ \E d \in Days : PickDay(d)
           \/ \E mode \in {"records", "report"} : ChooseView(mode)
    PROVE  PageInv'
<1>1. Shaped
  BY DEF PageInv
<1>2. summarizing \in [Opens -> Summarizing \cup {None}]
  BY <1>1 DEF Shaped
<1>3. CASE Open
  <2>1. page' \in Opens /\ page' \in 0..MaxOpens /\ shown' = TRUE
    BY <1>1, <1>3, PageAssumption DEF Open, Shaped, Opens
  <2> QED
    BY <1>2, <1>3, <2>1, NewViewShaped, DrawKeeps DEF Open, Callers, relayVars
<1>4. CASE Leave
  BY <1>1, <1>4, PageKept DEF Leave, relayVars, Shaped
<1>5. CASE Summarize
  <2> DEFINE old == view[page]
             v == [old EXCEPT !.mode = "report", !.busy = TRUE, !.pressed = TRUE]
             s == [at |-> "posting", day |-> v.day, batch |-> v.log.records,
                   held |-> OnDay(v.log.records, v.day), request |-> None]
  <2>1. /\ page \in Opens /\ old.log # None
        /\ view' = [view EXCEPT ![page] = v] /\ summarizing' = [summarizing EXCEPT ![page] = s]
        /\ UNCHANGED <<page, shown, draws, handler, entries>>
    BY <1>1, <1>5, Fields DEF Summarize, relayVars
  <2>2. old \in PageViews
    BY <1>1, <2>1, Fields
  <2>3. v \in PageViews /\ v.log = old.log /\ v.day \in Days
    <3> HIDE DEF old
    <3> QED
      BY <2>2 DEF PageViews
  <2>4. v.log.records \subseteq Records
    BY <2>1, <2>3 DEF PageViews, Logs
  <2>5. s \in Summarizing
    <3> HIDE DEF v
    <3> QED
      BY <2>3, <2>4 DEF Summarizing, OnDay
  <2>6. summarizing' \in [Opens -> Summarizing \cup {None}]
    <3> HIDE DEF s
    <3> QED
      BY <1>2, <2>1, <2>5
  <2> HIDE DEF v, s
  <2> QED
    BY <2>1, <2>3, <2>6, ViewKeeps
<1>6. ASSUME NEW d \in Days, PickDay(d) PROVE PageInv'
  <2> DEFINE old == view[page]
             v == [old EXCEPT !.day = d]
  <2>1. /\ page \in Opens /\ Draw(page, v, "nothing")
        /\ UNCHANGED <<page, shown, summarizing, handler, entries>>
    BY <1>1, <1>6, Fields DEF PickDay, relayVars
  <2>2. old \in PageViews
    BY <1>1, <2>1, Fields
  <2>3. v \in PageViews /\ v.log = old.log
    <3> HIDE DEF old
    <3> QED
      BY <2>2 DEF PageViews
  <2>4. shown' \in BOOLEAN /\ page' \in 0..MaxOpens /\ (shown' => page' \in Opens)
    BY <1>1, <2>1 DEF Shaped
  <2>5. summarizing' \in [Opens -> Summarizing \cup {None}]
    BY <1>2, <2>1
  <2> HIDE DEF v
  <2> QED
    BY <2>1, <2>3, <2>4, <2>5, DrawKeeps DEF Callers
<1>7. ASSUME NEW mode \in {"records", "report"}, ChooseView(mode) PROVE PageInv'
  <2> DEFINE old == view[page]
             v == [old EXCEPT !.mode = mode]
  <2>1. /\ page \in Opens /\ view' = [view EXCEPT ![page] = v]
        /\ UNCHANGED <<page, shown, draws, summarizing, handler, entries>>
    BY <1>1, <1>7, Fields DEF ChooseView, relayVars
  <2>2. old \in PageViews
    BY <1>1, <2>1, Fields
  <2>3. v \in PageViews /\ v.log = old.log
    <3> HIDE DEF old
    <3> QED
      BY <2>2 DEF PageViews
  <2> HIDE DEF v
  <2> QED
    BY <1>2, <2>1, <2>3, ViewKeeps
<1> QED
  BY <1>3, <1>4, <1>5, <1>6, <1>7

\* A load that gets on or is over: it counts as sent only when the relay has answered, and becomes
\* a log from the relay only after that.
LEMMA LoadKeeps ==
    ASSUME PageInv, UNCHANGED <<spoken, live>>, NEW f \in draws, LoadStep(f)
    PROVE  PageInv'
<1>1. Shaped /\ SentIsStored
  BY DEF PageInv
<1>2. f \in PageDraws /\ f.open \in Opens /\ f.local \subseteq Records /\ f.rows \subseteq Records
      /\ f.day \in Days
  BY <1>1, Fields DEF PageDraws
<1>3. f.at # "syncing" => f.local \subseteq entries
  BY <1>1 DEF SentIsStored
<1>4. /\ spoken' \subseteq Records /\ live' \subseteq Records
      /\ summarizing \in [Opens -> Summarizing \cup {None}]
      /\ shown \in BOOLEAN /\ page \in 0..MaxOpens /\ (shown => page \in Opens)
      /\ handler \in 0..MaxOpens /\ entries \subseteq Records
  BY <1>1 DEF Shaped
<1>5. CASE RecordsSynced(f)
  <2> DEFINE g == [f EXCEPT !.at = "loading"]
  <2>1. g \in PageDraws /\ g.local = f.local
    BY <1>2 DEF PageDraws
  <2>2. /\ draws' = (draws \ {f}) \cup {g}
        /\ entries' = entries \cup f.local
        /\ UNCHANGED <<page, shown, view, summarizing, handler>>
    BY <1>5 DEF RecordsSynced, Goes, Relay!AcceptAll
  <2>3. \A e \in draws' : \/ e \in draws
                          \/ e \in PageDraws /\ (e.at # "syncing" => e.local \subseteq entries')
    BY <2>1, <2>2
  <2> HIDE DEF g
  <2> QED
    BY <1>2, <1>4, <2>2, <2>3, PageKept
<1>6. CASE RowsRead(f)
  <2> DEFINE g == [f EXCEPT !.at = "answered", !.rows = OnDay(entries, f.day)]
  <2>1. OnDay(entries, f.day) \subseteq Records
    BY <1>4 DEF OnDay
  <2>2. g \in PageDraws /\ g.local = f.local
    BY <1>2, <2>1 DEF PageDraws
  <2>3. /\ draws' = (draws \ {f}) \cup {g} /\ f.at = "loading"
        /\ UNCHANGED <<page, shown, view, summarizing, handler, entries>>
    BY <1>6 DEF RowsRead, Goes, relayVars
  <2>4. \A e \in draws' : \/ e \in draws
                          \/ e \in PageDraws /\ (e.at # "syncing" => e.local \subseteq entries')
    BY <1>3, <2>2, <2>3
  <2> HIDE DEF g
  <2> QED
    BY <1>4, <2>3, <2>4, PageKept
<1>7. ASSUME NEW log \in Logs, Land(f, log), log.online => log.local \subseteq entries
      PROVE  PageInv'
  <2>1. UNCHANGED <<page, shown, summarizing, entries>>
    BY <1>7 DEF Land, relayVars
  <2>2. handler' \in 0..MaxOpens /\ draws' = draws \ {f}
    <3>1. handler' \in {handler, f.open} /\ draws' = draws \ {f}
      BY <1>1, <1>7, Landed
    <3> QED
      BY <1>2, <1>4, <3>1, PageAssumption DEF Opens
  <2>3. PICK w \in PageViews :
           /\ view' = [view EXCEPT ![f.open] = w]
           /\ w.log # None =>
                 \/ w.log.local = log.local /\ w.log.online = log.online
                 \/ /\ view[f.open].log # None
                    /\ w.log.local = view[f.open].log.local
                    /\ w.log.online = view[f.open].log.online
    BY <1>1, <1>7, Landed
  <2>4. w.log # None => (w.log.online => w.log.local \subseteq entries')
    BY <1>2, <1>7, <2>1, <2>3, LogStored
  <2> QED
    BY <1>2, <1>4, <2>1, <2>2, <2>3, <2>4, PageKept
<1>8. CASE LoadAnswered(f)
  <2> DEFINE log == [day |-> f.day, records |-> f.rows \cup f.local, local |-> f.local,
                     online |-> TRUE]
  <2>1. log \in Logs
    BY <1>2 DEF Logs
  <2>2. Land(f, log) /\ f.at = "answered"
    BY <1>8 DEF LoadAnswered
  <2>3. log.local \subseteq entries
    BY <1>3, <2>2
  <2> HIDE DEF log
  <2> QED
    BY <1>7, <2>1, <2>2, <2>3
<1>9. CASE LoadFails(f)
  <2> DEFINE log == [day |-> f.day, records |-> f.local, local |-> f.local, online |-> FALSE]
  <2>1. log \in Logs /\ ~log.online
    BY <1>2 DEF Logs
  <2>2. Land(f, log)
    BY <1>9 DEF LoadFails
  <2> HIDE DEF log
  <2> QED
    BY <1>7, <2>1, <2>2
<1> QED
  BY <1>5, <1>6, <1>8, <1>9 DEF LoadStep

\* What becomes of a report.
LEMMA ReportKeeps ==
    ASSUME PageInv, UNCHANGED <<spoken, live>>, NEW c \in Opens, ReportStep(c)
    PROVE  PageInv'
<1>1. Shaped
  BY DEF PageInv
<1>2. /\ spoken' \subseteq Records /\ live' \subseteq Records
      /\ summarizing \in [Opens -> Summarizing \cup {None}]
      /\ entries \subseteq Records
      /\ view[c] \in PageViews
  BY <1>1, Fields DEF Shaped
<1>3. summarizing[c] # None => summarizing[c] \in Summarizing
  BY <1>1, Fields
<1>4. [summarizing EXCEPT ![c] = None] \in [Opens -> Summarizing \cup {None}]
  BY <1>2
<1> DEFINE s == summarizing[c]
           old == view[c]
<1>5. CASE ReportAsked(c)
  <2>1. PICK q \in Requests :
           /\ Relay!AskFor(q, s.batch, s.day)
           /\ summarizing' = [summarizing EXCEPT ![c].at = "asked", ![c].request = q]
    BY <1>5 DEF ReportAsked
  <2>2. s # None /\ s \in Summarizing /\ UNCHANGED <<page, shown, view, draws, handler>>
    BY <1>3, <1>5 DEF ReportAsked
  <2>3. entries' = entries \cup s.batch /\ s.batch \subseteq Records
    BY <2>1, <2>2 DEF Relay!AskFor, Summarizing
  <2>4. summarizing' \in [Opens -> Summarizing \cup {None}]
    <3>1. [s EXCEPT !.at = "asked", !.request = q] \in Summarizing
      BY <2>2 DEF Summarizing
    <3>2. summarizing' = [summarizing EXCEPT ![c] = [s EXCEPT !.at = "asked", !.request = q]]
      BY <2>1
    <3> QED
      BY <1>2, <3>1, <3>2
  <2> QED
    BY <1>2, <2>2, <2>3, <2>4, OutsideKeeps
<1>6. CASE ReportWritten(c)
  <2>1. /\ s # None /\ s \in Summarizing
        /\ UNCHANGED <<page, shown, view, draws, handler, entries>>
        /\ summarizing' = [summarizing EXCEPT ![c].at = "written", ![c].request = None]
    BY <1>3, <1>6 DEF ReportWritten, Relay!Report
  <2>2. summarizing' \in [Opens -> Summarizing \cup {None}]
    <3>1. [s EXCEPT !.at = "written", !.request = None] \in Summarizing
      BY <2>1 DEF Summarizing
    <3>2. summarizing' = [summarizing EXCEPT ![c] = [s EXCEPT !.at = "written", !.request = None]]
      BY <2>1
    <3> QED
      BY <1>2, <3>1, <3>2
  <2> QED
    BY <1>2, <2>1, <2>2, OutsideKeeps
<1>7. CASE ReportAnswered(c)
  <2> DEFINE v == [old EXCEPT !.busy = FALSE]
  <2>1. /\ Draw(c, v, "enable") /\ summarizing' = [summarizing EXCEPT ![c] = None]
        /\ UNCHANGED <<page, shown, handler, entries>>
    BY <1>7 DEF ReportAnswered, relayVars
  <2>2. v \in PageViews /\ v.log = old.log
    <3> HIDE DEF old
    <3>1. old \in PageViews
      BY <1>2 DEF old
    <3> QED
      BY <3>1 DEF PageViews
  <2>3. shown' \in BOOLEAN /\ page' \in 0..MaxOpens /\ (shown' => page' \in Opens)
    BY <1>1, <2>1 DEF Shaped
  <2> HIDE DEF v
  <2> QED
    BY <1>4, <2>1, <2>2, <2>3, DrawKeeps DEF Callers
<1>8. CASE ReportFails(c)
  <2> DEFINE v == [old EXCEPT !.busy = FALSE, !.pressed = FALSE]
  <2>1. /\ view' = [view EXCEPT ![c] = v] /\ summarizing' = [summarizing EXCEPT ![c] = None]
        /\ UNCHANGED <<page, shown, draws, handler, entries>>
    BY <1>8 DEF ReportFails, relayVars
  <2>2. v \in PageViews /\ v.log = old.log
    <3> HIDE DEF old
    <3>1. old \in PageViews
      BY <1>2 DEF old
    <3> QED
      BY <3>1 DEF PageViews
  <2> HIDE DEF v
  <2> QED
    BY <1>4, <2>1, <2>2, ViewKeeps
<1> QED
  BY <1>5, <1>6, <1>7, <1>8 DEF ReportStep

\* Utterances that are taken in claim nothing of the relay.
LEMMA RefreshKeeps == PageInv /\ Refresh => PageInv'
<1> SUFFICES ASSUME PageInv, Refresh PROVE PageInv'
  OBVIOUS
<1>1. Shaped
  BY DEF PageInv
<1> DEFINE w == Updated(handler, view[handler], panel).view
<1>2. /\ handler \in Opens /\ view' = [view EXCEPT ![handler] = w]
      /\ UNCHANGED <<spoken, live, page, shown, draws, summarizing, handler, entries>>
  BY <1>1, Fields DEF Refresh, relayVars
<1>3. /\ w \in PageViews
      /\ w.log = None \/ view[handler].log # None
      /\ w.log # None =>
            w.log.local = view[handler].log.local /\ w.log.online = view[handler].log.online
  BY <1>1, <1>2, Fields, Updates
<1>4. /\ spoken' \subseteq Records /\ live' \subseteq Records /\ entries' \subseteq Records
      /\ entries \subseteq entries' /\ handler' \in 0..MaxOpens
      /\ shown' \in BOOLEAN /\ page' \in 0..MaxOpens /\ (shown' => page' \in Opens)
      /\ summarizing' \in [Opens -> Summarizing \cup {None}]
  BY <1>1, <1>2 DEF Shaped
<1> HIDE DEF w
<1> QED
  BY <1>2, <1>3, <1>4, LogStored, PageKept

\* What happens on the phone and at the relay without the page.
LEMMA OthersKeep ==
    ASSUME PageInv, Elsewhere \/ \E r \in Mine : Speak(r) \/ Transcribed(r)
    PROVE  PageInv'
<1>1. Shaped
  BY DEF PageInv
<1>2. UNCHANGED <<page, shown, view, handler, draws, summarizing>>
  BY DEF Elsewhere, Speak, Transcribed, pageVars
<1>3. /\ summarizing' \in [Opens -> Summarizing \cup {None}]
      /\ spoken \subseteq Records /\ live \subseteq Records /\ entries \subseteq Records
  BY <1>1, <1>2 DEF Shaped
<1>4. CASE Elsewhere
  <2>1. UNCHANGED <<spoken, live>>
    BY <1>4 DEF Elsewhere
  <2>2. entries \subseteq entries' /\ entries' \subseteq Records
    BY <1>3, <1>4 DEF Elsewhere, Relay!AcceptAll, Relay!Report, Relay!GiveUp
  <2> QED
    BY <1>2, <1>3, <2>1, <2>2, OutsideKeeps
<1>5. ASSUME NEW r \in Mine, Speak(r) PROVE PageInv'
  <2>1. spoken' = spoken \cup {r} /\ live' = live /\ entries' = entries /\ r \in Records
    BY <1>5, PageAssumption DEF Speak, relayVars
  <2> QED
    BY <1>2, <1>3, <2>1, OutsideKeeps
<1>6. ASSUME NEW r \in Mine, Transcribed(r) PROVE PageInv'
  <2>1. /\ spoken' = spoken /\ live' = live \cup {r} /\ r \in Records
        /\ entries' = entries \/ entries' = entries \cup {r}
    BY <1>6, PageAssumption DEF Transcribed, Relay!AcceptAll, relayVars
  <2> QED
    BY <1>2, <1>3, <2>1, OutsideKeeps
<1> QED
  BY <1>4, <1>5, <1>6

------------------------------------------------------------------------------
\* The relay and the requests of the page

OwedInv == RelayShaped /\ HeldIsOwed

\* Where no request gets on, at the page or at the relay, what is owed stays.
LEMMA OwedLeftAlone == OwedInv /\ UNCHANGED <<asked, report, summarizing>> => OwedInv'
  BY DEF OwedInv, RelayShaped, HeldIsOwed, Owes

\* A page that gives up waiting, or has not asked yet, leaves the others to theirs.
LEMMA OwedWithout ==
    ASSUME Shaped, OwedInv, NEW c \in Opens, NEW s,
           summarizing' = [summarizing EXCEPT ![c] = s],
           UNCHANGED <<asked, report>>,
           s # None => Owes(s, asked') /\ s.at # "asked"
    PROVE  OwedInv'
<1>1. RelayShaped'
  BY DEF OwedInv, RelayShaped
<1>2. summarizing'[c] = s /\ \A d \in Opens \ {c} : summarizing'[d] = summarizing[d]
  BY DEF Shaped
<1>3. \A d \in Opens \ {c} : summarizing'[d] # None => Owes(summarizing'[d], asked')
  BY <1>2 DEF OwedInv, HeldIsOwed, Owes
<1>4. HeldIsOwed'
  <2>1. \A d \in Opens : summarizing'[d] # None => Owes(summarizing'[d], asked')
    BY <1>2, <1>3
  <2>2. ASSUME NEW d \in Opens, NEW e \in Opens, d # e,
               summarizing'[d] # None, summarizing'[e] # None,
               summarizing'[d].at = "asked", summarizing'[e].at = "asked"
        PROVE  summarizing'[d].request # summarizing'[e].request
    <3>1. d # c /\ e # c
      BY <1>2, <2>2
    <3> QED
      BY <1>2, <2>2, <3>1 DEF OwedInv, HeldIsOwed
  <2> QED
    BY <2>1, <2>2 DEF HeldIsOwed, Owes
<1> QED
  BY <1>1, <1>4 DEF OwedInv

\* The relay works on a request that no page waits for, or gives requests up.
LEMMA OwedElsewhere == Shaped /\ OwedInv /\ Elsewhere => OwedInv'
<1> SUFFICES ASSUME Shaped, OwedInv, Elsewhere PROVE OwedInv'
  OBVIOUS
<1>1. summarizing' = summarizing
  BY DEF Elsewhere, pageVars
<1>2. CASE UNCHANGED <<asked, report>>
  BY <1>1, <1>2, OwedLeftAlone
<1>3. ASSUME NEW q \in Requests, Relay!Report(q), ~Waited(q) PROVE OwedInv'
  <2>1. /\ asked[q] # None /\ asked' = [asked EXCEPT ![q] = None]
        /\ \E S \in SUBSET OnDay(entries, asked[q].day) :
              report' = [report EXCEPT ![asked[q].day] = S]
    BY <1>3 DEF Relay!Report
  <2>2. RelayShaped'
    <3>1. OnDay(entries, asked[q].day) \subseteq Records
      BY DEF OnDay, Shaped
    <3>2. asked' \in [Requests -> [day : Days, upTo : SUBSET Records] \cup {None}]
      BY <2>1 DEF OwedInv, RelayShaped
    <3>3. report' \in [Days -> (SUBSET Records) \cup {None}]
      BY <2>1, <3>1 DEF OwedInv, RelayShaped
    <3> QED
      BY <3>2, <3>3 DEF RelayShaped
  <2>3. \A p \in Requests \ {q} : asked'[p] = asked[p]
    BY <2>1 DEF OwedInv, RelayShaped
  <2>4. \A c \in Opens : summarizing[c] # None => summarizing[c].request # q
    BY <1>3 DEF Waited
  <2>5. HeldIsOwed'
    BY <1>1, <2>3, <2>4 DEF OwedInv, HeldIsOwed, Owes
  <2> QED
    BY <2>2, <2>5 DEF OwedInv
<1>4. CASE Relay!GiveUp
  <2>1. /\ report' = report
        /\ \E Q \in SUBSET Requests :
              asked' = [q \in Requests |-> IF q \in Q THEN None ELSE asked[q]]
    BY <1>4 DEF Relay!GiveUp
  <2>2. RelayShaped'
    BY <2>1 DEF OwedInv, RelayShaped
  <2>3. \A q \in Requests : asked'[q] = None \/ asked'[q] = asked[q]
    BY <2>1
  <2>4. HeldIsOwed'
    BY <1>1, <2>3 DEF OwedInv, HeldIsOwed, Owes
  <2> QED
    BY <2>2, <2>4 DEF OwedInv
<1> QED
  BY <1>2, <1>3, <1>4 DEF Elsewhere, Relay!AcceptAll

\* The request a page asks for is one that no other waits for, and owes what was posted with it.
LEMMA OwedAsking ==
    ASSUME Shaped, OwedInv, NEW c \in Opens, ReportAsked(c)
    PROVE  OwedInv'
<1> DEFINE s == summarizing[c]
<1>1. PICK q \in Requests :
         /\ ~Waited(q)
         /\ Relay!AskFor(q, s.batch, s.day)
         /\ summarizing' = [summarizing EXCEPT ![c].at = "asked", ![c].request = q]
  BY DEF ReportAsked
<1>2. s # None /\ s \in Summarizing /\ Owes(s, asked)
  BY Fields DEF ReportAsked, OwedInv, HeldIsOwed
<1>3. /\ asked' = [asked EXCEPT ![q] = [day |-> s.day, upTo |-> OnDay(entries', s.day)]]
      /\ entries' = entries \cup s.batch /\ report' = report
  BY <1>1 DEF Relay!AskFor
<1>4. RelayShaped'
  <2>1. OnDay(entries', s.day) \subseteq Records /\ s.day \in Days
    BY <1>2, <1>3 DEF OnDay, Shaped, Summarizing
  <2>2. asked' \in [Requests -> [day : Days, upTo : SUBSET Records] \cup {None}]
    BY <1>3, <2>1 DEF OwedInv, RelayShaped
  <2> QED
    BY <1>3, <2>2 DEF OwedInv, RelayShaped
<1> DEFINE t == [s EXCEPT !.at = "asked", !.request = q]
<1>5. /\ t.at = "asked" /\ t.request = q
      /\ t.held = s.held /\ t.batch = s.batch /\ t.day = s.day
  BY <1>2 DEF Summarizing
<1>6. summarizing'[c] = t /\ \A d \in Opens \ {c} : summarizing'[d] = summarizing[d]
  BY <1>1 DEF Shaped
<1>7. /\ asked'[q].day = s.day /\ asked'[q].upTo = OnDay(entries', s.day)
      /\ \A p \in Requests \ {q} : asked'[p] = asked[p]
  BY <1>3 DEF OwedInv, RelayShaped
<1>8. s.held \subseteq OnDay(entries', s.day)
  BY <1>2, <1>3 DEF Owes, OnDay
<1> HIDE DEF s, t
<1>9. Owes(t, asked')
  <2>1. t.held \subseteq OnDay(t.batch, t.day)
    BY <1>2, <1>5 DEF Owes
  <2> QED
    BY <1>5, <1>7, <1>8, <2>1 DEF Owes
<1>10. \A d \in Opens : summarizing[d] # None => summarizing[d].request # q
  BY <1>1 DEF Waited
<1>11. ASSUME NEW d \in Opens \ {c}, summarizing[d] # None PROVE Owes(summarizing[d], asked')
  <2>1. Owes(summarizing[d], asked)
    BY <1>11 DEF OwedInv, HeldIsOwed
  <2> QED
    BY <1>7, <1>10, <1>11, <2>1 DEF Owes
<1>12. HeldIsOwed'
  <2>1. \A d \in Opens : summarizing'[d] # None => Owes(summarizing'[d], asked')
    BY <1>6, <1>9, <1>11
  <2>2. ASSUME NEW d \in Opens, NEW e \in Opens, d # e,
               summarizing'[d] # None, summarizing'[e] # None,
               summarizing'[d].at = "asked", summarizing'[e].at = "asked"
        PROVE  summarizing'[d].request # summarizing'[e].request
    <3>1. CASE d # c /\ e # c
      BY <1>6, <2>2, <3>1 DEF OwedInv, HeldIsOwed
    <3>2. CASE d = c \/ e = c
      BY <1>5, <1>6, <1>10, <2>2, <3>2
    <3> QED
      BY <3>1, <3>2
  <2> QED
    BY <2>1, <2>2 DEF HeldIsOwed, Owes
<1> QED
  BY <1>4, <1>12 DEF OwedInv

\* A report that is written is no longer owed to anybody.
LEMMA OwedWriting ==
    ASSUME Shaped, OwedInv, NEW c \in Opens, ReportWritten(c)
    PROVE  /\ OwedInv'
           /\ summarizing[c].held \subseteq report'[summarizing[c].day]
<1> DEFINE s == summarizing[c]
           q == s.request
<1>1. /\ s # None /\ s \in Summarizing /\ s.at = "asked" /\ Owes(s, asked)
      /\ summarizing' = [summarizing EXCEPT ![c].at = "written", ![c].request = None]
  BY Fields DEF ReportWritten, OwedInv, HeldIsOwed
<1>2. /\ q \in Requests /\ asked[q] # None
      /\ asked' = [asked EXCEPT ![q] = None]
      /\ \E S \in SUBSET OnDay(entries, asked[q].day) :
            asked[q].upTo \subseteq S /\ report' = [report EXCEPT ![asked[q].day] = S]
  BY <1>1 DEF ReportWritten, Relay!Report, Owes
<1>3. asked[q].day = s.day /\ s.held \subseteq asked[q].upTo
  BY <1>1, <1>2 DEF Owes
<1>4. s.held \subseteq report'[s.day]
  <2>1. s.day \in Days /\ report \in [Days -> (SUBSET Records) \cup {None}]
    BY <1>1 DEF Summarizing, OwedInv, RelayShaped
  <2> QED
    BY <1>2, <1>3, <2>1
<1>5. RelayShaped'
  <2>1. OnDay(entries, asked[q].day) \subseteq Records
    BY DEF OnDay, Shaped
  <2>2. asked' \in [Requests -> [day : Days, upTo : SUBSET Records] \cup {None}]
    BY <1>2 DEF OwedInv, RelayShaped
  <2>3. report' \in [Days -> (SUBSET Records) \cup {None}]
    BY <1>2, <2>1 DEF OwedInv, RelayShaped
  <2> QED
    BY <2>2, <2>3 DEF RelayShaped
<1> DEFINE t == [s EXCEPT !.at = "written", !.request = None]
<1>6. /\ t.at = "written" /\ t.request = None
      /\ t.held = s.held /\ t.batch = s.batch /\ t.day = s.day
  BY <1>1 DEF Summarizing
<1>7. summarizing'[c] = t /\ \A d \in Opens \ {c} : summarizing'[d] = summarizing[d]
  BY <1>1 DEF Shaped
<1>8. \A p \in Requests \ {q} : asked'[p] = asked[p]
  BY <1>2 DEF OwedInv, RelayShaped
<1>9. \A d \in Opens \ {c} :
         summarizing[d] # None /\ summarizing[d].at = "asked" => summarizing[d].request # q
  BY <1>1 DEF OwedInv, HeldIsOwed
<1> HIDE DEF s, t, q
<1>10. Owes(t, asked')
  BY <1>1, <1>6 DEF Owes
<1>11. ASSUME NEW d \in Opens \ {c}, summarizing[d] # None PROVE Owes(summarizing[d], asked')
  <2>1. Owes(summarizing[d], asked)
    BY <1>11 DEF OwedInv, HeldIsOwed
  <2> QED
    BY <1>8, <1>9, <1>11, <2>1 DEF Owes
<1>12. HeldIsOwed'
  <2>1. \A d \in Opens : summarizing'[d] # None => Owes(summarizing'[d], asked')
    BY <1>7, <1>10, <1>11
  <2>2. ASSUME NEW d \in Opens, NEW e \in Opens, d # e,
               summarizing'[d] # None, summarizing'[e] # None,
               summarizing'[d].at = "asked", summarizing'[e].at = "asked"
        PROVE  summarizing'[d].request # summarizing'[e].request
    <3>1. d # c /\ e # c
      BY <1>6, <1>7, <2>2
    <3> QED
      BY <1>7, <2>2, <3>1 DEF OwedInv, HeldIsOwed
  <2> QED
    BY <2>1, <2>2 DEF HeldIsOwed, Owes
<1> QED
  BY <1>4, <1>5, <1>12 DEF OwedInv, s

\* Every step keeps what is owed.
LEMMA OwedKept == Shaped /\ OwedInv /\ [Next]_vars => OwedInv'
<1> SUFFICES ASSUME Shaped, OwedInv, [Next]_vars PROVE OwedInv'
  OBVIOUS
<1>1. CASE UNCHANGED <<asked, report, summarizing>>
  BY <1>1, OwedLeftAlone
<1>2. CASE Summarize
  <2> DEFINE v == [view[page] EXCEPT !.mode = "report", !.busy = TRUE, !.pressed = TRUE]
             s == [at |-> "posting", day |-> v.day, batch |-> v.log.records,
                   held |-> OnDay(v.log.records, v.day), request |-> None]
  <2>1. /\ page \in Opens /\ summarizing' = [summarizing EXCEPT ![page] = s]
        /\ UNCHANGED <<asked, report>>
    BY <1>2, Fields DEF Summarize, relayVars
  <2>2. s.at # "asked" /\ Owes(s, asked')
    <3> HIDE DEF v
    <3> QED
      BY DEF Owes
  <2> HIDE DEF s
  <2> QED
    BY <2>1, <2>2, OwedWithout
<1>3. ASSUME NEW c \in Opens, ReportAnswered(c) \/ ReportFails(c) PROVE OwedInv'
  <2>1. summarizing' = [summarizing EXCEPT ![c] = None] /\ UNCHANGED <<asked, report>>
    BY <1>3 DEF ReportAnswered, ReportFails, relayVars
  <2> QED
    BY <2>1, OwedWithout
<1>4. ASSUME NEW c \in Opens, ReportStep(c) PROVE OwedInv'
  BY <1>3, <1>4, OwedAsking, OwedWriting DEF ReportStep
<1>5. CASE Elsewhere
  BY <1>5, OwedElsewhere
<1>6. ASSUME NEW f \in draws, LoadStep(f) PROVE OwedInv'
  BY <1>1, <1>6 DEF LoadStep, RecordsSynced, RowsRead, LoadAnswered, LoadFails, Land,
                    Relay!AcceptAll, relayVars
<1>7. CASE Open \/ Leave \/ (\E d \in Days : PickDay(d))
           \/ \E mode \in {"records", "report"} : ChooseView(mode)
  BY <1>1, <1>7 DEF Open, Leave, PickDay, ChooseView, relayVars
<1>8. CASE Refresh \/ \E r \in Mine : Speak(r) \/ Transcribed(r)
  BY <1>1, <1>8 DEF Refresh, Speak, Transcribed, Relay!AcceptAll, relayVars, pageVars
<1>9. CASE UNCHANGED vars
  BY <1>1, <1>9 DEF vars, pageVars, relayVars
<1> QED
  BY <1>2, <1>4, <1>5, <1>6, <1>7, <1>8, <1>9 DEF Next, PageStep

------------------------------------------------------------------------------
\* Theorems

\* Nothing is loaded nor asked for at the beginning.
LEMMA InitIInv == Init => IInv
<1> SUFFICES ASSUME Init PROVE IInv
  OBVIOUS
<1>1. Shaped
  <2>1. entries = {} /\ 0 \in 0..MaxOpens
    BY PageAssumption DEF Init, Relay!Init
  <2>2. {r \in Mine : DayOf[r] # Today} \subseteq Records
    BY PageAssumption
  <2> QED
    BY <2>1, <2>2, NewViewShaped DEF Init, Shaped
<1>2. \A c \in Opens : view[c].log = None
  BY NewViewShaped DEF Init
<1>3. SentIsStored /\ LoadedIsStored
  BY <1>2 DEF Init, SentIsStored, LoadedIsStored
<1>4. RelayShaped
  <2>1. asked = [q \in Requests |-> None] /\ report = [d \in Days |-> None]
    BY DEF Init, Relay!Init
  <2> QED
    BY <2>1 DEF RelayShaped
<1>5. HeldIsOwed
  <2>1. \A c \in Opens : summarizing[c] = None
    BY DEF Init
  <2> QED
    BY <2>1 DEF HeldIsOwed
<1> QED
  BY <1>1, <1>3, <1>4, <1>5 DEF IInv

\* Every step keeps the invariant.
LEMMA StepIInv == IInv /\ [Next]_vars => IInv'
<1> SUFFICES ASSUME IInv, [Next]_vars PROVE IInv'
  OBVIOUS
<1>1. PageInv /\ OwedInv /\ Shaped
  BY DEF IInv, PageInv, OwedInv
<1>2. PageInv'
  <2>1. CASE PageStep
    BY <1>1, <2>1, UserKeeps, LoadKeeps, ReportKeeps DEF PageStep
  <2>2. CASE Refresh
    BY <1>1, <2>2, RefreshKeeps
  <2>3. CASE Elsewhere \/ \E r \in Mine : Speak(r) \/ Transcribed(r)
    BY <1>1, <2>3, OthersKeep
  <2>4. CASE UNCHANGED vars
    BY <1>1, <2>4
    DEF vars, pageVars, relayVars, PageInv, Shaped, SentIsStored, LoadedIsStored
  <2> QED
    BY <2>1, <2>2, <2>3, <2>4 DEF Next
<1>3. OwedInv'
  BY <1>1, OwedKept
<1> QED
  BY <1>2, <1>3 DEF IInv, PageInv, OwedInv

\* The inductive invariant of the page, its requests and the relay's promise.
THEOREM Inductive == Spec => []IInv
  BY InitIInv, StepIInv, PTL DEF Spec

\* All that the phone had of a day is stored when a page has loaded it from the relay, however
\* many loads overlap and whichever of them end (LifeLogSyncer.kt:43, index.html:3436).
THEOREM LoadRepairs == Spec => []LoadedIsStored
<1>1. IInv => LoadedIsStored
  BY DEF IInv
<1> QED
  BY <1>1, Inductive, PTL

\* A report written for a page covers what the page held of the day when it asked, whatever the
\* relay was asked for meanwhile (index.html:3961).
THEOREM ReportsCover == Spec => ReportCoversHeld
<1>1. IInv /\ [Next]_vars =>
         [\A c \in Opens :
             ReportWritten(c) => summarizing[c].held \subseteq report'[summarizing[c].day]]_vars
  BY OwedWriting DEF IInv, OwedInv
<1> QED
  BY <1>1, Inductive, PTL DEF Spec, ReportCoversHeld
==============================================================================
