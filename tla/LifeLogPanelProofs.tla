-------------------------- MODULE LifeLogPanelProofs --------------------------
(***************************************************************************)
(* Proof that the LifeLog page, once it waits for nothing, shows the       *)
(* selected day and nothing that was loaded for another, for any records,  *)
(* days, openings and loads.                                               *)
(*                                                                         *)
(* What ties the panel to the day is the newest load of the front opening: *)
(* it is of the selected day, and while it is under way anything may be    *)
(* shown; when it is over, log and panel are those of that day, and stay   *)
(* so until the next load begins.                                          *)
(*                                                                         *)
(* And that its data is of its type, the bound on the loads included: for  *)
(* each opening that waits for a report one load is kept, and its button   *)
(* stays pressed until that load is over.                                  *)
(***************************************************************************)
EXTENDS LifeLogPageProofs, FiniteSetTheorems

\* Openings that have begun, and loads that have been counted.
Started ==
    /\ \A f \in draws : f.open <= page /\ f.id <= view[f.open].loads
    /\ \A c \in Opens : summarizing[c] # None => c <= page

\* What a load has read is of its day.
DaysKept ==
    /\ \A f \in draws : f.local \cup f.rows \subseteq OnDay(Records, f.day)
    /\ live \subseteq Records

\* Is f the newest load of the front opening?
Newest(f) == f.open = page /\ f.id = view[page].loads

\* The log of v is one of the selected day, with nothing of another but what the bridge added.
LogOfDay(v) ==
    /\ v.log # None
    /\ v.log.day = v.day
    /\ v.log.records \subseteq OnDay(Records, v.day) \cup Bridged(v.day)

\* The selected day is shown or on its way.
DayComes ==
    shown =>
        /\ \A f \in draws : Newest(f) => f.day = view[page].day
        /\ (\E f \in draws : Newest(f)) \/ LogOfDay(view[page])

\* The panel p shows the variables v.
Shows(p, v) ==
    /\ p.kind = IF v.busy THEN "generating" ELSE v.mode
    /\ p.day = IF v.log = None THEN None ELSE v.log.day
    /\ p.items \subseteq IF v.log = None THEN {} ELSE v.log.records

PanelFollows ==
    shown /\ panel.by = page =>
        IF panel.kind = "loading" THEN \E f \in draws : Newest(f) ELSE Shows(panel, view[page])

PanelInv == panel \in Panels /\ Started /\ DaysKept /\ DayComes /\ PanelFollows

\* The invariant is enough.
LEMMA PanelSelected == PanelInv => SettledPanelIsSelected
<1> SUFFICES ASSUME PanelInv, shown, panel.by = page, Settled
             PROVE  /\ panel.kind = view[page].mode
                    /\ panel.day = view[page].day
                    /\ panel.items \subseteq OnDay(Records, view[page].day) \cup Bridged(view[page].day)
  BY DEF SettledPanelIsSelected
<1>1. ~ \E f \in draws : Newest(f)
  BY DEF Settled, Newest
<1>2. LogOfDay(view[page]) /\ Shows(panel, view[page])
  BY <1>1 DEF PanelInv, DayComes, PanelFollows
<1> QED
  BY <1>2 DEF Settled, LogOfDay, Shows

------------------------------------------------------------------------------
\* The steps' parts

\* A panel that is rendered shows what it is rendered from.
LEMMA RenderShows ==
    ASSUME NEW c \in Opens, NEW v \in PageViews
    PROVE  /\ Rendered(c, v) \in Panels /\ Rendered(c, v).by = c
           /\ Rendered(c, v).kind # "loading" /\ Shows(Rendered(c, v), v)
<1> DEFINE p == Rendered(c, v)
<1>1. /\ p.by = c
      /\ p.day = IF v.log = None THEN None ELSE v.log.day
      /\ p.kind = IF v.busy THEN "generating" ELSE v.mode
      /\ p.items = IF v.log = None \/ v.mode = "report" \/ v.busy THEN {} ELSE v.log.records
  BY DEF Rendered
<1>2. /\ v.mode \in {"records", "report"}
      /\ v.log # None => v.log.day \in Days /\ v.log.records \subseteq Records
  BY DEF PageViews, Logs
<1>3. p = [by |-> p.by, day |-> p.day, items |-> p.items, kind |-> p.kind]
  BY DEF Rendered
<1>4. /\ p.by \in 0..MaxOpens /\ p.day \in Days \cup {None} /\ p.items \subseteq Records
      /\ p.kind \in {"generating", "records", "report"}
  BY <1>1, <1>2, PageAssumption DEF Opens
<1>5. Shows(p, v)
  BY <1>1 DEF Shows
<1> HIDE DEF p
<1>6. p \in Panels
  BY <1>3, <1>4 DEF Panels
<1> QED
  BY <1>1, <1>4, <1>5, <1>6 DEF p

\* The view a live update leaves: the log may have got the utterances of today, if it is shown as
\* today's.
LEMMA UpdatedView ==
    ASSUME NEW c, NEW v \in PageViews, NEW p
    PROVE  LET w == Updated(c, v, p).view
           IN  /\ w.day = v.day /\ w.loads = v.loads /\ w.busy = v.busy /\ w.mode = v.mode
               /\ w.pressed = v.pressed
               /\ \/ w.log = v.log
                  \/ /\ v.log # None /\ v.day = Today
                     /\ w.log = [v.log EXCEPT !.records = @ \cup live]
<1> DEFINE merged == v.log.records \cup live
           w == Updated(c, v, p).view
<1>1. CASE w = v
  BY <1>1
<1>2. CASE /\ v.log # None /\ v.day = Today
           /\ w = [v EXCEPT !.log.records = merged, !.signature = merged]
  <2> DEFINE l == [v.log EXCEPT !.records = merged]
  <2>1. w = [v EXCEPT !.log = l, !.signature = merged]
    BY <1>2
  <2>2. /\ w.day = v.day /\ w.loads = v.loads /\ w.busy = v.busy /\ w.mode = v.mode /\ w.log = l
        /\ w.pressed = v.pressed
    <3> HIDE DEF l, merged
    <3> QED
      BY <2>1 DEF PageViews
  <2> QED
    BY <1>2, <2>2
<1>3. \/ w = v
      \/ /\ v.log # None /\ v.day = Today
         /\ w = [v EXCEPT !.log.records = merged, !.signature = merged]
  BY DEF Updated
<1> QED
  BY <1>1, <1>2, <1>3

\* The panel a live update leaves: the same, or one with the utterances added, which is its
\* opening's own only if it was before.
LEMMA UpdatedPanel ==
    ASSUME NEW c \in Opens, NEW v \in PageViews, NEW p \in Panels, live \subseteq Records
    PROVE  LET u == Updated(c, v, p)
           IN  /\ u.panel \in Panels /\ u.panel.kind = p.kind
               /\ u.panel = p \/ u.panel.by \in {0, c}
               /\ u.panel.by = c => p.by = c
               /\ u.panel.by = c /\ Shows(p, v) => Shows(u.panel, u.view)
<1> DEFINE merged == v.log.records \cup live
           q == [p EXCEPT !.items = @ \cup merged, !.by = IF @ = c THEN c ELSE 0]
           w == [v EXCEPT !.log.records = merged, !.signature = merged]
           u == Updated(c, v, p)
<1>1. CASE u.panel = p /\ u.view = v
  BY <1>1
<1>2. CASE v.log # None /\ u.view = w /\ u.panel \in {p, q}
  <2>1. v.log \in Logs
    BY <1>2 DEF PageViews
  <2>2. merged \subseteq Records
    BY <2>1 DEF Logs
  <2> DEFINE l == [v.log EXCEPT !.records = merged]
  <2>3. l \in Logs /\ l.records = merged /\ l.day = v.log.day
    BY <2>1, <2>2 DEF Logs
  <2>4. w = [v EXCEPT !.log = l, !.signature = merged]
    OBVIOUS
  <2>5. /\ w.log = l /\ w.busy = v.busy /\ w.mode = v.mode
    <3> HIDE DEF l, merged, w
    <3> QED
      BY <2>4 DEF PageViews
  <2>6. w.log # None
    BY <2>3, <2>5, NoneIsNoLog
  <2>7. /\ q.by = IF p.by = c THEN c ELSE 0
        /\ q.items = p.items \cup merged /\ q.kind = p.kind /\ q.day = p.day
    BY DEF Panels
  <2>8. q \in Panels
    <3>1. p.items \cup merged \subseteq Records /\ c \in 0..MaxOpens /\ 0 \in 0..MaxOpens
      BY <2>2, PageAssumption DEF Panels, Opens
    <3> HIDE DEF merged
    <3> QED
      BY <3>1 DEF Panels
  <2>9. ASSUME Shows(p, v) PROVE Shows(p, w) /\ Shows(q, w)
    <3>1. p.items \subseteq merged
      BY <1>2, <2>9 DEF Shows
    <3>2. /\ p.kind = IF w.busy THEN "generating" ELSE w.mode
          /\ p.day = w.log.day
      BY <1>2, <2>3, <2>5, <2>9 DEF Shows
    <3> HIDE DEF w, q, l, merged
    <3> QED
      BY <2>3, <2>5, <2>6, <2>7, <3>1, <3>2 DEF Shows
  <2>10. c # 0
    BY PageAssumption DEF Opens
  <2> HIDE DEF q, w
  <2> QED
    BY <1>2, <2>7, <2>8, <2>9, <2>10
<1>3. \/ u.panel = p /\ u.view = v
      \/ v.log # None /\ u.view = w /\ u.panel \in {p, q}
  BY DEF Updated
<1> QED
  BY <1>1, <1>2, <1>3

\* What a load that begins adds, field by field.
LEMMA Begun ==
    ASSUME Shaped, NEW c \in Opens, NEW v \in PageViews, NEW then \in Callers, Draw(c, v, then)
    PROVE  \E w \in PageViews :
              /\ view' = [view EXCEPT ![c] = w]
              /\ w.day = v.day /\ w.loads = v.loads + 1
              /\ shown' \/ then # "enable" => w.pressed = v.pressed
              /\ IF shown'
                 THEN /\ panel' = Loading(c)
                      /\ \E f \in PageDraws :
                            /\ draws' = draws \cup {f}
                            /\ f.open = c /\ f.id = v.loads + 1 /\ f.day = v.day /\ f.then = then
                            /\ f.local \cup f.rows \subseteq OnDay(Records, f.day)
                 ELSE draws' = draws /\ panel' = panel
<1> DEFINE counted == [v EXCEPT !.loads = @ + 1]
           local == OnDay(spoken, v.day)
           f == [open |-> c, id |-> counted.loads, day |-> v.day, local |-> local,
                 at |-> IF local = {} THEN "loading" ELSE "syncing",
                 rows |-> {}, then |-> then]
           w == [counted EXCEPT !.pressed = counted.pressed /\ then # "enable"]
<1>1. /\ counted \in PageViews /\ counted.day = v.day /\ counted.loads = v.loads + 1
      /\ counted.pressed = v.pressed /\ v.pressed \in BOOLEAN
  BY DEF PageViews
<1>2. /\ w \in PageViews /\ w.day = v.day /\ w.loads = v.loads + 1
      /\ then # "enable" => w.pressed = v.pressed
  <2> DEFINE b == counted.pressed /\ then # "enable"
  <2>1. b \in BOOLEAN /\ (then # "enable" => b = counted.pressed)
    BY <1>1
  <2>2. w = [counted EXCEPT !.pressed = b]
    OBVIOUS
  <2> HIDE DEF counted, b, w
  <2> QED
    BY <1>1, <2>1, <2>2 DEF PageViews
<1>3. local \subseteq OnDay(Records, v.day) /\ local \subseteq Records
  BY DEF Shaped, OnDay
<1>4. f \in PageDraws /\ f.local \cup f.rows \subseteq OnDay(Records, f.day)
  <2>1. counted.loads \in Nat /\ v.day \in Days
    BY <1>1 DEF PageViews
  <2> HIDE DEF counted, local
  <2> QED
    BY <1>3, <2>1 DEF PageDraws, Callers
<1>5. f.open = c /\ f.id = v.loads + 1 /\ f.day = v.day /\ f.then = then
  BY <1>1
<1>6. CASE shown'
  <2>1. view' = [view EXCEPT ![c] = counted] /\ draws' = draws \cup {f} /\ panel' = Loading(c)
    BY <1>6 DEF Draw
  <2> HIDE DEF counted, f
  <2> QED
    BY <1>1, <1>4, <1>5, <1>6, <2>1
<1>7. CASE ~shown'
  <2>1. view' = [view EXCEPT ![c] = w] /\ draws' = draws /\ panel' = panel
    BY <1>7 DEF Draw
  <2> HIDE DEF w
  <2> QED
    BY <1>2, <1>7, <2>1
<1> QED
  BY <1>6, <1>7

\* A load that begins in the front opening is its newest, of the day selected then; in another
\* opening it takes the panel from the front one.
LEMMA BegunKeeps ==
    ASSUME Shaped, PanelInv, live' = live,
           NEW c \in Opens, NEW v \in PageViews, NEW then \in Callers, Draw(c, v, then),
           page <= page', page' \in Opens, c <= page',
           \/ v.loads = view[c].loads
           \/ \A f \in draws : f.open # c,
           shown' => c = page' \/ (page' = page /\ shown),
           \A d \in Opens : summarizing'[d] # None => summarizing[d] # None
    PROVE  PanelInv'
<1>1. PICK w \in PageViews :
         /\ view' = [view EXCEPT ![c] = w]
         /\ w.day = v.day /\ w.loads = v.loads + 1
         /\ IF shown'
            THEN /\ panel' = Loading(c)
                 /\ \E f \in PageDraws :
                       /\ draws' = draws \cup {f}
                       /\ f.open = c /\ f.id = v.loads + 1 /\ f.day = v.day
                       /\ f.local \cup f.rows \subseteq OnDay(Records, f.day)
            ELSE draws' = draws /\ panel' = panel
  BY Begun
<1>2. view'[c] = w /\ \A d \in Opens \ {c} : view'[d] = view[d]
  BY <1>1 DEF Shaped
<1>3. Started /\ DaysKept /\ DayComes /\ PanelFollows /\ panel \in Panels
  BY DEF PanelInv
<1>4. /\ v.loads \in Nat /\ page \in Int /\ page' \in Int /\ c \in Int
      /\ \A f \in draws : f.open \in Opens /\ f.open \in Int /\ f.id \in Int
  BY PageAssumption, Fields DEF PageViews, PageDraws, Shaped, Opens
<1>5. \A f \in draws : /\ f.open <= page'
                       /\ f.id <= view'[f.open].loads
                       /\ f.open = c => f.id < w.loads
  <2> SUFFICES ASSUME NEW f \in draws
               PROVE  /\ f.open <= page'
                      /\ f.id <= view'[f.open].loads
                      /\ f.open = c => f.id < w.loads
    OBVIOUS
  <2>1. f.open <= page /\ f.id <= view[f.open].loads
    BY <1>3 DEF Started
  <2>2. CASE f.open = c
    <3>1. f.id <= v.loads
      BY <2>1, <2>2
    <3> QED
      BY <1>1, <1>2, <1>4, <2>1, <2>2, <3>1
  <2>3. CASE f.open # c
    <3>1. view'[f.open] = view[f.open]
      BY <1>2, <1>4, <2>3
    <3>2. f.open <= page'
      BY <1>4, <2>1
    <3> QED
      BY <2>1, <2>3, <3>1, <3>2
  <2> QED
    BY <2>2, <2>3
<1>6. \A d \in Opens : summarizing'[d] # None => d <= page'
  <2> SUFFICES ASSUME NEW d \in Opens, summarizing'[d] # None PROVE d <= page'
    OBVIOUS
  <2>1. d \in Int
    BY PageAssumption DEF Opens
  <2>2. d <= page
    BY <1>3 DEF Started
  <2> QED
    BY <1>4, <2>1, <2>2
<1>7. CASE ~shown'
  <2>1. draws' = draws /\ panel' = panel
    BY <1>1, <1>7
  <2>2. Started'
    BY <1>5, <1>6, <2>1 DEF Started
  <2>3. DaysKept'
    BY <1>3, <2>1 DEF DaysKept
  <2>4. DayComes' /\ PanelFollows'
    BY <1>7 DEF DayComes, PanelFollows
  <2> QED
    BY <1>3, <2>1, <2>2, <2>3, <2>4 DEF PanelInv
<1>8. CASE shown'
  <2>1. PICK f \in PageDraws :
           /\ draws' = draws \cup {f}
           /\ f.open = c /\ f.id = w.loads /\ f.day = v.day
           /\ f.local \cup f.rows \subseteq OnDay(Records, f.day)
    BY <1>1, <1>8
  <2>2. panel' = Loading(c) /\ panel' \in Panels /\ panel'.by = c /\ panel'.kind = "loading"
    <3>1. panel' = Loading(c)
      BY <1>1, <1>8
    <3>2. c \in 0..MaxOpens
      BY PageAssumption DEF Opens
    <3> QED
      BY <3>1, <3>2 DEF Loading, Panels
  <2>3. Started'
    <3>1. f.open <= page' /\ f.id <= view'[f.open].loads
      BY <1>1, <1>2, <1>4, <2>1
    <3> QED
      BY <1>5, <1>6, <2>1, <3>1 DEF Started
  <2>4. DaysKept'
    BY <1>3, <2>1 DEF DaysKept
  <2>5. CASE c = page'
    <3>1. \A g \in draws' : g.open = page' /\ g.id = view'[page'].loads => g = f
      <4> SUFFICES ASSUME NEW g \in draws, g.open = c, g.id = w.loads PROVE FALSE
        BY <1>2, <2>1, <2>5
      <4>1. g.id < w.loads
        BY <1>5
      <4> QED
        BY <1>4, <4>1
    <3>2. f \in draws' /\ f.open = page' /\ f.id = view'[page'].loads
      BY <1>2, <2>1, <2>5
    <3>3. DayComes'
      BY <1>1, <1>2, <2>1, <2>5, <3>1, <3>2 DEF DayComes, Newest
    <3>4. PanelFollows'
      BY <2>2, <3>2 DEF PanelFollows, Newest
    <3> QED
      BY <2>2, <2>3, <2>4, <3>3, <3>4 DEF PanelInv
  <2>6. CASE c # page'
    <3>1. page' = page /\ shown /\ view'[page'] = view[page]
      BY <1>2, <1>8, <2>6
    <3>2. \A g \in draws' : Newest(g)' => g \in draws /\ Newest(g)
      BY <2>1, <2>6, <3>1 DEF Newest
    <3>3. \A g \in draws : Newest(g) => g \in draws' /\ Newest(g)'
      BY <2>1, <3>1 DEF Newest
    <3>4. DayComes'
      BY <1>3, <3>1, <3>2, <3>3 DEF DayComes, LogOfDay, Bridged
    <3>5. PanelFollows'
      BY <2>2, <2>6 DEF PanelFollows
    <3> QED
      BY <2>2, <2>3, <2>4, <3>4, <3>5 DEF PanelInv
  <2> QED
    BY <2>5, <2>6
<1> QED
  BY <1>7, <1>8

\* A step that changes how an opening shows its day and log, and shows them so.
LEMMA RenderKeeps ==
    ASSUME Shaped, PanelInv, UNCHANGED <<live, page, shown, draws>>,
           NEW c \in Opens, NEW w \in PageViews,
           view' = [view EXCEPT ![c] = w],
           w.log = view[c].log, w.day = view[c].day, w.loads = view[c].loads,
           Render(c, w),
           \A d \in Opens : summarizing'[d] # None => summarizing[d] # None \/ d = page
    PROVE  PanelInv'
<1>1. Started /\ DaysKept /\ DayComes /\ PanelFollows /\ panel \in Panels
  BY DEF PanelInv
<1>2. view'[c] = w /\ \A d \in Opens \ {c} : view'[d] = view[d]
  BY DEF Shaped
<1>3. \A d \in Opens : view'[d].loads = view[d].loads /\ view'[d].day = view[d].day
                       /\ view'[d].log = view[d].log
  BY <1>2
<1>4. \A f \in draws : f.open \in Opens
  BY Fields DEF PageDraws
<1>5. Started'
  <2>1. page <= page
    BY DEF Shaped
  <2> QED
    BY <1>1, <1>3, <1>4, <2>1 DEF Started
<1>6. DaysKept'
  BY <1>1 DEF DaysKept
<1>7. shown => page \in Opens
  BY Fields
<1>8. shown => \A f \in draws : Newest(f)' <=> Newest(f)
  BY <1>3, <1>7 DEF Newest
<1>9. DayComes'
  BY <1>1, <1>3, <1>7, <1>8 DEF DayComes, LogOfDay, Bridged
<1>10. panel' \in Panels /\ PanelFollows'
  <2>1. CASE ~shown
    BY <1>1, <2>1 DEF Render, PanelFollows
  <2>2. CASE shown
    <3>1. panel' = Rendered(c, w)
      BY <2>2 DEF Render
    <3> QED
      BY <1>2, <3>1, RenderShows DEF PanelFollows
  <2> QED
    BY <2>1, <2>2
<1> QED
  BY <1>5, <1>6, <1>9, <1>10 DEF PanelInv

\* A step that the page's openings and the panel do not notice.
LEMMA UnseenKeeps ==
    ASSUME PanelInv, UNCHANGED <<page, shown, view, draws, panel>>,
           live \subseteq live', live' \subseteq Records,
           \A d \in Opens : summarizing'[d] # None => summarizing[d] # None
    PROVE  PanelInv'
<1>1. Started' /\ DaysKept' /\ DayComes'
  BY DEF PanelInv, Started, DaysKept, DayComes, Newest, LogOfDay, Bridged
<1>2. PanelFollows'
  BY DEF PanelInv, PanelFollows, Newest, Shows
<1> QED
  BY <1>1, <1>2 DEF PanelInv

\* A load that gets on stays the load of its opening and day.
LEMMA ProgressKeeps ==
    ASSUME Shaped, PanelInv, NEW f \in draws, RecordsSynced(f) \/ RowsRead(f), live' = live
    PROVE  PanelInv'
<1>1. Started /\ DaysKept /\ DayComes /\ PanelFollows /\ panel \in Panels
  BY DEF PanelInv
<1>2. f \in PageDraws
  BY Fields
<1>3. PICK g \in PageDraws :
         /\ draws' = (draws \ {f}) \cup {g}
         /\ g.open = f.open /\ g.id = f.id /\ g.day = f.day
         /\ g.local \cup g.rows \subseteq OnDay(Records, g.day)
  <2>1. f.local \cup f.rows \subseteq OnDay(Records, f.day)
    BY <1>1 DEF DaysKept
  <2>2. CASE RecordsSynced(f)
    <3> DEFINE g == [f EXCEPT !.at = "loading"]
    <3>1. /\ g \in PageDraws /\ g.open = f.open /\ g.id = f.id /\ g.day = f.day
          /\ g.local = f.local /\ g.rows = f.rows
      BY <1>2 DEF PageDraws
    <3>2. draws' = (draws \ {f}) \cup {g}
      BY <2>2 DEF RecordsSynced, Goes
    <3> HIDE DEF g
    <3> QED
      BY <2>1, <3>1, <3>2
  <2>3. CASE RowsRead(f)
    <3> DEFINE g == [f EXCEPT !.at = "answered", !.rows = OnDay(entries, f.day)]
    <3>1. OnDay(entries, f.day) \subseteq OnDay(Records, f.day)
          /\ OnDay(entries, f.day) \subseteq Records
      BY DEF OnDay, Shaped
    <3>2. /\ g \in PageDraws /\ g.open = f.open /\ g.id = f.id /\ g.day = f.day
          /\ g.local = f.local /\ g.rows = OnDay(entries, f.day)
      BY <1>2, <3>1 DEF PageDraws
    <3>3. draws' = (draws \ {f}) \cup {g}
      BY <2>3 DEF RowsRead, Goes
    <3> HIDE DEF g
    <3> QED
      BY <2>1, <3>1, <3>2, <3>3
  <2> QED
    BY <2>2, <2>3
<1>4. UNCHANGED <<page, shown, view, panel, summarizing, live>>
  BY DEF RecordsSynced, RowsRead
<1>5. Started'
  BY <1>1, <1>3, <1>4 DEF Started
<1>6. DaysKept'
  BY <1>1, <1>3, <1>4 DEF DaysKept
<1>7. \A e \in draws' : Newest(e)' => \E d \in draws : Newest(d) /\ d.day = e.day
  BY <1>3, <1>4 DEF Newest
<1>8. (\E e \in draws : Newest(e)) => \E e \in draws' : Newest(e)'
  BY <1>3, <1>4 DEF Newest
<1>9. DayComes'
  BY <1>1, <1>4, <1>7, <1>8 DEF DayComes, LogOfDay, Bridged
<1>10. PanelFollows'
  BY <1>1, <1>4, <1>8 DEF PanelFollows, Shows
<1> QED
  BY <1>1, <1>4, <1>5, <1>6, <1>9, <1>10 DEF PanelInv

\* Taking in utterances leaves the selected day and the count of loads alone, and a log of the day
\* one of the day.
LEMMA UpdateOfDay ==
    ASSUME live \subseteq Records,
           NEW c \in Opens, NEW v \in PageViews, NEW p \in Panels
    PROVE  LET w == Updated(c, v, p).view
           IN  w.day = v.day /\ w.loads = v.loads /\ (LogOfDay(v) => LogOfDay(w))
<1> DEFINE w == Updated(c, v, p).view
<1>1. /\ w.day = v.day /\ w.loads = v.loads
      /\ \/ w.log = v.log
         \/ /\ v.log # None /\ v.day = Today
            /\ w.log = [v.log EXCEPT !.records = @ \cup live]
  BY UpdatedView
<1>2. ASSUME LogOfDay(v) PROVE LogOfDay(w)
  <2>1. CASE w.log = v.log
    BY <1>1, <1>2, <2>1 DEF LogOfDay, Bridged
  <2>2. CASE v.day = Today /\ w.log = [v.log EXCEPT !.records = @ \cup live]
    <3>1. v.log \in Logs
      BY <1>2 DEF LogOfDay, Bridged, PageViews
    <3>2. w.log \in Logs /\ w.log.day = v.log.day /\ w.log.records = v.log.records \cup live
      BY <2>2, <3>1 DEF Logs
    <3> QED
      BY <1>1, <1>2, <2>2, <3>2, NoneIsNoLog DEF LogOfDay, Bridged
  <2> QED
    BY <1>1, <2>1, <2>2
<1> QED
  BY <1>1, <1>2

\* The newest load of the front opening brings log and panel of the selected day; an older one, or
\* one of another opening, changes neither day nor log of the front one.
LEMMA LandKeeps ==
    ASSUME Shaped, PanelInv, NEW f \in draws, NEW log \in Logs, Land(f, log), live' = live,
           log.day = f.day, log.records \subseteq OnDay(Records, f.day)
    PROVE  PanelInv'
<1> DEFINE c == f.open
           v == view[c]
           newest == f.id = v.loads /\ f.day = v.day
           loaded == [v EXCEPT !.log = IF newest THEN log ELSE @,
                               !.pressed = @ /\ f.then # "enable"]
           drawn == IF newest /\ shown THEN Rendered(c, loaded) ELSE panel
           u == IF f.then = "install" /\ shown THEN Updated(c, loaded, drawn)
                ELSE [view |-> loaded, panel |-> drawn]
<1>1. Started /\ DaysKept /\ DayComes /\ PanelFollows /\ panel \in Panels
  BY DEF PanelInv
<1>2. f \in PageDraws /\ c \in Opens /\ v \in PageViews
  BY Fields DEF PageDraws
<1>3. /\ draws' = draws \ {f} /\ view' = [view EXCEPT ![c] = u.view] /\ panel' = u.panel
      /\ UNCHANGED <<page, shown, summarizing, live>>
  BY DEF Land
<1>4. /\ loaded \in PageViews
      /\ loaded.log = IF newest THEN log ELSE v.log
      /\ loaded.day = v.day /\ loaded.loads = v.loads
      /\ loaded.busy = v.busy /\ loaded.mode = v.mode
  <2> DEFINE l == IF newest THEN log ELSE v.log
             b == v.pressed /\ f.then # "enable"
  <2>1. b \in BOOLEAN
    OBVIOUS
  <2>2. l \in Logs \cup {None}
    BY <1>2 DEF PageViews
  <2>3. loaded = [v EXCEPT !.log = l, !.pressed = b]
    OBVIOUS
  <2>4. v \in PageViews
    BY <1>2
  <2>5. /\ loaded \in PageViews /\ loaded.log = l
        /\ loaded.day = v.day /\ loaded.loads = v.loads
        /\ loaded.busy = v.busy /\ loaded.mode = v.mode
    <3> HIDE DEF l, b, loaded, v
    <3> QED
      BY <2>1, <2>2, <2>3, <2>4 DEF PageViews
  <2> QED
    BY <2>5
<1>5. drawn \in Panels
  BY <1>1, <1>2, <1>4, RenderShows
<1>6. live \subseteq Records
  BY <1>1 DEF DaysKept, OnDay
<1> HIDE DEF loaded, drawn
<1>7. /\ u.view.day = loaded.day /\ u.view.loads = loaded.loads
      /\ LogOfDay(loaded) => LogOfDay(u.view)
  <2>1. CASE u = Updated(c, loaded, drawn)
    BY <1>2, <1>4, <1>5, <1>6, <2>1, UpdateOfDay
  <2>2. CASE u.view = loaded
    BY <2>2
  <2> QED
    BY <2>1, <2>2
<1>8. /\ u.panel \in Panels /\ u.panel.kind = drawn.kind
      /\ u.panel = drawn \/ u.panel.by \in {0, c}
      /\ u.panel.by = c => drawn.by = c
      /\ u.panel.by = c /\ Shows(drawn, loaded) => Shows(u.panel, u.view)
  BY <1>2, <1>4, <1>5, <1>6, UpdatedPanel
<1> HIDE DEF u
<1>9. view'[c] = u.view /\ \A d \in Opens \ {c} : view'[d] = view[d]
  BY <1>2, <1>3 DEF Shaped
<1>10. \A d \in Opens : view'[d].loads = view[d].loads /\ view'[d].day = view[d].day
  BY <1>4, <1>7, <1>9
<1>11. Started'
  <2>1. \A e \in draws : e.open \in Opens
    BY Fields DEF PageDraws
  <2> QED
    BY <1>1, <1>3, <1>10, <2>1 DEF Started
<1>12. DaysKept'
  BY <1>1, <1>3 DEF DaysKept
<1>13. shown => page \in Opens /\ page # 0
  BY Fields, PageAssumption DEF Opens
<1>14. shown => \A e \in draws : Newest(e)' <=> Newest(e)
  BY <1>3, <1>10, <1>13 DEF Newest
<1>15. CASE ~shown
  BY <1>3, <1>8, <1>11, <1>12, <1>15 DEF PanelInv, DayComes, PanelFollows
<1>16. CASE shown /\ c # page
  <2>1. view'[page] = view[page] /\ ~Newest(f)
    BY <1>9, <1>13, <1>16 DEF Newest
  <2>2. DayComes'
    BY <1>1, <1>3, <1>14, <1>16, <2>1 DEF DayComes, LogOfDay, Bridged
  <2>3. u.panel.by = page => u.panel = panel
    <3>1. drawn = panel \/ drawn.by = c
      BY <1>2, <1>4, RenderShows DEF drawn
    <3> QED
      BY <1>8, <1>13, <1>16, <3>1
  <2>4. PanelFollows'
    BY <1>1, <1>3, <1>14, <1>16, <2>1, <2>3 DEF PanelFollows
  <2> QED
    BY <1>3, <1>8, <1>11, <1>12, <2>2, <2>4 DEF PanelInv
<1>17. CASE shown /\ c = page /\ Newest(f)
  <2>1. f.id = v.loads /\ f.day = v.day
    BY <1>1, <1>17 DEF DayComes, Newest
  <2>2. LogOfDay(loaded)
    BY <1>4, <2>1, NoneIsNoLog DEF LogOfDay, Bridged
  <2>3. /\ drawn = Rendered(c, loaded)
        /\ drawn.by = c /\ drawn.kind # "loading" /\ Shows(drawn, loaded)
    BY <1>2, <1>4, <1>17, <2>1, RenderShows DEF drawn
  <2>4. DayComes'
    BY <1>1, <1>3, <1>7, <1>9, <1>10, <1>13, <1>14, <1>17, <2>2 DEF DayComes, LogOfDay, Bridged
  <2>5. PanelFollows'
    BY <1>3, <1>8, <1>9, <1>17, <2>3 DEF PanelFollows
  <2> QED
    BY <1>3, <1>8, <1>11, <1>12, <2>4, <2>5 DEF PanelInv
<1>18. CASE shown /\ c = page /\ ~Newest(f)
  <2>1. f.id # v.loads
    BY <1>18 DEF Newest
  <2>2. loaded.log = v.log /\ drawn = panel
    BY <1>4, <2>1 DEF drawn
  <2>3. LogOfDay(v) => LogOfDay(u.view)
    BY <1>4, <1>7, <2>2 DEF LogOfDay, Bridged
  <2>4. (\E e \in draws : Newest(e)) => \E e \in draws' : Newest(e)'
    BY <1>3, <1>14, <1>18
  <2>5. DayComes'
    <3>1. \A e \in draws' : Newest(e)' => e.day = view'[page].day
      BY <1>1, <1>3, <1>10, <1>13, <1>14, <1>18 DEF DayComes
    <3>2. (\E e \in draws' : Newest(e)') \/ LogOfDay(view'[page])
      BY <1>1, <1>9, <1>18, <2>3, <2>4 DEF DayComes
    <3> QED
      BY <1>3, <3>1, <3>2 DEF DayComes, LogOfDay, Bridged
  <2>6. Shows(panel, v) => Shows(panel, loaded)
    BY <1>4, <2>2 DEF Shows
  <2>7. PanelFollows'
    <3> SUFFICES ASSUME u.panel.by = page
                 PROVE  IF u.panel.kind = "loading" THEN \E e \in draws' : Newest(e)'
                        ELSE Shows(u.panel, u.view)
      BY <1>3, <1>9, <1>18 DEF PanelFollows
    <3>1. panel.by = page /\ u.panel.kind = panel.kind
      BY <1>8, <1>18, <2>2
    <3> QED
      BY <1>1, <1>8, <1>18, <2>2, <2>4, <2>6, <3>1 DEF PanelFollows
  <2> QED
    BY <1>3, <1>8, <1>11, <1>12, <2>5, <2>7 DEF PanelInv
<1> QED
  BY <1>15, <1>16, <1>17, <1>18

\* Loads, with what they bring.
LEMMA PanelLoads ==
    ASSUME Shaped, PanelInv, NEW f \in draws, LoadStep(f), live' = live
    PROVE  PanelInv'
<1>1. /\ f \in PageDraws /\ f.day \in Days
      /\ f.local \subseteq Records /\ f.rows \subseteq Records
      /\ f.local \subseteq OnDay(Records, f.day) /\ f.rows \subseteq OnDay(Records, f.day)
  BY Fields DEF PageDraws, PanelInv, DaysKept
<1>2. CASE LoadAnswered(f)
  <2> DEFINE log == [day |-> f.day, records |-> f.rows \cup f.local, local |-> f.local,
                     online |-> TRUE]
  <2>1. /\ log \in Logs /\ log.day = f.day /\ log.records \subseteq OnDay(Records, f.day)
    BY <1>1 DEF Logs
  <2>2. Land(f, log)
    BY <1>2 DEF LoadAnswered
  <2> HIDE DEF log
  <2> QED
    BY <2>1, <2>2, LandKeeps
<1>3. CASE LoadFails(f)
  <2> DEFINE log == [day |-> f.day, records |-> f.local, local |-> f.local, online |-> FALSE]
  <2>1. /\ log \in Logs /\ log.day = f.day /\ log.records \subseteq OnDay(Records, f.day)
    BY <1>1 DEF Logs
  <2>2. Land(f, log)
    BY <1>3 DEF LoadFails
  <2> HIDE DEF log
  <2> QED
    BY <2>1, <2>2, LandKeeps
<1> QED
  BY <1>2, <1>3, ProgressKeeps DEF LoadStep

\* What the user does: picking a day and opening the page begin a load, choosing a view and asking
\* for a report render what is there.
LEMMA PanelUser ==
    ASSUME Shaped, PanelInv, live' = live,
           \/ Open \/ Leave \/ Summarize
           \/ \E d \in Days : PickDay(d)
           \/ \E mode \in {"records", "report"} : ChooseView(mode)
    PROVE  PanelInv'
<1>1. Started /\ DaysKept /\ DayComes /\ PanelFollows /\ panel \in Panels
  BY DEF PanelInv
<1>2. page \in Int /\ page <= page /\ \A c \in Opens : c \in Int
  BY PageAssumption DEF Shaped, Opens
<1>3. CASE Open
  <2>1. page' = page + 1 /\ page' \in Opens /\ shown' /\ summarizing' = summarizing
    BY <1>3, PageAssumption DEF Open, Shaped, Opens
  <2>2. Draw(page', NewView, "install")
    BY <1>3 DEF Open
  <2>3. \A f \in draws : f.open # page'
    <3> SUFFICES ASSUME NEW f \in draws PROVE f.open # page'
      OBVIOUS
    <3>1. f.open <= page /\ f.open \in Int
      BY <1>1, <1>2, Fields DEF Started, PageDraws
    <3> QED
      BY <1>2, <2>1, <3>1
  <2>4. page <= page' /\ page' <= page'
    BY <1>2, <2>1
  <2> QED
    BY <2>1, <2>2, <2>3, <2>4, NewViewShaped, BegunKeeps DEF Callers
<1>4. CASE Leave
  <2>1. /\ ~shown' /\ panel' = Gone
        /\ UNCHANGED <<page, view, draws, summarizing, live>>
    BY <1>4 DEF Leave
  <2>2. panel' \in Panels
    BY <2>1, PageAssumption DEF Gone, Panels
  <2>3. Started' /\ DaysKept'
    BY <1>1, <2>1 DEF Started, DaysKept
  <2> QED
    BY <2>1, <2>2, <2>3 DEF PanelInv, DayComes, PanelFollows
<1>5. CASE Summarize
  <2> DEFINE old == view[page]
             v == [old EXCEPT !.mode = "report", !.busy = TRUE, !.pressed = TRUE]
  <2>1. /\ page \in Opens /\ view' = [view EXCEPT ![page] = v] /\ Render(page, v)
        /\ UNCHANGED <<page, shown, draws>>
        /\ \A d \in Opens : summarizing'[d] # None => summarizing[d] # None \/ d = page
    BY <1>5, Fields DEF Summarize, Shaped
  <2>2. old \in PageViews
    BY <2>1, Fields
  <2>3. v \in PageViews /\ v.log = old.log /\ v.day = old.day /\ v.loads = old.loads
    <3> HIDE DEF old
    <3> QED
      BY <2>2 DEF PageViews
  <2> HIDE DEF v
  <2> QED
    BY <2>1, <2>3, RenderKeeps
<1>6. ASSUME NEW d \in Days, PickDay(d) PROVE PanelInv'
  <2> DEFINE old == view[page]
             v == [old EXCEPT !.day = d]
  <2>1. /\ page \in Opens /\ shown /\ Draw(page, v, "nothing")
        /\ UNCHANGED <<page, shown, summarizing>>
    BY <1>6, Fields DEF PickDay
  <2>2. old \in PageViews
    BY <2>1, Fields
  <2>3. v \in PageViews /\ v.loads = old.loads
    <3> HIDE DEF old
    <3> QED
      BY <2>2 DEF PageViews
  <2> HIDE DEF v
  <2> QED
    BY <1>2, <2>1, <2>3, BegunKeeps DEF Callers
<1>7. ASSUME NEW mode \in {"records", "report"}, ChooseView(mode) PROVE PanelInv'
  <2> DEFINE old == view[page]
             v == [old EXCEPT !.mode = mode]
  <2>1. /\ page \in Opens /\ view' = [view EXCEPT ![page] = v] /\ Render(page, v)
        /\ UNCHANGED <<page, shown, draws, summarizing>>
    BY <1>7, Fields DEF ChooseView
  <2>2. old \in PageViews
    BY <2>1, Fields
  <2>3. v \in PageViews /\ v.log = old.log /\ v.day = old.day /\ v.loads = old.loads
    <3> HIDE DEF old
    <3> QED
      BY <2>2 DEF PageViews
  <2> HIDE DEF v
  <2> QED
    BY <2>1, <2>3, RenderKeeps
<1> QED
  BY <1>3, <1>4, <1>5, <1>6, <1>7

\* A report that was answered begins a load, one that failed renders; the front opening may be
\* another by then.
LEMMA PanelReports ==
    ASSUME Shaped, PanelInv, live' = live, NEW c \in Opens, ReportStep(c)
    PROVE  PanelInv'
<1> DEFINE old == view[c]
<1>1. summarizing[c] # None /\ page' = page /\ shown' = shown
      /\ \A d \in Opens : summarizing'[d] # None => summarizing[d] # None
  BY DEF ReportStep, ReportAsked, ReportWritten, ReportAnswered, ReportFails, Shaped
<1>2. /\ c <= page /\ page <= page /\ page \in Opens
      /\ old \in PageViews /\ live \subseteq Records
  BY <1>1, Fields, PageAssumption DEF PanelInv, Started, DaysKept, Shaped, Opens
<1>3. CASE ReportAsked(c) \/ ReportWritten(c)
  BY <1>1, <1>2, <1>3, UnseenKeeps DEF ReportAsked, ReportWritten
<1>4. CASE ReportAnswered(c)
  <2> DEFINE v == [old EXCEPT !.busy = FALSE]
  <2>1. Draw(c, v, "enable")
    BY <1>4 DEF ReportAnswered
  <2>2. v \in PageViews /\ v.loads = old.loads
    <3> HIDE DEF old
    <3> QED
      BY <1>2 DEF PageViews
  <2> HIDE DEF v
  <2> QED
    BY <1>1, <1>2, <2>1, <2>2, BegunKeeps DEF Callers
<1>5. CASE ReportFails(c)
  <2> DEFINE v == [old EXCEPT !.busy = FALSE, !.pressed = FALSE]
  <2>1. view' = [view EXCEPT ![c] = v] /\ Render(c, v) /\ draws' = draws
    BY <1>5 DEF ReportFails
  <2>2. v \in PageViews /\ v.log = old.log /\ v.day = old.day /\ v.loads = old.loads
    <3> HIDE DEF old
    <3> QED
      BY <1>2 DEF PageViews
  <2> HIDE DEF v
  <2> QED
    BY <1>1, <2>1, <2>2, RenderKeeps
<1> QED
  BY <1>3, <1>4, <1>5 DEF ReportStep

\* Utterances taken in by the front opening are shown as its log has them; those of an earlier
\* opening make the panel no longer the front one's.
LEMMA PanelRefresh ==
    ASSUME Shaped, PanelInv, Refresh
    PROVE  PanelInv'
<1> DEFINE v == view[handler]
           u == Updated(handler, v, panel)
<1>1. /\ shown /\ handler \in Opens /\ v \in PageViews
      /\ view' = [view EXCEPT ![handler] = u.view] /\ panel' = u.panel
      /\ UNCHANGED <<live, page, shown, draws, summarizing>>
  BY Fields DEF Refresh
<1>2. Started /\ DaysKept /\ DayComes /\ PanelFollows /\ panel \in Panels
  BY DEF PanelInv
<1>3. live \subseteq Records
  BY <1>2 DEF DaysKept, OnDay
<1>4. u.view.day = v.day /\ u.view.loads = v.loads /\ (LogOfDay(v) => LogOfDay(u.view))
  BY <1>1, <1>2, <1>3, UpdateOfDay
<1>5. /\ u.panel \in Panels /\ u.panel.kind = panel.kind
      /\ u.panel = panel \/ u.panel.by \in {0, handler}
      /\ u.panel.by = handler => panel.by = handler
      /\ u.panel.by = handler /\ Shows(panel, v) => Shows(u.panel, u.view)
  BY <1>1, <1>2, <1>3, UpdatedPanel
<1> HIDE DEF u
<1>6. view'[handler] = u.view /\ \A d \in Opens \ {handler} : view'[d] = view[d]
  BY <1>1 DEF Shaped
<1>7. \A d \in Opens : view'[d].loads = view[d].loads /\ view'[d].day = view[d].day
                       /\ (LogOfDay(view[d]) => LogOfDay(view'[d]))
  BY <1>4, <1>6
<1>8. page \in Opens /\ page # 0
  BY <1>1, Fields, PageAssumption DEF Opens
<1>9. Started'
  <2>1. \A e \in draws : e.open \in Opens
    BY Fields DEF PageDraws
  <2> QED
    BY <1>1, <1>2, <1>7, <2>1 DEF Started
<1>10. DaysKept'
  BY <1>1, <1>2 DEF DaysKept
<1>11. \A e \in draws : Newest(e)' <=> Newest(e)
  BY <1>1, <1>7, <1>8 DEF Newest
<1>12. DayComes'
  <2>1. \A e \in draws : Newest(e)' => e.day = view'[page].day
    BY <1>1, <1>2, <1>7, <1>8, <1>11 DEF DayComes
  <2>2. (\E e \in draws : Newest(e)') \/ LogOfDay(view'[page])
    BY <1>1, <1>2, <1>7, <1>8, <1>11 DEF DayComes
  <2> QED
    BY <1>1, <2>1, <2>2 DEF DayComes, LogOfDay, Bridged
<1>13. PanelFollows'
  <2> SUFFICES ASSUME u.panel.by = page
               PROVE  IF u.panel.kind = "loading" THEN \E e \in draws : Newest(e)'
                      ELSE Shows(u.panel, view'[page])
    BY <1>1 DEF PanelFollows, Shows
  <2>1. CASE handler = page
    BY <1>1, <1>2, <1>5, <1>6, <1>11, <2>1 DEF PanelFollows
  <2>2. CASE handler # page
    BY <1>1, <1>2, <1>5, <1>6, <1>8, <1>11, <2>2 DEF PanelFollows
  <2> QED
    BY <2>1, <2>2
<1> QED
  BY <1>1, <1>5, <1>9, <1>10, <1>12, <1>13 DEF PanelInv

------------------------------------------------------------------------------
\* How many loads there are

\* The loads begun so far, the openings whose button is pressed, and those that wait for a report,
\* the answer to which begins one more load.
Pairs == Opens \X (1..MaxLoads)
Counted == {l \in Pairs : l[2] <= view[l[1]].loads}
Pressed == {c \in Opens : view[c].pressed}
Waiting == {c \in Opens : summarizing[c] # None}

\* The loads begun and those that answers will begin keep within the bound.
Within ==
    /\ \A c \in Opens : view[c].loads <= MaxLoads
    /\ \A f \in draws : f.id >= 1
    /\ Cardinality(Counted) + Cardinality(Waiting) <= MaxLoads

\* The button stays pressed from the request to the end of the load that follows the answer, so
\* that an opening has one of the two at a time.
ButtonHeld ==
    /\ Waiting \subseteq Pressed
    /\ \A f \in draws : f.then = "enable" => f.open \in Pressed \ Waiting
    /\ \A f, g \in draws : f.then = "enable" /\ g.then = "enable" /\ f.open = g.open => f = g

\* The phone shows what it has stored, of what it has heard.
Heard == spoken \subseteq Mine /\ live \subseteq spoken

Bounded == Within /\ ButtonHeld /\ Heard

\* A set that is at most one element larger.
LEMMA OneMore ==
    ASSUME NEW B, IsFiniteSet(B), NEW S \in SUBSET B, NEW T, NEW x, T \subseteq S \cup {x}
    PROVE  /\ Cardinality(S) \in Nat /\ Cardinality(T) \in Nat
           /\ Cardinality(T) <= Cardinality(S) + 1
           /\ T \subseteq S => Cardinality(T) <= Cardinality(S)
<1>1. IsFiniteSet(S)
  BY FS_Subset
<1>2. /\ IsFiniteSet(S \cup {x}) /\ Cardinality(S) \in Nat
      /\ Cardinality(S \cup {x}) <= Cardinality(S) + 1
  <2>1. Cardinality(S) \in Nat
    BY <1>1, FS_CardinalityType
  <2>2. /\ IsFiniteSet(S \cup {x})
        /\ Cardinality(S \cup {x}) \in {Cardinality(S), Cardinality(S) + 1}
    BY <1>1, FS_AddElement
  <2> QED
    BY <2>1, <2>2
<1>3. IsFiniteSet(T) /\ Cardinality(T) <= Cardinality(S \cup {x})
  BY <1>2, FS_Subset
<1>4. Cardinality(T) \in Nat /\ Cardinality(S \cup {x}) \in Nat
  BY <1>2, <1>3, FS_CardinalityType
<1>5. T \subseteq S => Cardinality(T) <= Cardinality(S)
  BY <1>1, FS_Subset
<1> QED
  BY <1>2, <1>3, <1>4, <1>5

\* Openings and their loads are finitely many.
LEMMA PairsFinite == IsFiniteSet(Opens) /\ IsFiniteSet(Pairs)
<1>1. IsFiniteSet(1..MaxOpens) /\ IsFiniteSet(1..MaxLoads)
  BY PageAssumption, FS_Interval
<1> QED
  BY <1>1, FS_Product DEF Opens, Pairs

\* An opening can begin another load while the loads of all openings are below the bound.
LEMMA LoadsLeft ==
    ASSUME Shaped, NEW c \in Opens, Cardinality(Counted) < MaxLoads
    PROVE  view[c].loads < MaxLoads
<1>1. view[c].loads \in Nat /\ MaxLoads \in Nat
  BY Fields, PageAssumption DEF PageViews
<1> SUFFICES ASSUME view[c].loads >= MaxLoads PROVE FALSE
  BY <1>1
<1> DEFINE R == {c} \X (1..MaxLoads)
<1>2. IsFiniteSet({c}) /\ Cardinality({c}) = 1
  BY FS_Singleton
<1>3. IsFiniteSet(1..MaxLoads) /\ Cardinality(1..MaxLoads) = MaxLoads
  BY <1>1, FS_Interval
<1>4. Cardinality(R) = MaxLoads
  <2>1. IsFiniteSet({c}) /\ IsFiniteSet(1..MaxLoads)
    BY <1>2, <1>3
  <2>2. Cardinality(R) = Cardinality({c}) * Cardinality(1..MaxLoads)
    BY <2>1, FS_Product
  <2> QED
    BY <1>1, <1>2, <1>3, <2>2
<1>5. R \subseteq Counted
  <2> SUFFICES ASSUME NEW i \in 1..MaxLoads PROVE <<c, i>> \in Counted
    OBVIOUS
  <2>1. i <= view[c].loads
    BY <1>1
  <2> QED
    BY <2>1 DEF Counted, Pairs
<1>6. IsFiniteSet(Counted)
  BY PairsFinite, FS_Subset DEF Counted
<1>7. Cardinality(R) <= Cardinality(Counted)
  BY <1>5, <1>6, FS_Subset
<1>8. Cardinality(Counted) \in Nat
  BY <1>6, FS_CardinalityType
<1> QED
  BY <1>1, <1>4, <1>7, <1>8

\* A load more of one opening is one more load in all.
LEMMA CountedGrows ==
    ASSUME Shaped, NEW c \in Opens, NEW w \in PageViews, view' = [view EXCEPT ![c] = w]
    PROVE  /\ w.loads <= view[c].loads => Counted' \subseteq Counted
           /\ w.loads <= view[c].loads + 1 =>
                 Counted' \subseteq Counted \cup {<<c, view[c].loads + 1>>}
<1>1. view'[c] = w /\ \A d \in Opens \ {c} : view'[d] = view[d]
  BY DEF Shaped
<1>2. w.loads \in Nat /\ view[c].loads \in Nat
  BY Fields DEF PageViews
<1>3. ASSUME NEW d \in Opens, NEW i \in 1..MaxLoads, i <= view'[d].loads
      PROVE  /\ w.loads <= view[c].loads => i <= view[d].loads
             /\ w.loads <= view[c].loads + 1 =>
                   i <= view[d].loads \/ (d = c /\ i = view[c].loads + 1)
  <2>1. i \in Int
    BY PageAssumption
  <2> QED
    BY <1>1, <1>2, <1>3, <2>1
<1>4. \A l \in Pairs : l[1] \in Opens /\ l[2] \in 1..MaxLoads /\ l = <<l[1], l[2]>>
  BY DEF Pairs
<1> QED
  BY <1>3, <1>4 DEF Counted

\* A load that is begun where one is left keeps within the bound.
LEMMA WithinBegun ==
    ASSUME Shaped, Within, NEW c \in Opens, NEW v \in PageViews, NEW then \in Callers,
           Draw(c, v, then), v.loads <= view[c].loads,
           \/ MayLoad /\ Waiting' = Waiting /\ Waiting \subseteq Pressed
           \/ c \in Waiting /\ Waiting' = Waiting \ {c}
    PROVE  Within'
<1>1. PICK w \in PageViews :
         /\ view' = [view EXCEPT ![c] = w]
         /\ w.loads = v.loads + 1
         /\ \A f \in draws' : f \in draws \/ f.id = v.loads + 1
  BY Begun
<1>2. /\ Counted \in SUBSET Pairs /\ Waiting \in SUBSET Opens /\ Pressed \in SUBSET Opens
      /\ IsFiniteSet(Opens) /\ IsFiniteSet(Pairs)
  BY PairsFinite DEF Counted, Waiting, Pressed
<1>3. v.loads \in Nat /\ view[c].loads \in Nat /\ w.loads \in Nat /\ MaxLoads \in Nat
  BY Fields, PageAssumption DEF PageViews
<1>4. /\ Cardinality(Counted) \in Nat /\ Cardinality(Counted') \in Nat
      /\ Cardinality(Counted') <= Cardinality(Counted) + 1
  <2>1. w.loads <= view[c].loads + 1
    BY <1>1, <1>3
  <2>2. Counted' \subseteq Counted \cup {<<c, view[c].loads + 1>>}
    BY <1>1, <2>1, CountedGrows
  <2>3. IsFiniteSet(Pairs) /\ Counted \in SUBSET Pairs
    BY <1>2
  <2> QED
    BY <2>2, <2>3, OneMore
<1>5. /\ Cardinality(Counted) < MaxLoads
      /\ Cardinality(Counted') + Cardinality(Waiting') <= MaxLoads
  <2>1. CASE MayLoad /\ Waiting' = Waiting /\ Waiting \subseteq Pressed
    <3>1. Cardinality(Counted) + Cardinality(Pressed) < MaxLoads
      BY <2>1 DEF MayLoad, Counted, Pressed, Pairs
    <3>2. /\ Cardinality(Waiting) \in Nat /\ Cardinality(Pressed) \in Nat
          /\ Cardinality(Waiting) <= Cardinality(Pressed)
      <4>1. Waiting \subseteq Pressed \cup {c}
        BY <2>1
      <4> QED
        BY <1>2, <2>1, <4>1, OneMore
    <3>3. Cardinality(Waiting') = Cardinality(Waiting)
      BY <2>1
    <3> QED
      BY <1>3, <1>4, <3>1, <3>2, <3>3
  <2>2. CASE c \in Waiting /\ Waiting' = Waiting \ {c}
    <3>1. IsFiniteSet(Waiting)
      BY <1>2, FS_Subset
    <3>2. /\ Cardinality(Waiting) \in Nat /\ Cardinality(Waiting') \in Nat
      <4>1. IsFiniteSet(Waiting')
        BY <2>2, <3>1, FS_RemoveElement
      <4> QED
        BY <3>1, <4>1, FS_CardinalityType
    <3>3. Cardinality(Waiting') = Cardinality(Waiting) - 1
      BY <2>2, <3>1, FS_RemoveElement
    <3>4. Cardinality(Counted) + Cardinality(Waiting) <= MaxLoads
      BY DEF Within
    <3> QED
      BY <1>3, <1>4, <3>2, <3>3, <3>4
  <2> QED
    BY <2>1, <2>2
<1>6. view[c].loads < MaxLoads
  BY <1>5, LoadsLeft
<1>7. \A d \in Opens : view'[d].loads <= MaxLoads
  <2>1. view'[c] = w /\ \A d \in Opens \ {c} : view'[d] = view[d]
    BY <1>1 DEF Shaped
  <2>2. w.loads <= MaxLoads
    BY <1>1, <1>3, <1>6
  <2> QED
    BY <2>1, <2>2 DEF Within
<1>8. \A f \in draws' : f.id >= 1
  BY <1>1, <1>3 DEF Within
<1> QED
  BY <1>5, <1>7, <1>8 DEF Within

\* A step keeps within the bound that begins no load; one more opening may wait, if its load
\* is left.
LEMMA WithinKept ==
    ASSUME Shaped, Within, NEW c \in Opens, NEW w \in PageViews, view' = [view EXCEPT ![c] = w],
           w.loads = view[c].loads,
           \A f \in draws' : \E g \in draws : f.id = g.id,
           \/ Waiting' \subseteq Waiting
           \/ /\ MayLoad /\ Waiting \subseteq Pressed
              /\ Waiting' \subseteq Waiting \cup {c}
    PROVE  Within'
<1>1. /\ Counted \in SUBSET Pairs /\ Waiting \in SUBSET Opens /\ Pressed \in SUBSET Opens
      /\ IsFiniteSet(Opens) /\ IsFiniteSet(Pairs)
  BY PairsFinite DEF Counted, Waiting, Pressed
<1>2. view[c].loads \in Nat /\ MaxLoads \in Nat
  BY Fields, PageAssumption DEF PageViews
<1>3. /\ Cardinality(Counted) \in Nat /\ Cardinality(Counted') \in Nat
      /\ Cardinality(Counted') <= Cardinality(Counted)
  <2>1. w.loads <= view[c].loads
    BY <1>2
  <2>2. Counted' \subseteq Counted
    BY <2>1, CountedGrows
  <2>3. Counted' \subseteq Counted \cup {c}
    BY <2>2
  <2> QED
    BY <1>1, <2>2, <2>3, OneMore
<1>4. Cardinality(Counted') + Cardinality(Waiting') <= MaxLoads
  <2>1. CASE Waiting' \subseteq Waiting
    <3>1. Waiting' \subseteq Waiting \cup {c}
      BY <2>1
    <3>2. /\ Cardinality(Waiting) \in Nat /\ Cardinality(Waiting') \in Nat
          /\ Cardinality(Waiting') <= Cardinality(Waiting)
      BY <1>1, <2>1, <3>1, OneMore
    <3>3. Cardinality(Counted) + Cardinality(Waiting) <= MaxLoads
      BY DEF Within
    <3> QED
      BY <1>2, <1>3, <3>2, <3>3
  <2>2. CASE /\ MayLoad /\ Waiting \subseteq Pressed
             /\ Waiting' \subseteq Waiting \cup {c}
    <3>1. Cardinality(Counted) + Cardinality(Pressed) < MaxLoads
      BY <2>2 DEF MayLoad, Counted, Pressed, Pairs
    <3>2. Waiting' \subseteq Pressed \cup {c}
      BY <2>2
    <3>3. /\ Cardinality(Pressed) \in Nat /\ Cardinality(Waiting') \in Nat
          /\ Cardinality(Waiting') <= Cardinality(Pressed) + 1
      BY <1>1, <3>2, OneMore
    <3> QED
      BY <1>2, <1>3, <3>1, <3>3
  <2> QED
    BY <2>1, <2>2
<1>5. \A d \in Opens : view'[d].loads <= MaxLoads
  <2>1. view'[c] = w /\ \A d \in Opens \ {c} : view'[d] = view[d]
    BY DEF Shaped
  <2> QED
    BY <2>1 DEF Within
<1>6. \A f \in draws' : f.id >= 1
  BY DEF Within
<1> QED
  BY <1>4, <1>5, <1>6 DEF Within

\* What one opening does leaves the others their buttons and loads; its own button has to be
\* pressed while it waits for a report, and until the load is over that the answer begins.
LEMMA ButtonKept ==
    ASSUME Shaped, ButtonHeld, NEW c \in Opens, NEW w, view' = [view EXCEPT ![c] = w],
           Waiting' \subseteq Waiting \cup {c},
           c \in Waiting' => w.pressed,
           \A f \in draws' : f.open # c => f \in draws,
           \A f \in draws' : f.open = c /\ f.then = "enable" => w.pressed /\ c \notin Waiting',
           \A f, g \in draws' :
               f.open = c /\ f.then = "enable" /\ g.open = c /\ g.then = "enable" => f = g
    PROVE  ButtonHeld'
<1>1. view'[c] = w /\ \A d \in Opens \ {c} : view'[d] = view[d]
  BY DEF Shaped
<1>2. /\ \A d \in Opens \ {c} : d \in Pressed => d \in Pressed'
      /\ w.pressed => c \in Pressed'
  BY <1>1 DEF Pressed
<1>3. Waiting' \subseteq Pressed'
  <2> SUFFICES ASSUME NEW d \in Waiting' PROVE d \in Pressed'
    OBVIOUS
  <2>1. d \in Opens
    BY DEF Waiting
  <2> QED
    BY <1>2, <2>1 DEF ButtonHeld
<1>4. \A f \in draws' : f.then = "enable" => f.open \in Pressed' \ Waiting'
  <2> SUFFICES ASSUME NEW f \in draws', f.then = "enable"
               PROVE  f.open \in Pressed' \ Waiting'
    OBVIOUS
  <2>1. CASE f.open = c
    BY <1>2, <2>1
  <2>2. CASE f.open # c
    <3>1. f \in draws /\ f.open \in Pressed \ Waiting
      BY <2>2 DEF ButtonHeld
    <3> QED
      BY <1>2, <2>2, <3>1 DEF Pressed
  <2> QED
    BY <2>1, <2>2
<1>5. \A f, g \in draws' : f.then = "enable" /\ g.then = "enable" /\ f.open = g.open => f = g
  BY DEF ButtonHeld
<1> QED
  BY <1>3, <1>4, <1>5 DEF ButtonHeld

\* A load leaves the button as it is; the one after an answer belongs to a pressed button, and is
\* the only one.
LEMMA ButtonBegun ==
    ASSUME Shaped, ButtonHeld, NEW c \in Opens, NEW v \in PageViews, NEW then \in Callers,
           Draw(c, v, then),
           \/ /\ then # "enable" /\ Waiting' = Waiting
              /\ \/ v.pressed = view[c].pressed
                 \/ c \notin Waiting /\ \A f \in draws : f.open # c
           \/ /\ then = "enable" /\ c \in Waiting /\ Waiting' = Waiting \ {c}
              /\ v.pressed = view[c].pressed
    PROVE  ButtonHeld'
<1>1. PICK w \in PageViews :
         /\ view' = [view EXCEPT ![c] = w]
         /\ shown' \/ then # "enable" => w.pressed = v.pressed
         /\ \/ draws' = draws /\ ~shown'
            \/ \E f \in PageDraws :
                  draws' = draws \cup {f} /\ f.open = c /\ f.then = then /\ shown'
  BY Begun
<1>2. Waiting' \subseteq Waiting \cup {c}
  OBVIOUS
<1>3. \A f \in draws' : f.open # c => f \in draws
  BY <1>1
<1>4. CASE then # "enable"
  <2>1. w.pressed = v.pressed /\ Waiting' = Waiting
    BY <1>1, <1>4
  <2>2. \A f \in draws' : f.then = "enable" => f \in draws
    BY <1>1, <1>4
  <2>3. c \in Waiting' => w.pressed
    BY <1>4, <2>1 DEF ButtonHeld, Pressed
  <2>4. \A f \in draws' : f.open = c /\ f.then = "enable" => w.pressed /\ c \notin Waiting'
    BY <1>4, <2>1, <2>2 DEF ButtonHeld, Pressed
  <2>5. \A f, g \in draws' :
            f.open = c /\ f.then = "enable" /\ g.open = c /\ g.then = "enable" => f = g
    BY <2>2 DEF ButtonHeld
  <2> QED
    BY <1>1, <1>2, <1>3, <2>3, <2>4, <2>5, ButtonKept
<1>5. CASE then = "enable"
  <2>1. c \in Waiting /\ Waiting' = Waiting \ {c} /\ v.pressed
    BY <1>5 DEF ButtonHeld, Pressed
  <2>2. \A f \in draws : f.then = "enable" => f.open # c
    BY <2>1 DEF ButtonHeld
  <2>3. \A f \in draws' : f.open = c /\ f.then = "enable" => w.pressed /\ c \notin Waiting'
    BY <1>1, <2>1, <2>2
  <2>4. \A f, g \in draws' :
            f.open = c /\ f.then = "enable" /\ g.open = c /\ g.then = "enable" => f = g
    BY <1>1, <2>2
  <2>5. c \in Waiting' => w.pressed
    BY <2>1
  <2> QED
    BY <1>1, <1>2, <1>3, <2>3, <2>4, <2>5, ButtonKept
<1> QED
  BY <1>4, <1>5

\* A step that only changes what an opening shows and holds of the day.
LEMMA ViewBounded ==
    ASSUME Shaped, Within, ButtonHeld, NEW c \in Opens, NEW w \in PageViews,
           view' = [view EXCEPT ![c] = w], w.loads = view[c].loads, w.pressed = view[c].pressed,
           UNCHANGED <<draws, summarizing>>
    PROVE  Within' /\ ButtonHeld'
<1>1. Waiting' = Waiting
  BY DEF Waiting
<1>2. Within'
  BY <1>1, WithinKept
<1>3. c \in Waiting' => w.pressed
  BY <1>1 DEF ButtonHeld, Pressed
<1>4. \A f \in draws' : f.open = c /\ f.then = "enable" => w.pressed /\ c \notin Waiting'
  BY <1>1 DEF ButtonHeld, Pressed
<1>5. \A f, g \in draws' :
          f.open = c /\ f.then = "enable" /\ g.open = c /\ g.then = "enable" => f = g
  BY DEF ButtonHeld
<1>6. ButtonHeld'
  BY <1>1, <1>3, <1>4, <1>5, ButtonKept
<1> QED
  BY <1>2, <1>6

\* What a load that is over leaves of the count and the button.
LEMMA LandedButton ==
    ASSUME Shaped, NEW f \in draws, NEW log \in Logs, Land(f, log)
    PROVE  \E w \in PageViews :
              /\ view' = [view EXCEPT ![f.open] = w]
              /\ w.loads = view[f.open].loads
              /\ f.then # "enable" => w.pressed = view[f.open].pressed
<1> DEFINE c == f.open
           v == view[c]
           newest == f.id = v.loads /\ f.day = v.day
           loaded == [v EXCEPT !.log = IF newest THEN log ELSE @,
                               !.pressed = @ /\ f.then # "enable"]
           drawn == IF newest /\ shown THEN Rendered(c, loaded) ELSE panel
           u == IF f.then = "install" /\ shown THEN Updated(c, loaded, drawn)
                ELSE [view |-> loaded, panel |-> drawn]
<1>1. v \in PageViews
  BY Fields DEF PageDraws
<1>2. /\ loaded \in PageViews /\ loaded.loads = v.loads
      /\ f.then # "enable" => loaded.pressed = v.pressed
  <2> DEFINE l == IF newest THEN log ELSE v.log
             b == v.pressed /\ f.then # "enable"
  <2>1. b \in BOOLEAN /\ (f.then # "enable" => b = v.pressed)
    BY <1>1 DEF PageViews
  <2>2. l \in Logs \cup {None}
    BY <1>1 DEF PageViews
  <2>3. loaded = [v EXCEPT !.log = l, !.pressed = b]
    OBVIOUS
  <2> HIDE DEF l, b, loaded, v
  <2> QED
    BY <1>1, <2>1, <2>2, <2>3 DEF PageViews
<1>3. view' = [view EXCEPT ![c] = u.view]
  BY DEF Land
<1> HIDE DEF loaded, drawn
<1>4. /\ u.view \in PageViews /\ u.view.loads = loaded.loads
      /\ u.view.pressed = loaded.pressed
  <2>1. CASE u = Updated(c, loaded, drawn)
    <3>1. u.view \in PageViews
      BY <1>2, <2>1, Updates
    <3> DEFINE x == Updated(c, loaded, drawn).view
    <3>2. /\ x.day = loaded.day /\ x.loads = loaded.loads /\ x.busy = loaded.busy
          /\ x.mode = loaded.mode /\ x.pressed = loaded.pressed
          /\ \/ x.log = loaded.log
             \/ /\ loaded.log # None /\ loaded.day = Today
                /\ x.log = [loaded.log EXCEPT !.records = @ \cup live]
      BY <1>2, UpdatedView
    <3> HIDE DEF x
    <3>3. u.view = x
      BY <2>1 DEF x
    <3> QED
      BY <3>1, <3>2, <3>3
  <2>2. CASE u.view = loaded
    BY <1>2, <2>2
  <2> QED
    BY <2>1, <2>2
<1> HIDE DEF u
<1> QED
  BY <1>2, <1>3, <1>4

\* A load that is over may leave its button for the next request.
LEMMA LandBounded ==
    ASSUME Shaped, Within, ButtonHeld, NEW f \in draws, NEW log \in Logs, Land(f, log)
    PROVE  Within' /\ ButtonHeld'
<1>1. PICK w \in PageViews :
         /\ view' = [view EXCEPT ![f.open] = w]
         /\ w.loads = view[f.open].loads
         /\ f.then # "enable" => w.pressed = view[f.open].pressed
  BY LandedButton
<1>2. f.open \in Opens /\ draws' = draws \ {f} /\ Waiting' = Waiting
  BY Fields DEF Land, PageDraws, Waiting
<1>3. Within'
  BY <1>1, <1>2, WithinKept
<1>4. f.open \in Waiting => w.pressed
  BY <1>1, <1>2 DEF ButtonHeld, Pressed
<1>5. \A g \in draws' : g.open = f.open /\ g.then = "enable" =>
                            w.pressed /\ f.open \notin Waiting'
  BY <1>1, <1>2 DEF ButtonHeld, Pressed
<1>6. \A g, h \in draws' :
          g.open = f.open /\ g.then = "enable" /\ h.open = f.open /\ h.then = "enable" => g = h
  BY <1>2 DEF ButtonHeld
<1>7. ButtonHeld'
  BY <1>1, <1>2, <1>4, <1>5, <1>6, ButtonKept
<1> QED
  BY <1>3, <1>7

\* Loads that get on or end.
LEMMA LoadsBounded ==
    ASSUME Shaped, Within, ButtonHeld, NEW f \in draws, LoadStep(f)
    PROVE  Within' /\ ButtonHeld'
<1>1. /\ f \in PageDraws /\ f.open \in Opens /\ f.day \in Days
      /\ f.local \subseteq Records /\ f.rows \subseteq Records
  BY Fields DEF PageDraws
<1>2. CASE LoadAnswered(f)
  <2> DEFINE log == [day |-> f.day, records |-> f.rows \cup f.local, local |-> f.local,
                     online |-> TRUE]
  <2>1. log \in Logs
    BY <1>1 DEF Logs
  <2>2. Land(f, log)
    BY <1>2 DEF LoadAnswered
  <2> HIDE DEF log
  <2> QED
    BY <2>1, <2>2, LandBounded
<1>3. CASE LoadFails(f)
  <2> DEFINE log == [day |-> f.day, records |-> f.local, local |-> f.local, online |-> FALSE]
  <2>1. log \in Logs
    BY <1>1 DEF Logs
  <2>2. Land(f, log)
    BY <1>3 DEF LoadFails
  <2> HIDE DEF log
  <2> QED
    BY <2>1, <2>2, LandBounded
<1>4. CASE RecordsSynced(f) \/ RowsRead(f)
  <2>1. PICK g : /\ draws' = (draws \ {f}) \cup {g}
                 /\ g.open = f.open /\ g.id = f.id /\ g.then = f.then
    <3> DEFINE a == [f EXCEPT !.at = "loading"]
               b == [f EXCEPT !.at = "answered", !.rows = OnDay(entries, f.day)]
    <3>1. /\ a.open = f.open /\ a.id = f.id /\ a.then = f.then
          /\ b.open = f.open /\ b.id = f.id /\ b.then = f.then
      BY <1>1 DEF PageDraws
    <3>2. draws' = (draws \ {f}) \cup {a} \/ draws' = (draws \ {f}) \cup {b}
      BY <1>4 DEF RecordsSynced, RowsRead, Goes
    <3> HIDE DEF a, b
    <3> QED
      BY <3>1, <3>2
  <2>2. view' = view /\ Waiting' = Waiting
    BY <1>4 DEF RecordsSynced, RowsRead, Waiting
  <2> DEFINE w == view[f.open]
  <2>3. w \in PageViews /\ view' = [view EXCEPT ![f.open] = w]
    BY <1>1, <2>2, Fields DEF Shaped
  <2>4. Within'
    <3>1. \A d \in draws' : \E e \in draws : d.id = e.id
      BY <2>1
    <3> QED
      BY <1>1, <2>2, <2>3, <3>1, WithinKept
  <2>5. /\ f.open \in Waiting' => w.pressed
        /\ \A e \in draws' : e.open = f.open /\ e.then = "enable" =>
                                 w.pressed /\ f.open \notin Waiting'
    BY <1>1, <2>1, <2>2 DEF ButtonHeld, Pressed
  <2>6. \A d, e \in draws' :
            d.open = f.open /\ d.then = "enable" /\ e.open = f.open /\ e.then = "enable" => d = e
    BY <2>1 DEF ButtonHeld
  <2>7. ButtonHeld'
    BY <1>1, <2>1, <2>2, <2>3, <2>5, <2>6, ButtonKept
  <2> QED
    BY <2>4, <2>7
<1> QED
  BY <1>2, <1>3, <1>4 DEF LoadStep

\* What the user does: a load is begun, or a request that will need one, only if one is left.
LEMMA UserBounded ==
    ASSUME Shaped, Started, Within, ButtonHeld,
           \/ Open \/ Leave \/ Summarize
           \/ \E d \in Days : PickDay(d)
           \/ \E mode \in {"records", "report"} : ChooseView(mode)
    PROVE  Within' /\ ButtonHeld'
<1>1. Waiting \subseteq Pressed
  BY DEF ButtonHeld
<1>2. CASE Open
  <2>1. /\ page' = page + 1 /\ page' \in Opens /\ MayLoad /\ summarizing' = summarizing
        /\ Draw(page', NewView, "install")
    BY <1>2, PageAssumption DEF Open, Shaped, Opens
  <2>2. page \in Int /\ \A c \in Opens : c \in Int
    BY PageAssumption DEF Shaped, Opens
  <2>3. page' \notin Waiting /\ \A f \in draws : f.open # page'
    <3>1. \A f \in draws : f.open \in Int /\ f.open <= page
      BY <2>2, Fields DEF Started, PageDraws
    <3>2. ~ page + 1 <= page
      BY <2>2
    <3> QED
      BY <2>1, <3>1, <3>2 DEF Started, Waiting
  <2>4. Waiting' = Waiting
    BY <2>1 DEF Waiting
  <2>5. NewView.loads <= view[page'].loads
    BY <2>1, Fields DEF NewView, PageViews
  <2>6. Within'
    BY <1>1, <2>1, <2>4, <2>5, NewViewShaped, WithinBegun DEF Callers
  <2>7. ButtonHeld'
    BY <2>1, <2>3, <2>4, NewViewShaped, ButtonBegun DEF Callers
  <2> QED
    BY <2>6, <2>7
<1>3. CASE Leave
  <2>1. UNCHANGED <<view, draws, summarizing>>
    BY <1>3 DEF Leave
  <2> QED
    BY <2>1 DEF Within, ButtonHeld, Counted, Waiting, Pressed
<1>4. CASE Summarize
  <2> DEFINE old == view[page]
             v == [old EXCEPT !.mode = "report", !.busy = TRUE, !.pressed = TRUE]
  <2>1. /\ page \in Opens /\ view' = [view EXCEPT ![page] = v] /\ draws' = draws
        /\ MayLoad /\ ~old.pressed
        /\ \A d \in Opens : summarizing'[d] # None => summarizing[d] # None \/ d = page
    BY <1>4, Fields DEF Summarize, Shaped
  <2>2. v \in PageViews /\ v.loads = old.loads /\ v.pressed
    <3>1. old \in PageViews
      BY <2>1, Fields
    <3> HIDE DEF old
    <3> QED
      BY <3>1 DEF PageViews
  <2>3. Waiting' \subseteq Waiting \cup {page}
    BY <2>1 DEF Waiting
  <2>4. \A f \in draws' : f.then = "enable" => f.open # page
    BY <2>1 DEF ButtonHeld, Pressed
  <2> HIDE DEF v
  <2>5. Within'
    BY <1>1, <2>1, <2>2, <2>3, WithinKept
  <2>6. ButtonHeld'
    BY <2>1, <2>2, <2>3, <2>4, ButtonKept
  <2> QED
    BY <2>5, <2>6
<1>5. ASSUME NEW d \in Days, PickDay(d) PROVE Within' /\ ButtonHeld'
  <2> DEFINE old == view[page]
             v == [old EXCEPT !.day = d]
  <2>1. page \in Opens /\ MayLoad /\ Draw(page, v, "nothing") /\ summarizing' = summarizing
    BY <1>5, Fields DEF PickDay
  <2>2. v \in PageViews /\ v.loads = old.loads /\ v.loads <= old.loads /\ v.pressed = old.pressed
    <3>1. old \in PageViews
      BY <2>1, Fields
    <3> HIDE DEF old
    <3> QED
      BY <3>1 DEF PageViews
  <2>3. Waiting' = Waiting
    BY <2>1 DEF Waiting
  <2> HIDE DEF v
  <2>4. Within'
    BY <1>1, <2>1, <2>2, <2>3, WithinBegun DEF Callers
  <2>5. ButtonHeld'
    BY <2>1, <2>2, <2>3, ButtonBegun DEF Callers
  <2> QED
    BY <2>4, <2>5
<1>6. ASSUME NEW mode \in {"records", "report"}, ChooseView(mode) PROVE Within' /\ ButtonHeld'
  <2> DEFINE old == view[page]
             v == [old EXCEPT !.mode = mode]
  <2>1. /\ page \in Opens /\ view' = [view EXCEPT ![page] = v]
        /\ UNCHANGED <<draws, summarizing>>
    BY <1>6, Fields DEF ChooseView
  <2>2. v \in PageViews /\ v.loads = old.loads /\ v.pressed = old.pressed
    <3>1. old \in PageViews
      BY <2>1, Fields
    <3> HIDE DEF old
    <3> QED
      BY <3>1 DEF PageViews
  <2> HIDE DEF v
  <2> QED
    BY <2>1, <2>2, ViewBounded
<1> QED
  BY <1>2, <1>3, <1>4, <1>5, <1>6

\* An answer begins the load that was kept for it, a failure gives it up.
LEMMA ReportBounded ==
    ASSUME Shaped, Within, ButtonHeld, NEW c \in Opens, ReportStep(c)
    PROVE  Within' /\ ButtonHeld'
<1> DEFINE old == view[c]
<1>1. old \in PageViews /\ old.loads \in Nat
  BY Fields DEF PageViews
<1>2. summarizing[c] # None /\ c \in Waiting
  BY DEF ReportStep, ReportAsked, ReportWritten, ReportAnswered, ReportFails, Waiting
<1>3. CASE ReportAsked(c) \/ ReportWritten(c)
  <2>1. UNCHANGED <<view, draws>>
    BY <1>3 DEF ReportAsked, ReportWritten
  <2>2. \A d \in Opens : summarizing'[d] # None => summarizing[d] # None
    BY <1>2, <1>3 DEF ReportAsked, ReportWritten, Shaped
  <2>3. Waiting' \subseteq Waiting
    BY <2>2 DEF Waiting
  <2>4. view' = [view EXCEPT ![c] = old]
    BY <2>1 DEF Shaped
  <2>5. Within'
    BY <1>1, <2>1, <2>3, <2>4, WithinKept
  <2>6. ButtonHeld'
    BY <2>1, <2>3 DEF ButtonHeld, Pressed
  <2> QED
    BY <2>5, <2>6
<1>4. CASE ReportAnswered(c)
  <2> DEFINE v == [old EXCEPT !.busy = FALSE]
  <2>1. Draw(c, v, "enable") /\ summarizing' = [summarizing EXCEPT ![c] = None]
    BY <1>4 DEF ReportAnswered
  <2>2. v \in PageViews /\ v.loads = old.loads /\ v.loads <= old.loads /\ v.pressed = old.pressed
    <3>1. old \in PageViews
      BY <1>1
    <3>2. v = [old EXCEPT !.busy = FALSE]
      OBVIOUS
    <3> HIDE DEF old, v
    <3>3. v \in PageViews /\ v.loads = old.loads /\ v.pressed = old.pressed
      BY <3>1, <3>2 DEF PageViews
    <3>4. v.loads <= old.loads
      BY <1>1, <3>3
    <3> QED
      BY <3>3, <3>4
  <2>3. Waiting' = Waiting \ {c}
    BY <2>1 DEF Waiting, Shaped
  <2> HIDE DEF v
  <2>4. Within'
    BY <1>2, <2>1, <2>2, <2>3, WithinBegun DEF Callers
  <2>5. ButtonHeld'
    BY <1>2, <2>1, <2>2, <2>3, ButtonBegun DEF Callers
  <2> QED
    BY <2>4, <2>5
<1>5. CASE ReportFails(c)
  <2> DEFINE v == [old EXCEPT !.busy = FALSE, !.pressed = FALSE]
  <2>1. /\ view' = [view EXCEPT ![c] = v] /\ draws' = draws
        /\ summarizing' = [summarizing EXCEPT ![c] = None]
    BY <1>5 DEF ReportFails
  <2>2. v \in PageViews /\ v.loads = old.loads
    <3> HIDE DEF old
    <3> QED
      BY <1>1 DEF PageViews
  <2>3. Waiting' = Waiting \ {c}
    BY <2>1 DEF Waiting, Shaped
  <2>4. \A f \in draws' : f.then = "enable" => f.open # c
    BY <1>2, <2>1 DEF ButtonHeld
  <2> HIDE DEF v
  <2>5. Within'
    BY <2>1, <2>2, <2>3, WithinKept
  <2>6. ButtonHeld'
    BY <2>1, <2>3, <2>4, ButtonKept
  <2> QED
    BY <2>5, <2>6
<1> QED
  BY <1>3, <1>4, <1>5 DEF ReportStep

\* Taking in utterances neither loads nor presses.
LEMMA RefreshBounded ==
    ASSUME Shaped, Within, ButtonHeld, Refresh
    PROVE  Within' /\ ButtonHeld'
<1> DEFINE v == view[handler]
           w == Updated(handler, v, panel).view
<1>1. /\ handler \in Opens /\ v \in PageViews /\ view' = [view EXCEPT ![handler] = w]
      /\ UNCHANGED <<draws, summarizing>>
  BY Fields DEF Refresh
<1>2. w \in PageViews
  BY <1>1, Updates
<1>3. /\ w.day = v.day /\ w.loads = v.loads /\ w.busy = v.busy /\ w.mode = v.mode
      /\ w.pressed = v.pressed
      /\ \/ w.log = v.log
         \/ /\ v.log # None /\ v.day = Today
            /\ w.log = [v.log EXCEPT !.records = @ \cup live]
  BY <1>1, UpdatedView
<1>4. w.loads = v.loads /\ w.pressed = v.pressed
  BY <1>3
<1> HIDE DEF w
<1> QED
  BY <1>1, <1>2, <1>4, ViewBounded

\* Only speaking adds to what the phone has heard, only the end of an utterance's attempt to what
\* it shows.
LEMMA HeardKept == Heard /\ [Next]_vars => Heard'
<1> SUFFICES ASSUME Heard, [Next]_vars PROVE Heard'
  OBVIOUS
<1>1. CASE UNCHANGED <<spoken, live>>
  BY <1>1 DEF Heard
<1>2. CASE PageStep \/ Refresh \/ Elsewhere \/ UNCHANGED vars
  <2>1. UNCHANGED <<spoken, live>>
    BY <1>2 DEF PageStep, Refresh, Elsewhere, vars
  <2> QED
    BY <1>1, <2>1
<1>3. ASSUME NEW r \in Mine, Speak(r) \/ Transcribed(r) PROVE Heard'
  BY <1>3 DEF Speak, Transcribed, Heard
<1> QED
  BY <1>2, <1>3 DEF Next

\* Every step keeps the bounds.
LEMMA StepBounded == Shaped /\ Started /\ Bounded /\ [Next]_vars => Bounded'
<1> SUFFICES ASSUME Shaped, Started, Bounded, [Next]_vars PROVE Bounded'
  OBVIOUS
<1>1. Within /\ ButtonHeld /\ Heard
  BY DEF Bounded
<1>2. Heard'
  BY <1>1, HeardKept
<1>3. CASE PageStep
  BY <1>1, <1>2, <1>3, UserBounded, LoadsBounded, ReportBounded DEF PageStep, Bounded
<1>4. CASE Refresh
  BY <1>1, <1>2, <1>4, RefreshBounded DEF Bounded
<1>5. CASE Elsewhere \/ UNCHANGED vars \/ \E r \in Mine : Speak(r) \/ Transcribed(r)
  <2>1. UNCHANGED <<view, draws, summarizing>>
    BY <1>5 DEF Elsewhere, Speak, Transcribed, vars, pageVars
  <2>2. Within' /\ ButtonHeld'
    BY <1>1, <2>1 DEF Within, ButtonHeld, Counted, Waiting, Pressed
  <2> QED
    BY <1>2, <2>2 DEF Bounded
<1> QED
  BY <1>3, <1>4, <1>5 DEF Next

\* Nothing is loaded nor asked for at the beginning.
LEMMA InitBounded == Init => Bounded
<1> SUFFICES ASSUME Init PROVE Bounded
  OBVIOUS
<1>1. MaxLoads \in Nat /\ draws = {} /\ \A c \in Opens : view[c] = NewView /\ summarizing[c] = None
  BY PageAssumption DEF Init
<1>2. Counted = {} /\ Waiting = {}
  <2>1. \A i \in 1..MaxLoads : ~ i <= 0
    BY <1>1
  <2> QED
    BY <1>1, <2>1 DEF Counted, Waiting, Pairs, NewView
<1>3. Cardinality(Counted) + Cardinality(Waiting) = 0
  BY <1>2, FS_EmptySet
<1>4. Within
  BY <1>1, <1>3 DEF Within, NewView
<1>5. ButtonHeld
  BY <1>1, <1>2 DEF ButtonHeld
<1>6. Heard
  BY DEF Init, Heard
<1> QED
  BY <1>4, <1>5, <1>6 DEF Bounded

\* Data in shape and within the bounds is of its type.
LEMMA BoundedTypes == Shaped /\ Started /\ Bounded /\ panel \in Panels => TypeOK
<1> SUFFICES ASSUME Shaped, Started, Bounded, panel \in Panels PROVE TypeOK
  OBVIOUS
<1>1. view \in [Opens -> Views]
  <2> SUFFICES ASSUME NEW c \in Opens PROVE view[c] \in Views
    BY DEF Shaped
  <2>1. view[c] \in PageViews /\ view[c].loads <= MaxLoads
    BY Fields DEF Bounded, Within
  <2>2. view[c].loads \in 0..MaxLoads
    BY <2>1, PageAssumption DEF PageViews
  <2> QED
    BY <2>1, <2>2 DEF PageViews, Views
<1>2. draws \subseteq Draws
  <2> SUFFICES ASSUME NEW f \in draws PROVE f \in Draws
    OBVIOUS
  <2>1. f \in PageDraws /\ f.open \in Opens /\ view[f.open] \in PageViews
    BY Fields DEF PageDraws
  <2>2. f.id >= 1 /\ f.id <= view[f.open].loads /\ view[f.open].loads <= MaxLoads
    BY <2>1 DEF Bounded, Within, Started
  <2>3. f.id \in 1..MaxLoads
    BY <2>1, <2>2, PageAssumption DEF PageDraws, PageViews
  <2> QED
    BY <2>1, <2>3 DEF PageDraws, Draws
<1> QED
  BY <1>1, <1>2 DEF TypeOK, Shaped, Bounded, Heard

------------------------------------------------------------------------------
\* The theorem

\* Nothing is shown at the beginning.
LEMMA InitPanel == Init => PanelInv
<1> SUFFICES ASSUME Init PROVE PanelInv
  OBVIOUS
<1>1. panel \in Panels
  BY PageAssumption DEF Init, Gone, Panels
<1>2. draws = {} /\ live \subseteq Records /\ ~shown /\ \A c \in Opens : summarizing[c] = None
  BY PageAssumption DEF Init
<1> QED
  BY <1>1, <1>2 DEF PanelInv, Started, DaysKept, DayComes, PanelFollows

\* Every step of a page in shape keeps its panel on the selected day.
LEMMA StepPanel == Shaped /\ PanelInv /\ [Next]_vars => PanelInv'
<1> SUFFICES ASSUME Shaped, PanelInv, [Next]_vars PROVE PanelInv'
  OBVIOUS
<1>1. live \subseteq Records
  BY DEF PanelInv, DaysKept
<1>2. CASE PageStep
  BY <1>2, PanelUser, PanelLoads, PanelReports DEF PageStep
<1>3. CASE Refresh
  BY <1>3, PanelRefresh
<1>4. CASE Elsewhere \/ UNCHANGED vars \/ \E r \in Mine : Speak(r)
  <2>1. UNCHANGED <<live, page, shown, view, draws, panel, summarizing>>
    BY <1>4 DEF Elsewhere, Speak, vars, pageVars
  <2> QED
    BY <1>1, <2>1, UnseenKeeps
<1>5. ASSUME NEW r \in Mine, Transcribed(r) PROVE PanelInv'
  <2>1. UNCHANGED <<page, shown, view, draws, panel, summarizing>>
    BY <1>5 DEF Transcribed, pageVars
  <2>2. live \subseteq live' /\ live' \subseteq Records
    BY <1>1, <1>5, PageAssumption DEF Transcribed
  <2> QED
    BY <2>1, <2>2, UnseenKeeps
<1> QED
  BY <1>2, <1>3, <1>4, <1>5 DEF Next

\* A page that waits for nothing shows the selected day, and of another day only what the bridge
\* still has among its transcripts, under today's date: nothing that the phone or the relay answered
\* for another day (index.html:3388), in whichever order loads, reports and utterances came.
THEOREM PanelIsSelected == Spec => []SettledPanelIsSelected
<1>1. Shaped /\ PanelInv /\ [Next]_vars => PanelInv'
  BY StepPanel
<1>2. IInv => Shaped
  BY DEF IInv
<1> QED
  BY <1>1, <1>2, InitPanel, PanelSelected, Inductive, PTL DEF Spec

\* All data is of its type.  That the loads of all openings stay within the bound says that each
\* pressed button has one load kept for it, which begins at most once (index.html:3961).
THEOREM TypesHold == Spec => []TypeOK
<1>1. Shaped /\ PanelInv /\ [Next]_vars => PanelInv'
  BY StepPanel
<1>2. Shaped /\ PanelInv /\ Bounded /\ [Next]_vars => Bounded'
  BY StepBounded DEF PanelInv
<1>3. Shaped /\ PanelInv /\ Bounded => TypeOK
  BY BoundedTypes DEF PanelInv
<1>4. IInv => Shaped
  BY DEF IInv
<1> QED
  BY <1>1, <1>2, <1>3, <1>4, InitPanel, InitBounded, Inductive, PTL DEF Spec
===============================================================================
