---------------------------- MODULE RelayDayProofs ----------------------------
(***************************************************************************)
(* RelayDay keeps its promise for any records, photos, days, models and    *)
(* number of concurrent requests.  IInv says what the frame of a request   *)
(* still knows of the tables after others have changed them; the safety    *)
(* properties of RelayDay and its refinement of DayReport follow from it.  *)
(***************************************************************************)
EXTENDS RelayDay, TLAPS

USE NamesDiffer, TimesAreHours

------------------------------------------------------------------------------
\* The inductive invariant

\* What a frame read is still stored, and the photos it is done with are described.
FramesHold ==
    \A q \in Requests : job[q] # None =>
        /\ job[q].rows \subseteq ForDay(records, job[q].day)
        /\ job[q].known \subseteq ForDay(photos, job[q].day)
        /\ \A p \in job[q].known \ job[q].todo : caption[p] = visionModel
        /\ job[q].phase = "generating" =>
              /\ job[q].todo = {}
              /\ job[q].known \subseteq job[q].photos
              /\ job[q].photos \subseteq ForDay(photos, job[q].day)
              /\ job[q].known \cap job[q].blank = {}

\* A stored summary is written from entries of its day that are stored.
SummariesHold ==
    \A d \in Days : summary[d] # None =>
        /\ summary[d].records \subseteq ForDay(records, d)
        /\ summary[d].photos \subseteq ForDay(photos, d)

\* A frame that nobody overtook has read all that the stored summary of its day covers.
NotOvertaken ==
    \A q \in Requests : job[q] # None /\ ~job[q].raced /\ summary[job[q].day] # None =>
        /\ summary[job[q].day].records \subseteq job[q].rows
        /\ summary[job[q].day].photos \subseteq job[q].known

IInv == TypeOK /\ FramesHold /\ SummariesHold /\ NotOvertaken

------------------------------------------------------------------------------
\* Lemmas

\* The bounds of day_bounds hold exactly the hours of one Korean day.
LEMMA BoundsAreTheDay ==
    ASSUME NEW t \in Int, NEW d \in Int
    PROVE  (t >= DayStart(d) /\ t < DayEnd(d)) <=> KoreanDay(t) = d
  BY DEF DayStart, DayEnd, KoreanDay, KST

\* The entries of a day: records_for_day and photos_for_day agree with the calendar, and what is
\* of the day stays of the day when more is stored.
LEMMA DayOfEntries ==
    ASSUME NEW S \in SUBSET (Records \cup Photos), NEW d \in Days
    PROVE  ForDay(S, d) = Spent(S, d)
<1>1. ASSUME NEW e \in S
      PROVE  (At[e] >= DayStart(d) /\ At[e] < DayEnd(d)) <=> KoreanDay(At[e]) = d
  BY BoundsAreTheDay
<1> QED
  BY <1>1 DEF ForDay, Spent

\* More stored entries give every day at least what it had.
LEMMA DaysGrow ==
    ASSUME NEW S, NEW T, S \subseteq T, NEW d
    PROVE  ForDay(S, d) \subseteq ForDay(T, d)
  BY DEF ForDay

\* The fields of a running frame are typed.
LEMMA FrameTyped ==
    ASSUME TypeOK, NEW q \in Requests, job[q] # None
    PROVE  /\ job[q] \in Frames
           /\ job[q].phase \in {"captioning", "generating"} /\ job[q].day \in Days
           /\ job[q].rows \in SUBSET Records /\ job[q].known \in SUBSET Photos
           /\ job[q].todo \in SUBSET Photos /\ job[q].photos \in SUBSET Photos
           /\ job[q].blank \in SUBSET Photos /\ job[q].raced \in BOOLEAN
<1>1. job[q] \in Frames
  BY DEF TypeOK
<1> QED
  BY <1>1 DEF Frames

\* What a coroutine starts with is a frame.
LEMMA BeganTyped ==
    ASSUME TypeOK, NEW d \in Days, NEW rows \in SUBSET Records
    PROVE  Began(d, rows) \in Frames
<1>1. PhotosForDay(d) \in SUBSET Photos /\ Undescribed(d) \in SUBSET Photos
  BY DEF TypeOK, PhotosForDay, ForDay, Undescribed
<1> QED
  BY <1>1 DEF Began, Frames

------------------------------------------------------------------------------
\* Types

\* Empty tables and no frames are typed.
LEMMA InitTyped == Init => TypeOK
  BY DEF Init, TypeOK

\* Every step keeps the types.
LEMMA NextTyped == TypeOK /\ [Next]_vars => TypeOK'
<1> SUFFICES ASSUME TypeOK, [Next]_vars PROVE TypeOK'
  OBVIOUS
<1>1. CASE SyncLifelog
  BY <1>1 DEF SyncLifelog, TypeOK
<1>2. CASE SyncPhoto
  BY <1>2 DEF SyncPhoto, TypeOK
<1>3. CASE Restart
  BY <1>3 DEF Restart, TypeOK, stored
<1>4. ASSUME NEW q \in Requests, SyncAndSummarize(q) PROVE TypeOK'
  <2>1. PICK batch \in SUBSET Records, d \in Days :
            /\ records' = records \cup batch
            /\ job' = job \/ job' = [job EXCEPT ![q] = Began(d, RecordsForDay(d)')]
    BY <1>4 DEF SyncAndSummarize
  <2>2. records' \in SUBSET Records
    BY <2>1 DEF TypeOK
  <2>3. RecordsForDay(d)' \in SUBSET Records
    BY <2>2 DEF RecordsForDay, ForDay
  <2>4. Began(d, RecordsForDay(d)') \in Frames
    BY <2>3, BeganTyped
  <2>5. job' \in [Requests -> Frames \cup {None}]
    BY <2>1, <2>4 DEF TypeOK
  <2> QED
    BY <1>4, <2>2, <2>5 DEF SyncAndSummarize, TypeOK
<1>5. ASSUME NEW q \in Requests, PhotoAnalyzed(q) PROVE TypeOK'
  <2>1. job[q] \in Frames
    BY <1>5, FrameTyped DEF PhotoAnalyzed, In
  <2>2. PICK p \in job[q].todo :
            /\ caption' = [caption EXCEPT ![p] = visionModel]
            /\ job' = [job EXCEPT ![q].todo = @ \ {p}]
    BY <1>5 DEF PhotoAnalyzed
  <2>3. [job[q] EXCEPT !.todo = @ \ {p}] \in Frames
    BY <2>1 DEF Frames
  <2>4. job' \in [Requests -> Frames \cup {None}]
    BY <2>2, <2>3 DEF TypeOK
  <2>5. caption' \in [Photos -> Models \cup {None}]
    BY <2>2 DEF TypeOK
  <2> QED
    BY <1>5, <2>4, <2>5 DEF PhotoAnalyzed, TypeOK
<1>6. ASSUME NEW q \in Requests, RequestFails(q) PROVE TypeOK'
  BY <1>6 DEF RequestFails, TypeOK, stored
<1>7. ASSUME NEW q \in Requests, CaptionsEnsured(q) PROVE TypeOK'
  <2>1. job[q] \in Frames /\ job[q].day \in Days
    BY <1>7, FrameTyped DEF CaptionsEnsured, In
  <2>2. /\ PhotosForDay(job[q].day) \in SUBSET Photos
        /\ Undescribed(job[q].day) \in SUBSET Photos
    BY DEF TypeOK, PhotosForDay, ForDay, Undescribed
  <2>3. [job[q] EXCEPT !.phase = "generating", !.photos = PhotosForDay(job[q].day),
                       !.blank = Undescribed(job[q].day)] \in Frames
    BY <2>1, <2>2 DEF Frames
  <2>4. job' \in [Requests -> Frames \cup {None}]
    BY <1>7, <2>3 DEF CaptionsEnsured, TypeOK
  <2> QED
    BY <1>7, <2>4 DEF CaptionsEnsured, TypeOK, stored
<1>8. ASSUME NEW q \in Requests, SummaryGenerated(q) PROVE TypeOK'
  <2>1. /\ job[q].rows \in SUBSET Records /\ job[q].photos \in SUBSET Photos
        /\ job[q].day \in Days
    BY <1>8, FrameTyped DEF SummaryGenerated, In
  <2>2. summary' \in [Days -> Summaries \cup {None}]
    BY <1>8, <2>1 DEF SummaryGenerated, Written, Summaries, TypeOK
  <2>3. ASSUME NEW r \in Requests, job[r] # None
        PROVE  [job[r] EXCEPT !.raced = TRUE] \in Frames
    <3>1. job[r] \in Frames
      BY <2>3, FrameTyped
    <3> QED
      BY <3>1 DEF Frames
  <2> DEFINE g(r) == IF r = q THEN None
                     ELSE IF job[r] # None /\ job[r].day = job[q].day
                          THEN [job[r] EXCEPT !.raced = TRUE]
                          ELSE job[r]
  <2>4. \A r \in Requests : g(r) \in Frames \cup {None}
    BY <2>3 DEF TypeOK
  <2>5. job' = [r \in Requests |-> g(r)]
    BY <1>8 DEF SummaryGenerated
  <2> HIDE DEF g
  <2>6. job' \in [Requests -> Frames \cup {None}]
    BY <2>4, <2>5
  <2> QED
    BY <1>8, <2>2, <2>6 DEF SummaryGenerated, TypeOK
<1>9. CASE UNCHANGED vars
  BY <1>9 DEF vars, TypeOK
<1> QED
  BY <1>1, <1>2, <1>3, <1>4, <1>5, <1>6, <1>7, <1>8, <1>9 DEF Next, SummaryStep

------------------------------------------------------------------------------
\* The invariant, one action at a time

\* Nothing is stored and nobody has asked.
LEMMA InitInv == Init => IInv
<1> SUFFICES ASSUME Init PROVE IInv
  OBVIOUS
<1>1. TypeOK
  BY InitTyped
<1>2. FramesHold /\ SummariesHold /\ NotOvertaken
  BY DEF Init, FramesHold, SummariesHold, NotOvertaken
<1> QED
  BY <1>1, <1>2 DEF IInv

\* Arriving entries only add to the days that frames and summaries were read from.
LEMMA ArrivalInv ==
    ASSUME IInv, SyncLifelog \/ SyncPhoto
    PROVE  FramesHold' /\ SummariesHold' /\ NotOvertaken'
<1>1. /\ records \subseteq records' /\ photos \subseteq photos'
      /\ UNCHANGED <<caption, summary, visionModel, job>>
  BY DEF SyncLifelog, SyncPhoto
<1>2. ASSUME NEW d
      PROVE  /\ ForDay(records, d) \subseteq ForDay(records', d)
             /\ ForDay(photos, d) \subseteq ForDay(photos', d)
  BY <1>1 DEF ForDay
<1>3. FramesHold'
  BY <1>1, <1>2 DEF IInv, FramesHold
<1>4. SummariesHold'
  BY <1>1, <1>2 DEF IInv, SummariesHold
<1>5. NotOvertaken'
  BY <1>1 DEF IInv, NotOvertaken
<1> QED
  BY <1>3, <1>4, <1>5

\* A restart forgets the frames.
LEMMA RestartInv ==
    ASSUME IInv, Restart
    PROVE  FramesHold' /\ SummariesHold' /\ NotOvertaken'
<1>1. UNCHANGED stored /\ \A q \in Requests : job'[q] = None
  BY DEF Restart
<1> QED
  BY <1>1 DEF IInv, FramesHold, SummariesHold, NotOvertaken, stored

\* A new frame reads the day in the transaction that stores its batch.
LEMMA BeganInv ==
    ASSUME IInv, NEW q \in Requests, SyncAndSummarize(q)
    PROVE  FramesHold' /\ SummariesHold' /\ NotOvertaken'
<1>1. PICK batch \in SUBSET Records, d \in Days :
          /\ records' = records \cup batch
          /\ job' = job \/ job' = [job EXCEPT ![q] = Began(d, ForDay(records', d))]
  BY DEF SyncAndSummarize, RecordsForDay
<1>2. UNCHANGED <<photos, caption, summary, visionModel>> /\ records \subseteq records'
  BY <1>1 DEF SyncAndSummarize
<1>3. ASSUME NEW e
      PROVE  /\ ForDay(records, e) \subseteq ForDay(records', e)
             /\ ForDay(photos', e) = ForDay(photos, e)
  BY <1>2 DEF ForDay
<1> DEFINE b == Began(d, ForDay(records', d))
<1>4. /\ b.phase = "captioning" /\ b.day = d /\ b.rows = ForDay(records', d)
      /\ b.known = ForDay(photos, d) /\ b.todo = Undescribed(d)
  BY DEF Began, PhotosForDay
<1>5. \A p \in b.known \ b.todo : caption'[p] = visionModel'
  BY <1>2, <1>4 DEF Undescribed, PhotosForDay
<1>6. summary'[d] # None => /\ summary'[d].records \subseteq b.rows
                           /\ summary'[d].photos \subseteq b.known
  BY <1>2, <1>3, <1>4 DEF IInv, SummariesHold
<1> HIDE DEF b
<1>7. \A r \in Requests : job'[r] = job[r] \/ (r = q /\ job'[r] = b)
  BY <1>1 DEF b, IInv, TypeOK
<1>8. FramesHold'
  <2> SUFFICES ASSUME NEW r \in Requests, job'[r] # None
               PROVE  /\ job'[r].rows \subseteq ForDay(records', job'[r].day)
                      /\ job'[r].known \subseteq ForDay(photos', job'[r].day)
                      /\ \A p \in job'[r].known \ job'[r].todo : caption'[p] = visionModel'
                      /\ job'[r].phase = "generating" =>
                            /\ job'[r].todo = {}
                            /\ job'[r].known \subseteq job'[r].photos
                            /\ job'[r].photos \subseteq ForDay(photos', job'[r].day)
                            /\ job'[r].known \cap job'[r].blank = {}
    BY DEF FramesHold
  <2>1. CASE job'[r] = b
    BY <2>1, <1>3, <1>4, <1>5
  <2>2. CASE job'[r] = job[r]
    BY <2>2, <1>2, <1>3 DEF IInv, FramesHold
  <2> QED
    BY <2>1, <2>2, <1>7
<1>9. SummariesHold'
  BY <1>2, <1>3 DEF IInv, SummariesHold
<1>10. NotOvertaken'
  <2> SUFFICES ASSUME NEW r \in Requests, job'[r] # None, ~job'[r].raced,
                      summary'[job'[r].day] # None
               PROVE  /\ summary'[job'[r].day].records \subseteq job'[r].rows
                      /\ summary'[job'[r].day].photos \subseteq job'[r].known
    BY DEF NotOvertaken
  <2>1. CASE job'[r] = b
    BY <2>1, <1>4, <1>6
  <2>2. CASE job'[r] = job[r]
    BY <2>2, <1>2 DEF IInv, NotOvertaken
  <2> QED
    BY <2>1, <2>2, <1>7
<1> QED
  BY <1>8, <1>9, <1>10

\* A caption that is stored is one of the current model, and its photo is done with.
LEMMA AnalyzedInv ==
    ASSUME IInv, NEW q \in Requests, PhotoAnalyzed(q)
    PROVE  FramesHold' /\ SummariesHold' /\ NotOvertaken'
<1>1. PICK p \in job[q].todo :
          /\ caption' = [caption EXCEPT ![p] = visionModel]
          /\ job' = [job EXCEPT ![q].todo = @ \ {p}]
  BY DEF PhotoAnalyzed
<1>2. /\ UNCHANGED <<records, photos, summary, visionModel>>
      /\ job[q] # None /\ job[q].phase = "captioning"
  BY DEF PhotoAnalyzed, In
<1>3. job[q] \in Frames /\ p \in Photos
  BY <1>2, FrameTyped DEF IInv
<1> DEFINE g == [job[q] EXCEPT !.todo = @ \ {p}]
<1>4. /\ g.phase = "captioning" /\ g.day = job[q].day /\ g.rows = job[q].rows
      /\ g.known = job[q].known /\ g.raced = job[q].raced /\ g.todo = job[q].todo \ {p}
  BY <1>2, <1>3 DEF Frames
<1>5. job' = [job EXCEPT ![q] = g]
  BY <1>1
<1> HIDE DEF g
<1>6. \A r \in Requests : IF r = q THEN job'[r] = g ELSE job'[r] = job[r]
  BY <1>5 DEF IInv, TypeOK
<1>7. /\ caption'[p] = visionModel
      /\ \A o \in Photos : caption[o] = visionModel => caption'[o] = visionModel
  BY <1>1, <1>3 DEF IInv, TypeOK
<1>8. FramesHold'
  <2> SUFFICES ASSUME NEW r \in Requests, job'[r] # None
               PROVE  /\ job'[r].rows \subseteq ForDay(records', job'[r].day)
                      /\ job'[r].known \subseteq ForDay(photos', job'[r].day)
                      /\ \A o \in job'[r].known \ job'[r].todo : caption'[o] = visionModel'
                      /\ job'[r].phase = "generating" =>
                            /\ job'[r].todo = {}
                            /\ job'[r].known \subseteq job'[r].photos
                            /\ job'[r].photos \subseteq ForDay(photos', job'[r].day)
                            /\ job'[r].known \cap job'[r].blank = {}
    BY DEF FramesHold
  <2>1. CASE r = q
    <3>1. job'[r] = g /\ job[q].known \subseteq Photos
      BY <2>1, <1>2, <1>6, FrameTyped DEF IInv
    <3>2. \A o \in job[q].known \ job[q].todo : caption[o] = visionModel
      BY <1>2 DEF IInv, FramesHold
    <3>3. /\ job[q].rows \subseteq ForDay(records, job[q].day)
          /\ job[q].known \subseteq ForDay(photos, job[q].day)
      BY <1>2 DEF IInv, FramesHold
    <3> QED
      BY <3>1, <3>2, <3>3, <1>2, <1>4, <1>7
  <2>2. CASE r # q
    <3>1. job'[r] = job[r] /\ job[r] # None
      BY <2>2, <1>6
    <3>2. job[r].known \subseteq Photos
      BY <3>1, FrameTyped DEF IInv
    <3> QED
      BY <3>1, <3>2, <1>2, <1>7 DEF IInv, FramesHold
  <2> QED
    BY <2>1, <2>2
<1>9. SummariesHold'
  BY <1>2 DEF IInv, SummariesHold
<1>10. NotOvertaken'
  BY <1>2, <1>4, <1>6 DEF IInv, NotOvertaken
<1> QED
  BY <1>8, <1>9, <1>10

\* A request that fails leaves its frame, and nothing else changes.
LEMMA FailsInv ==
    ASSUME IInv, NEW q \in Requests, RequestFails(q)
    PROVE  FramesHold' /\ SummariesHold' /\ NotOvertaken'
<1>1. UNCHANGED <<stored, visionModel>> /\ \A r \in Requests : job'[r] = None \/ job'[r] = job[r]
  BY DEF RequestFails, IInv, TypeOK
<1> QED
  BY <1>1 DEF IInv, FramesHold, SummariesHold, NotOvertaken, stored

\* The photos read again are those of the day, and what was known among them is described.
LEMMA EnsuredInv ==
    ASSUME IInv, NEW q \in Requests, CaptionsEnsured(q)
    PROVE  FramesHold' /\ SummariesHold' /\ NotOvertaken'
<1> DEFINE now == ForDay(photos, job[q].day)
           g == [job[q] EXCEPT !.phase = "generating", !.photos = now,
                               !.blank = Undescribed(job[q].day)]
<1>1. /\ UNCHANGED <<records, photos, caption, summary, visionModel>>
      /\ job[q] # None /\ job[q].todo = {}
  BY DEF CaptionsEnsured, In, stored
<1>2. job[q] \in Frames
  BY <1>1, FrameTyped DEF IInv
<1>3. job' = [job EXCEPT ![q] = g]
  BY DEF CaptionsEnsured, PhotosForDay
<1>4. /\ g.phase = "generating" /\ g.day = job[q].day /\ g.rows = job[q].rows
      /\ g.known = job[q].known /\ g.todo = {} /\ g.raced = job[q].raced
      /\ g.photos = now /\ g.blank = Undescribed(job[q].day)
  BY <1>1, <1>2 DEF Frames
<1>5. /\ job[q].rows \subseteq ForDay(records, job[q].day)
      /\ job[q].known \subseteq now
      /\ \A p \in job[q].known : caption[p] = visionModel
  BY <1>1 DEF IInv, FramesHold
<1>6. job[q].known \cap Undescribed(job[q].day) = {}
  BY <1>5 DEF Undescribed
<1> HIDE DEF g
<1>7. \A r \in Requests : IF r = q THEN job'[r] = g ELSE job'[r] = job[r]
  BY <1>3 DEF IInv, TypeOK
<1>8. FramesHold'
  BY <1>1, <1>4, <1>5, <1>6, <1>7 DEF IInv, FramesHold
<1>9. SummariesHold'
  BY <1>1 DEF IInv, SummariesHold
<1>10. NotOvertaken'
  BY <1>1, <1>4, <1>7 DEF IInv, NotOvertaken
<1> QED
  BY <1>8, <1>9, <1>10

\* The stored summary is written from the frame; the other frames of the day are overtaken.
LEMMA GeneratedInv ==
    ASSUME IInv, NEW q \in Requests, SummaryGenerated(q)
    PROVE  FramesHold' /\ SummariesHold' /\ NotOvertaken'
<1>1. /\ UNCHANGED <<records, photos, caption, visionModel>>
      /\ job[q] # None /\ job[q].phase = "generating"
      /\ summary' = [summary EXCEPT ![job[q].day] = Written(job[q])]
  BY DEF SummaryGenerated, In
<1>2. job[q].day \in Days
  BY <1>1, FrameTyped DEF IInv
<1>3. /\ Written(job[q]).records \subseteq ForDay(records, job[q].day)
      /\ Written(job[q]).photos \subseteq ForDay(photos, job[q].day)
  BY <1>1 DEF IInv, FramesHold, Written
<1>4. \A d \in Days : IF d = job[q].day THEN summary'[d] = Written(job[q])
                                          ELSE summary'[d] = summary[d]
  BY <1>1 DEF IInv, TypeOK
<1>5. ASSUME NEW r \in Requests, job'[r] # None
      PROVE  /\ r # q /\ job[r] # None
             /\ job'[r] = IF job[r].day = job[q].day THEN [job[r] EXCEPT !.raced = TRUE]
                                                     ELSE job[r]
  BY <1>5 DEF SummaryGenerated
<1>6. ASSUME NEW r \in Requests, job'[r] # None
      PROVE  /\ job'[r].day = job[r].day /\ job'[r].rows = job[r].rows
             /\ job'[r].known = job[r].known /\ job'[r].todo = job[r].todo
             /\ job'[r].phase = job[r].phase /\ job'[r].photos = job[r].photos
             /\ job'[r].blank = job[r].blank
             /\ ~job'[r].raced => job[r].day # job[q].day /\ ~job[r].raced
  <2>1. job[r] \in Frames
    BY <1>5, <1>6, FrameTyped DEF IInv
  <2> QED
    BY <2>1, <1>5, <1>6 DEF Frames
<1>7. FramesHold'
  <2> SUFFICES ASSUME NEW r \in Requests, job'[r] # None
               PROVE  /\ job'[r].rows \subseteq ForDay(records', job'[r].day)
                      /\ job'[r].known \subseteq ForDay(photos', job'[r].day)
                      /\ \A p \in job'[r].known \ job'[r].todo : caption'[p] = visionModel'
                      /\ job'[r].phase = "generating" =>
                            /\ job'[r].todo = {}
                            /\ job'[r].known \subseteq job'[r].photos
                            /\ job'[r].photos \subseteq ForDay(photos', job'[r].day)
                            /\ job'[r].known \cap job'[r].blank = {}
    BY DEF FramesHold
  <2>1. job[r] # None
    BY <1>5
  <2> QED
    BY <2>1, <1>1, <1>6 DEF IInv, FramesHold
<1>8. SummariesHold'
  BY <1>1, <1>3, <1>4 DEF IInv, SummariesHold
<1>9. NotOvertaken'
  <2> SUFFICES ASSUME NEW r \in Requests, job'[r] # None, ~job'[r].raced,
                      summary'[job'[r].day] # None
               PROVE  /\ summary'[job'[r].day].records \subseteq job'[r].rows
                      /\ summary'[job'[r].day].photos \subseteq job'[r].known
    BY DEF NotOvertaken
  <2>1. job[r] # None /\ job[r].day # job[q].day /\ ~job[r].raced /\ job[r].day \in Days
    BY <1>5, <1>6, FrameTyped DEF IInv
  <2>2. summary'[job[r].day] = summary[job[r].day]
    BY <1>4, <2>1
  <2> QED
    BY <1>6, <2>1, <2>2 DEF IInv, NotOvertaken
<1> QED
  BY <1>7, <1>8, <1>9

\* Every step of the relay keeps the invariant.
LEMMA NextInv == IInv /\ [Next]_vars => IInv'
<1> SUFFICES ASSUME IInv, [Next]_vars PROVE IInv'
  OBVIOUS
<1>1. TypeOK'
  BY NextTyped DEF IInv
<1>2. FramesHold' /\ SummariesHold' /\ NotOvertaken'
  <2>1. CASE SyncLifelog \/ SyncPhoto
    BY <2>1, ArrivalInv
  <2>2. CASE Restart
    BY <2>2, RestartInv
  <2>3. ASSUME NEW q \in Requests, SummaryStep(q)
        PROVE  FramesHold' /\ SummariesHold' /\ NotOvertaken'
    BY <2>3, BeganInv, AnalyzedInv, FailsInv, EnsuredInv, GeneratedInv DEF SummaryStep
  <2>4. CASE UNCHANGED vars
    BY <2>4 DEF vars, IInv, FramesHold, SummariesHold, NotOvertaken
  <2> QED
    BY <2>1, <2>2, <2>3, <2>4 DEF Next
<1> QED
  BY <1>1, <1>2 DEF IInv

------------------------------------------------------------------------------
\* Theorems

\* The invariant holds for any instance of the relay.
THEOREM Inductive == Spec => []IInv
  BY InitInv, NextInv, PTL DEF Spec

\* The tables and the frames are always typed.
THEOREM TypeCorrect == Spec => []TypeOK
<1>1. IInv => TypeOK
  BY DEF IInv
<1> QED
  BY <1>1, Inductive, PTL

\* No prompt misses a photo that was stored when its request began, or has it undescribed.
THEOREM KnownArePrompted == Spec => []KnownPhotosDescribed
<1>1. IInv => KnownPhotosDescribed
  BY DEF IInv, FramesHold, KnownPhotosDescribed, In
<1> QED
  BY <1>1, Inductive, PTL

\* A summary that no other request overtook covers all that the one before it covered.
THEOREM SummariesGrow == Spec => NoRegressUnlessRaced
<1> DEFINE Grows == \A q \in Requests :
              SummaryGenerated(q) /\ ~job[q].raced /\ summary[job[q].day] # None =>
                  /\ summary[job[q].day].records \subseteq summary'[job[q].day].records
                  /\ summary[job[q].day].photos \subseteq summary'[job[q].day].photos
<1>1. IInv => Grows
  <2> SUFFICES ASSUME IInv, NEW q \in Requests, SummaryGenerated(q), ~job[q].raced,
                      summary[job[q].day] # None
               PROVE  /\ summary[job[q].day].records \subseteq summary'[job[q].day].records
                      /\ summary[job[q].day].photos \subseteq summary'[job[q].day].photos
    OBVIOUS
  <2>1. job[q] # None /\ job[q].phase = "generating"
    BY DEF SummaryGenerated, In
  <2>2. job[q].day \in Days
    BY <2>1, FrameTyped DEF IInv
  <2>3. summary'[job[q].day] = Written(job[q])
    BY <2>2 DEF SummaryGenerated, IInv, TypeOK
  <2>4. /\ summary[job[q].day].records \subseteq job[q].rows
        /\ summary[job[q].day].photos \subseteq job[q].known
        /\ job[q].known \subseteq job[q].photos
    BY <2>1 DEF IInv, NotOvertaken, FramesHold
  <2> QED
    BY <2>3, <2>4 DEF Written
<1> QED
  BY <1>1, Inductive, PTL DEF NoRegressUnlessRaced

------------------------------------------------------------------------------
\* The promise

\* What belongs to a day, of records and photos together.
LEMMA SpentSplits ==
    ASSUME NEW R \in SUBSET Records, NEW P \in SUBSET Photos, NEW d \in Days
    PROVE  Spent(R \cup P, d) = ForDay(R, d) \cup ForDay(P, d)
<1>1. ForDay(R \cup P, d) = ForDay(R, d) \cup ForDay(P, d)
  BY DEF ForDay
<1>2. ForDay(R \cup P, d) = Spent(R \cup P, d)
  BY DayOfEntries
<1> QED
  BY <1>1, <1>2

\* Empty tables promise nothing.
LEMMA InitRefines == Init => Report!Init
  BY DEF Init, Report!Init, Covered, Owed

\* Entries that arrive are accepted; a refused request has accepted its batch.
LEMMA ArrivalRefines ==
    ASSUME NEW S \in SUBSET (Records \cup Photos),
           records' \cup photos' = (records \cup photos) \cup S,
           UNCHANGED <<summary, job>>
    PROVE  Report!Accept
  BY DEF Report!Accept, Report!AcceptAll

\* A request that is started asks for all that is then stored of its day.
LEMMA AskRefines ==
    ASSUME IInv, NEW q \in Requests, SyncAndSummarize(q)
    PROVE  Report!Ask(q) \/ Report!Accept
<1>1. PICK batch \in SUBSET Records, d \in Days :
          /\ records' = records \cup batch
          /\ \/ UNCHANGED job
             \/ /\ ForDay(records', d) \cup ForDay(photos, d) # {}
                /\ job' = [job EXCEPT ![q] = Began(d, ForDay(records', d))]
  BY DEF SyncAndSummarize, RecordsForDay, PhotosForDay
<1>2. /\ UNCHANGED <<photos, summary>> /\ job[q] = None
      /\ records' \cup photos' = (records \cup photos) \cup batch
  BY <1>1 DEF SyncAndSummarize
<1>3. CASE UNCHANGED job
  BY <1>1, <1>2, <1>3, ArrivalRefines
<1>4. CASE /\ ForDay(records', d) \cup ForDay(photos, d) # {}
           /\ job' = [job EXCEPT ![q] = Began(d, ForDay(records', d))]
  <2> DEFINE upTo == ForDay(records', d) \cup ForDay(photos, d)
  <2>1. records' \in SUBSET Records /\ photos \in SUBSET Photos
    BY <1>1 DEF IInv, TypeOK
  <2>2. Spent(records' \cup photos', d) = upTo
    BY <1>2, <2>1, SpentSplits
  <2>3. Owed(job[q]) = None
    BY <1>2 DEF Owed
  <2>4. Began(d, ForDay(records', d)) # None
    <3>1. ForDay(records', d) \in SUBSET Records
      BY <2>1 DEF ForDay
    <3>2. TypeOK
      BY DEF IInv
    <3>3. Began(d, ForDay(records', d)) \in Frames
      BY <3>1, <3>2, BeganTyped
    <3> QED
      BY <3>3, NoneIsNoValue
  <2>5. Owed(Began(d, ForDay(records', d))) = [day |-> d, upTo |-> upTo]
    BY <2>4 DEF Owed, Began, PhotosForDay
  <2>6. \A r \in Requests : job'[r] = IF r = q THEN Began(d, ForDay(records', d)) ELSE job[r]
    BY <1>4 DEF IInv, TypeOK
  <2>7. [r \in Requests |-> Owed(job'[r])] =
            [[r \in Requests |-> Owed(job[r])] EXCEPT ![q] = [day |-> d, upTo |-> upTo]]
    BY <2>5, <2>6
  <2> DEFINE owed == [r \in Requests |-> Owed(job[r])]
             held == records \cup photos
  <2>8. /\ owed[q] = None
        /\ [r \in Requests |-> Owed(job'[r])] = [owed EXCEPT ![q] = [day |-> d, upTo |-> upTo]]
    BY <2>3, <2>7
  <2>9. /\ batch \in SUBSET (Records \cup Photos) /\ d \in Days
        /\ records' \cup photos' = held \cup batch
        /\ Spent(held', d) # {} /\ Spent(held', d) = upTo
    BY <1>1, <1>2, <1>4, <2>2
  <2>10. UNCHANGED [e \in Days |-> Covered(summary[e])]
    BY <1>2
  <2> QED
    BY <2>8, <2>9, <2>10 DEF Report!Ask, Report!AskFor
<1> QED
  BY <1>1, <1>3, <1>4

\* Captions and their end change nothing of what a request owes.
LEMMA CaptionsRefine ==
    ASSUME IInv, NEW q \in Requests, PhotoAnalyzed(q) \/ CaptionsEnsured(q)
    PROVE  UNCHANGED Report!vars
<1>1. UNCHANGED <<records, photos, summary>> /\ job[q] # None
  BY DEF PhotoAnalyzed, CaptionsEnsured, In, stored
<1>2. job[q] \in Frames
  BY <1>1, FrameTyped DEF IInv
<1>3. /\ job'[q] # None /\ job'[q].day = job[q].day /\ job'[q].rows = job[q].rows
      /\ job'[q].known = job[q].known
      /\ \A r \in Requests : r # q => job'[r] = job[r]
  <2> DEFINE g == [job[q] EXCEPT !.phase = "generating", !.photos = PhotosForDay(job[q].day),
                                 !.blank = Undescribed(job[q].day)]
             h(p) == [job[q] EXCEPT !.todo = @ \ {p}]
  <2>1. CASE CaptionsEnsured(q)
    <3>1. job' = [job EXCEPT ![q] = g]
      BY <2>1 DEF CaptionsEnsured
    <3>2. g.day = job[q].day /\ g.rows = job[q].rows /\ g.known = job[q].known
      BY <1>2 DEF Frames
    <3>3. job' \in [Requests -> Frames \cup {None}]
      BY <2>1, NextTyped DEF IInv, TypeOK, Next, SummaryStep
    <3>4. g \in Frames
      <4>1. /\ PhotosForDay(job[q].day) \in SUBSET Photos
            /\ Undescribed(job[q].day) \in SUBSET Photos
        BY DEF IInv, TypeOK, PhotosForDay, ForDay, Undescribed
      <4> QED
        BY <1>2, <4>1 DEF Frames
    <3> HIDE DEF g
    <3> QED
      BY <3>1, <3>2, <3>4, NoneIsNoValue DEF IInv, TypeOK
  <2>2. CASE PhotoAnalyzed(q)
    <3>1. PICK p \in job[q].todo : job' = [job EXCEPT ![q] = h(p)]
      BY <2>2 DEF PhotoAnalyzed
    <3>2. h(p).day = job[q].day /\ h(p).rows = job[q].rows /\ h(p).known = job[q].known
      BY <1>2 DEF Frames
    <3>3. h(p) \in Frames
      BY <1>2 DEF Frames
    <3> HIDE DEF h
    <3> QED
      BY <3>1, <3>2, <3>3, NoneIsNoValue DEF IInv, TypeOK
  <2> QED
    BY <2>1, <2>2
<1>4. \A r \in Requests : Owed(job'[r]) = Owed(job[r])
  BY <1>1, <1>3 DEF Owed
<1> QED
  BY <1>1, <1>4 DEF Report!vars

\* A frame that ends without a summary, by a failure or a restart, has given up.
LEMMA EndRefines ==
    ASSUME IInv, NEW Q \in SUBSET Requests, UNCHANGED stored,
           \A r \in Requests : job'[r] = IF r \in Q THEN None ELSE job[r]
    PROVE  Report!GiveUp
<1>1. UNCHANGED <<records, photos, summary>>
  BY DEF stored
<1>2. [r \in Requests |-> Owed(job'[r])] =
          [r \in Requests |-> IF r \in Q THEN None
                              ELSE [s \in Requests |-> Owed(job[s])][r]]
  BY DEF Owed
<1> QED
  BY <1>1, <1>2 DEF Report!GiveUp

\* A stored summary is a report that covers what was owed, from the entries of the day.
LEMMA GeneratedRefines ==
    ASSUME IInv, NEW q \in Requests, SummaryGenerated(q)
    PROVE  Report!Report(q)
<1> DEFINE d == job[q].day
           S == job[q].rows \cup job[q].photos
<1>1. /\ UNCHANGED <<records, photos, caption, visionModel>>
      /\ job[q] # None /\ job[q].phase = "generating"
      /\ summary' = [summary EXCEPT ![d] = Written(job[q])]
  BY DEF SummaryGenerated, In
<1>2. /\ job[q] \in Frames /\ d \in Days
      /\ records \in SUBSET Records /\ photos \in SUBSET Photos
      /\ job[q].rows \in SUBSET Records /\ job[q].known \in SUBSET Photos
      /\ job[q].photos \in SUBSET Photos
  BY <1>1, FrameTyped DEF IInv, TypeOK
<1>3. /\ job[q].rows \subseteq ForDay(records, d)
      /\ job[q].known \subseteq job[q].photos
      /\ job[q].photos \subseteq ForDay(photos, d)
  BY <1>1 DEF IInv, FramesHold
<1>4. S \in SUBSET Spent(records \cup photos, d)
  <2>1. Spent(records \cup photos, d) = ForDay(records, d) \cup ForDay(photos, d)
    BY <1>2, SpentSplits
  <2>2. S \subseteq ForDay(records, d) \cup ForDay(photos, d)
    BY <1>3
  <2> QED
    BY <2>1, <2>2
<1>5. Owed(job[q]) = [day |-> d, upTo |-> job[q].rows \cup job[q].known]
  BY <1>1 DEF Owed
<1>6. Owed(job[q]) # None
  <2>1. [day |-> d, upTo |-> job[q].rows \cup job[q].known] \in
            [day : Days, upTo : SUBSET (Records \cup Photos)]
    BY <1>2
  <2> QED
    BY <1>5, <2>1, NoneIsNoValue
<1>7. Covered(Written(job[q])) = S
  <2>1. Written(job[q]) \in Summaries
    BY <1>2 DEF Written, Summaries
  <2>2. Written(job[q]) # None
    BY <2>1, NoneIsNoValue
  <2> QED
    BY <2>2 DEF Covered, Written
<1>8. [e \in Days |-> Covered(summary'[e])] =
          [[e \in Days |-> Covered(summary[e])] EXCEPT ![d] = S]
  BY <1>1, <1>2, <1>7 DEF IInv, TypeOK
<1>9. \A r \in Requests : Owed(job'[r]) = IF r = q THEN None ELSE Owed(job[r])
  <2> SUFFICES ASSUME NEW r \in Requests
               PROVE  Owed(job'[r]) = IF r = q THEN None ELSE Owed(job[r])
    OBVIOUS
  <2>1. CASE r = q
    BY <2>1 DEF SummaryGenerated, Owed
  <2>2. CASE r # q /\ ~(job[r] # None /\ job[r].day = d)
    BY <2>2 DEF SummaryGenerated
  <2>3. CASE r # q /\ job[r] # None /\ job[r].day = d
    <3> DEFINE g == [job[r] EXCEPT !.raced = TRUE]
    <3>1. job'[r] = g
      BY <2>3 DEF SummaryGenerated
    <3>2. job[r] \in Frames
      BY <2>3, FrameTyped DEF IInv
    <3>3. g \in Frames /\ g.day = job[r].day /\ g.rows = job[r].rows /\ g.known = job[r].known
      BY <3>2 DEF Frames
    <3> HIDE DEF g
    <3> QED
      BY <2>3, <3>1, <3>3, NoneIsNoValue DEF Owed
  <2> QED
    BY <2>1, <2>2, <2>3
<1>10. [r \in Requests |-> Owed(job'[r])] = [[r \in Requests |-> Owed(job[r])] EXCEPT ![q] = None]
  BY <1>9
<1> DEFINE owed == [r \in Requests |-> Owed(job[r])]
           told == [e \in Days |-> Covered(summary[e])]
<1>11. /\ owed[q] # None /\ owed[q].day = d
       /\ owed[q].upTo \subseteq S
  BY <1>3, <1>5, <1>6
<1>12. /\ [e \in Days |-> Covered(summary'[e])] = [told EXCEPT ![d] = S]
       /\ [r \in Requests |-> Owed(job'[r])] = [owed EXCEPT ![q] = None]
  BY <1>8, <1>10
<1>13. UNCHANGED (records \cup photos)
  BY <1>1
<1> QED
  BY <1>4, <1>11, <1>12, <1>13 DEF Report!Report

\* Every step of the relay is a step of the promise or changes nothing of it.
LEMMA NextRefines == IInv /\ [Next]_vars => [Report!Next]_(Report!vars)
<1> SUFFICES ASSUME IInv, [Next]_vars PROVE [Report!Next]_(Report!vars)
  OBVIOUS
<1>1. CASE SyncLifelog
  <2>1. PICK batch \in SUBSET Records : records' = records \cup batch
    BY <1>1 DEF SyncLifelog
  <2>2. records' \cup photos' = (records \cup photos) \cup batch /\ UNCHANGED <<summary, job>>
    BY <1>1, <2>1 DEF SyncLifelog
  <2> QED
    BY <2>2, ArrivalRefines DEF Report!Next
<1>2. CASE SyncPhoto
  <2>1. PICK p \in Photos : photos' = photos \cup {p}
    BY <1>2 DEF SyncPhoto
  <2>2. records' \cup photos' = (records \cup photos) \cup {p} /\ UNCHANGED <<summary, job>>
    BY <1>2, <2>1 DEF SyncPhoto
  <2> QED
    BY <2>2, ArrivalRefines DEF Report!Next
<1>3. CASE Restart
  <2>1. UNCHANGED stored /\ \A r \in Requests : job'[r] = IF r \in Requests THEN None ELSE job[r]
    BY <1>3 DEF Restart
  <2> QED
    BY <2>1, EndRefines DEF Report!Next
<1>4. ASSUME NEW q \in Requests, SummaryStep(q) PROVE [Report!Next]_(Report!vars)
  <2>1. CASE SyncAndSummarize(q)
    BY <2>1, AskRefines DEF Report!Next
  <2>2. CASE PhotoAnalyzed(q) \/ CaptionsEnsured(q)
    BY <2>2, CaptionsRefine
  <2>3. CASE RequestFails(q)
    <3>1. UNCHANGED stored /\ \A r \in Requests : job'[r] = IF r \in {q} THEN None ELSE job[r]
      BY <2>3 DEF RequestFails, IInv, TypeOK
    <3> QED
      BY <3>1, EndRefines DEF Report!Next
  <2>4. CASE SummaryGenerated(q)
    BY <2>4, GeneratedRefines DEF Report!Next
  <2> QED
    BY <1>4, <2>1, <2>2, <2>3, <2>4 DEF SummaryStep
<1>5. CASE UNCHANGED vars
  BY <1>5 DEF vars, Report!vars
<1> QED
  BY <1>1, <1>2, <1>3, <1>4, <1>5 DEF Next

\* The relay implements DayReport.
THEOREM Refines == Spec => KeepsThePromise
  BY InitRefines, Inductive, NextRefines, PTL DEF Spec, KeepsThePromise, Report!Spec
===============================================================================
