------------------------------- MODULE RelayDay -------------------------------
(***************************************************************************)
(* The relay's account of a day (server.py): records and photos as the     *)
(* phones send them, the caption a vision model gives each photo, and the  *)
(* summary of the day that is written from both.                           *)
(*                                                                         *)
(* Handlers without `async` run on a thread pool, so their transactions    *)
(* fall between any two of another request.  sync_and_summarize is a       *)
(* coroutine: job[q] is its frame, and it suspends at every model call,    *)
(* for minutes, while other requests go on.  The relay may be killed and   *)
(* started again, with another vision model in its environment; what is    *)
(* committed to SQLite stays, the frames do not.                           *)
(*                                                                         *)
(* All phones use one device id, so there is one account.  Times are hours *)
(* in UTC, the form the database stores.  The upload of a photo's file,    *)
(* step by step, is in the module PhotoSync.                               *)
(***************************************************************************)
EXTENDS Integers

CONSTANTS
    Records, Photos,  \* client_record_id, client_photo_id
    At,               \* At[e]: when the record was spoken or the photo taken
    Days,             \* Korean calendar days
    Models,           \* values of OLLAMA_VISION_MODEL
    Requests,         \* frames of sync_and_summarize
    None

ASSUME NamesDiffer ==
    /\ Records \cap Photos = {}
    /\ None \notin Models

ASSUME TimesAreHours == At \in [Records \cup Photos -> Int] /\ Days \subseteq Int

VARIABLES
    records,      \* conversation_records
    photos,       \* photo_records
    caption,      \* vision_model of each photo's stored caption, None while there is none
    summary,      \* daily_summaries
    visionModel,  \* OLLAMA_VISION_MODEL of the running process
    job           \* the frames of sync_and_summarize, None when not running

vars == <<records, photos, caption, summary, visionModel, job>>
stored == <<records, photos, caption, summary>>

------------------------------------------------------------------------------
\* Days: UTC times, Korean days

KST == 9

\* day_bounds: the interval of day d, its end not included.
DayStart(d) == 24 * d - KST
DayEnd(d) == DayStart(d + 1)

\* Mutant: the bounds are those of the UTC day.
ForUtcDay(S, d) == {e \in S : At[e] >= 24 * d /\ At[e] < 24 * (d + 1)}

\* The WHERE clause of records_for_day and photos_for_day.
ForDay(S, d) == {e \in S : At[e] >= DayStart(d) /\ At[e] < DayEnd(d)}

RecordsForDay(d) == ForDay(records, d)
PhotosForDay(d) == ForDay(photos, d)

------------------------------------------------------------------------------
\* The frame of a request

\* known: the photos of the day when it began.  photos: those the prompt is written from; blank:
\* those among them that had no caption of the current model.  raced: another request stored a
\* summary of the day since it began.
Frames == [phase : {"captioning", "generating"}, day : Days, rows : SUBSET Records,
           known : SUBSET Photos, todo : SUBSET Photos, photos : SUBSET Photos,
           blank : SUBSET Photos, raced : BOOLEAN]

Summaries == [records : SUBSET Records, photos : SUBSET Photos]

Init ==
    /\ records = {}
    /\ photos = {}
    /\ caption = [p \in Photos |-> None]
    /\ summary = [d \in Days |-> None]
    /\ visionModel \in Models
    /\ job = [q \in Requests |-> None]

In(q, phase) == job[q] # None /\ job[q].phase = phase

------------------------------------------------------------------------------
\* Entries arrive

\* sync_lifelog: INSERT OR IGNORE of a batch.
SyncLifelog ==
    /\ \E batch \in SUBSET Records : records' = records \cup batch
    /\ UNCHANGED <<photos, caption, summary, visionModel, job>>

\* Mutant: a photo sent again replaces its row, which loses the caption's columns.
SyncPhotoReplacing ==
    \E p \in Photos :
        /\ photos' = photos \cup {p}
        /\ caption' = [caption EXCEPT ![p] = None]
        /\ UNCHANGED <<records, summary, visionModel, job>>

\* sync_photo, whose upsert leaves the caption's columns alone.
SyncPhoto ==
    \E p \in Photos :
        /\ photos' = photos \cup {p}
        /\ UNCHANGED <<records, caption, summary, visionModel, job>>

------------------------------------------------------------------------------
\* sync_and_summarize

\* Mutant: photos that have a caption are described again.
UndescribedAll(d) == PhotosForDay(d)

\* The photos ensure_photo_captions does not skip.
Undescribed(d) == {p \in PhotosForDay(d) : caption[p] # visionModel}

\* None is none of the values above.
ASSUME NoneIsNoValue ==
    /\ None \notin Frames \cup Summaries
    /\ None \notin [day : Days, upTo : SUBSET (Records \cup Photos)]

\* A new frame: the coroutine has read the day, and the captions are next.
Began(d, rows) == [phase |-> "captioning", day |-> d, rows |-> rows, known |-> PhotosForDay(d),
                   todo |-> Undescribed(d), photos |-> {}, blank |-> {}, raced |-> FALSE]

\* Mutant: the summary is written from the records of the request, not from the day's.
SyncAndSummarizeSent(q) ==
    /\ job[q] = None
    /\ \E batch \in SUBSET Records, d \in Days :
          /\ records' = records \cup batch
          /\ \/ RecordsForDay(d)' \cup PhotosForDay(d) = {} /\ UNCHANGED job
             \/ /\ RecordsForDay(d)' \cup PhotosForDay(d) # {}
                /\ job' = [job EXCEPT ![q] = Began(d, ForDay(batch, d))]
    /\ UNCHANGED <<photos, caption, summary, visionModel>>

\* One transaction stores the batch and reads the day; a day with nothing in it is refused (422).
SyncAndSummarize(q) ==
    /\ job[q] = None
    /\ \E batch \in SUBSET Records, d \in Days :
          /\ records' = records \cup batch
          /\ \/ RecordsForDay(d)' \cup PhotosForDay(d) = {} /\ UNCHANGED job
             \/ /\ RecordsForDay(d)' \cup PhotosForDay(d) # {}
                /\ job' = [job EXCEPT ![q] = Began(d, RecordsForDay(d)')]
    /\ UNCHANGED <<photos, caption, summary, visionModel>>

\* analyze_photo_image answers for the next photo in the order of the day, and the caption is
\* committed before the next one is asked for.
PhotoAnalyzed(q) ==
    /\ In(q, "captioning")
    /\ \E p \in job[q].todo :
          /\ \A o \in job[q].todo : At[p] <= At[o]
          /\ caption' = [caption EXCEPT ![p] = visionModel]
          /\ job' = [job EXCEPT ![q].todo = @ \ {p}]
    /\ UNCHANGED <<records, photos, summary, visionModel>>

\* Ollama does not answer, or the answer is of no use: 503.  What was committed stays.
RequestFails(q) ==
    /\ job[q] # None
    /\ In(q, "captioning") => job[q].todo # {}
    /\ job' = [job EXCEPT ![q] = None]
    /\ UNCHANGED <<stored, visionModel>>

\* The end of ensure_photo_captions reads the photos of the day again.
CaptionsEnsured(q) ==
    /\ In(q, "captioning")
    /\ job[q].todo = {}
    /\ job' = [job EXCEPT ![q].phase = "generating", ![q].photos = PhotosForDay(job[q].day),
                          ![q].blank = Undescribed(job[q].day)]
    /\ UNCHANGED <<stored, visionModel>>

\* generate_summary: the timeline holds every record read at the start and every photo read after
\* the captions, in the order of time; the answer is reported as it comes.
Written(frame) == [records |-> frame.rows, photos |-> frame.photos]

\* generate_summary answers, and the day's summary is replaced by it.
SummaryGenerated(q) ==
    /\ In(q, "generating")
    /\ summary' = [summary EXCEPT ![job[q].day] = Written(job[q])]
    /\ job' = [r \in Requests |->
                  IF r = q THEN None
                  ELSE IF job[r] # None /\ job[r].day = job[q].day
                       THEN [job[r] EXCEPT !.raced = TRUE]
                       ELSE job[r]]
    /\ UNCHANGED <<records, photos, caption, visionModel>>

------------------------------------------------------------------------------
\* The process

\* Mutant: the environment's model is taken without a default.
RestartBare ==
    /\ visionModel' \in Models \cup {None}
    /\ job' = [q \in Requests |-> None]
    /\ UNCHANGED stored

\* Killed and started again; .env may name another vision model.
Restart ==
    /\ visionModel' \in Models
    /\ job' = [q \in Requests |-> None]
    /\ UNCHANGED stored

SummaryStep(q) ==
    \/ SyncAndSummarize(q)
    \/ PhotoAnalyzed(q)
    \/ RequestFails(q)
    \/ CaptionsEnsured(q)
    \/ SummaryGenerated(q)

Next ==
    \/ SyncLifelog
    \/ SyncPhoto
    \/ Restart
    \/ \E q \in Requests : SummaryStep(q)

Spec == Init /\ [][Next]_vars

\* Somebody keeps asking for the day, and a model that is asked again and again answers now and
\* then: the one assumption about Ollama, whose failures are otherwise unlimited.  The process is
\* not always killed at the same point.
Asks(q, d) == SyncAndSummarize(q) /\ job'[q] # None /\ job'[q].day = d
About(q, d) == job[q] # None /\ job[q].day = d

Fairness ==
    \A d \in Days :
        /\ SF_vars(\E q \in Requests : Asks(q, d))
        /\ SF_vars(\E q \in Requests : About(q, d) /\ PhotoAnalyzed(q))
        /\ SF_vars(\E q \in Requests : About(q, d) /\ CaptionsEnsured(q))
        /\ SF_vars(\E q \in Requests : About(q, d) /\ SummaryGenerated(q))

FairSpec == Spec /\ Fairness

------------------------------------------------------------------------------
\* Properties

TypeOK ==
    /\ records \in SUBSET Records
    /\ photos \in SUBSET Photos
    /\ caption \in [Photos -> Models \cup {None}]
    /\ summary \in [Days -> Summaries \cup {None}]
    /\ visionModel \in Models
    /\ job \in [Requests -> Frames \cup {None}]

\* A prompt describes, with the model of this process, every photo that was stored when its
\* request began: only photos that came while others were analysed can be without a caption
\* (server.py, ensure_photo_captions, and the upsert of sync_photo that keeps the caption).
KnownPhotosDescribed ==
    \A q \in Requests : In(q, "generating") =>
        /\ job[q].known \subseteq job[q].photos
        /\ job[q].known \cap job[q].blank = {}

\* A day's summary only loses entries of the summary it replaces when the two requests overlapped.
NoRegressUnlessRaced ==
    [][\A q \in Requests :
          SummaryGenerated(q) /\ ~job[q].raced /\ summary[job[q].day] # None =>
              /\ summary[job[q].day].records \subseteq summary'[job[q].day].records
              /\ summary[job[q].day].photos \subseteq summary'[job[q].day].photos]_vars

\* Failed requests leave captions behind, so that a day somebody keeps asking for gets its summary
\* however often a model call fails or the relay is killed.
SummaryArrives ==
    \A m \in Models, d \in Days :
        <>[](visionModel = m) =>
            (RecordsForDay(d) \cup PhotosForDay(d) # {} ~> summary[d] # None)

\* The entries a summary or a request stands for.
Covered(s) == IF s = None THEN None ELSE s.records \cup s.photos
Owed(j) == IF j = None THEN None ELSE [day |-> j.day, upTo |-> j.rows \cup j.known]

\* The calendar day in Korea at time t, and what belongs to day d: the reference for day_bounds.
KoreanDay(t) == (t + KST) \div 24
Spent(S, d) == {e \in S : KoreanDay(At[e]) = d}

\* What a phone may rely on.
Report == INSTANCE DayReport WITH
    Entries <- Records \cup Photos,
    OnDay <- Spent,
    entries <- records \cup photos,
    report <- [d \in Days |-> Covered(summary[d])],
    asked <- [q \in Requests |-> Owed(job[q])]

\* The relay keeps the promise of DayReport: what was accepted stays, and a summary is written
\* from all that was accepted of the day when it was asked for, and from nothing of another day.
KeepsThePromise == Report!Spec
===============================================================================
