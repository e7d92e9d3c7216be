# LifeLens in TLA+

LifeLens connects smart glasses to a phone and keeps a diary of what their wearer sees and says.
This directory holds a model of it in TLA+, the TLC configurations that check the model on small
instances, and TLAPS proofs for all instances.

## 1. The system

| Part | Source (below `src/`) | State it keeps | Operations | Modelled in |
| --- | --- | --- | --- | --- |
| Camera session and stream | `…/camera/CameraViewModel.kt`, `CameraUiState.kt` | the `DeviceSession`, `Camera` and `Stream` held, `_uiState`, jobs, retry time and recovery counter | enable, disable, start; permission prompts; collectors of the SDK's states; recovery | `CameraSession` |
| Wearables registration | `…/wearables/WearablesViewModel.kt` | registered, active device, last error | monitoring, `setRecentError`, `clearRecentError` | `CameraSession` (readiness, what wakes the session's start) |
| Foreground service | `…/stream/StreamingService.kt` | running, wake lock | `start`, `stop`, `onStartCommand` | `CameraSession` (the requests it is sent) |
| Photo upload | `…/lifelog/LifeLogSyncer.kt`, `LifeLogRepository.kt` | durable photo and row, upload queue in the cache | `syncPhoto`, `retryPendingPhotos`, `restorePendingPhotos` | `PhotoSync` |
| Relay, photos | `LifeLens_WebApp,Server/server.py` | photo files, `photo_records` | `sync_photo`, `get_photo` | `PhotoSync` |
| Relay, records and summaries | `server.py` | records, captions, one summary a day | `sync_lifelog`, `sync_and_summarize`, `get_lifelog` | `RelayDay`; its promise `DayReport` |
| Gestures and shortcuts | `…/vision/*`, `CameraViewModel.onHandGesture …` | two state machines, armed fist, cooldown, pinch job | one call per frame | what a pinch sets off: `SpeechFeedback`; the rest not |
| Speech to text | `…/speech/SpeechToTextViewModel.kt`, `…/ui/CameraAccessScaffold.kt` | `shouldListen`, partial text, transcripts | toggle, recognizer callbacks, restart, the effect that follows the stream | `SpeechToText` |
| Spoken feedback | `…/speech/GestureSpeechFeedback.kt` | pending and active request, latest speaker | `speak`, `speakAndAwait`, `cancel`, engine callbacks | `SpeechFeedback` |
| Web screen and bridge | `…/ui/WebAppScreen.kt` | reachability, address | retry on connect, restore on listing | `PhotoSync` (as caller) |
| Web LifeLog page | `web/html/index.html`, `lifeLog` | shown day, loaded log, panel, requests | `draw`, summarize, live update, views | `LifeLogPage` |
| Web IoT page | `web/html/index.html` | switch states | toggle, gesture dispatch | not modelled: client of the vendored Matter server |
| Recording, HEVC decoding | `…/stream/VideoRecorder.kt`, `HevcDecoder.kt` … | | | not modelled: unreachable, media I/O |
| Frame conversion | `…/vision/OpenCvI420FrameConverter.kt` | | | not modelled: image arithmetic |
| `matterjs-server-main`, `app.js`, `lifelens-standalone.html` | | | | not modelled: vendored; older copies |

How they interact. The glasses' SDK calls the app through `StateFlow`s, which conflate: a collector sees
the latest value only. `CameraViewModel` starts a session when `WearablesViewModel` has a registered,
active device, a stream when the session is connected, and the foreground service before the stream; the
session's switch stops that service, and speech recognition asks for it too. A gesture or a button
captures a photo, which one dispatcher thread saves, uploads and, failing that, queues. The web screen,
shown in a WebView, retries the queue when it reaches the relay and restores queued photos when it lists a
day. The relay stores photos and transcripts, captions the photos and summarises a day on request. Speech
recognition follows the stream.

What is hard about it:

- *Interleavings.* Handlers are atomic between suspension points only. A permission check, a
  permission request, a recovery delay and a state delivery may resume in any order. On the phone
  three threads share the queue without a lock; on the relay uploads of one photo overlap.
- *Failures.* Connections drop, streams end on their own, `addCamera` and `start` fail separately,
  requests and responses are lost, app and relay are killed, disks are full, caches reclaimed.
- *Time.* Retries are gated (3 s), recoveries delayed and counted, clients give up on a request the
  relay is still working on.

What makes each part correct:

- *Camera:* one session and one camera at most, none of them forgotten; a stream that goes on has its
  service; a connected session streams, is about to, or has recorded why not; ended sessions release
  what they held.
- *Photos:* the queue offers whole photos only; a capture is on the relay, queued or in hand; no
  listed photo is lost; the relay serves whole photos.
- *Relay's day:* every accepted record survives; a summary covers what had been accepted of its
  Korean day, and its photos are described; captions made before a failure are kept.
- *Speech:* a subtitle that was shown is stored, listening is never deaf, and on screen it follows
  streaming.
- *Feedback:* each caller is resumed once and is never forgotten; the newest utterance wins; a pinch
  is never stuck in its announcement.
- *LifeLog page:* what is shown belongs to the selected day; what was loaded is stored; a report
  covers what the page held; no spinner stays.

`PROJECT.json` lists the hazards with their lines and the property that covers each.

## 2. The modules

### CameraSession

The lifecycle of session and stream. Everything in `CameraViewModel` runs on the main thread, so an
action is the code between two suspension points with every call it makes: a handler that reports
an error ends with `Wake`, because `setRecentError` changes the state whose collector calls
`startSessionAutomaticallyIfReady` at once. Coroutines that wait are state: `isStartingStream` (the
permission check), `requests` (permission requests), `delays` (recoveries).

| State | Code |
| --- | --- |
| `session`, `sessionState`, `camera`, `streamState` | `CameraViewModel.session`, `camera`/`stream`, `_uiState` |
| `gateOpen` | 3 s have passed since `lastAutoSessionAttemptAtMs` |
| `seenSession`, `seenStream` | the last value delivered to the collectors |
| `sdkSession`, `sdkStream`, `owner`, `stopAsked` | the objects of the SDK (external) |
| `ready` | `isRegistered && hasActiveDevice` |
| `service` | the last request to `StreamingService`, whoever made it |
| `startFailed` | auxiliary: the last start of a stream ended in `setRecentError` or in the user's refusal |

The SDK is modelled as the code uses it: it may hand out any stopped session, refuses a second
camera on a session, moves states on its own, ends the streams of a stopped session. `STOPPING` of a
stream is passed over and `CLOSED` folded into `STOPPED`, since the code treats them alike.
`hasSession`, `isSessionActive` and the guards are those of `CameraUiState`. `onCleared` is followed
by a new view model, whose sessions and cameras are new while the old ones still stop in the SDK.

`StreamingService` gets its requests from three places: `beginStream` and `clearStreamResources`; the
session's switch, which stops it at once with the stream still attached (`DisableSession`) and, on,
starts to listen (`EnableSession`); and `startListening` of the speech model, with or without a stream
(`ListeningStarts`).

A recorded error is never taken back. `CameraAccessScaffold.kt` imports `SnackbarHost` (l. 8) and
composes none, so `showSnackbar` (l. 88) does not return and `clearRecentError` (l. 89) is not reached.
`setRecentError` therefore wakes the collector when it is called and never again, and a failed
`createSession` finds the gate closed by its own attempt.

Assumed of time: when the 3 s of the gate are over, a session that was started has left IDLE
(`RetryGateOpens`); `NoOrphanSession` depends on it, since IDLE counts as no session.

The collectors' first value races with the assignment that follows the subscription (`observeSession`
before `STARTING`, `setupStreamListeners` before `STARTING`); both outcomes are kept.

### PhotoSync

A captured photo's way to the relay, phone and relay in one module since their overlap is the point.
Uploaders are the dispatcher thread (`syncPhoto`, which retries the queue before its own upload) and
the web screen's I/O threads (`retryPendingPhotos`); `bridge` is `restorePendingPhotos`. A file is
opened in one step and whole in a later one, a row is one transaction. A relay handler truncates
`<id>.upload`, writes it, renames it and upserts the row; a file belongs to the handler that truncated
it last until that one has written it, whatever its name. A client may time out with its handler at
work, and repeat the upload on another one. `ReplaceWhileOpen` says whether the relay's system can
rename an open file (POSIX) or refuses (Windows, on which the relay is meant to run).

Abstracted: a photo's place, its JPEG and the payload; reverse geocoding is a step that takes time.
A capture reaches the model when the dispatcher takes it; those waiting for that thread are not
modelled. The relay's `write_bytes` fails only by a kill. The check that an image exists and its
reading are one step, except that the outcome of the image vanishing in between is kept.

### RelayDay and DayReport

`RelayDay` is the relay's account of a day: `sync_lifelog`, the row of `sync_photo`, and
`sync_and_summarize` with `ensure_photo_captions` and `generate_summary`. Handlers without `async` run
on a thread pool, so their transactions are steps that fall between any two of another request.
`sync_and_summarize` is a coroutine: `job[q]` is its frame, which suspends at every model call.

| State | Code |
| --- | --- |
| `records`, `photos` | rows of `conversation_records`, `photo_records` |
| `caption` | `vision_model` of a photo's stored caption |
| `summary` | `daily_summaries`, with the entries it was written from |
| `visionModel` | `OLLAMA_VISION_MODEL` of the running process |
| `job` | the frames of `sync_and_summarize`: rows and photos read, photos to analyse, phase |

Times are hours in UTC, which is what the database stores; `day_bounds` cuts them into Korean days.
Model calls may fail, the relay may be killed and come back with another vision model: transactions
that were committed stay, the frames do not. `known`, `blank` and `raced` in a frame are auxiliary: the
photos stored when it began, those that enter its prompt without a caption of its model, and whether
another request's summary was written meanwhile.

`DayReport` is what a client may rely on, without model calls, captions or times: accepted entries
stay, a report covers all that was accepted of its day when it was asked for, and nothing of another.
`RelayDay` implements it (`KeepsThePromise`, theorem `Refines`): an entry is a record or a photo, a
report is what a summary was written from, a request owes what its frame has read. Its days are those
of a calendar in Korea (`KoreanDay`), against which `day_bounds` is thereby checked.

### LifeLogPage

The page of one phone, composed with `DayReport` in place of the relay (`Relay!AcceptAll`,
`Relay!AskFor`, `Relay!Report`, `Relay!GiveUp`). JavaScript is one thread that other handlers enter at
every `await`, so a handler is a step up to its `await` and another one after it. Each opening of the
page is a closure with variables of its own; the requests of one that was left go on.

| State | Code |
| --- | --- |
| `spoken`, `live` | the phone's database; `transcripts` of `SpeechToTextViewModel`, which are the last 50 of the process, of any day |
| `page`, `shown` | the last opening; is the page in front? |
| `view[c]` | `day`, `currentLog`, `logView`, `isGenerating`, `loadRequestId`, the button, `finalizedSignature` |
| `draws` | calls of `draw` that wait: first for the phone's records to be sent, then for the relay's log |
| `summarizing[c]` | the request of the summary button |
| `handler` | the opening whose `handleNativeLifeLogUpdate` is installed |
| `panel` | the element `#records`: who wrote it, and of which day |

`Open`, `PickDay` and `ReportStep` begin loads (`Draw`), `LoadStep` ends them (`Land`), `Refresh` is the
phone's live update every 1.2 s, `ChooseView` renders. `Elsewhere` is what other phones send and what
becomes of requests nobody waits for. `syncRecord`, the one attempt of an utterance, is `Transcribed`.
The page merges the bridge's transcripts when today is selected, and does not filter them by day
(`index.html:3994-4008`): `Bridged` is what a panel may hold of another day.

### SpeechToText

`SpeechToTextViewModel` restarts Android's recognizer after every utterance; an effect of
`CameraAccessScaffold` starts and stops it with the stream. All of it runs on the main thread. What waits
is state: restarts in their 350 ms (`restarts`), BUSY answers (`busy`), callbacks of the recognizer
(`engine`, `hearing`), permission dialogs (`asking`), and the screen, which composes each changed key some
time later and on its own (`Compose`, `seen`), and nothing while the activity is stopped (`onScreen`: all
its states are collected with `collectAsStateWithLifecycle`). `listening` is `shouldListen`, `pending` the
partial text, `records` what `appendTranscript` was given, `heard` the history of subtitles shown. `Hasty`
says whether a key may change twice before it is composed. The recognizer may answer without a text: a
blank partial result erases the pending one (`OnBlankPartialResults`), a blank final one leaves it to be
replaced (`OnBlankResults`), and `heard` forgets the utterance so answered. Assumed: the recognizer is
available.

### SpeechFeedback

Two `GestureSpeechFeedback` objects, that of `CameraViewModel` and that of the web screen's bridge, used
by the main thread, the bridge's thread and the binder thread of engine callbacks. A lock makes a single
access atomic and no more: what an operation still has to do is the thread's `todo`, a sequence of
steps, and `Step(t)` takes the first. `speak`, `speakAndAwait`, `cancel` and `close` put their steps
there, and callbacks theirs. `pending`, `active` are the two requests of an object; `latest` is
`latestSpeaker`; `voice`, `calls` are the engine (external). `job`, `awaited`, `streaming` are the pinch
job of `onLeftPinch`: announcement with a 5 s timeout, delay, photo. `raced` is history: an older
operation was still to speak when a newer one claimed.

### Model-checking and proof modules

`MCCameraSession` and `MCPhotoSync` add the symmetry of model values that are only compared,
`MCRelayDay` and `MCLifeLogPage` give entries their times; the other two `MC` modules say what their
instance contains. Proofs are in `CameraSessionProofs`, `RelayDayProofs`, `PhotoSyncProofs` (types and
the phone's queue), `PhotoDeliveryProofs` (the photo's whole way), `SpeechToTextProofs`,
`LifeLogPageProofs` (what is stored and reported), `LifeLogPanelProofs` (what is shown, and types) and
`SpeechFeedbackProofs`.

Operators called "Mutant:" are plausible mistakes in the operator after them. No action uses them;
`PROJECT.json` names, for every property, one that breaks it.

## 3. The runs

| Run | Instance | Shows |
| --- | --- | --- |
| `camera_safety` | 2 sessions, 2 cameras, 1 recovery, missed transitions allowed | types, `NoOrphanCamera`, `NoOrphanSession`, `ShownSessionIsHeld`, `LiveStreamIsServed`, `IdleIsExplained`, and the inductive invariant `IInv` |
| `camera_liveness` | 2 sessions, 1 camera, no recovery | an ended session releases its stream, a starting stream settles |
| `camera_retry` | 2 sessions, 1 camera | **violation** of `RetryHappens` |
| `camera_missed` | 2 sessions, 1 camera, missed transitions | **violation** of `EndedSessionReleasesStream` |
| `photo_race` | 1 photo, 2 retriers, 2 handlers, 3 mishaps, Windows | `PendingIsWhole`, `SentOrQueued`, `NeverLost`, `ServedWhole` |
| `photo_queue` | 2 photos, 1 retrier, 1 handler, 1 mishap | `SentOrQueued`, `NeverLost` while an older photo is retried before a new one is sent |
| `photo_partial` | 1 photo, 2 handlers, no mishap, POSIX | **violation** of `ServedWhole` |
| `relay_day` | 2 records, 2 photos, 1 day, 2 vision models, 2 concurrent requests | `KnownPhotosDescribed`, `NoRegressUnlessRaced`, the refinement `KeepsThePromise`, `SummaryArrives` |
| `lifelog_page` | 1 opening, 3 loads, 3 records of 2 days (1 of each on this phone), 1 request | `SettledPanelIsSelected`, `LoadedIsStored`, `ReportCoversHeld`, `WaitingEnds` |
| `speech_to_text` | 2 utterances, 1 restart and 1 BUSY answer at a time, not hasty | `SubtitlesKept`, `NeverDeaf`, `ShownPauseStopsListening`, `ShownStreamingBringsBack` |
| `speech_background` | 1 utterance, otherwise as above | **violation** of `ListeningFollowsStream` |
| `speech_feedback` | 2 pinches, 1 utterance of the web page | `ResumedByOne`, `CallerIsKnown`, `NewestSpeaks`, `OverBeforeCapture`, `PinchEnds` |

One run of each module checks its `TypeOK` too.

**Bounds.** *Camera:* two sessions suffice for a session that still stops while its successor starts; the
view model holds at most one, so a third would repeat the second. One recovery (the code allows 3) shows
the budget unspent and spent. `MaxDelays` and `MaxRequests` bound coroutines that wait in `delay()` and in
`requestPermission()`; a step that would exceed them is not taken. *Photos:* one photo is enough for what
happens to it in the hands of three threads and two handlers; a second one is needed only for the
dispatcher, which then holds one photo while it retries another. `MaxMishaps` bounds kills, full disks and
reclaimed files. *Relay:* two requests overlap in every way two can; the second record is of the next day
in Korea but of the same day in UTC, which tells the two calendars apart; two photos leave one without
caption while the other is analysed; with two models the captions of the old one are stale after a
restart. *Page:* three loads let an old one overtake that of the day picked later and that of the report;
the properties also hold with two openings and two loads, which takes longer than the run is given, and
the proofs cover any number. *Speech:* with two utterances one may follow while the other's subtitle is
still shown; `MaxChains` caps restarts that wait and BUSY answers under way (the proofs cover any number).
*Feedback:* two announcements let one be new while the other is in some thread's hands or spoken; the
properties also hold with two utterances of the page.

Deadlock is checked in every run: the glasses, the user or the page can always do something.

**Fairness** (`FairSpec`). Safety properties of the camera and photo runs use `Spec` alone.

- *Camera.* Weakly fair: coroutines that can resume (a permission check or request that was answered, a
  recovery whose delay is over, a pending delivery), the passing of the 3 s, the
  SDK leaving its transient states, obeying `stop()`, and ending the streams of a stopped session. The
  Android main looper and the SDK's contract give these. A permission request is answered (the activity
  result arrives, `Denied` included). Nothing else is assumed of the user, and nothing of registration or
  of the link to the glasses.
- *Relay.* Strongly fair, for each day: somebody asks, a photo's analysis, the step that ends them, and
  the summary's generation succeed. This is the one assumption that is not the code's: Ollama answers
  at times, and somebody keeps asking. Kills and failures in between are not excluded. An analysis
  fails for good when the photo's file is missing (`server.py:314`); the model has it among the failures
  that a later attempt may not meet, so `SummaryArrives` is about days whose files are there.
- *Page.* Weakly fair: each load and each report gets on or fails. `api` (`index.html:3322`) is a bare
  `fetch`; the timeouts are the WebView's, for a connection that is lost, and those of the relay's calls
  of its models.
- *Speech.* Weakly fair: on screen, what has changed is composed, and the user answers the effect's
  dialog. Nobody has to come back to the app, and nothing is composed until somebody does.
- *Feedback.* Weakly fair: threads take their steps. Strongly fair: the end of the announcement, its
  timeout and the capture, which other events of the main thread interrupt but not for ever. An engine
  may never come up, nor ever finish.

**Disagreements found.**

1. `camera_retry`. A session that stops within 3 s of its attempt finds the gate closed
   (`CameraViewModel.kt:424`) and no timer opens it: the app stays unconnected until an unrelated
   state change wakes the collector, although line 278 promises a session as soon as the glasses are
   seen. An attempt whose `createSession` fails ends the same way, since its error wakes the collector
   too early and is never cleared.
2. `camera_missed`. `hasBeenActive` (l. 647) counts delivered states. A stream that starts and dies
   between two deliveries never becomes active for it, and camera and service stay; the comment of
   `endSession` (l. 431) says they are released.
3. `photo_partial`. Uploads of one photo share one temporary file (`server.py:529`). On POSIX the first
   can rename it while the second is writing it, and the relay serves a partial JPEG, which line 528
   means to rule out. On Windows the rename fails and the phone retries.
4. `speech_background`. "A glasses touch-pad PAUSE always stops STT, and STREAMING always brings it back"
   (`CameraAccessScaffold.kt:67-69`). The effect is launched by a composition, and while the activity is
   stopped there is none: a pause of the glasses in the background, for which `StreamingService` keeps the
   app alive, leaves the microphone on. On screen the statement holds if a state lasts for a frame
   (`speech_to_text`); with `Hasty = TRUE` it fails there too, since a pause and a resume between two
   compositions leave the effect's keys as they were.

**Observations.** What the models allow and the properties therefore do not promise; none of it is
contradicted by a document, except where it says so, or it lies behind an exception a property names.

*Page.* (a) A handler of an earlier opening that comes late writes into the page opened after it, for
instance the log of the day that was selected there, although `index.html:3388` rules out another day's
records; `SettledPanelIsSelected` speaks of panels that their own opening wrote, and the run has one
opening. (b) A view chosen, or a report that failed, while another day is being loaded shows the old day's
log under the new date until the load ends. (c) A load that was begun before an utterance and ends after
it drops the utterance from the timeline until there is another one, since `finalizedSignature` counts it
as shown. (d) A report asked for while another day is being loaded posts the records of the day shown
before (l. 3961). (e) The bridge's transcripts are those of the process, and are merged into today's
timeline without a look at their day (l. 3994-4008): after midnight a page shows yesterday's utterances
under today's date, against l. 3388. `SettledPanelIsSelected` allows for exactly these (`Bridged`).
*Relay.* (f) `get_lifelog` reads three times, and its summary may cover records its rows lack. (g) A photo
that is stored during captioning enters the prompt without a caption (`server.py:344`, `368`). (h) Of two
overlapping requests, the later to end may overwrite the summary of the one that read more;
`NoRegressUnlessRaced` excepts it.
*Camera.* (i) No error is ever shown: without a `SnackbarHost` the messages of `setRecentError` stay in the
state, although l. 458 of `CameraViewModel.kt` has all session errors "surface through the snackbar".
`IdleIsExplained` says that a start is not dropped, and not that anybody learns why it failed. (j) The
service may run without a stream, and a stream that is being stopped may run without the service: the
microphone starts it and leaves it running, and the session's switch stops it before the stream ends.
*Speech.* (k) A result that comes after `stopListening` stores the utterance a second time; a subtitle
first shown then stays. (l) A stop and a start within 350 ms lead to two starts and BUSY answers, which
end by themselves. (m) A subtitle is lost that the recognizer takes back by a blank partial result
(`SpeechToTextViewModel.kt:133-134`), or that a blank final result leaves for the next utterance to
replace.
*Feedback.* (n) A claim and the speech after it are not one step: of two operations on two threads the
older may speak after or beside the newer, which `raced` excepts from "Latest-wins" (l. 11, l. 123), and
a caller may be resumed while its announcement is yet to be spoken (l. 68). (o) When the engine fails to
come up, a waiting request ends by its timeout only; after `close`, `speak` still takes the claim and
leaves a request that nobody speaks.

## 4. What is proved

Every proof holds for all values of the constants and rests on the named `ASSUME`s of its model, which
say that the constants are of the right kind, and on nothing else. Each model has an inductive
invariant, in named parts, because the properties are not inductive by themselves; each kind of step has
its lemma.

### CameraSessionProofs

For any sets of sessions and cameras and any bounds:

- `Inductive`: `Spec => []IInv`, and from it
- `TypeCorrect`, `CamerasAreHeld`, `LiveStreamsAreServed` (`LiveStreamIsServed`), `SessionsAreHeld`,
  `IdlenessIsExplained` (`IdleIsExplained`).

The properties are not inductive by themselves. A wake-up that starts a session looks at the state
*shown*, and `NoOrphanSession` speaks of the session *held*: it has to be known that none is held
when the guard lets a session be created. `IInv` adds what ties the two together:

- `CollectorIsHeld`: exactly the session held has a running collector;
- `IdleIsSeenFirst`: a session object is IDLE only before its `start()`, so IDLE is never delivered
  late;
- `FreeToStart`: shown STOPPED, or shown IDLE with the retry gate open, no session is held; this is
  what makes the automatic start safe, and it rests on the gate covering the moment in which a new
  session still shows IDLE;
- `DisabledIsStopping`: a session held while sessions are switched off was asked to stop;
- `StartIsPending`: `IdleIsExplained` by what was delivered, whatever the SDK has done since.

The proof follows these groups: types (`TypeOK`), the session held (`HoldInv`), the camera held
(`StreamInv`), the pending start; for each, one lemma for user steps, resumed coroutines and the
environment, one step per action. That the session's switch does not take the service from a live stream
needs two of the groups: a running session that was not asked to stop is the one held (`NoOrphanSession`),
and switching off asks that one to stop before the service goes (`DisableKillsFirst`); an automatic start
revives no session that a stream is on (`AutoStartLeavesLive`). `camera_safety` checks `IInv` as well.

### PhotoSyncProofs and PhotoDeliveryProofs

For any number of photos, retrying threads and relay threads, and any number of mishaps:

- `TypeCorrect`, and `QueueIsWhole` (`PendingIsWhole`), on any system. `QueueInv`: a capture in the
  dispatcher's hands has no complete description (`CaptureInHand`), an image is whole before its
  description is begun (`QueueOrdered`), and jobs, handlers and the restoring bridge know only photos
  that were captured (`JobsKnown`, `HandlersKnown`, `RestoreKnown`).
- `ServesWholePhotos` (`ServedWhole`), `NothingForgotten` (`SentOrQueued`) and `NothingLost`
  (`NeverLost`), where no open file can be renamed (`~ReplaceWhileOpen`; the run `photo_partial` shows that
  the first of them needs it). `RelayInv`: a handler somebody waits for works on that
  call's photo (`CallsMatch`), a temporary file belongs to the handler that writes it (`TempOwned`), the
  final file is whole from the first (`PathWhole`). `Delivered`: files are deleted from the queue only
  for photos that are on the relay, where they stay.

### RelayDayProofs

For any entries, times, days, models and requests:

- `TypeCorrect`; `KnownArePrompted` (`KnownPhotosDescribed`); `SummariesGrow` (`NoRegressUnlessRaced`);
- `Refines`: `Spec => Report!Spec`. Each step of the relay is a step of `DayReport` or leaves it alone:
  one that stores accepts, the first step of a request asks, `SummaryGenerated` reports, a kill or a
  failed model call gives up. That the interval of `day_bounds` is the day of a Korean calendar is a
  lemma of its own.

### SpeechToTextProofs

For any utterances and bounds, hasty or not: `TypeCorrect`, `SubtitlesAreKept` (`SubtitlesKept`) and
`ListeningIsNotDeaf` (`NeverDeaf`). The part that is added is `PendingIsHeard`: while listening, a
subtitle that is not stored yet is that of the utterance being heard, so that its own result replaces
it and no other can. What the recognizer takes back by a blank result is no longer `heard`.

### LifeLogPageProofs and LifeLogPanelProofs

For any records, days, openings, loads and requests:

- `LoadRepairs` (`LoadedIsStored`): by `SentIsStored`, a load that has sent the phone's records has them
  at the relay, and only such a load yields a log that counts as loaded.
- `ReportsCover` (`ReportCoversHeld`): by `HeldIsOwed`, each opening that waits for a report has a request
  that no other waits for, and what it held when it asked is owed by that request. The relay is
  `DayReport`, so with `Refines` this holds of any relay that keeps the promise.
- `PanelIsSelected` (`SettledPanelIsSelected`): the newest load of the front opening is for the selected
  day (`DayComes`), every load keeps the day it was begun for (`DaysKept`), and a panel that its own
  opening wrote follows its log or waits for that newest load (`PanelFollows`). Of another day it
  holds at most what the bridge has added while today was selected (`Bridged`).
- `TypesHold` (`TypeOK`), with the bound on the loads: `MayLoad` keeps a load for every pressed button,
  and it is enough because an opening that waits for a report has its button pressed, and no other
  load that would release it (`ButtonHeld`). So the loads begun and the openings that wait are
  together no more than `MaxLoads` (`Within`), and an answer only turns one into the other. The bound
  therefore cuts off no answer: it limits what the user begins.

### SpeechFeedbackProofs

For any announcements and words, with the three threads interleaved step by step:

- `TypeCorrect`; `AnsweredByOne` (`ResumedByOne`); `CallersAreKnown` (`CallerIsKnown`); `NewestWins`
  (`NewestSpeaks`); `SilentBeforeCapture` (`OverBeforeCapture`).

The difficulty is that the threads keep sequences of steps, and that each property speaks of steps of
several threads. `Shaped` says that what a thread has left is the rest of an operation that this thread
runs (`Program`): at most three steps, no two alike, whose first tells the others. So it is enough to
know the *set* each thread has left (`Left`), and one lemma per step says what it does to these sets
(`<step>Moves`). The invariant is then about the two requests of the camera's speaker, the engine and
these sets; for each action there is one lemma (`<action>Holds`) with a step for each part:

- `HeldIsCurrent`, `NotBoth`: the camera's speaker has one request at most, the one the pinch's job
  waits for or one about to be cancelled, and no thread is answering it. This is what the lock gives:
  whoever answers has taken the request first.
- `SpeaksOnce`, `Unspoken`, `SpokenOnce`: an announcement on its way to the speaker finds it empty, and
  the engine has neither ended nor given a callback for what it has yet to speak, nor a callback for
  what it still speaks. `AnsweredOnce` is not inductive without the last of them: two callbacks for one
  request would be two threads that finish it.
- `Known`: the request waited for is with the speaker, the engine, or in some thread's steps.
- `Ordered`, until threads have raced: one thread at a time claims, cancels or speaks (`OneTurns`), what
  it is about to speak is the newest (`TurnIsLatest`), an older speaker is silent or has somebody about
  to stop it (`OlderIsStopped`), and the camera's engine speaks only what its speaker knows of, or is
  stopped next (`VoiceIsActive`).

The proof uses that requests of `speak` and of `speakAndAwait` differ and that `None` is neither a
request nor a speaker (`RequestsDiffer`).

### Only model-checked

Liveness (`EndedSessionReleasesStream`, `StreamSettles`, `SummaryArrives`, `WaitingEnds`,
`ShownPauseStopsListening`, `ShownStreamingBringsBack`, `PinchEnds`), which is out of the prover's reach.
Every safety property that a passing run checks is a theorem. Nothing in the models is recursive.

## 5. Not modelled

- *Generated and vendored code.* `matterjs-server-main` is a project of its own. Most of the
  repository's Python is its table of cluster attributes, one generated class for each, without
  behaviour; its client is a protocol towards a server LifeLens starts and does not implement.
- *Web IoT page and shortcuts.* A client of that server: its answers and their order would be guesses.
  Seen in the code and in no model: `handleNativeIotGesture` does not take back a switch when the toggle
  fails; `LaunchedEffect(sequence)` repeats the last shortcut when the scaffold is created anew.
- *Gesture state machines.* Functions of one thread's frames, with unit tests for `LeftPinchStateMachine`
  and `RightFistOpenStateMachine`. One fist can fire two shortcuts, since the machine stays armed when
  `onHandGesture` has fired; no document says that it must not. What a pinch sets off is modelled.
- *`StreamingService`* beyond the requests it is sent: the sticky restart and the wake lock's hour.
- *Relay settings, presentation keys, Matter proxy.* One saved value each, on which nothing of the diary
  depends; prompts' wording; SQLite's lock timeouts.
- *Page:* the moment of midnight (what it leaves in the bridge's transcripts is modelled), photos in the
  timeline, the calendar's marks.
- *Recording and HEVC decoding,* which no screen reaches; frame conversion and hand recognition, which
  are arithmetic; older copies of the web app.

What is left to do in the models: the gesture state machines as functions of frame sequences.
