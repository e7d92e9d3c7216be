---------------------------- MODULE CameraSession ----------------------------
(***************************************************************************)
(* The session and stream lifecycle of the Android app: CameraViewModel,   *)
(* the part of WearablesViewModel that wakes it, and the requests that it, *)
(* the screen and the speech model send to StreamingService.               *)
(*                                                                         *)
(* All handlers of CameraViewModel run on the main thread, so a handler is *)
(* atomic between two suspension points.  What interleaves is the order in *)
(* which coroutines resume (permission check, permission request, recovery *)
(* delay, state collectors) and the glasses SDK, which changes the state   *)
(* of a session or of a stream on its own.  The SDK publishes its states   *)
(* as StateFlows: a collector sees the latest value only, a value that was *)
(* overwritten before the main thread ran is never delivered.              *)
(*                                                                         *)
(* An error is recorded (setRecentError) and never taken back: no screen   *)
(* composes a SnackbarHost, so showSnackbar does not return and            *)
(* clearRecentError is not reached (CameraAccessScaffold.kt:88).           *)
(*                                                                         *)
(* Left out, because no caller reaches them in this code: stopStreaming,   *)
(* video recording (isRecording stays false) and the HEVC decoder          *)
(* (forceRawPreview stays true); a second tap on the session's switch      *)
(* before the screen has the value the first one has set.                  *)
(***************************************************************************)
EXTENDS Naturals

CONSTANTS
    Sessions,           \* identities of DeviceSession objects of the SDK
    Cameras,            \* identities of Camera objects (with their Stream)
    None,               \* the null reference
    MaxRecovery,        \* MAX_STREAM_RECOVERY_ATTEMPTS (3 in the code)
    MaxDelays,          \* bound: recovery coroutines waiting in delay()
    MaxRequests,        \* bound: coroutines waiting in requestPermission()
    MissedTransitions   \* may a stream start and die between two deliveries?

ASSUME NoneIsNoObject == None \notin Sessions \cup Cameras
ASSUME BoundsAreNaturals ==
    /\ MaxRecovery \in Nat
    /\ MaxDelays \in Nat
    /\ MaxRequests \in Nat
    /\ MissedTransitions \in BOOLEAN

VARIABLES
    \* ---- CameraViewModel ----
    isSessionEnabled,
    gateOpen,               \* AUTO_SESSION_RETRY_MS passed since the last attempt
    session,                \* the DeviceSession held, or None
    sessionState,           \* uiState.sessionState
    camera,                 \* the Camera held (and, with it, the Stream), or None
    streamState,            \* uiState.streamState
    isStartingStream,       \* a camera-permission check is in flight
    showConfirm,            \* showCameraPermissionRedirectConfirm
    requests,               \* permission requests in flight
    streamRecoveryAttempts,
    delays,                 \* recoveries waiting in delay()
    startFailed,            \* auxiliary: the last start of a stream ended in setRecentError,
                            \* or in the user's refusal
    \* ---- WearablesViewModel ----
    ready,                  \* isRegistered /\ hasActiveDevice
    \* ---- StreamingService ----
    service,                \* the last request was to run
    \* ---- glasses SDK ----
    sdkSession,             \* state of each DeviceSession
    stopAsked,              \* stop() was called on it
    sdkStream,              \* state of each Camera's stream, FREE before and after
    owner,                  \* the session a camera was added to
    \* ---- collectors: the last value delivered ----
    seenSession,            \* None when the session has no collector
    seenStream

appVars == <<isSessionEnabled, gateOpen, session, sessionState, camera, streamState,
             isStartingStream, showConfirm, requests, streamRecoveryAttempts, delays, startFailed>>
sdkVars == <<sdkSession, stopAsked, sdkStream, owner>>
seenVars == <<seenSession, seenStream>>
vars == <<appVars, ready, service, sdkVars, seenVars>>

\* What startSession can touch, what the start of a stream can touch, and the rest.
startVars == <<gateOpen, session, sessionState, sdkSession, stopAsked, seenSession>>
attachVars == <<camera, streamState, seenStream, sdkStream, owner>>
streamVars == <<attachVars, service>>
promptVars == <<isStartingStream, showConfirm, requests>>
recoveryVars == <<streamRecoveryAttempts, delays>>

SessionStates == {"IDLE", "STARTING", "STARTED", "PAUSED", "STOPPING", "STOPPED"}
\* STARTED is folded into STARTING and CLOSED into STOPPED; STOPPING, which the code treats like
\* any other state that is neither terminal nor STREAMING, is passed over.
StreamStates == {"STOPPED", "STARTING", "STREAMING", "PAUSED"}

TypeOK ==
    /\ isSessionEnabled \in BOOLEAN
    /\ gateOpen \in BOOLEAN
    /\ session \in Sessions \cup {None}
    /\ sessionState \in SessionStates
    /\ camera \in Cameras \cup {None}
    /\ streamState \in StreamStates
    /\ isStartingStream \in BOOLEAN
    /\ showConfirm \in BOOLEAN
    /\ requests \in 0..MaxRequests
    /\ streamRecoveryAttempts \in 0..MaxRecovery
    /\ delays \in 0..MaxDelays
    /\ startFailed \in BOOLEAN
    /\ ready \in BOOLEAN
    /\ service \in BOOLEAN
    /\ sdkSession \in [Sessions -> SessionStates]
    /\ stopAsked \in [Sessions -> BOOLEAN]
    /\ sdkStream \in [Cameras -> StreamStates \cup {"FREE"}]
    /\ owner \in [Cameras -> Sessions \cup {None}]
    /\ seenSession \in [Sessions -> SessionStates \cup {"NONE"}]
    /\ seenStream \in StreamStates

------------------------------------------------------------------------------
\* Derived state of CameraUiState

HasSession(s) == s \in {"STARTING", "STARTED", "PAUSED", "STOPPING"}

Init ==
    /\ isSessionEnabled = TRUE
    /\ gateOpen = TRUE          \* lastAutoSessionAttemptAtMs = 0
    /\ session = None
    /\ sessionState = "IDLE"
    /\ camera = None
    /\ streamState = "STOPPED"
    /\ isStartingStream = FALSE
    /\ showConfirm = FALSE
    /\ requests = 0
    /\ streamRecoveryAttempts = 0
    /\ delays = 0
    /\ startFailed = FALSE
    /\ ready = FALSE
    /\ service = FALSE
    /\ sdkSession = [s \in Sessions |-> "STOPPED"]
    /\ stopAsked = [s \in Sessions |-> FALSE]
    /\ sdkStream = [c \in Cameras |-> "FREE"]
    /\ owner = [c \in Cameras |-> None]
    /\ seenSession = [s \in Sessions |-> "NONE"]
    /\ seenStream = "STOPPED"

------------------------------------------------------------------------------
\* Pieces of handlers

\* Sessions the SDK may hand out: stopped ones to which nothing refers any more.
Available(s) ==
    /\ sdkSession[s] = "STOPPED"
    /\ seenSession[s] = "NONE"
    /\ session # s
    /\ \A c \in Cameras : owner[c] # s

\* startSession when createSession succeeds.  The collector is launched before the state is set
\* to STARTING; whether its first value (IDLE) is processed before or after depends on the
\* dispatcher, so either may be the state that remains.
SessionCreated(s, seen) ==
    /\ Available(s)
    /\ session' = s
    /\ sessionState' \in {"STARTING", "IDLE"}
    /\ sdkSession' = [sdkSession EXCEPT ![s] = "IDLE"]
    /\ stopAsked' = [stopAsked EXCEPT ![s] = FALSE]
    /\ seenSession' = [seen EXCEPT ![s] = "IDLE"]

\* startSession when createSession fails: cleanupSession.
SessionRefused(shown, held, seen) ==
    /\ session' = None
    /\ sessionState' = shown
    /\ seenSession' = IF held = None THEN seen ELSE [seen EXCEPT ![held] = "NONE"]
    /\ UNCHANGED <<sdkSession, stopAsked>>

\* Mutant: hasSession is not looked at.
MayAutoStartTwice(shown) == isSessionEnabled' /\ ready' /\ gateOpen

MayAutoStart(shown) == isSessionEnabled' /\ ready' /\ ~HasSession(shown) /\ gateOpen

\* startSessionAutomaticallyIfReady, when the state shown is `shown`, and the session and the
\* values its collectors have seen are `held` and `seen`, at that point.  The error of a failed
\* attempt wakes nothing at once, the attempt having closed the gate.
AutoStart(shown, held, seen) ==
    \/ /\ MayAutoStart(shown)
       /\ gateOpen' = FALSE
       /\ SessionRefused(shown, held, seen) \/ \E s \in Sessions : SessionCreated(s, seen)
    \/ /\ ~MayAutoStart(shown)
       /\ session' = held
       /\ sessionState' = shown
       /\ seenSession' = seen
       /\ UNCHANGED <<gateOpen, sdkSession, stopAsked>>

\* Every change of WearablesViewModel.uiState, setRecentError's included, is collected at once on
\* the main thread (Main.immediate).
Wake == AutoStart(sessionState, session, seenSession)

\* startStreaming, with an active session: it begins unless a stream is held or being started.
StartStreaming ==
    \/ camera = None /\ isStartingStream' = TRUE /\ startFailed' = FALSE
    \/ camera # None /\ UNCHANGED <<isStartingStream, startFailed>>

\* addCamera and start() both succeed.  The SDK refuses a second camera on one session ("a
\* capability of this type is already active").  As for the session, the collector's first value
\* (STOPPED) may be processed before or after the state is set to STARTING.
CameraAdded(c) ==
    /\ sdkStream[c] = "FREE"
    /\ sdkSession[session] # "STOPPED"
    /\ \A d \in Cameras : owner[d] # session
    /\ camera' = c
    /\ sdkStream' = [sdkStream EXCEPT ![c] = "STARTING"]
    /\ owner' = [owner EXCEPT ![c] = session]
    /\ streamState' \in {"STARTING", "STOPPED"}
    /\ seenStream' = "STOPPED"
    /\ service' = TRUE
    /\ startFailed' = FALSE
    /\ UNCHANGED startVars

\* Mutant: nothing is cleared when start() fails.
CameraRefusedStuck ==
    /\ service' = FALSE
    /\ startFailed' = TRUE
    /\ streamState' = "STARTING"
    /\ Wake
    /\ UNCHANGED <<camera, seenStream, sdkStream, owner>>

\* addCamera fails (StreamingService.stop) or start() fails (clearStreamResources): the service
\* is stopped again and the error is recorded.
CameraRefused ==
    /\ service' = FALSE
    /\ startFailed' = TRUE
    /\ Wake
    /\ UNCHANGED attachVars

\* Mutant: the stream already attached is not looked at.
BeginStreamTwice ==
    \/ /\ session = None
       /\ UNCHANGED <<streamVars, startFailed, startVars>>
    \/ /\ session # None
       /\ CameraRefused \/ \E c \in Cameras : CameraAdded(c)

BeginStream ==
    \/ /\ session = None \/ camera # None
       /\ UNCHANGED <<streamVars, startFailed, startVars>>
    \/ /\ session # None /\ camera = None
       /\ CameraRefused \/ \E c \in Cameras : CameraAdded(c)

\* clearStreamResources with a camera held: collectors cancelled, service stopped, camera closed.
ClearStreamResources ==
    /\ camera' = None
    /\ streamState' = "STOPPED"
    /\ seenStream' = "STOPPED"
    /\ service' = FALSE
    /\ sdkStream' = [sdkStream EXCEPT ![camera] = "FREE"]
    /\ owner' = [owner EXCEPT ![camera] = None]

------------------------------------------------------------------------------
\* Actions of the user

\* onToggleSession, switching on: toggleSessionEnabled, then the speech model's startListening,
\* which asks for the service unless it listens already.
EnableSession ==
    /\ ~isSessionEnabled
    /\ isSessionEnabled' = TRUE
    /\ service' \in {service, TRUE}
    /\ UNCHANGED <<attachVars, promptVars, recoveryVars, startFailed, ready>>
    /\ Wake

\* Mutant: endSession without its early return.
DisableSessionUnheld ==
    /\ isSessionEnabled
    /\ isSessionEnabled' = FALSE
    /\ service' = FALSE
    /\ sessionState' = "STOPPING"
    /\ stopAsked' = [s \in Sessions |-> stopAsked[s] \/ s = session]
    /\ UNCHANGED <<gateOpen, session, sdkSession, seenSession, attachVars, promptVars,
                   recoveryVars, startFailed, ready>>

\* Mutant: endSession ends connected sessions only, not one that is paused.
DisableSessionConnected ==
    /\ isSessionEnabled
    /\ isSessionEnabled' = FALSE
    /\ service' = FALSE
    /\ \/ /\ session # None /\ sessionState = "STARTED"
          /\ sessionState' = "STOPPING"
          /\ stopAsked' = [stopAsked EXCEPT ![session] = TRUE]
       \/ /\ session = None \/ sessionState # "STARTED"
          /\ UNCHANGED <<sessionState, stopAsked>>
    /\ UNCHANGED <<gateOpen, session, sdkSession, seenSession, attachVars, promptVars,
                   recoveryVars, startFailed, ready>>

\* onToggleSession, switching off: toggleSessionEnabled, which calls endSession, then the service
\* is stopped at once, with the stream still attached.
DisableSession ==
    /\ isSessionEnabled
    /\ isSessionEnabled' = FALSE
    /\ service' = FALSE
    /\ \/ /\ session # None
          /\ sessionState' = "STOPPING"
          /\ stopAsked' = [stopAsked EXCEPT ![session] = TRUE]
       \/ /\ session = None
          /\ UNCHANGED <<sessionState, stopAsked>>
    /\ UNCHANGED <<gateOpen, session, sdkSession, seenSession, attachVars, promptVars,
                   recoveryVars, startFailed, ready>>

\* The speech model starts to listen, by the microphone's button or with the stream (SpeechToText),
\* and asks for the service, with or without a stream.
ListeningStarts ==
    /\ service' = TRUE
    /\ UNCHANGED <<appVars, ready, sdkVars, seenVars>>

\* startLifeLensSession, the button of the web Home and of the reconnect prompt.
StartLifeLensSession ==
    /\ isSessionEnabled' = TRUE
    /\ IF sessionState = "STARTED"
       THEN StartStreaming ELSE UNCHANGED <<isStartingStream, startFailed>>
    /\ UNCHANGED <<streamVars, showConfirm, requests, recoveryVars, ready>>
    /\ Wake

\* confirmCameraPermissionRedirect
ConfirmRedirect ==
    /\ showConfirm
    /\ showConfirm' = FALSE
    /\ \/ /\ sessionState = "STARTED" /\ camera = None
          /\ requests < MaxRequests
          /\ requests' = requests + 1
       \/ /\ sessionState # "STARTED" \/ camera # None
          /\ UNCHANGED requests
    /\ UNCHANGED <<isSessionEnabled, startVars, streamVars, isStartingStream, recoveryVars,
                   startFailed, ready>>

\* cancelCameraPermissionRedirect
CancelRedirect ==
    /\ showConfirm
    /\ showConfirm' = FALSE
    /\ startFailed' = TRUE
    /\ UNCHANGED <<isSessionEnabled, startVars, streamVars, isStartingStream, requests,
                   recoveryVars, ready>>

\* onCleared, then a new view model when the user comes back.  viewModelScope is cancelled, the
\* camera is closed and the session is asked to stop.
ViewModelCleared ==
    /\ isSessionEnabled' = TRUE
    /\ gateOpen' = TRUE
    /\ session' = None
    /\ sessionState' = "IDLE"
    /\ camera' = None
    /\ streamState' = "STOPPED"
    /\ isStartingStream' = FALSE
    /\ showConfirm' = FALSE
    /\ requests' = 0
    /\ streamRecoveryAttempts' = 0
    /\ delays' = 0
    /\ startFailed' = FALSE
    /\ ready' = FALSE
    /\ service' = FALSE
    /\ sdkStream' = [c \in Cameras |-> IF c = camera THEN "FREE" ELSE sdkStream[c]]
    /\ owner' = [c \in Cameras |-> IF c = camera THEN None ELSE owner[c]]
    /\ stopAsked' = [s \in Sessions |-> stopAsked[s] \/ s = session]
    /\ seenSession' = [s \in Sessions |-> "NONE"]
    /\ seenStream' = "STOPPED"
    /\ UNCHANGED sdkSession

------------------------------------------------------------------------------
\* Coroutines that resume

\* checkPermissionStatus answers: granted, not granted, or an error.
CheckGranted ==
    /\ isStartingStream
    /\ isStartingStream' = FALSE
    /\ UNCHANGED <<isSessionEnabled, showConfirm, requests, recoveryVars, ready>>
    /\ BeginStream

CheckDenied ==
    /\ isStartingStream
    /\ isStartingStream' = FALSE
    /\ showConfirm' = TRUE
    /\ UNCHANGED <<isSessionEnabled, startVars, streamVars, requests, recoveryVars, startFailed, ready>>

CheckFails ==
    /\ isStartingStream
    /\ isStartingStream' = FALSE
    /\ startFailed' = TRUE
    /\ UNCHANGED <<isSessionEnabled, streamVars, showConfirm, requests, recoveryVars, ready>>
    /\ Wake

\* requestPermission answers.
RequestGranted ==
    /\ requests > 0
    /\ requests' = requests - 1
    /\ UNCHANGED <<isSessionEnabled, isStartingStream, showConfirm, recoveryVars, ready>>
    /\ BeginStream

RequestDenied ==
    /\ requests > 0
    /\ requests' = requests - 1
    /\ startFailed' = TRUE
    /\ UNCHANGED <<isSessionEnabled, streamVars, isStartingStream, showConfirm, recoveryVars, ready>>
    /\ Wake

\* The recovery delay is over: startStreaming, which refuses without an active session.
RecoveryDelayOver ==
    /\ delays > 0
    /\ delays' = delays - 1
    /\ UNCHANGED <<isSessionEnabled, streamVars, showConfirm, requests, streamRecoveryAttempts,
                   ready>>
    /\ \/ /\ sessionState = "STARTED"
          /\ StartStreaming
          /\ UNCHANGED startVars
       \/ /\ sessionState # "STARTED"
          /\ startFailed' = TRUE
          /\ UNCHANGED isStartingStream
          /\ Wake

\* Mutant: only a first connection starts the stream, a resumed session does not.
SessionDeliveredOnce(s) ==
    /\ seenSession[s] # "NONE"
    /\ seenSession[s] # sdkSession[s]
    /\ UNCHANGED <<isSessionEnabled, streamVars, showConfirm, requests, recoveryVars, ready>>
    /\ \/ /\ sdkSession[s] = "STOPPED"
          /\ startFailed' = FALSE
          /\ UNCHANGED isStartingStream
          /\ AutoStart("STOPPED", None, [seenSession EXCEPT ![session] = "NONE"])
       \/ /\ sdkSession[s] # "STOPPED"
          /\ sessionState' = sdkSession[s]
          /\ seenSession' = [seenSession EXCEPT ![s] = sdkSession[s]]
          /\ IF sdkSession[s] = "STARTED" /\ sessionState # "PAUSED"
             THEN StartStreaming ELSE UNCHANGED <<isStartingStream, startFailed>>
          /\ UNCHANGED <<gateOpen, session, sdkSession, stopAsked>>

\* The collector of session.state gets a value (observeSession).
SessionDelivered(s) ==
    /\ seenSession[s] # "NONE"
    /\ seenSession[s] # sdkSession[s]
    /\ UNCHANGED <<isSessionEnabled, streamVars, showConfirm, requests, recoveryVars, ready>>
    /\ \/ /\ sdkSession[s] = "STOPPED"
          /\ startFailed' = FALSE
          /\ UNCHANGED isStartingStream
          /\ AutoStart("STOPPED", None, [seenSession EXCEPT ![session] = "NONE"])
       \/ /\ sdkSession[s] # "STOPPED"
          /\ sessionState' = sdkSession[s]
          /\ seenSession' = [seenSession EXCEPT ![s] = sdkSession[s]]
          /\ IF sdkSession[s] = "STARTED"
             THEN StartStreaming ELSE UNCHANGED <<isStartingStream, startFailed>>
          /\ UNCHANGED <<gateOpen, session, sdkSession, stopAsked>>

\* Mutant: recoveries are not counted.
MayRecoverForEver ==
    /\ isSessionEnabled
    /\ sessionState = "STARTED"

\* May onStreamTerminated start the stream again?
MayRecover ==
    /\ isSessionEnabled
    /\ sessionState = "STARTED"
    /\ streamRecoveryAttempts < MaxRecovery

\* Mutant: hasBeenActive is set by STREAMING only.
StreamDeliveredLate ==
    /\ camera # None
    /\ seenStream # sdkStream[camera]
    /\ \/ /\ sdkStream[camera] # "STOPPED" \/ seenStream = "STARTING"
          /\ streamState' = sdkStream[camera]
          /\ seenStream' = sdkStream[camera]
          /\ UNCHANGED <<camera, sdkStream, owner, service, recoveryVars>>
       \/ /\ sdkStream[camera] = "STOPPED" /\ seenStream # "STARTING"
          /\ ClearStreamResources
          /\ UNCHANGED recoveryVars
    /\ UNCHANGED <<isSessionEnabled, startVars, promptVars, startFailed, ready>>

\* The collector of stream.state gets a value (setupStreamListeners).  It subscribed at STOPPED,
\* so a terminal value that differs from the last one comes after an active one: hasBeenActive.
StreamDelivered ==
    /\ camera # None
    /\ seenStream # sdkStream[camera]
    /\ \/ /\ sdkStream[camera] # "STOPPED"
          /\ streamState' = sdkStream[camera]
          /\ seenStream' = sdkStream[camera]
          /\ streamRecoveryAttempts' =
                IF sdkStream[camera] = "STREAMING" THEN 0 ELSE streamRecoveryAttempts
          /\ UNCHANGED <<camera, sdkStream, owner, service, delays>>
       \/ /\ sdkStream[camera] = "STOPPED"
          /\ ClearStreamResources
          /\ \/ /\ MayRecover
                /\ delays < MaxDelays
                /\ streamRecoveryAttempts' = streamRecoveryAttempts + 1
                /\ delays' = delays + 1
             \/ /\ ~MayRecover
                /\ UNCHANGED recoveryVars
    /\ UNCHANGED <<isSessionEnabled, startVars, promptVars, startFailed, ready>>

------------------------------------------------------------------------------
\* Environment

\* 3 s have passed since the last automatic attempt.  The SDK needs less than that to answer
\* start(): the collector has seen the session leave IDLE.
RetryGateOpens ==
    /\ ~gateOpen
    /\ sessionState = "IDLE" => session = None
    /\ gateOpen' = TRUE
    /\ UNCHANGED <<isSessionEnabled, session, sessionState, sdkSession, stopAsked, seenSession,
                   streamVars, promptVars, recoveryVars, startFailed, ready>>

\* WearablesViewModel.uiState changes: the glasses are registered and active, or no longer; or
\* something else in it does (device list, firmware, another error recorded).
WearablesChanged ==
    /\ ready' \in BOOLEAN
    /\ UNCHANGED <<isSessionEnabled, streamVars, promptVars, recoveryVars, startFailed>>
    /\ Wake

SdkSessionMoves(s, to) ==
    /\ sdkSession' = [sdkSession EXCEPT ![s] = to]
    /\ UNCHANGED <<appVars, ready, service, stopAsked, sdkStream, owner, seenVars>>

\* start() takes effect, and connects.
SessionStarts(s) ==
    \/ sdkSession[s] = "IDLE" /\ SdkSessionMoves(s, "STARTING")
    \/ sdkSession[s] = "STARTING" /\ SdkSessionMoves(s, "STARTED")

\* The glasses are taken off, and put on again.
SessionPauses(s) ==
    \/ sdkSession[s] = "STARTED" /\ SdkSessionMoves(s, "PAUSED")
    \/ sdkSession[s] = "PAUSED" /\ SdkSessionMoves(s, "STARTED")

\* stop() takes effect.
SessionStops(s) ==
    \/ stopAsked[s] /\ sdkSession[s] \notin {"STOPPING", "STOPPED"} /\ SdkSessionMoves(s, "STOPPING")
    \/ sdkSession[s] = "STOPPING" /\ SdkSessionMoves(s, "STOPPED")

\* The connection is lost.
SessionDrops(s) ==
    /\ sdkSession[s] \in {"STARTING", "STARTED", "PAUSED"}
    /\ SdkSessionMoves(s, "STOPPED")

SdkStreamMoves(c, to) ==
    /\ sdkStream' = [sdkStream EXCEPT ![c] = to]
    /\ UNCHANGED <<appVars, ready, service, sdkSession, stopAsked, owner, seenVars>>

OwnerStopped(c) == owner[c] # None /\ sdkSession[owner[c]] = "STOPPED"

StreamStarts(c) ==
    /\ sdkStream[c] = "STARTING"
    /\ ~OwnerStopped(c)
    /\ SdkStreamMoves(c, "STREAMING")

\* The touch pad pauses and resumes the stream.
StreamPauses(c) ==
    /\ ~OwnerStopped(c)
    /\ \/ sdkStream[c] = "STREAMING" /\ SdkStreamMoves(c, "PAUSED")
       \/ sdkStream[c] = "PAUSED" /\ SdkStreamMoves(c, "STREAMING")

\* Has the collector of c seen it active?
SeenActive(c) == camera = c /\ seenStream # "STOPPED"

\* A stream ends: at any time on its own, and for sure once its session has stopped.  Unless
\* MissedTransitions, it does not end before the collector has seen it active.
StreamEnds(c) ==
    /\ sdkStream[c] \in {"STARTING", "STREAMING", "PAUSED"}
    /\ MissedTransitions \/ SeenActive(c)
    /\ SdkStreamMoves(c, "STOPPED")

UserStep ==
    \/ EnableSession \/ DisableSession \/ StartLifeLensSession \/ ListeningStarts
    \/ ConfirmRedirect \/ CancelRedirect \/ ViewModelCleared

AppStep ==
    \/ CheckGranted \/ CheckDenied \/ CheckFails
    \/ RequestGranted \/ RequestDenied
    \/ RecoveryDelayOver
    \/ \E s \in Sessions : SessionDelivered(s)
    \/ StreamDelivered

EnvStep ==
    \/ RetryGateOpens \/ WearablesChanged
    \/ \E s \in Sessions : SessionStarts(s) \/ SessionPauses(s) \/ SessionStops(s) \/ SessionDrops(s)
    \/ \E c \in Cameras : StreamStarts(c) \/ StreamPauses(c) \/ StreamEnds(c)

Next == UserStep \/ AppStep \/ EnvStep

Spec == Init /\ [][Next]_vars

\* Coroutines that can resume do; the SDK leaves its transient states, obeys stop() and ends the
\* streams of a stopped session; time passes.  Nothing is assumed of the user, of the link to the
\* glasses or of registration.
Fairness ==
    /\ WF_vars(CheckGranted \/ CheckDenied \/ CheckFails)
    /\ WF_vars(RequestGranted \/ RequestDenied)
    /\ WF_vars(RecoveryDelayOver)
    /\ WF_vars(StreamDelivered)
    /\ WF_vars(RetryGateOpens)
    /\ \A s \in Sessions :
          /\ WF_vars(SessionDelivered(s))
          /\ WF_vars(SessionStarts(s))
          /\ WF_vars(SessionStops(s))
    /\ \A c \in Cameras :
          /\ WF_vars(StreamStarts(c) \/ (sdkStream[c] = "STARTING" /\ StreamEnds(c)))
          /\ WF_vars(OwnerStopped(c) /\ StreamEnds(c))

FairSpec == Spec /\ Fairness

------------------------------------------------------------------------------
\* Safety

\* Every camera the app has opened in the SDK is the one it holds a reference to: a camera that
\* is forgotten without close() makes every later addCamera fail (CameraViewModel.kt:789).
\* Two coroutines (permission check, permission request) may both reach beginStream.
NoOrphanCamera == \A c \in Cameras : sdkStream[c] # "FREE" <=> c = camera

\* Every DeviceSession that runs is the one held, unless it was asked to stop: a session that is
\* forgotten while it runs would keep the glasses connected with nobody to end it.
NoOrphanSession ==
    \A s \in Sessions : sdkSession[s] # "STOPPED" /\ ~stopAsked[s] => s = session

\* Whenever the UI shows a session, one is held and its collector runs; otherwise hasSession
\* would block startSession for good (CameraViewModel.kt:400).
ShownSessionIsHeld ==
    HasSession(sessionState) => session # None /\ seenSession[session] # "NONE"

\* Is a stream held whose session runs and was not asked to stop?
StreamIsLive ==
    /\ camera # None /\ owner[camera] # None
    /\ sdkSession[owner[camera]] # "STOPPED" /\ ~stopAsked[owner[camera]]

\* A live stream has its foreground service, which "keeps the stream/recording alive while
\* backgrounded" (CameraViewModel.kt:600): whoever stops the service (a failed start, the release
\* of an older stream, the session's switch, which stops it at once) only does so when the stream
\* held, if there is one, is that of a session that has ended or was asked to.
LiveStreamIsServed == StreamIsLive => service

\* A connected session that is enabled, has no stream and has nothing under way to get one is
\* accounted for: its last start ended in an error that was recorded or in the user's refusal, or
\* the recovery budget is spent.  No interleaving of checks, prompts, recoveries and reconnections
\* drops a start.  (That the error reaches the user is not said, and is not so.)
IdleIsExplained ==
    /\ isSessionEnabled
    /\ sessionState = "STARTED" /\ sdkSession[session] = "STARTED" /\ ~stopAsked[session]
    /\ camera = None /\ ~isStartingStream /\ ~showConfirm /\ requests = 0 /\ delays = 0
    => startFailed \/ streamRecoveryAttempts = MaxRecovery

------------------------------------------------------------------------------
\* The inductive strengthening

\* The session held is the one observed.
CollectorIsHeld == \A s \in Sessions : seenSession[s] # "NONE" <=> s = session

\* A session object shows IDLE only before its start(): it is never delivered again later.
IdleIsSeenFirst ==
    \A s \in Sessions :
        seenSession[s] # "NONE" /\ sdkSession[s] = "IDLE" => seenSession[s] = "IDLE"

\* When an automatic attempt may be made, no session is held.
FreeToStart ==
    /\ sessionState = "STOPPED" => session = None
    /\ sessionState = "IDLE" /\ gateOpen => session = None

\* Switched off, the session held was asked to stop.
DisabledIsStopping == isSessionEnabled \/ session = None \/ stopAsked[session]

\* IdleIsExplained, whatever the SDK has done since the state shown was delivered.
StartIsPending ==
    isSessionEnabled /\ sessionState = "STARTED" /\ ~stopAsked[session] /\ camera = None
    => \/ isStartingStream \/ showConfirm \/ requests > 0 \/ delays > 0
       \/ startFailed \/ streamRecoveryAttempts = MaxRecovery

HoldInv ==
    /\ CollectorIsHeld /\ IdleIsSeenFirst /\ FreeToStart
    /\ ShownSessionIsHeld /\ NoOrphanSession /\ DisabledIsStopping

\* The UI shows a stream only while one is attached.
ShownStreamIsHeld == streamState # "STOPPED" => camera # None

StreamInv == NoOrphanCamera /\ ShownStreamIsHeld /\ LiveStreamIsServed

IInv == TypeOK /\ HoldInv /\ StreamInv /\ StartIsPending

------------------------------------------------------------------------------
\* Liveness

\* Ending a session releases the stream that ran on it (endSession, CameraViewModel.kt:431).
EndedSessionReleasesStream ==
    \A c \in Cameras : (camera = c /\ OwnerStopped(c)) ~> camera # c

\* The spinner of the stream is never shown for ever (isBusy, CameraUiState.kt:90).
StreamSettles == streamState = "STARTING" ~> streamState # "STARTING"

\* The app means to have a session and has none.
WantsSession == isSessionEnabled /\ ready /\ session = None

\* When the retry interval has passed and there is no session, because the last one has dropped or
\* could not be created, a new attempt is made.
RetryHappens == (WantsSession /\ gateOpen) ~> (~gateOpen \/ ~WantsSession)

==============================================================================
