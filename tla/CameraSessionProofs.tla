------------------------- MODULE CameraSessionProofs -------------------------
(***************************************************************************)
(* CameraSession is safe for any number of sessions and cameras and any    *)
(* bounds.  IInv is inductive; its parts are proved one group at a time:   *)
(* types, the session held (HoldInv), the camera held (StreamInv) and the  *)
(* start that is pending (StartIsPending).                                 *)
(***************************************************************************)
EXTENDS CameraSession, TLAPS

USE NoneIsNoObject, BoundsAreNaturals

------------------------------------------------------------------------------
\* Lemmas about the pieces of handlers

\* A counter that is incremented below its bound, or decremented above 0, keeps its range.
LEMMA CounterStep ==
    ASSUME NEW n \in Nat, NEW i \in 0..n
    PROVE  /\ i < n => i + 1 \in 0..n
           /\ i > 0 => i - 1 \in 0..n
  OBVIOUS

\* An automatic start touches the session only, and keeps its variables typed.
LEMMA AutoStartTypes ==
    ASSUME TypeOK, NEW shown \in SessionStates, NEW held \in Sessions \cup {None},
           NEW seen \in [Sessions -> SessionStates \cup {"NONE"}],
           AutoStart(shown, held, seen)
    PROVE  /\ gateOpen' \in BOOLEAN
           /\ session' \in Sessions \cup {None}
           /\ sessionState' \in SessionStates
           /\ sdkSession' \in [Sessions -> SessionStates]
           /\ stopAsked' \in [Sessions -> BOOLEAN]
           /\ seenSession' \in [Sessions -> SessionStates \cup {"NONE"}]
<1>1. CASE MayAutoStart(shown) /\ \E s \in Sessions : SessionCreated(s, seen)
  BY <1>1 DEF AutoStart, SessionCreated, TypeOK, SessionStates
<1>2. CASE MayAutoStart(shown) /\ SessionRefused(shown, held, seen)
  BY <1>2 DEF AutoStart, SessionRefused, SessionCreated, TypeOK, SessionStates
<1>3. CASE ~MayAutoStart(shown)
  BY <1>3 DEF AutoStart, TypeOK, SessionStates
<1> QED
  BY <1>1, <1>2, <1>3 DEF AutoStart

\* An automatic attempt, made or refused, keeps the variables it may touch typed.
LEMMA WakeTypes ==
    ASSUME TypeOK, Wake
    PROVE  /\ gateOpen' \in BOOLEAN
           /\ session' \in Sessions \cup {None}
           /\ sessionState' \in SessionStates
           /\ sdkSession' \in [Sessions -> SessionStates]
           /\ stopAsked' \in [Sessions -> BOOLEAN]
           /\ seenSession' \in [Sessions -> SessionStates \cup {"NONE"}]
  BY AutoStartTypes DEF Wake, TypeOK

\* beginStream keeps everything it may touch typed.
LEMMA BeginStreamTypes ==
    ASSUME TypeOK, BeginStream
    PROVE  /\ startFailed' \in BOOLEAN /\ service' \in BOOLEAN
           /\ camera' \in Cameras \cup {None}
           /\ streamState' \in StreamStates
           /\ seenStream' \in StreamStates
           /\ sdkStream' \in [Cameras -> StreamStates \cup {"FREE"}]
           /\ owner' \in [Cameras -> Sessions \cup {None}]
           /\ gateOpen' \in BOOLEAN
           /\ session' \in Sessions \cup {None}
           /\ sessionState' \in SessionStates
           /\ sdkSession' \in [Sessions -> SessionStates]
           /\ stopAsked' \in [Sessions -> BOOLEAN]
           /\ seenSession' \in [Sessions -> SessionStates \cup {"NONE"}]
<1>1. CASE session = None \/ camera # None
  BY <1>1 DEF BeginStream, TypeOK, streamVars, attachVars, startVars
<1>2. CASE session # None /\ CameraRefused
  BY <1>2, WakeTypes DEF CameraRefused, TypeOK, attachVars
<1>3. ASSUME session # None, NEW c \in Cameras, CameraAdded(c)
      PROVE  /\ startFailed' \in BOOLEAN /\ service' \in BOOLEAN
             /\ camera' \in Cameras \cup {None}
             /\ streamState' \in StreamStates
             /\ seenStream' \in StreamStates
             /\ sdkStream' \in [Cameras -> StreamStates \cup {"FREE"}]
             /\ owner' \in [Cameras -> Sessions \cup {None}]
             /\ UNCHANGED startVars
  <2>1. startFailed' = FALSE /\ service' = TRUE /\ camera' = c /\ UNCHANGED startVars
    BY <1>3 DEF CameraAdded
  <2>2. /\ streamState' \in StreamStates
        /\ seenStream' \in StreamStates
    BY <1>3 DEF CameraAdded, TypeOK, StreamStates
  <2>3. sdkStream' \in [Cameras -> StreamStates \cup {"FREE"}]
    <3>1. sdkStream \in [Cameras -> StreamStates \cup {"FREE"}]
      BY DEF TypeOK
    <3> QED
      BY <1>3, <3>1 DEF CameraAdded, StreamStates
  <2>4. owner' \in [Cameras -> Sessions \cup {None}]
    <3>1. owner \in [Cameras -> Sessions \cup {None}] /\ session \in Sessions \cup {None}
      BY DEF TypeOK
    <3> QED
      BY <1>3, <3>1 DEF CameraAdded
  <2> QED
    BY <2>1, <2>2, <2>3, <2>4
<1>4. UNCHANGED startVars =>
          /\ gateOpen' \in BOOLEAN
          /\ session' \in Sessions \cup {None}
          /\ sessionState' \in SessionStates
          /\ sdkSession' \in [Sessions -> SessionStates]
          /\ stopAsked' \in [Sessions -> BOOLEAN]
          /\ seenSession' \in [Sessions -> SessionStates \cup {"NONE"}]
  BY DEF startVars, TypeOK
<1> QED
  BY <1>1, <1>2, <1>3, <1>4 DEF BeginStream

------------------------------------------------------------------------------
\* Types

\* The initial values of the view models are typed.
LEMMA InitTypes == Init => TypeOK
<1> SUFFICES ASSUME Init PROVE TypeOK
  OBVIOUS
<1>1. /\ 0 \in 0..MaxRequests /\ 0 \in 0..MaxRecovery /\ 0 \in 0..MaxDelays
  OBVIOUS
<1> QED
  BY <1>1 DEF Init, TypeOK, SessionStates, StreamStates

\* The calls of the screens and the gestures keep the types.
LEMMA UserTypes == TypeOK /\ UserStep => TypeOK'
<1> SUFFICES ASSUME TypeOK, UserStep PROVE TypeOK'
  OBVIOUS
<1> USE DEF promptVars, recoveryVars, attachVars
<1>1. CASE EnableSession
  <2>1. /\ gateOpen' \in BOOLEAN
        /\ session' \in Sessions \cup {None}
        /\ sessionState' \in SessionStates
        /\ sdkSession' \in [Sessions -> SessionStates]
        /\ stopAsked' \in [Sessions -> BOOLEAN]
        /\ seenSession' \in [Sessions -> SessionStates \cup {"NONE"}]
    <3> QED
      BY <1>1, WakeTypes DEF EnableSession
  <2>2. isSessionEnabled' \in BOOLEAN
    BY <1>1 DEF EnableSession
  <2>3. service' \in BOOLEAN
    BY <1>1 DEF EnableSession, TypeOK
  <2>4. UNCHANGED <<attachVars, promptVars, recoveryVars, startFailed, ready>>
    BY <1>1 DEF EnableSession
  <2> QED
    BY <2>1, <2>2, <2>3, <2>4 DEF TypeOK
<1>2. CASE DisableSession
  <2>1. sessionState' \in SessionStates /\ isSessionEnabled' \in BOOLEAN /\ service' \in BOOLEAN
    BY <1>2 DEF DisableSession, TypeOK, SessionStates
  <2>2. stopAsked' \in [Sessions -> BOOLEAN]
    <3>1. stopAsked \in [Sessions -> BOOLEAN]
      BY DEF TypeOK
    <3> QED
      BY <1>2, <3>1 DEF DisableSession
  <2>3. UNCHANGED <<gateOpen, session, sdkSession, seenSession, attachVars, promptVars,
                    recoveryVars, startFailed, ready>>
    BY <1>2 DEF DisableSession
  <2> QED
    BY <2>1, <2>2, <2>3 DEF TypeOK
<1>3. CASE StartLifeLensSession
  BY <1>3, WakeTypes DEF StartLifeLensSession, StartStreaming, TypeOK, streamVars
<1>4. CASE ConfirmRedirect
  <2>1. requests' \in 0..MaxRequests
    BY <1>4, CounterStep DEF ConfirmRedirect, TypeOK
  <2> QED
    BY <1>4, <2>1 DEF ConfirmRedirect, TypeOK, startVars, streamVars
<1>5. CASE CancelRedirect
  BY <1>5 DEF CancelRedirect, TypeOK, startVars, streamVars
<1>6. CASE ViewModelCleared
  <2>1. /\ 0 \in 0..MaxRequests /\ 0 \in 0..MaxRecovery /\ 0 \in 0..MaxDelays
    OBVIOUS
  <2>2. stopAsked' \in [Sessions -> BOOLEAN]
    BY <1>6 DEF ViewModelCleared
  <2>3. /\ sdkStream' \in [Cameras -> StreamStates \cup {"FREE"}]
        /\ owner' \in [Cameras -> Sessions \cup {None}]
        /\ seenSession' \in [Sessions -> SessionStates \cup {"NONE"}]
        /\ sdkSession' \in [Sessions -> SessionStates]
    BY <1>6 DEF ViewModelCleared, TypeOK
  <2> QED
    BY <1>6, <2>1, <2>2, <2>3 DEF ViewModelCleared, TypeOK, SessionStates, StreamStates
<1>7. CASE ListeningStarts
  BY <1>7 DEF ListeningStarts, TypeOK, appVars, sdkVars, seenVars
<1> QED
  BY <1>1, <1>2, <1>3, <1>4, <1>5, <1>6, <1>7 DEF UserStep

\* Resumed coroutines and delivered states keep the types.
LEMMA AppTypes == TypeOK /\ NoOrphanCamera /\ AppStep => TypeOK'
<1> SUFFICES ASSUME TypeOK, NoOrphanCamera, AppStep PROVE TypeOK'
  OBVIOUS
<1> USE DEF promptVars, recoveryVars, attachVars
<1>1. CASE CheckGranted
  <2>1. BeginStream
    BY <1>1 DEF CheckGranted
  <2> QED
    BY <1>1, <2>1, BeginStreamTypes DEF CheckGranted, TypeOK
<1>2. CASE CheckDenied
  BY <1>2 DEF CheckDenied, TypeOK, startVars, streamVars
<1>3. CASE CheckFails
  BY <1>3, WakeTypes DEF CheckFails, TypeOK, streamVars
<1>4. CASE RequestGranted
  <2>1. BeginStream /\ requests' \in 0..MaxRequests
    BY <1>4, CounterStep DEF RequestGranted, TypeOK
  <2> QED
    BY <1>4, <2>1, BeginStreamTypes DEF RequestGranted, TypeOK
<1>5. CASE RequestDenied
  <2>1. requests' \in 0..MaxRequests
    BY <1>5, CounterStep DEF RequestDenied, TypeOK
  <2> QED
    BY <1>5, <2>1, WakeTypes DEF RequestDenied, TypeOK, streamVars
<1>6. CASE RecoveryDelayOver
  <2>1. delays' \in 0..MaxDelays
    BY <1>6, CounterStep DEF RecoveryDelayOver, TypeOK
  <2>2. CASE sessionState = "STARTED"
    BY <1>6, <2>1, <2>2 DEF RecoveryDelayOver, StartStreaming, TypeOK, streamVars, startVars
  <2>3. CASE sessionState # "STARTED"
    BY <1>6, <2>1, <2>3, WakeTypes DEF RecoveryDelayOver, TypeOK, streamVars
  <2> QED
    BY <2>2, <2>3
<1>7. ASSUME NEW s \in Sessions, SessionDelivered(s) PROVE TypeOK'
  <2>1. CASE sdkSession[s] = "STOPPED"
    <3> DEFINE seen == [seenSession EXCEPT ![session] = "NONE"]
    <3>1. seen \in [Sessions -> SessionStates \cup {"NONE"}]
      BY DEF TypeOK
    <3>2. AutoStart("STOPPED", None, seen)
      BY <1>7, <2>1 DEF SessionDelivered
    <3>3. /\ gateOpen' \in BOOLEAN
          /\ session' \in Sessions \cup {None}
          /\ sessionState' \in SessionStates
          /\ sdkSession' \in [Sessions -> SessionStates]
          /\ stopAsked' \in [Sessions -> BOOLEAN]
          /\ seenSession' \in [Sessions -> SessionStates \cup {"NONE"}]
      <4>1. "STOPPED" \in SessionStates /\ None \in Sessions \cup {None}
        BY DEF SessionStates, TypeOK
      <4> HIDE DEF seen
      <4> QED
        BY <3>1, <3>2, <4>1, AutoStartTypes
    <3> QED
      BY <1>7, <2>1, <3>3 DEF SessionDelivered, TypeOK, streamVars
  <2>2. CASE sdkSession[s] # "STOPPED"
    <3>1. isStartingStream' \in BOOLEAN /\ startFailed' \in BOOLEAN
      BY <1>7, <2>2 DEF SessionDelivered, StartStreaming, TypeOK
    <3>2. /\ sessionState' \in SessionStates
          /\ seenSession' \in [Sessions -> SessionStates \cup {"NONE"}]
          /\ UNCHANGED <<gateOpen, session, sdkSession, stopAsked>>
      BY <1>7, <2>2 DEF SessionDelivered, TypeOK
    <3>3. UNCHANGED <<isSessionEnabled, streamVars, showConfirm, requests, recoveryVars, ready>>
      BY <1>7 DEF SessionDelivered
    <3> QED
      BY <3>1, <3>2, <3>3 DEF TypeOK, streamVars
  <2> QED
    BY <2>1, <2>2
<1>8. CASE StreamDelivered
  <2>1. camera \in Cameras /\ sdkStream[camera] \in StreamStates
    BY <1>8 DEF StreamDelivered, NoOrphanCamera, TypeOK
  <2>2. CASE sdkStream[camera] # "STOPPED"
    BY <1>8, <2>1, <2>2 DEF StreamDelivered, TypeOK, startVars
  <2>3. CASE sdkStream[camera] = "STOPPED"
    <3>1. ClearStreamResources /\ UNCHANGED <<isSessionEnabled, startVars, promptVars, startFailed, ready>>
      BY <1>8, <2>3 DEF StreamDelivered
    <3>2. streamRecoveryAttempts' \in 0..MaxRecovery /\ delays' \in 0..MaxDelays
      BY <1>8, <2>3, CounterStep DEF StreamDelivered, MayRecover, TypeOK
    <3> QED
      BY <3>1, <3>2 DEF ClearStreamResources, TypeOK, startVars, StreamStates
  <2> QED
    BY <2>2, <2>3
<1> QED
  BY <1>1, <1>2, <1>3, <1>4, <1>5, <1>6, <1>7, <1>8 DEF AppStep

\* The SDK and the wearables view model keep the types.
LEMMA EnvTypes == TypeOK /\ EnvStep => TypeOK'
<1> SUFFICES ASSUME TypeOK, EnvStep PROVE TypeOK'
  OBVIOUS
<1>1. CASE RetryGateOpens
  BY <1>1 DEF RetryGateOpens, TypeOK, streamVars, attachVars, promptVars, recoveryVars
<1>2. CASE WearablesChanged
  BY <1>2, WakeTypes DEF WearablesChanged, TypeOK, streamVars, attachVars, promptVars, recoveryVars
<1>3. ASSUME NEW s \in Sessions, NEW to \in SessionStates, SdkSessionMoves(s, to)
      PROVE  TypeOK'
  BY <1>3 DEF SdkSessionMoves, TypeOK, appVars, seenVars
<1>4. ASSUME NEW c \in Cameras, NEW to \in StreamStates, SdkStreamMoves(c, to)
      PROVE  TypeOK'
  BY <1>4 DEF SdkStreamMoves, TypeOK, appVars, seenVars
<1>5. ASSUME NEW s \in Sessions,
             SessionStarts(s) \/ SessionPauses(s) \/ SessionStops(s) \/ SessionDrops(s)
      PROVE  TypeOK'
  BY <1>3, <1>5 DEF SessionStarts, SessionPauses, SessionStops, SessionDrops, SessionStates
<1>6. ASSUME NEW c \in Cameras, StreamStarts(c) \/ StreamPauses(c) \/ StreamEnds(c)
      PROVE  TypeOK'
  BY <1>4, <1>6 DEF StreamStarts, StreamPauses, StreamEnds, StreamStates
<1> QED
  BY <1>1, <1>2, <1>5, <1>6 DEF EnvStep

------------------------------------------------------------------------------
\* The session held

\* An automatic start, made when `held` satisfies the invariant, ends in a state that does.
LEMMA AutoStartHolds ==
    ASSUME TypeOK, NEW shown \in SessionStates, NEW held \in Sessions \cup {None},
           NEW seen \in [Sessions -> SessionStates \cup {"NONE"}],
           isSessionEnabled' \in BOOLEAN,
           AutoStart(shown, held, seen),
           \A s \in Sessions : seen[s] # "NONE" <=> s = held,
           \A s \in Sessions : seen[s] # "NONE" /\ sdkSession[s] = "IDLE" => seen[s] = "IDLE",
           shown = "STOPPED" \/ (shown = "IDLE" /\ gateOpen) => held = None,
           HasSession(shown) => held # None,
           \A s \in Sessions : sdkSession[s] # "STOPPED" /\ ~stopAsked[s] => s = held,
           isSessionEnabled' \/ held = None \/ stopAsked[held]
    PROVE  HoldInv'
<1> USE DEF HoldInv, CollectorIsHeld, IdleIsSeenFirst, FreeToStart, ShownSessionIsHeld,
            NoOrphanSession, DisabledIsStopping
<1>1. CASE ~MayAutoStart(shown)
  BY <1>1 DEF AutoStart, HasSession
<1>2. CASE MayAutoStart(shown)
  <2>1. held = None /\ isSessionEnabled' /\ gateOpen' = FALSE
    BY <1>2 DEF AutoStart, MayAutoStart, HasSession, SessionStates
  <2>2. CASE \E s \in Sessions : SessionCreated(s, seen)
    <3>1. PICK s \in Sessions : SessionCreated(s, seen)
      BY <2>2
    <3>2. /\ session' = s /\ sessionState' \in {"STARTING", "IDLE"}
          /\ sdkSession' = [sdkSession EXCEPT ![s] = "IDLE"]
          /\ stopAsked' = [stopAsked EXCEPT ![s] = FALSE]
          /\ seenSession' = [seen EXCEPT ![s] = "IDLE"]
      BY <3>1 DEF SessionCreated
    <3>3. /\ \A t \in Sessions : seenSession'[t] = IF t = s THEN "IDLE" ELSE seen[t]
          /\ \A t \in Sessions : sdkSession'[t] = IF t = s THEN "IDLE" ELSE sdkSession[t]
          /\ \A t \in Sessions : stopAsked'[t] = IF t = s THEN FALSE ELSE stopAsked[t]
      BY <3>2 DEF TypeOK
    <3> QED
      BY <2>1, <3>2, <3>3 DEF HasSession
  <2>3. CASE SessionRefused(shown, held, seen)
    BY <1>2, <2>1, <2>3 DEF SessionRefused, MayAutoStart, HasSession
  <2> QED
    BY <1>2, <2>2, <2>3 DEF AutoStart
<1> QED
  BY <1>1, <1>2

\* So does a wake-up of the collector that starts sessions, whether it starts one or not.
LEMMA WakeHolds ==
    ASSUME TypeOK, HoldInv, Wake, isSessionEnabled' = isSessionEnabled \/ isSessionEnabled' = TRUE
    PROVE  HoldInv'
<1>1. /\ session \in Sessions \cup {None} /\ sessionState \in SessionStates
      /\ seenSession \in [Sessions -> SessionStates \cup {"NONE"}]
      /\ isSessionEnabled' \in BOOLEAN
  BY DEF TypeOK
<1>2. AutoStart(sessionState, session, seenSession)
  BY DEF Wake
<1> QED
  BY <1>1, <1>2, AutoStartHolds
     DEF HoldInv, CollectorIsHeld, IdleIsSeenFirst, FreeToStart, ShownSessionIsHeld,
         NoOrphanSession, DisabledIsStopping

\* HoldInv reads the variables of the session only.
LEMMA HoldUnchanged ==
    ASSUME HoldInv, UNCHANGED <<isSessionEnabled, startVars>>
    PROVE  HoldInv'
  BY DEF HoldInv, CollectorIsHeld, IdleIsSeenFirst, FreeToStart, ShownSessionIsHeld,
         NoOrphanSession, DisabledIsStopping, startVars

\* Adding a camera, or failing to, keeps the session held.
LEMMA BeginStreamHolds ==
    ASSUME TypeOK, HoldInv, BeginStream, UNCHANGED isSessionEnabled
    PROVE  HoldInv'
  BY WakeHolds, HoldUnchanged DEF BeginStream, CameraRefused, CameraAdded

\* The calls of the screens and the gestures keep every running session held.
LEMMA UserHolds == TypeOK /\ HoldInv /\ UserStep => HoldInv'
<1> SUFFICES ASSUME TypeOK, HoldInv, UserStep PROVE HoldInv'
  OBVIOUS
<1>1. CASE EnableSession
  BY <1>1, WakeHolds DEF EnableSession
<1>2. CASE DisableSession
  BY <1>2 DEF DisableSession, TypeOK, HoldInv, CollectorIsHeld, IdleIsSeenFirst, FreeToStart,
              ShownSessionIsHeld, NoOrphanSession, DisabledIsStopping, HasSession
<1>3. CASE StartLifeLensSession
  BY <1>3, WakeHolds DEF StartLifeLensSession
<1>4. CASE ConfirmRedirect
  BY <1>4, HoldUnchanged DEF ConfirmRedirect
<1>5. CASE CancelRedirect
  BY <1>5, HoldUnchanged DEF CancelRedirect
<1>6. CASE ViewModelCleared
  BY <1>6 DEF ViewModelCleared, TypeOK, HoldInv, CollectorIsHeld, IdleIsSeenFirst, FreeToStart,
              ShownSessionIsHeld, NoOrphanSession, DisabledIsStopping, HasSession
<1>7. CASE ListeningStarts
  BY <1>7, HoldUnchanged DEF ListeningStarts, appVars, sdkVars, seenVars, startVars
<1> QED
  BY <1>1, <1>2, <1>3, <1>4, <1>5, <1>6, <1>7 DEF UserStep

\* Resumed coroutines and delivered states keep every running session held.
LEMMA AppHolds == TypeOK /\ HoldInv /\ AppStep => HoldInv'
<1> SUFFICES ASSUME TypeOK, HoldInv, AppStep PROVE HoldInv'
  OBVIOUS
<1>1. CASE CheckGranted \/ RequestGranted
  BY <1>1, BeginStreamHolds DEF CheckGranted, RequestGranted
<1>2. CASE CheckDenied
  BY <1>2, HoldUnchanged DEF CheckDenied
<1>3. CASE CheckFails \/ RequestDenied
  BY <1>3, WakeHolds DEF CheckFails, RequestDenied
<1>4. CASE RecoveryDelayOver
  BY <1>4, WakeHolds, HoldUnchanged DEF RecoveryDelayOver
<1>5. ASSUME NEW s \in Sessions, SessionDelivered(s) PROVE HoldInv'
  <2>1. s = session /\ isSessionEnabled' = isSessionEnabled
    BY <1>5 DEF SessionDelivered, HoldInv, CollectorIsHeld
  <2>2. CASE sdkSession[s] = "STOPPED"
    <3> DEFINE seen == [seenSession EXCEPT ![session] = "NONE"]
    <3>1. /\ AutoStart("STOPPED", None, seen)
          /\ seen \in [Sessions -> SessionStates \cup {"NONE"}]
          /\ isSessionEnabled' \in BOOLEAN
          /\ "STOPPED" \in SessionStates /\ ~HasSession("STOPPED")
      BY <1>5, <2>1, <2>2 DEF SessionDelivered, TypeOK, SessionStates, HasSession
    <3>2. \A t \in Sessions : seen[t] = "NONE"
      BY <2>1 DEF HoldInv, CollectorIsHeld, TypeOK
    <3>3. \A t \in Sessions : sdkSession[t] = "STOPPED" \/ stopAsked[t]
      BY <2>1, <2>2 DEF HoldInv, NoOrphanSession
    <3> HIDE DEF seen
    <3> QED
      BY <3>1, <3>2, <3>3, AutoStartHolds
  <2>3. CASE sdkSession[s] # "STOPPED"
    <3>1. /\ sessionState' = sdkSession[s]
          /\ seenSession' = [seenSession EXCEPT ![s] = sdkSession[s]]
          /\ UNCHANGED <<gateOpen, session, sdkSession, stopAsked, isSessionEnabled>>
      BY <1>5, <2>3 DEF SessionDelivered
    <3>2. /\ sdkSession[s] \in SessionStates \ {"STOPPED", "IDLE"}
          /\ seenSession[s] # "NONE"
      BY <1>5, <2>3 DEF SessionDelivered, TypeOK, HoldInv, IdleIsSeenFirst
    <3>3. \A t \in Sessions : seenSession'[t] = IF t = s THEN sdkSession[s] ELSE seenSession[t]
      BY <3>1 DEF TypeOK
    <3> QED
      BY <2>1, <3>1, <3>2, <3>3
         DEF HoldInv, CollectorIsHeld, IdleIsSeenFirst, FreeToStart, ShownSessionIsHeld,
             NoOrphanSession, DisabledIsStopping, SessionStates
  <2> QED
    BY <2>2, <2>3
<1>6. CASE StreamDelivered
  BY <1>6, HoldUnchanged DEF StreamDelivered
<1> QED
  BY <1>1, <1>2, <1>3, <1>4, <1>5, <1>6 DEF AppStep

\* The SDK moves sessions on, it never makes one.
LEMMA EnvHolds == TypeOK /\ HoldInv /\ EnvStep => HoldInv'
<1> SUFFICES ASSUME TypeOK, HoldInv, EnvStep PROVE HoldInv'
  OBVIOUS
<1>1. CASE RetryGateOpens
  BY <1>1 DEF RetryGateOpens, HoldInv, CollectorIsHeld, IdleIsSeenFirst, FreeToStart,
              ShownSessionIsHeld, NoOrphanSession, DisabledIsStopping
<1>2. CASE WearablesChanged
  BY <1>2, WakeHolds DEF WearablesChanged
<1>3. ASSUME NEW s \in Sessions, NEW to \in SessionStates \ {"IDLE"}, SdkSessionMoves(s, to),
             sdkSession[s] # "STOPPED"
      PROVE  HoldInv'
  <2>1. \A t \in Sessions : sdkSession'[t] = IF t = s THEN to ELSE sdkSession[t]
    BY <1>3 DEF SdkSessionMoves, TypeOK
  <2>2. UNCHANGED <<isSessionEnabled, gateOpen, session, sessionState, stopAsked, seenSession>>
    BY <1>3 DEF SdkSessionMoves, appVars, seenVars
  <2> QED
    BY <1>3, <2>1, <2>2 DEF HoldInv, CollectorIsHeld, IdleIsSeenFirst, FreeToStart,
                            ShownSessionIsHeld, NoOrphanSession, DisabledIsStopping
<1>4. ASSUME NEW c \in Cameras, StreamStarts(c) \/ StreamPauses(c) \/ StreamEnds(c)
      PROVE  HoldInv'
  BY <1>4, HoldUnchanged
     DEF StreamStarts, StreamPauses, StreamEnds, SdkStreamMoves, appVars, seenVars, startVars
<1>5. ASSUME NEW s \in Sessions,
             SessionStarts(s) \/ SessionPauses(s) \/ SessionStops(s) \/ SessionDrops(s)
      PROVE  HoldInv'
  BY <1>3, <1>5 DEF SessionStarts, SessionPauses, SessionStops, SessionDrops, SessionStates
<1> QED
  BY <1>1, <1>2, <1>4, <1>5 DEF EnvStep

------------------------------------------------------------------------------
\* The camera held

\* StreamInv reads the variables of the stream and, of the session it runs on, whether it has ended.
LEMMA StreamUnchanged ==
    ASSUME StreamInv, UNCHANGED <<streamVars, sdkSession, stopAsked>>
    PROVE  StreamInv'
  BY DEF StreamInv, NoOrphanCamera, ShownStreamIsHeld, LiveStreamIsServed, StreamIsLive,
         streamVars, attachVars

\* With the camera left alone, StreamInv is kept by whatever brings no stream to life again and
\* takes the service from none that is live.
LEMMA StreamKept ==
    ASSUME StreamInv, UNCHANGED attachVars,
           StreamIsLive' => StreamIsLive /\ (service => service')
    PROVE  StreamInv'
  BY DEF StreamInv, NoOrphanCamera, ShownStreamIsHeld, LiveStreamIsServed, attachVars

\* An automatic start never touches the session of a stream: the SDK does not hand it out.
LEMMA AutoStartLeavesLive ==
    ASSUME TypeOK, NEW shown, NEW held, NEW seen, AutoStart(shown, held, seen),
           UNCHANGED <<camera, owner>>
    PROVE  StreamIsLive' => StreamIsLive
<1>1. CASE UNCHANGED <<sdkSession, stopAsked>>
  BY <1>1 DEF StreamIsLive
<1>2. ASSUME NEW s \in Sessions, SessionCreated(s, seen)
      PROVE  StreamIsLive' => StreamIsLive
  <2>1. /\ sdkSession' = [sdkSession EXCEPT ![s] = "IDLE"]
        /\ stopAsked' = [stopAsked EXCEPT ![s] = FALSE]
        /\ \A c \in Cameras : owner[c] # s
    BY <1>2 DEF SessionCreated, Available
  <2>2. camera # None => owner[camera] # s /\ owner[camera] \in Sessions \cup {None}
    BY <2>1 DEF TypeOK
  <2> QED
    BY <2>1, <2>2 DEF StreamIsLive, TypeOK
<1> QED
  BY <1>1, <1>2 DEF AutoStart, SessionRefused

\* Nor does a wake-up of the collector.
LEMMA WakeServes ==
    ASSUME TypeOK, StreamInv, Wake, UNCHANGED attachVars,
           camera = None \/ (service => service')
    PROVE  StreamInv'
<1>1. StreamIsLive' => StreamIsLive
  BY AutoStartLeavesLive DEF Wake, attachVars
<1>2. StreamIsLive' => camera # None
  BY <1>1 DEF StreamIsLive
<1> QED
  BY <1>1, <1>2, StreamKept

\* beginStream closes no camera and asks for the service with the one it adds.
LEMMA BeginStreamAttaches ==
    ASSUME TypeOK, StreamInv, BeginStream
    PROVE  StreamInv'
<1>1. CASE session = None \/ camera # None
  BY <1>1, StreamUnchanged DEF BeginStream, startVars
<1>2. CASE session # None /\ camera = None /\ CameraRefused
  BY <1>2, WakeServes DEF CameraRefused
<1>3. CASE session # None /\ camera = None /\ \E c \in Cameras : CameraAdded(c)
  <2>1. PICK c \in Cameras : CameraAdded(c)
    BY <1>3
  <2>2. \A d \in Cameras : sdkStream'[d] = IF d = c THEN "STARTING" ELSE sdkStream[d]
    BY <2>1 DEF CameraAdded, TypeOK
  <2>3. NoOrphanCamera'
    BY <1>3, <2>1, <2>2 DEF CameraAdded, StreamInv, NoOrphanCamera
  <2>4. ShownStreamIsHeld' /\ LiveStreamIsServed'
    BY <2>1 DEF CameraAdded, ShownStreamIsHeld, LiveStreamIsServed
  <2> QED
    BY <2>3, <2>4 DEF StreamInv
<1> QED
  BY <1>1, <1>2, <1>3 DEF BeginStream

\* clearStreamResources leaves no camera behind.
LEMMA ClearStreamDetaches ==
    ASSUME TypeOK, StreamInv, camera # None, ClearStreamResources
    PROVE  StreamInv'
<1>1. \A d \in Cameras : sdkStream'[d] = IF d = camera THEN "FREE" ELSE sdkStream[d]
  BY DEF ClearStreamResources, TypeOK
<1> QED
  BY <1>1 DEF ClearStreamResources, StreamInv, NoOrphanCamera, ShownStreamIsHeld,
              LiveStreamIsServed, StreamIsLive

\* The switch stops the service while the stream is still attached: the session of that stream, if
\* it runs and was not asked to stop before, is the one held, and is asked to stop first.
LEMMA DisableKillsFirst ==
    ASSUME TypeOK, StreamInv, NoOrphanSession, DisableSession
    PROVE  StreamInv'
<1>1. UNCHANGED attachVars /\ UNCHANGED sdkSession
  BY DEF DisableSession
<1>2. SUFFICES ASSUME StreamIsLive' PROVE FALSE
  BY <1>1, StreamKept
<1> DEFINE s == owner[camera]
<1>3. s \in Sessions /\ sdkSession[s] # "STOPPED" /\ ~stopAsked'[s]
  BY <1>1, <1>2 DEF StreamIsLive, attachVars, TypeOK
<1>4. CASE session # None
  BY <1>3, <1>4 DEF DisableSession, NoOrphanSession, TypeOK
<1>5. CASE session = None
  BY <1>3, <1>5 DEF DisableSession, NoOrphanSession
<1> QED
  BY <1>4, <1>5

\* Every step keeps the camera held and a live stream served.
LEMMA StreamStep == TypeOK /\ NoOrphanSession /\ StreamInv /\ Next => StreamInv'
<1> SUFFICES ASSUME TypeOK, NoOrphanSession, StreamInv, Next PROVE StreamInv'
  OBVIOUS
<1>1. CASE EnableSession \/ StartLifeLensSession
  <2>1. Wake /\ UNCHANGED attachVars
    BY <1>1 DEF EnableSession, StartLifeLensSession, streamVars
  <2>2. service' = service \/ service' = TRUE
    BY <1>1 DEF EnableSession, StartLifeLensSession, streamVars
  <2>3. service => service'
    BY <2>2, Zenon
  <2> QED
    BY <2>1, <2>3, WakeServes
<1>2. CASE DisableSession
  BY <1>2, DisableKillsFirst
<1>3. CASE ListeningStarts
  BY <1>3, StreamKept
     DEF ListeningStarts, StreamIsLive, appVars, sdkVars, seenVars, attachVars
<1>4. CASE ConfirmRedirect \/ CancelRedirect \/ CheckDenied
  BY <1>4, StreamUnchanged DEF ConfirmRedirect, CancelRedirect, CheckDenied, startVars
<1>5. CASE ViewModelCleared
  BY <1>5 DEF ViewModelCleared, StreamInv, NoOrphanCamera, ShownStreamIsHeld,
              LiveStreamIsServed, StreamIsLive
<1>6. CASE CheckGranted \/ RequestGranted
  BY <1>6, BeginStreamAttaches DEF CheckGranted, RequestGranted
<1>7. CASE CheckFails \/ RequestDenied \/ WearablesChanged
  BY <1>7, WakeServes DEF CheckFails, RequestDenied, WearablesChanged, streamVars
<1>8. CASE RecoveryDelayOver
  <2>1. UNCHANGED streamVars /\ (UNCHANGED startVars \/ Wake)
    BY <1>8 DEF RecoveryDelayOver
  <2> QED
    BY <2>1, WakeServes, StreamUnchanged DEF streamVars, startVars
<1>9. ASSUME NEW s \in Sessions, SessionDelivered(s) PROVE StreamInv'
  <2>1. CASE sdkSession[s] = "STOPPED"
    <3>1. /\ AutoStart("STOPPED", None, [seenSession EXCEPT ![session] = "NONE"])
          /\ UNCHANGED streamVars
      BY <1>9, <2>1 DEF SessionDelivered
    <3>2. StreamIsLive' => StreamIsLive
      BY <3>1, AutoStartLeavesLive DEF streamVars, attachVars
    <3> QED
      BY <3>1, <3>2, StreamKept DEF streamVars
  <2>2. CASE sdkSession[s] # "STOPPED"
    BY <1>9, <2>2, StreamUnchanged DEF SessionDelivered
  <2> QED
    BY <2>1, <2>2
<1>10. CASE StreamDelivered
  <2>1. CASE ClearStreamResources
    BY <1>10, <2>1, ClearStreamDetaches DEF StreamDelivered
  <2>2. CASE ~ClearStreamResources
    BY <1>10, <2>2
       DEF StreamDelivered, StreamInv, NoOrphanCamera, ShownStreamIsHeld, LiveStreamIsServed,
           StreamIsLive, startVars
  <2> QED
    BY <2>1, <2>2
<1>11. CASE RetryGateOpens
  BY <1>11, StreamUnchanged DEF RetryGateOpens
<1>12. ASSUME NEW s \in Sessions, NEW to \in SessionStates, SdkSessionMoves(s, to),
              sdkSession[s] # "STOPPED"
       PROVE  StreamInv'
  <2>1. \A t \in Sessions : sdkSession'[t] = IF t = s THEN to ELSE sdkSession[t]
    BY <1>12 DEF SdkSessionMoves, TypeOK
  <2>2. UNCHANGED <<streamVars, stopAsked>>
    BY <1>12 DEF SdkSessionMoves, appVars, seenVars, streamVars, attachVars
  <2>3. StreamIsLive' => StreamIsLive
    BY <1>12, <2>1, <2>2 DEF StreamIsLive, TypeOK, streamVars, attachVars
  <2> QED
    BY <2>2, <2>3, StreamKept DEF streamVars
<1>13. ASSUME NEW s \in Sessions,
              SessionStarts(s) \/ SessionPauses(s) \/ SessionStops(s) \/ SessionDrops(s)
       PROVE  StreamInv'
  BY <1>12, <1>13 DEF SessionStarts, SessionPauses, SessionStops, SessionDrops, SessionStates
<1>14. ASSUME NEW c \in Cameras, NEW to \in StreamStates, SdkStreamMoves(c, to),
              sdkStream[c] # "FREE"
       PROVE  StreamInv'
  <2>1. \A d \in Cameras : sdkStream'[d] = IF d = c THEN to ELSE sdkStream[d]
    BY <1>14 DEF SdkStreamMoves, TypeOK
  <2>2. UNCHANGED <<camera, streamState, service, owner, sdkSession, stopAsked>>
    BY <1>14 DEF SdkStreamMoves, appVars
  <2>3. NoOrphanCamera'
    BY <1>14, <2>1, <2>2 DEF StreamInv, NoOrphanCamera, StreamStates
  <2>4. ShownStreamIsHeld' /\ LiveStreamIsServed'
    BY <2>2 DEF StreamInv, ShownStreamIsHeld, LiveStreamIsServed, StreamIsLive
  <2> QED
    BY <2>3, <2>4 DEF StreamInv
<1>15. ASSUME NEW c \in Cameras, StreamStarts(c) \/ StreamPauses(c) \/ StreamEnds(c)
       PROVE  StreamInv'
  BY <1>14, <1>15 DEF StreamStarts, StreamPauses, StreamEnds, StreamStates
<1> QED
  BY <1>1, <1>2, <1>3, <1>4, <1>5, <1>6, <1>7, <1>8, <1>9, <1>10, <1>11, <1>13, <1>15
     DEF Next, UserStep, AppStep, EnvStep

------------------------------------------------------------------------------
\* The start that is pending

\* An automatic start never leaves a connected session behind: it finds none.
LEMMA AutoStartKeepsStarted ==
    ASSUME NEW shown, NEW held, NEW seen,
           AutoStart(shown, held, seen), sessionState' = "STARTED"
    PROVE  shown = "STARTED" /\ session' = held /\ UNCHANGED stopAsked
  BY DEF AutoStart, MayAutoStart, SessionCreated, SessionRefused, HasSession

\* Nor does a wake-up of the collector.
LEMMA WakeKeepsStarted ==
    ASSUME Wake, sessionState' = "STARTED"
    PROVE  UNCHANGED <<session, sessionState, stopAsked>>
  BY AutoStartKeepsStarted DEF Wake

\* The calls of the screens and the gestures leave a start pending, made or explained.
LEMMA UserPending == TypeOK /\ HoldInv /\ StartIsPending /\ UserStep => StartIsPending'
<1> SUFFICES ASSUME TypeOK, HoldInv, StartIsPending, UserStep,
                    isSessionEnabled', sessionState' = "STARTED", ~stopAsked'[session'],
                    camera' = None
             PROVE  \/ isStartingStream' \/ showConfirm' \/ requests' > 0 \/ delays' > 0
                    \/ startFailed' \/ streamRecoveryAttempts' = MaxRecovery
  BY DEF StartIsPending
<1> USE DEF promptVars, recoveryVars, streamVars, attachVars
<1>1. CASE EnableSession
  <2>1. UNCHANGED <<session, sessionState, stopAsked>>
    BY <1>1, WakeKeepsStarted DEF EnableSession
  <2>2. session # None
    BY <2>1 DEF HoldInv, ShownSessionIsHeld, HasSession
  <2> QED
    BY <1>1, <2>1, <2>2 DEF EnableSession, HoldInv, DisabledIsStopping
<1>2. CASE DisableSession
  BY <1>2 DEF DisableSession
<1>3. CASE StartLifeLensSession
  <2>1. UNCHANGED <<session, sessionState, stopAsked>>
    BY <1>3, WakeKeepsStarted DEF StartLifeLensSession
  <2> QED
    BY <1>3, <2>1 DEF StartLifeLensSession, StartStreaming
<1>4. CASE ConfirmRedirect
  BY <1>4 DEF ConfirmRedirect, startVars, TypeOK
<1>5. CASE CancelRedirect
  BY <1>5 DEF CancelRedirect
<1>6. CASE ViewModelCleared
  BY <1>6 DEF ViewModelCleared
<1>7. CASE ListeningStarts
  BY <1>7 DEF ListeningStarts, StartIsPending, appVars, sdkVars
<1> QED
  BY <1>1, <1>2, <1>3, <1>4, <1>5, <1>6, <1>7 DEF UserStep

\* So do resumed coroutines and delivered states.
LEMMA AppPending == TypeOK /\ HoldInv /\ StartIsPending /\ AppStep => StartIsPending'
<1> SUFFICES ASSUME TypeOK, HoldInv, StartIsPending, AppStep,
                    isSessionEnabled', sessionState' = "STARTED", ~stopAsked'[session'],
                    camera' = None
             PROVE  \/ isStartingStream' \/ showConfirm' \/ requests' > 0 \/ delays' > 0
                    \/ startFailed' \/ streamRecoveryAttempts' = MaxRecovery
  BY DEF StartIsPending
<1> USE DEF promptVars, recoveryVars, streamVars, attachVars
<1>1. CASE CheckGranted \/ RequestGranted
  <2>1. BeginStream
    BY <1>1 DEF CheckGranted, RequestGranted
  <2>2. CASE session = None \/ camera # None
    BY <2>1, <2>2 DEF BeginStream, startVars, HoldInv, ShownSessionIsHeld, HasSession
  <2>3. CASE session # None /\ camera = None
    BY <2>1, <2>3 DEF BeginStream, CameraRefused, CameraAdded, TypeOK
  <2> QED
    BY <2>2, <2>3
<1>2. CASE CheckDenied \/ CheckFails \/ RequestDenied
  BY <1>2 DEF CheckDenied, CheckFails, RequestDenied
<1>3. CASE RecoveryDelayOver
  BY <1>3 DEF RecoveryDelayOver, StartStreaming, startVars
<1>4. ASSUME NEW s \in Sessions, SessionDelivered(s)
      PROVE  isStartingStream' \/ camera # None
  BY <1>4, AutoStartKeepsStarted DEF SessionDelivered, StartStreaming
<1>5. CASE StreamDelivered
  BY <1>5 DEF StreamDelivered, ClearStreamResources, MayRecover, startVars, TypeOK
<1> QED
  BY <1>1, <1>2, <1>3, <1>4, <1>5 DEF AppStep, SessionDelivered

\* The SDK and the wearables view model owe no start to anybody.
LEMMA EnvPending == TypeOK /\ HoldInv /\ StartIsPending /\ EnvStep => StartIsPending'
<1> SUFFICES ASSUME StartIsPending, EnvStep PROVE StartIsPending'
  OBVIOUS
<1> USE DEF StartIsPending, promptVars, recoveryVars, streamVars, attachVars
<1>1. CASE RetryGateOpens
  BY <1>1 DEF RetryGateOpens
<1>2. CASE WearablesChanged
  BY <1>2, WakeKeepsStarted DEF WearablesChanged
<1>3. ASSUME UNCHANGED <<appVars, stopAsked>> PROVE StartIsPending'
  BY <1>3 DEF appVars
<1>4. ASSUME NEW s \in Sessions,
             SessionStarts(s) \/ SessionPauses(s) \/ SessionStops(s) \/ SessionDrops(s)
      PROVE  StartIsPending'
  BY <1>3, <1>4 DEF SessionStarts, SessionPauses, SessionStops, SessionDrops, SdkSessionMoves
<1>5. ASSUME NEW c \in Cameras, StreamStarts(c) \/ StreamPauses(c) \/ StreamEnds(c)
      PROVE  StartIsPending'
  BY <1>3, <1>5 DEF StreamStarts, StreamPauses, StreamEnds, SdkStreamMoves
<1> QED
  BY <1>1, <1>2, <1>4, <1>5 DEF EnvStep

------------------------------------------------------------------------------
\* The theorems

\* The view model starts with no session, no camera and no service.
LEMMA InitIInv == Init => IInv
  BY InitTypes DEF Init, IInv, HoldInv, CollectorIsHeld, IdleIsSeenFirst, FreeToStart,
     ShownSessionIsHeld, NoOrphanSession, DisabledIsStopping, StreamInv, NoOrphanCamera,
     ShownStreamIsHeld, LiveStreamIsServed, StreamIsLive, StartIsPending, HasSession

\* Every step of every handler keeps the invariant.
LEMMA StepIInv == IInv /\ [Next]_vars => IInv'
<1> SUFFICES ASSUME IInv, [Next]_vars PROVE IInv'
  OBVIOUS
<1> USE DEF IInv
<1>1. CASE Next
  <2>1. NoOrphanCamera
    BY DEF StreamInv
  <2>2. TypeOK'
    BY <1>1, <2>1, UserTypes, AppTypes, EnvTypes DEF Next
  <2>3. HoldInv'
    BY <1>1, UserHolds, AppHolds, EnvHolds DEF Next
  <2>4. StreamInv'
    BY <1>1, StreamStep DEF HoldInv
  <2>5. StartIsPending'
    BY <1>1, UserPending, AppPending, EnvPending DEF Next
  <2> QED
    BY <2>2, <2>3, <2>4, <2>5
<1>2. CASE UNCHANGED vars
  <2>1. TypeOK'
    BY <1>2 DEF vars, appVars, sdkVars, seenVars, TypeOK
  <2>2. HoldInv'
    BY <1>2, HoldUnchanged DEF vars, appVars, sdkVars, seenVars, startVars
  <2>3. StreamInv'
    BY <1>2, StreamUnchanged DEF vars, appVars, sdkVars, seenVars, streamVars, attachVars
  <2>4. StartIsPending'
    BY <1>2 DEF vars, appVars, sdkVars, StartIsPending
  <2> QED
    BY <2>1, <2>2, <2>3, <2>4
<1> QED
  BY <1>1, <1>2

\* The invariant the others follow from: every step of every handler keeps it.
THEOREM Inductive == Spec => []IInv
  BY InitIInv, StepIInv, PTL DEF Spec

\* Every variable keeps its type: the counters of CameraViewModel stay within their bounds.
THEOREM TypeCorrect == Spec => []TypeOK
<1>1. IInv => TypeOK
  BY DEF IInv
<1> QED
  BY <1>1, Inductive, PTL

\* No camera is forgotten in the SDK without close(), whatever coroutines reach beginStream.
THEOREM CamerasAreHeld == Spec => []NoOrphanCamera
<1>1. IInv => NoOrphanCamera
  BY DEF IInv, StreamInv
<1> QED
  BY <1>1, Inductive, PTL

\* Whoever stops the foreground service, a stream whose session runs and was not asked to stop has
\* it: the session's switch, which stops the service while the stream is still attached, has asked
\* that session to stop first, whatever sessions overlap.
THEOREM LiveStreamsAreServed == Spec => []LiveStreamIsServed
<1>1. IInv => LiveStreamIsServed
  BY DEF IInv, StreamInv
<1> QED
  BY <1>1, Inductive, PTL

\* No running session is forgotten, and the one that is shown is held and observed.
THEOREM SessionsAreHeld == Spec => [](NoOrphanSession /\ ShownSessionIsHeld)
<1>1. IInv => NoOrphanSession /\ ShownSessionIsHeld
  BY DEF IInv, HoldInv
<1> QED
  BY <1>1, Inductive, PTL

\* A connected, enabled session is left without a stream, and with nothing under way to get one,
\* only when its last start ended in a recorded error or in the user's refusal, or when the recovery
\* budget is spent (it does not say that the user sees the error: no screen shows it).
THEOREM IdlenessIsExplained == Spec => []IdleIsExplained
<1>1. IInv => IdleIsExplained
  BY DEF IInv, TypeOK, StartIsPending, IdleIsExplained
<1> QED
  BY <1>1, Inductive, PTL

==============================================================================
