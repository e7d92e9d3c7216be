---------------------------- MODULE SpeechToText ----------------------------
(***************************************************************************)
(* Speech to text on the phone's microphone: SpeechToTextViewModel, which  *)
(* restarts Android's recognizer after every utterance, and the effect of  *)
(* CameraAccessScaffold that ties listening to the stream of the glasses.  *)
(*                                                                         *)
(* All of it runs on the main thread.  What interleaves is what waits:     *)
(* delayed restarts, callbacks of the recognizer, permission dialogs, and  *)
(* the screen, which composes what has changed some time after it has, and *)
(* nothing while the app is not on it (collectAsStateWithLifecycle).       *)
(*                                                                         *)
(* shouldListen and uiState.isListening change together: one variable.     *)
(* isStarting is only ever set while startRecognition runs.                *)
(*                                                                         *)
(* A result may have no text: a blank partial one erases the subtitle, a   *)
(* blank final one leaves it until something else replaces it.             *)
(* Assumed of the recognizer: it is available.  clearTranscript has no     *)
(* caller.                                                                 *)
(***************************************************************************)
EXTENDS Integers, FiniteSetsExt

CONSTANTS
    Utterances,
    MaxChains,    \* restarts, and BUSY answers, are counted up to this
    Hasty,        \* may the stream or the user change something twice within a frame?
    None

ASSUME SpeechAssumption ==
    /\ MaxChains \in Nat \ {0}
    /\ Hasty \in BOOLEAN
    /\ None \notin Utterances

VARIABLES
    \* ---- what the screen follows ----
    registered, enabled, streaming,
    \* ---- SpeechToTextViewModel ----
    listening,     \* shouldListen
    pending,       \* pendingPartialText
    records,       \* what appendTranscript was given: its coroutine stores them
    restarts,      \* restartRecognition's coroutines
    \* ---- SpeechRecognizer ----
    engine,        \* "idle" or not there, "active", or "stopping" after stopListening
    hearing,       \* the utterance it is in
    busy,          \* answers ERROR_RECOGNIZER_BUSY on their way
    \* ---- CameraAccessScaffold ----
    seen,          \* the keys of its effect, as last composed; None before that
    asking,        \* coroutines that wait for the microphone permission
    granted,       \* RECORD_AUDIO
    onScreen,      \* the activity is started
    \* ---- history ----
    heard          \* utterances whose subtitle was shown while listening, and that the
                   \* recognizer has not answered with a blank result since

keyVars == <<registered, enabled, streaming>>
recordVars == <<pending, records, heard>>
engineVars == <<engine, hearing, busy, restarts>>
screenVars == <<seen, asking, granted, onScreen>>
vars == <<keyVars, listening, recordVars, engineVars, screenVars>>

Keys == {"registered", "enabled", "streaming", "listening"}

Now == [k \in Keys |-> CASE k = "registered" -> registered
                         [] k = "enabled" -> enabled
                         [] k = "streaming" -> streaming
                         [] k = "listening" -> listening]

OneMore(n) == Min({n + 1, MaxChains})

Init ==
    /\ registered \in BOOLEAN /\ enabled = TRUE /\ streaming = FALSE
    /\ listening = FALSE
    /\ pending = None /\ records = {} /\ heard = {}
    /\ engine = "idle" /\ hearing = None /\ busy = 0 /\ restarts = 0
    /\ seen = None /\ asking = {} /\ granted \in BOOLEAN /\ onScreen = TRUE

------------------------------------------------------------------------------
\* The view model's own operations.  Each leaves to its caller what it does not mention.

\* startRecognition: a recognizer that is still at work says that it is busy.
StartRecognition ==
    IF engine = "idle"
    THEN engine' = "active" /\ UNCHANGED busy
    ELSE busy' = OneMore(busy) /\ UNCHANGED engine

\* startListening.  (StreamingService is started too.)
StartListening ==
    IF listening
    THEN UNCHANGED <<listening, recordVars, engineVars>>
    ELSE /\ listening' = TRUE
         /\ StartRecognition
         /\ UNCHANGED <<recordVars, hearing, restarts>>

\* appendTranscript of the partial text.
AppendPending ==
    /\ records' = records \cup ({pending} \ {None})
    /\ pending' = None

\* Mutant: the partial text is thrown away.
StopListeningDropping ==
    /\ pending' = None
    /\ listening' = FALSE
    /\ engine' = IF engine = "active" THEN "stopping" ELSE engine
    /\ UNCHANGED <<records, heard, hearing, busy, restarts>>

StopListening ==
    /\ AppendPending
    /\ listening' = FALSE
    /\ engine' = IF engine = "active" THEN "stopping" ELSE engine
    /\ UNCHANGED <<heard, hearing, busy, restarts>>

ToggleListening == IF listening THEN StopListening ELSE StartListening

------------------------------------------------------------------------------
\* Callbacks and coroutines of the view model

\* The recognizer hears something: an utterance goes on, or a new one begins.
Heard(u) ==
    /\ engine \in {"active", "stopping"}
    /\ IF hearing = None THEN u \notin records \cup {pending} ELSE u = hearing

\* onPartialResults.
OnPartialResults(u) ==
    /\ Heard(u)
    /\ hearing' = u
    /\ pending' = u
    /\ heard' = IF listening THEN heard \cup {u} ELSE heard
    /\ UNCHANGED <<keyVars, listening, records, engine, busy, restarts, screenVars>>

\* onPartialResults without a text (firstOrNull().orEmpty()): the subtitle is erased.
OnBlankPartialResults ==
    /\ engine \in {"active", "stopping"}
    /\ pending' = None
    /\ heard' = heard \ {hearing}
    /\ UNCHANGED <<keyVars, listening, records, engineVars, screenVars>>

\* restartRecognition, up to its delay.
RestartRecognition == restarts' = IF listening THEN OneMore(restarts) ELSE restarts

\* Mutant: a final result ends the session.
OnResultsOnce(u) ==
    /\ Heard(u)
    /\ hearing' = None
    /\ engine' = "idle"
    /\ records' = records \cup {u}
    /\ pending' = None
    /\ UNCHANGED <<keyVars, listening, heard, busy, restarts, screenVars>>

\* onResults: the utterance, whether or not it is still listened to.
OnResults(u) ==
    /\ Heard(u)
    /\ hearing' = None
    /\ engine' = "idle"
    /\ records' = records \cup {u}
    /\ pending' = None
    /\ RestartRecognition
    /\ UNCHANGED <<keyVars, listening, heard, busy, screenVars>>

\* onResults without a text: nothing is appended, and the subtitle is left as it is.
OnBlankResults ==
    /\ engine \in {"active", "stopping"}
    /\ hearing' = None
    /\ engine' = "idle"
    /\ heard' = heard \ {hearing}
    /\ RestartRecognition
    /\ UNCHANGED <<keyVars, listening, pending, records, busy, screenVars>>

\* onError, for an error that ends the recognition or for one that another start has met.
OnError ==
    /\ \/ /\ engine \in {"active", "stopping"}
          /\ engine' = "idle" /\ hearing' = None
          /\ UNCHANGED busy
       \/ /\ busy > 0
          /\ busy' = busy - 1
          /\ UNCHANGED <<engine, hearing>>
    /\ IF listening THEN AppendPending ELSE UNCHANGED <<pending, records>>
    /\ RestartRecognition
    /\ UNCHANGED <<keyVars, listening, heard, screenVars>>

\* The delay of restartRecognition is over.
Restart ==
    /\ restarts > 0
    /\ restarts' = restarts - 1
    /\ IF listening THEN StartRecognition ELSE UNCHANGED <<engine, busy>>
    /\ UNCHANGED <<keyVars, listening, recordVars, hearing, screenVars>>

\* Mutant: the recognizer is dropped in the middle of an utterance without being destroyed.
OnClearedHearing ==
    /\ enabled' = TRUE /\ streaming' = FALSE
    /\ listening' = FALSE
    /\ pending' = None /\ heard' = heard \cap records
    /\ engine' = "idle" /\ busy' = 0 /\ restarts' = 0
    /\ seen' = None /\ asking' = {} /\ onScreen' = TRUE
    /\ UNCHANGED <<registered, records, hearing, granted>>

\* onCleared, with the screen and the camera's view model: the partial text is given up, and a
\* new pair of view models begins.
OnCleared ==
    /\ enabled' = TRUE /\ streaming' = FALSE
    /\ listening' = FALSE
    /\ pending' = None /\ heard' = heard \cap records
    /\ engine' = "idle" /\ hearing' = None /\ busy' = 0 /\ restarts' = 0
    /\ seen' = None /\ asking' = {} /\ onScreen' = TRUE
    /\ UNCHANGED <<registered, records, granted>>

------------------------------------------------------------------------------
\* The screen

Wanted(k) == k["registered"] /\ k["enabled"] /\ k["streaming"]

\* Mutant: the effect only starts.
EffectStarts(k) ==
    IF Wanted(k) /\ ~k["listening"]
    THEN IF granted
         THEN /\ IF streaming /\ enabled THEN StartListening
                 ELSE UNCHANGED <<listening, recordVars, engineVars>>
              /\ asking' = asking \ {"effect"}
         ELSE /\ asking' = asking \cup {"effect"}
              /\ UNCHANGED <<listening, recordVars, engineVars>>
    ELSE /\ asking' = asking \ {"effect"}
         /\ UNCHANGED <<listening, recordVars, engineVars>>

\* The effect, up to the permission's dialog, with the keys it was launched for.  A new effect
\* cancels the one that waits.
Effect(k) ==
    IF Wanted(k) /\ ~k["listening"]
    THEN IF granted
         THEN /\ IF streaming /\ enabled THEN StartListening
                 ELSE UNCHANGED <<listening, recordVars, engineVars>>
              /\ asking' = asking \ {"effect"}
         ELSE /\ asking' = asking \cup {"effect"}
              /\ UNCHANGED <<listening, recordVars, engineVars>>
    ELSE /\ IF ~Wanted(k) /\ k["listening"] THEN StopListening
            ELSE UNCHANGED <<listening, recordVars, engineVars>>
         /\ asking' = asking \ {"effect"}

\* Mutant: the microphone is none of the effect's keys.
ComposeStreamOnly(K) ==
    LET k == [i \in Keys |-> IF i \in K THEN Now[i] ELSE seen[i]]
    IN  /\ onScreen
        /\ IF seen = None THEN K = Keys ELSE K # {} /\ \A i \in K : Now[i] # seen[i]
        /\ seen' = k
        /\ IF K # {"listening"} THEN Effect(k)
           ELSE UNCHANGED <<listening, recordVars, engineVars, asking>>
        /\ UNCHANGED <<keyVars, granted, onScreen>>

\* Some of what has changed reaches the screen, if the app is on it; its effect is launched anew.
Compose(K) ==
    LET k == [i \in Keys |-> IF i \in K THEN Now[i] ELSE seen[i]]
    IN  /\ onScreen
        /\ IF seen = None THEN K = Keys ELSE K # {} /\ \A i \in K : Now[i] # seen[i]
        /\ seen' = k
        /\ Effect(k)
        /\ UNCHANGED <<keyVars, granted, onScreen>>

\* The user acts on what the screen shows, unless Hasty.
Unhurried == onScreen /\ seen # None /\ (Hasty \/ seen = Now)

\* The web app and the camera screen, which show the switches, are composed once registered.
SwitchesShown == Unhurried /\ seen["registered"]

\* onToggleMicrophone.
ToggleMicrophone ==
    /\ SwitchesShown
    /\ IF seen["listening"] \/ granted
       THEN ToggleListening /\ UNCHANGED asking
       ELSE asking' = asking \cup {"microphone"} /\ UNCHANGED <<listening, recordVars, engineVars>>
    /\ UNCHANGED <<keyVars, seen, granted, onScreen>>

\* The rest of onToggleSession, once the permission is there.
EnableSession ==
    /\ enabled' = ~enabled
    /\ StartListening
    /\ UNCHANGED <<registered, streaming>>

\* onToggleSession.
ToggleSession ==
    /\ SwitchesShown
    /\ IF seen["enabled"]
       THEN /\ IF seen["listening"] THEN StopListening
               ELSE UNCHANGED <<listening, recordVars, engineVars>>
            /\ enabled' = ~enabled
            /\ UNCHANGED <<registered, streaming, asking>>
       ELSE IF granted
       THEN EnableSession /\ UNCHANGED asking
       ELSE asking' = asking \cup {"session"} /\ UNCHANGED <<keyVars, listening, recordVars, engineVars>>
    /\ UNCHANGED <<seen, granted, onScreen>>

\* startLifeLensSession.
StartLifeLensSession ==
    /\ SwitchesShown
    /\ enabled' = TRUE
    /\ UNCHANGED <<registered, streaming, listening, recordVars, engineVars, screenVars>>

\* The user turns to another app or switches the phone's screen off.
ScreenLeft ==
    /\ Unhurried
    /\ onScreen' = FALSE
    /\ UNCHANGED <<keyVars, listening, recordVars, engineVars, seen, asking, granted>>

\* The user comes back.
ScreenShown ==
    /\ ~onScreen
    /\ onScreen' = TRUE
    /\ UNCHANGED <<keyVars, listening, recordVars, engineVars, seen, asking, granted>>

\* One of the coroutines that wait is resumed with an answer, which the activity gets on screen.
PermissionAnswered(who, yes) ==
    /\ onScreen
    /\ who \in asking
    /\ who = "effect" \/ Unhurried
    /\ granted => yes
    /\ granted' = yes
    /\ asking' = asking \ {who}
    /\ CASE yes /\ who = "effect" /\ streaming /\ enabled -> StartListening /\ UNCHANGED keyVars
         [] yes /\ who = "microphone" -> ToggleListening /\ UNCHANGED keyVars
         [] yes /\ who = "session" -> EnableSession
         [] OTHER -> UNCHANGED <<keyVars, listening, recordVars, engineVars>>
    /\ UNCHANGED <<seen, onScreen>>

\* While there are frames, what comes from the glasses stays for one, unless Hasty.
Steady(k) == Hasty \/ ~onScreen \/ (seen # None => seen[k] = Now[k])

\* The stream starts, pauses or ends.
StreamChanges ==
    /\ Steady("streaming")
    /\ streaming' = ~streaming
    /\ UNCHANGED <<registered, enabled, listening, recordVars, engineVars, screenVars>>

\* The glasses are registered, or no longer.
RegistrationChanges ==
    /\ Steady("registered")
    /\ registered' = ~registered
    /\ UNCHANGED <<enabled, streaming, listening, recordVars, engineVars, screenVars>>

Callback ==
    \/ \E u \in Utterances : OnPartialResults(u) \/ OnResults(u)
    \/ OnBlankPartialResults \/ OnBlankResults
    \/ OnError \/ Restart \/ OnCleared

User ==
    \/ ToggleMicrophone \/ ToggleSession \/ StartLifeLensSession \/ ScreenLeft \/ ScreenShown
    \/ \E who \in {"effect", "microphone", "session"}, yes \in BOOLEAN : PermissionAnswered(who, yes)

Next ==
    \/ Callback \/ User \/ StreamChanges \/ RegistrationChanges
    \/ \E K \in SUBSET Keys : Compose(K)

Spec == Init /\ [][Next]_vars

\* While the app is on screen, what has changed is composed, by and by, and the user answers the
\* dialog.  Nobody has to come back to it.
Fairness ==
    /\ \A k \in Keys : WF_vars(\E K \in SUBSET Keys : k \in K /\ Compose(K))
    /\ WF_vars(\E yes \in BOOLEAN : PermissionAnswered("effect", yes))

FairSpec == Spec /\ Fairness

------------------------------------------------------------------------------
\* Properties

TypeOK ==
    /\ {registered, enabled, streaming, listening, granted, onScreen} \subseteq BOOLEAN
    /\ pending \in Utterances \cup {None} /\ hearing \in Utterances \cup {None}
    /\ hearing # None => engine \in {"active", "stopping"}
    /\ records \cup heard \subseteq Utterances
    /\ engine \in {"idle", "active", "stopping"}
    /\ restarts \in 0..MaxChains /\ busy \in 0..MaxChains
    /\ seen \in [Keys -> BOOLEAN] \cup {None}
    /\ asking \subseteq {"effect", "microphone", "session"}

\* A subtitle that was shown while listening becomes a record, however its recognition ends: with
\* a text, an error, a BUSY answer to another start, or a stop ("Preserve the visible subtitle as
\* a timestamped life-log record", SpeechToTextViewModel.kt:120).  The recognizer alone can have it
\* lost, by answering with a blank partial or final result; no other utterance, no restart and no
\* interruption replaces it unstored.
SubtitlesKept == \A u \in heard : u = pending \/ u \in records

\* While it listens it is never deaf: recognition is under way, or something is that restarts it
\* ("It restarts after each utterance while the mic is enabled", SpeechToTextViewModel.kt:28).
NeverDeaf == listening => engine = "active" \/ restarts > 0 \/ busy > 0

StreamWants == registered /\ enabled /\ streaming

\* On screen, a pause of the stream stops listening, whoever has started it and whatever dialog was
\* open, when changes last for a frame.
ShownPauseStopsListening == ~streaming ~> ~listening \/ streaming \/ ~onScreen

\* On screen, streaming brings it back, a manual toggle of the microphone included, unless the
\* permission is missing.
ShownStreamingBringsBack == StreamWants ~> listening \/ ~StreamWants \/ ~granted \/ ~onScreen

\* "a glasses touch-pad PAUSE always stops STT, and STREAMING always brings it back"
\* (CameraAccessScaffold.kt:68), on screen or not.
ListeningFollowsStream ==
    /\ ~streaming ~> ~listening \/ streaming
    /\ StreamWants ~> listening \/ ~StreamWants \/ ~granted
==============================================================================
