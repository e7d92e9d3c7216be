-------------------------- MODULE SpeechToTextProofs --------------------------
(***************************************************************************)
(* Proofs about SpeechToText for any utterances and any bound on restarts, *)
(* hasty users and streams included: its types, that a subtitle shown      *)
(* while listening is kept, and that listening never goes deaf.            *)
(*                                                                         *)
(* Everything the screen does to the view model is StartListening,         *)
(* StopListening or nothing.  So what concerns speech (SpeechInv) is shown *)
(* for these and for the callbacks, and what the screen remembers          *)
(* (ScreenTyped) apart from it.                                            *)
(***************************************************************************)
EXTENDS SpeechToText, TLAPS

speechVars == <<listening, recordVars, engineVars>>

\* What speech consists of.
SpeechTyped ==
    /\ listening \in BOOLEAN
    /\ pending \in Utterances \cup {None} /\ hearing \in Utterances \cup {None}
    /\ hearing # None => engine \in {"active", "stopping"}
    /\ records \subseteq Utterances /\ heard \subseteq Utterances
    /\ engine \in {"idle", "active", "stopping"}
    /\ restarts \in 0..MaxChains /\ busy \in 0..MaxChains

\* What the screen knows, and what the app learns of the glasses.
ScreenTyped ==
    /\ registered \in BOOLEAN /\ enabled \in BOOLEAN /\ streaming \in BOOLEAN /\ granted \in BOOLEAN
    /\ onScreen \in BOOLEAN
    /\ seen \in [Keys -> BOOLEAN] \cup {None}
    /\ asking \subseteq {"effect", "microphone", "session"}

\* A subtitle that is all there is of its utterance is the one the recognizer is hearing, and it
\* is listened to: what ends the one or the other stores it.
PendingIsHeard == pending \in heard \ records => listening /\ pending = hearing

SpeechInv == SpeechTyped /\ SubtitlesKept /\ NeverDeaf /\ PendingIsHeard

IInv == SpeechInv /\ ScreenTyped

------------------------------------------------------------------------------
\* Speech

\* Counting one more gives a count that is not zero, within the bound.
LEMMA OneMoreCounts ==
    ASSUME NEW n \in 0..MaxChains
    PROVE  OneMore(n) \in 1..MaxChains
<1> DEFINE S == {n + 1, MaxChains}
<1>1. MaxChains \in Nat \ {0}
  BY SpeechAssumption
<1>2. \E x \in S : \A y \in S : x =< y
  <2>1. CASE n + 1 =< MaxChains
    BY <1>1, <2>1
  <2>2. CASE MaxChains =< n + 1
    BY <1>1, <2>2
  <2> QED
    BY <1>1, <2>1, <2>2
<1>3. Min(S) \in S /\ \A y \in S : Min(S) =< y
  BY <1>2 DEF Min
<1> QED
  BY <1>1, <1>3 DEF OneMore

\* The utterances never include the value for none.
LEMMA NoneIsNoUtterance == None \notin Utterances
  BY SpeechAssumption

\* Starting recognition makes it active or lets a BUSY answer come.
LEMMA Starts ==
    ASSUME SpeechTyped, StartRecognition
    PROVE  /\ engine' \in {"idle", "active", "stopping"}
           /\ engine # "idle" => engine' = engine
           /\ busy' \in 0..MaxChains
           /\ engine' = "active" \/ busy' > 0
<1>1. OneMore(busy) \in 1..MaxChains
  BY OneMoreCounts DEF SpeechTyped
<1>2. CASE engine = "idle"
  BY <1>2 DEF StartRecognition, SpeechTyped
<1>3. CASE engine # "idle"
  BY <1>1, <1>3, SpeechAssumption DEF StartRecognition, SpeechTyped
<1> QED
  BY <1>2, <1>3

\* No restart and no answer under way is within the bound.
LEMMA ZeroIsBounded == 0 \in 0..MaxChains
<1>1. MaxChains \in Nat
  BY SpeechAssumption
<1> QED
  BY <1>1

\* Starting to listen starts recognition, or meets one at work, whose BUSY answer restarts it.
LEMMA KeepsStarting == SpeechInv /\ StartListening => SpeechInv'
<1> SUFFICES ASSUME SpeechInv, StartListening PROVE SpeechInv'
  OBVIOUS
<1>1. SpeechTyped /\ SubtitlesKept /\ NeverDeaf /\ PendingIsHeard
  BY DEF SpeechInv
<1>2. CASE listening
  BY <1>1, <1>2 DEF StartListening, recordVars, engineVars, SpeechInv, SpeechTyped,
                    SubtitlesKept, NeverDeaf, PendingIsHeard
<1>3. CASE ~listening
  <2>1. listening' = TRUE /\ StartRecognition /\ UNCHANGED <<pending, records, heard, hearing, restarts>>
    BY <1>3 DEF StartListening, recordVars
  <2>2. SpeechTyped'
    BY <1>1, <2>1, Starts DEF SpeechTyped
  <2>3. SubtitlesKept' /\ PendingIsHeard'
    BY <1>1, <2>1 DEF SubtitlesKept, PendingIsHeard
  <2>4. NeverDeaf'
    BY <1>1, <2>1, Starts DEF NeverDeaf
  <2> QED
    BY <2>2, <2>3, <2>4 DEF SpeechInv
<1> QED
  BY <1>2, <1>3

\* Stopping stores the subtitle that is shown.
LEMMA KeepsStopping == SpeechInv /\ StopListening => SpeechInv'
<1> SUFFICES ASSUME SpeechInv, StopListening PROVE SpeechInv'
  OBVIOUS
<1>1. SpeechTyped /\ SubtitlesKept
  BY DEF SpeechInv
<1>2. /\ pending' = None /\ records' = records \cup ({pending} \ {None}) /\ heard' = heard
      /\ listening' = FALSE
      /\ engine' = IF engine = "active" THEN "stopping" ELSE engine
      /\ hearing' = hearing /\ busy' = busy /\ restarts' = restarts
  BY DEF StopListening, AppendPending
<1>3. SpeechTyped'
  BY <1>1, <1>2 DEF SpeechTyped
<1>4. SubtitlesKept'
  BY <1>1, <1>2, NoneIsNoUtterance DEF SubtitlesKept, SpeechTyped
<1>5. NeverDeaf' /\ PendingIsHeard'
  BY <1>1, <1>2, NoneIsNoUtterance DEF NeverDeaf, PendingIsHeard, SpeechTyped
<1> QED
  BY <1>3, <1>4, <1>5 DEF SpeechInv

\* Nothing but speech matters to it.
LEMMA SpeechLeftAlone == SpeechInv /\ UNCHANGED speechVars => SpeechInv'
  BY DEF speechVars, recordVars, engineVars, SpeechInv, SpeechTyped, SubtitlesKept, NeverDeaf,
         PendingIsHeard

\* A partial result replaces the subtitle of the same utterance, or comes when that of the last
\* one is stored.
LEMMA KeepsHearing ==
    ASSUME SpeechInv, NEW u \in Utterances, OnPartialResults(u)
    PROVE  SpeechInv'
<1>1. SpeechTyped /\ SubtitlesKept /\ NeverDeaf /\ PendingIsHeard
  BY DEF SpeechInv
<1>2. /\ engine \in {"active", "stopping"}
      /\ hearing = None => u \notin records /\ u # pending
      /\ hearing # None => u = hearing
      /\ hearing' = u /\ pending' = u
      /\ heard' = IF listening THEN heard \cup {u} ELSE heard
      /\ listening' = listening /\ records' = records
      /\ engine' = engine /\ busy' = busy /\ restarts' = restarts
  BY DEF OnPartialResults, Heard
<1>3. SpeechTyped'
  BY <1>1, <1>2 DEF SpeechTyped
<1>4. SubtitlesKept'
  <2> SUFFICES ASSUME NEW v \in heard', v # u PROVE v \in records
    BY <1>2 DEF SubtitlesKept
  <2>1. v = pending \/ v \in records
    BY <1>1, <1>2 DEF SubtitlesKept
  <2>2. v = pending => v \in records
    BY <1>1, <1>2, NoneIsNoUtterance DEF PendingIsHeard, SpeechTyped
  <2> QED
    BY <2>1, <2>2
<1>5. NeverDeaf'
  BY <1>1, <1>2 DEF NeverDeaf
<1>6. PendingIsHeard'
  <2> SUFFICES ASSUME ~listening, u \in heard, u \notin records PROVE FALSE
    BY <1>2 DEF PendingIsHeard
  <2> QED
    BY <1>1 DEF SubtitlesKept, PendingIsHeard
<1> QED
  BY <1>3, <1>4, <1>5, <1>6 DEF SpeechInv

\* A blank partial result erases the subtitle of the utterance being heard: any other that is still
\* shown is stored.
LEMMA KeepsErasing == SpeechInv /\ OnBlankPartialResults => SpeechInv'
<1> SUFFICES ASSUME SpeechInv, OnBlankPartialResults PROVE SpeechInv'
  OBVIOUS
<1>1. SpeechTyped /\ SubtitlesKept /\ NeverDeaf /\ PendingIsHeard
  BY DEF SpeechInv
<1>2. /\ pending' = None /\ heard' = heard \ {hearing}
      /\ UNCHANGED <<listening, records, engine, hearing, busy, restarts>>
  BY DEF OnBlankPartialResults, engineVars
<1>3. SpeechTyped' /\ NeverDeaf'
  BY <1>1, <1>2 DEF SpeechTyped, NeverDeaf
<1>4. SubtitlesKept'
  BY <1>1, <1>2 DEF SubtitlesKept, PendingIsHeard
<1>5. PendingIsHeard'
  BY <1>1, <1>2, NoneIsNoUtterance DEF PendingIsHeard, SpeechTyped
<1> QED
  BY <1>3, <1>4, <1>5 DEF SpeechInv

\* A final result is the record of the subtitle it replaces.
LEMMA KeepsResults ==
    ASSUME SpeechInv, NEW u \in Utterances, OnResults(u)
    PROVE  SpeechInv'
<1>1. SpeechTyped /\ SubtitlesKept /\ NeverDeaf /\ PendingIsHeard
  BY DEF SpeechInv
<1>2. /\ hearing # None => u = hearing
      /\ hearing' = None /\ engine' = "idle" /\ records' = records \cup {u} /\ pending' = None
      /\ restarts' = IF listening THEN OneMore(restarts) ELSE restarts
      /\ listening' = listening /\ heard' = heard /\ busy' = busy
  BY DEF OnResults, Heard, RestartRecognition
<1>3. OneMore(restarts) \in 0..MaxChains /\ OneMore(restarts) > 0
  BY <1>1, OneMoreCounts, SpeechAssumption DEF SpeechTyped
<1>4. SpeechTyped'
  BY <1>1, <1>2, <1>3 DEF SpeechTyped
<1>5. SubtitlesKept'
  BY <1>1, <1>2, NoneIsNoUtterance DEF SubtitlesKept, PendingIsHeard, SpeechTyped
<1>6. NeverDeaf'
  BY <1>1, <1>2, <1>3 DEF NeverDeaf, SpeechTyped
<1>7. PendingIsHeard'
  BY <1>1, <1>2, NoneIsNoUtterance DEF PendingIsHeard, SpeechTyped
<1> QED
  BY <1>4, <1>5, <1>6, <1>7 DEF SpeechInv

\* A blank final result leaves the subtitle to whatever comes next.
LEMMA KeepsNoResult == SpeechInv /\ OnBlankResults => SpeechInv'
<1> SUFFICES ASSUME SpeechInv, OnBlankResults PROVE SpeechInv'
  OBVIOUS
<1>1. SpeechTyped /\ SubtitlesKept /\ NeverDeaf /\ PendingIsHeard
  BY DEF SpeechInv
<1>2. /\ hearing' = None /\ engine' = "idle" /\ heard' = heard \ {hearing}
      /\ restarts' = IF listening THEN OneMore(restarts) ELSE restarts
      /\ UNCHANGED <<listening, pending, records, busy>>
  BY DEF OnBlankResults, RestartRecognition
<1>3. OneMore(restarts) \in 0..MaxChains /\ OneMore(restarts) > 0
  BY <1>1, OneMoreCounts, SpeechAssumption DEF SpeechTyped
<1>4. SpeechTyped'
  BY <1>1, <1>2, <1>3 DEF SpeechTyped
<1>5. SubtitlesKept' /\ NeverDeaf'
  BY <1>1, <1>2, <1>3 DEF SubtitlesKept, NeverDeaf, SpeechTyped
<1>6. PendingIsHeard'
  BY <1>1, <1>2 DEF PendingIsHeard
<1> QED
  BY <1>4, <1>5, <1>6 DEF SpeechInv

\* An error stores what was shown, if it was listened to, and recognition is to be restarted.
LEMMA KeepsErrors == SpeechInv /\ OnError => SpeechInv'
<1> SUFFICES ASSUME SpeechInv, OnError PROVE SpeechInv'
  OBVIOUS
<1>1. SpeechTyped /\ SubtitlesKept /\ NeverDeaf /\ PendingIsHeard
  BY DEF SpeechInv
<1>2. /\ listening' = listening /\ heard' = heard
      /\ restarts' = IF listening THEN OneMore(restarts) ELSE restarts
  BY DEF OnError, RestartRecognition
<1>3. \/ engine' = "idle" /\ hearing' = None /\ busy' = busy
      \/ busy > 0 /\ busy' = busy - 1 /\ engine' = engine /\ hearing' = hearing
  BY DEF OnError
<1>4. OneMore(restarts) \in 0..MaxChains /\ OneMore(restarts) > 0
  BY <1>1, OneMoreCounts, SpeechAssumption DEF SpeechTyped
<1>5. busy' \in 0..MaxChains
  BY <1>1, <1>3, SpeechAssumption DEF SpeechTyped
<1>6. NeverDeaf'
  BY <1>1, <1>2, <1>4 DEF NeverDeaf, SpeechTyped
<1>7. CASE listening
  <2>1. pending' = None /\ records' = records \cup ({pending} \ {None})
    BY <1>7 DEF OnError, AppendPending
  <2>2. SpeechTyped'
    BY <1>1, <1>2, <1>3, <1>4, <1>5, <2>1 DEF SpeechTyped
  <2>3. SubtitlesKept'
    BY <1>1, <1>2, <2>1, NoneIsNoUtterance DEF SubtitlesKept, SpeechTyped
  <2>4. PendingIsHeard'
    BY <1>1, <1>2, <2>1, NoneIsNoUtterance DEF PendingIsHeard, SpeechTyped
  <2> QED
    BY <1>6, <2>2, <2>3, <2>4 DEF SpeechInv
<1>8. CASE ~listening
  <2>1. pending' = pending /\ records' = records
    BY <1>8 DEF OnError
  <2>2. SpeechTyped'
    BY <1>1, <1>2, <1>3, <1>5, <1>8, <2>1 DEF SpeechTyped
  <2>3. SubtitlesKept' /\ PendingIsHeard'
    BY <1>1, <1>2, <1>8, <2>1 DEF SubtitlesKept, PendingIsHeard
  <2> QED
    BY <1>6, <2>2, <2>3 DEF SpeechInv
<1> QED
  BY <1>7, <1>8

\* A restart that is due starts recognition, or meets one at work, which answers BUSY.
LEMMA KeepsRestarts == SpeechInv /\ Restart => SpeechInv'
<1> SUFFICES ASSUME SpeechInv, Restart PROVE SpeechInv'
  OBVIOUS
<1>1. SpeechTyped /\ SubtitlesKept /\ NeverDeaf /\ PendingIsHeard
  BY DEF SpeechInv
<1>2. /\ restarts > 0 /\ restarts' = restarts - 1
      /\ IF listening THEN StartRecognition ELSE UNCHANGED <<engine, busy>>
      /\ UNCHANGED <<listening, pending, records, heard, hearing>>
  BY DEF Restart, recordVars
<1>3. restarts' \in 0..MaxChains
  BY <1>1, <1>2, SpeechAssumption DEF SpeechTyped
<1>4. SubtitlesKept' /\ PendingIsHeard'
  BY <1>1, <1>2 DEF SubtitlesKept, PendingIsHeard
<1>5. SpeechTyped' /\ NeverDeaf'
  <2>1. CASE listening
    BY <1>1, <1>2, <1>3, <2>1, Starts DEF SpeechTyped, NeverDeaf
  <2>2. CASE ~listening
    BY <1>1, <1>2, <1>3, <2>2 DEF SpeechTyped, NeverDeaf
  <2> QED
    BY <2>1, <2>2
<1> QED
  BY <1>4, <1>5 DEF SpeechInv

\* A new view model begins with the records that are stored.
LEMMA KeepsClearing == SpeechInv /\ OnCleared => SpeechInv'
<1> SUFFICES ASSUME SpeechInv, OnCleared PROVE SpeechInv'
  OBVIOUS
<1>1. SpeechTyped
  BY DEF SpeechInv
<1>2. /\ listening' = FALSE /\ pending' = None /\ heard' = heard \cap records
      /\ engine' = "idle" /\ hearing' = None /\ busy' = 0 /\ restarts' = 0
      /\ records' = records
  BY DEF OnCleared
<1>3. SpeechTyped'
  BY <1>1, <1>2, ZeroIsBounded DEF SpeechTyped
<1>4. SubtitlesKept' /\ NeverDeaf'
  BY <1>2 DEF SubtitlesKept, NeverDeaf
<1>5. PendingIsHeard'
  BY <1>1, <1>2, NoneIsNoUtterance DEF PendingIsHeard, SpeechTyped
<1> QED
  BY <1>3, <1>4, <1>5 DEF SpeechInv

------------------------------------------------------------------------------
\* The screen

\* Whatever is composed, tapped, answered or reported by the glasses, the view model is told to
\* start, to stop, or nothing; what the screen remembers stays well-formed.
LEMMA ScreenStep ==
    ASSUME IInv,
           \/ \E K \in SUBSET Keys : Compose(K)
           \/ User \/ StreamChanges \/ RegistrationChanges
    PROVE  /\ StartListening \/ StopListening \/ UNCHANGED speechVars
           /\ ScreenTyped'
<1>1. ScreenTyped
  BY DEF IInv
<1>2. ASSUME NEW K \in SUBSET Keys, Compose(K)
      PROVE  (StartListening \/ StopListening \/ UNCHANGED speechVars) /\ ScreenTyped'
  <2> DEFINE k == [i \in Keys |-> IF i \in K THEN Now[i] ELSE seen[i]]
  <2>1. /\ seen = None => K = Keys
        /\ seen' = k /\ Effect(k)
        /\ UNCHANGED <<registered, enabled, streaming, granted, onScreen>>
    BY <1>2 DEF Compose, keyVars
  <2>2. seen' \in [Keys -> BOOLEAN]
    <3>1. ASSUME NEW i \in Keys PROVE Now[i] \in BOOLEAN \/ i = "listening"
      BY <1>1 DEF ScreenTyped, Now, Keys
    <3>2. Now["listening"] \in BOOLEAN
      BY DEF IInv, SpeechInv, SpeechTyped, Now, Keys
    <3>3. ASSUME NEW i \in Keys \ K PROVE seen[i] \in BOOLEAN
      BY <1>1, <2>1, <3>3 DEF ScreenTyped
    <3>4. ASSUME NEW i \in Keys PROVE k[i] \in BOOLEAN
      BY <3>1, <3>2, <3>3
    <3> QED
      BY <2>1, <3>4
  <2>3. /\ StartListening \/ StopListening \/ UNCHANGED speechVars
        /\ asking' = asking \cup {"effect"} \/ asking' = asking \ {"effect"}
    <3> HIDE DEF k
    <3> QED
      BY <2>1 DEF Effect, speechVars
  <2> QED
    BY <1>1, <2>1, <2>2, <2>3 DEF ScreenTyped
<1>3. CASE ToggleMicrophone
  BY <1>1, <1>3 DEF ToggleMicrophone, ToggleListening, speechVars, keyVars, ScreenTyped
<1>4. CASE ToggleSession
  BY <1>1, <1>4 DEF ToggleSession, EnableSession, speechVars, keyVars, ScreenTyped
<1>5. CASE StartLifeLensSession
  BY <1>1, <1>5 DEF StartLifeLensSession, speechVars, screenVars, ScreenTyped
<1>6. ASSUME NEW who \in {"effect", "microphone", "session"}, NEW yes \in BOOLEAN,
             PermissionAnswered(who, yes)
      PROVE  (StartListening \/ StopListening \/ UNCHANGED speechVars) /\ ScreenTyped'
  <2>1. granted' = yes /\ asking' = asking \ {who} /\ UNCHANGED <<seen, onScreen>>
    BY <1>6 DEF PermissionAnswered
  <2>2. \/ StartListening /\ UNCHANGED keyVars
        \/ ToggleListening /\ UNCHANGED keyVars
        \/ EnableSession
        \/ UNCHANGED <<keyVars, speechVars>>
    BY <1>6 DEF PermissionAnswered, speechVars
  <2> QED
    BY <1>1, <2>1, <2>2 DEF ToggleListening, EnableSession, keyVars, ScreenTyped
<1>7. CASE StreamChanges
  BY <1>1, <1>7 DEF StreamChanges, speechVars, screenVars, ScreenTyped
<1>8. CASE RegistrationChanges
  BY <1>1, <1>8 DEF RegistrationChanges, speechVars, screenVars, ScreenTyped
<1>9. CASE ScreenLeft \/ ScreenShown
  BY <1>1, <1>9 DEF ScreenLeft, ScreenShown, speechVars, keyVars, ScreenTyped
<1> QED
  BY <1>2, <1>3, <1>4, <1>5, <1>6, <1>7, <1>8, <1>9 DEF User

\* Callbacks leave the screen alone, or begin it anew.
LEMMA CallbackScreen == ScreenTyped /\ Callback => ScreenTyped'
<1> SUFFICES ASSUME ScreenTyped, Callback PROVE ScreenTyped'
  OBVIOUS
<1>1. CASE UNCHANGED <<keyVars, screenVars>>
  BY <1>1 DEF keyVars, screenVars, ScreenTyped
<1>2. CASE OnCleared
  BY <1>2 DEF OnCleared, ScreenTyped
<1> QED
  BY <1>1, <1>2 DEF Callback, OnPartialResults, OnBlankPartialResults, OnResults, OnBlankResults,
                    OnError, Restart, engineVars

------------------------------------------------------------------------------
\* Theorems

\* Nothing is heard or shown at the beginning.
LEMMA InitIInv == Init => IInv
<1> SUFFICES ASSUME Init PROVE IInv
  OBVIOUS
<1>1. SpeechTyped
  BY ZeroIsBounded DEF Init, SpeechTyped
<1>2. ScreenTyped
  BY DEF Init, ScreenTyped
<1> QED
  BY <1>1, <1>2 DEF Init, IInv, SpeechInv, SubtitlesKept, NeverDeaf, PendingIsHeard

\* Every step of the user, the screen and the recognizer keeps the invariant.
LEMMA StepIInv == IInv /\ [Next]_vars => IInv'
<1> SUFFICES ASSUME IInv, [Next]_vars PROVE IInv'
  OBVIOUS
<1>1. CASE Callback
  <2>1. SpeechInv'
    BY <1>1, KeepsHearing, KeepsErasing, KeepsResults, KeepsNoResult, KeepsErrors, KeepsRestarts,
       KeepsClearing
    DEF Callback, IInv
  <2> QED
    BY <1>1, <2>1, CallbackScreen DEF IInv
<1>2. CASE \/ \E K \in SUBSET Keys : Compose(K)
           \/ User \/ StreamChanges \/ RegistrationChanges
  <2>1. SpeechInv'
    BY <1>2, ScreenStep, KeepsStarting, KeepsStopping, SpeechLeftAlone DEF IInv
  <2> QED
    BY <1>2, <2>1, ScreenStep DEF IInv
<1>3. CASE UNCHANGED vars
  <2>1. UNCHANGED <<keyVars, speechVars, screenVars>>
    BY <1>3 DEF vars, speechVars
  <2>2. ScreenTyped'
    BY <2>1 DEF IInv, keyVars, screenVars, ScreenTyped
  <2> QED
    BY <2>1, <2>2, SpeechLeftAlone DEF IInv
<1> QED
  BY <1>1, <1>2, <1>3 DEF Next

\* The inductive invariant, from which the others follow (SpeechToTextViewModel with the effect of
\* CameraAccessScaffold).
THEOREM Inductive == Spec => []IInv
  BY InitIInv, StepIInv, PTL DEF Spec

\* The variables have their types: in particular, an utterance is only heard by a recognizer that
\* is at work.
THEOREM TypeCorrect == Spec => []TypeOK
<1>1. IInv => TypeOK
  BY DEF IInv, SpeechInv, SpeechTyped, ScreenTyped, TypeOK
<1> QED
  BY <1>1, Inductive, PTL

\* A subtitle shown while listening is stored, however its recognition ends
\* (SpeechToTextViewModel.kt:120), unless the recognizer answers it with a blank result; also for
\* users and streams that change things within a frame.
THEOREM SubtitlesAreKept == Spec => []SubtitlesKept
<1>1. IInv => SubtitlesKept
  BY DEF IInv, SpeechInv
<1> QED
  BY <1>1, Inductive, PTL

\* While it listens, recognition is under way or about to be restarted
\* (SpeechToTextViewModel.kt:28), whatever number of restarts and BUSY answers overlap.
THEOREM ListeningIsNotDeaf == Spec => []NeverDeaf
<1>1. IInv => NeverDeaf
  BY DEF IInv, SpeechInv
<1> QED
  BY <1>1, Inductive, PTL
===============================================================================
