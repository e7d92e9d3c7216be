---------------------------- MODULE SpeechFeedback ----------------------------
(***************************************************************************)
(* Spoken feedback: two GestureSpeechFeedback objects, one of              *)
(* CameraViewModel (which announces a photo and waits for the end of the   *)
(* announcement) and one of the web screen's bridge, used by three         *)
(* threads.  The locks make single steps atomic and nothing more: what an  *)
(* operation still has to do is the thread's entry in todo, and the steps  *)
(* of different threads interleave.                                        *)
(*                                                                         *)
(* A request stands for its text and its utterance id.  Blank texts are    *)
(* not spoken and are left out.                                            *)
(***************************************************************************)
EXTENDS Naturals, Sequences

CONSTANTS
    Pinches,      \* requests of speakAndAwait
    Words,        \* requests of speak
    None

Requests == Pinches \cup Words
Speakers == {"camera", "web"}

ASSUME RequestsDiffer == Pinches \cap Words = {} /\ None \notin Requests \cup Speakers

Threads == {"main", "bridge", "binder"}    \* binder: the engine's callbacks

VARIABLES
    latest,       \* latestSpeaker
    engine,       \* of each speaker: "starting", "ready", "failed" or "closed"
    pending,      \* pendingRequest
    active,       \* activeRequest
    todo,         \* what each thread still has to do
    \* ---- TextToSpeech ----
    voice,        \* the utterance each engine speaks
    calls,        \* callbacks on their way: utterances that were done or stopped
    \* ---- CameraViewModel ----
    streaming,
    job,          \* pinchCaptureJob: "idle", "speaking" or "delaying"
    awaited,      \* the request whose continuation is still active
    \* ---- history ----
    raced         \* an older speech may have come after a newer claim or cancel

speakerVars == <<latest, engine, pending, active>>
engineVars == <<voice, calls>>
jobVars == <<streaming, job, awaited>>
vars == <<speakerVars, todo, engineVars, jobVars, raced>>

Init ==
    /\ latest = None
    /\ engine = [s \in Speakers |-> "starting"]
    /\ pending = [s \in Speakers |-> None]
    /\ active = [s \in Speakers |-> None]
    /\ todo = [t \in Threads |-> <<>>]
    /\ voice = [s \in Speakers |-> None] /\ calls = {}
    /\ streaming = FALSE /\ job = "idle" /\ awaited = None
    /\ raced = FALSE

------------------------------------------------------------------------------
\* What threads have to do

Do(what, s, r) == [what |-> what, by |-> s, req |-> r]

\* onFinished, of the requests that have one.
Answer(r) == IF r \in Pinches THEN <<Do("resume", "camera", r)>> ELSE <<>>

SpeakNow(s, r) == <<Do("activate", s, r), Do("say", s, r)>>

Idle(t) == todo[t] = <<>>

Does(t, what) == ~Idle(t) /\ Head(todo[t]).what = what

\* The thread's step is over; it does these before the rest.
Then(t, steps) == todo' = [todo EXCEPT ![t] = steps \o Tail(@)]

\* A request nobody has: the next one made.
Fresh(r) ==
    /\ \A s \in Speakers : r \notin {pending[s], active[s], voice[s]}
    /\ \A t \in Threads : \A i \in DOMAIN todo[t] : todo[t][i].req # r
    /\ r # awaited /\ \A c \in calls : c.req # r

\* Another thread is in the middle of claiming, cancelling or speaking.
Overlaps(t) ==
    \E u \in Threads \ {t} : \E i \in DOMAIN todo[u] :
        todo[u][i].what \in {"claim", "disown", "drop", "swap", "activate", "say"}

\* Speech that is not the newest speaker's.  (One that is closed does not speak.)
Stray == \E s \in Speakers \ {latest} :
            engine[s] # "closed" /\ (pending[s] # None \/ voice[s] # None)

\* An utterance that nobody would stop: the speaker does not know of it.
Unknown == \E s \in Speakers : voice[s] \notin {None, active[s]}

\* A thread that has nothing to do starts an operation.
Begin(t, steps) == Idle(t) /\ todo' = [todo EXCEPT ![t] = steps]

\* It starts one that changes whose turn it is to speak.
BeginSpeech(t, steps) ==
    /\ Begin(t, steps)
    /\ raced' = (Overlaps(t) \/ (raced /\ (Stray \/ Unknown)))

\* What an engine says of the utterance it no longer speaks.
Ended(s) == IF voice[s] = None THEN {} ELSE {[by |-> s, req |-> voice[s]]}

------------------------------------------------------------------------------
\* The steps of GestureSpeechFeedback, by thread t

\* Mutant: the claim is the request's.
ClaimByRequest(t) ==
    LET s == Head(todo[t]).by IN
    /\ Does(t, "claim")
    /\ latest' = Head(todo[t]).req
    /\ Then(t, IF latest \in {None, s} THEN <<>> ELSE <<Do("drop", s, None)>>)
    /\ UNCHANGED <<engine, pending, active, engineVars, jobVars, raced>>

\* Mutant: the previous speaker is not told.
ClaimSilently(t) ==
    LET s == Head(todo[t]).by IN
    /\ Does(t, "claim")
    /\ latest' = s
    /\ Then(t, <<>>)
    /\ UNCHANGED <<engine, pending, active, engineVars, jobVars, raced>>

\* claimLatestSpeech, which may call cancelLocal of the other speaker.
Claim(t) ==
    LET s == Head(todo[t]).by IN
    /\ Does(t, "claim")
    /\ latest' = s
    /\ Then(t, IF latest \in {None, s} THEN <<>> ELSE <<Do("drop", latest, None)>>)
    /\ UNCHANGED <<engine, pending, active, engineVars, jobVars, raced>>

\* cancel: the speaker gives up its claim.
Disown(t) ==
    LET s == Head(todo[t]).by IN
    /\ Does(t, "disown")
    /\ latest' = IF latest = s THEN None ELSE latest
    /\ Then(t, <<Do("drop", s, None)>>)
    /\ UNCHANGED <<engine, pending, active, engineVars, jobVars, raced>>

Interrupted(s) == IF pending[s] # None THEN pending[s] ELSE active[s]

\* Mutant: the caller goes on before the engine is stopped.
DropAnswering(t) ==
    LET s == Head(todo[t]).by IN
    /\ Does(t, "drop")
    /\ pending' = [pending EXCEPT ![s] = None]
    /\ active' = [active EXCEPT ![s] = None]
    /\ Then(t, Answer(Interrupted(s)) \o <<Do("stop", s, None)>>)
    /\ UNCHANGED <<latest, engine, engineVars, jobVars, raced>>

\* Mutant: a request that waits for the engine is forgotten.
DropForgetting(t) ==
    LET s == Head(todo[t]).by IN
    /\ Does(t, "drop")
    /\ pending' = [pending EXCEPT ![s] = None]
    /\ active' = [active EXCEPT ![s] = None]
    /\ Then(t, <<Do("stop", s, None)>> \o Answer(active[s]))
    /\ UNCHANGED <<latest, engine, engineVars, jobVars, raced>>

\* cancelLocal.
Drop(t) ==
    LET s == Head(todo[t]).by IN
    /\ Does(t, "drop")
    /\ pending' = [pending EXCEPT ![s] = None]
    /\ active' = [active EXCEPT ![s] = None]
    /\ Then(t, <<Do("stop", s, None)>> \o Answer(Interrupted(s)))
    /\ UNCHANGED <<latest, engine, engineVars, jobVars, raced>>

\* engine.stop: the listener is told.
Stop(t) ==
    LET s == Head(todo[t]).by IN
    /\ Does(t, "stop")
    /\ calls' = calls \cup Ended(s)
    /\ voice' = [voice EXCEPT ![s] = None]
    /\ Then(t, <<>>)
    /\ UNCHANGED <<speakerVars, jobVars, raced>>

\* onFinished, of speakAndAwait: a continuation that is no longer active stays as it is.
Resume(t) ==
    LET r == Head(todo[t]).req IN
    /\ Does(t, "resume")
    /\ awaited' = IF awaited = r THEN None ELSE awaited
    /\ Then(t, <<>>)
    /\ UNCHANGED <<speakerVars, engineVars, streaming, job, raced>>

\* enqueue, after its claim.  A request for an engine that is not ready waits.
Swap(t) ==
    LET s == Head(todo[t]).by
        r == Head(todo[t]).req
        ready == engine[s] = "ready" IN
    /\ Does(t, "swap")
    /\ pending' = [pending EXCEPT ![s] = IF ready THEN None ELSE r]
    /\ Then(t, Answer(Interrupted(s)) \o (IF ready THEN SpeakNow(s, r) ELSE <<>>))
    /\ UNCHANGED <<latest, engine, active, engineVars, jobVars, raced>>

\* speakNow, under the lock.
Activate(t) ==
    /\ Does(t, "activate")
    /\ active' = [active EXCEPT ![Head(todo[t]).by] = Head(todo[t]).req]
    /\ Then(t, <<>>)
    /\ UNCHANGED <<latest, engine, pending, engineVars, jobVars, raced>>

\* speakNow: the engine flushes what it spoke and takes the utterance, or refuses.
\* A speaker that was closed meanwhile has no engine.
Say(t) ==
    LET s == Head(todo[t]).by
        r == Head(todo[t]).req IN
    /\ Does(t, "say")
    /\ \/ /\ engine[s] = "ready"
          /\ calls' = calls \cup Ended(s)
          /\ voice' = [voice EXCEPT ![s] = r]
          /\ Then(t, <<>>)
       \/ engine[s] = "ready" /\ Then(t, <<Do("finish", s, r)>>) /\ UNCHANGED engineVars
       \/ engine[s] = "closed" /\ Then(t, <<>>) /\ UNCHANGED engineVars
    /\ UNCHANGED <<speakerVars, jobVars, raced>>

\* Mutant: the request stays active.
FinishKeeping(t) ==
    LET s == Head(todo[t]).by
        r == Head(todo[t]).req IN
    /\ Does(t, "finish")
    /\ Then(t, IF active[s] = r THEN Answer(r) ELSE <<>>)
    /\ UNCHANGED <<speakerVars, engineVars, jobVars, raced>>

\* finish.
Finish(t) ==
    LET s == Head(todo[t]).by
        r == Head(todo[t]).req IN
    /\ Does(t, "finish")
    /\ active' = IF active[s] = r THEN [active EXCEPT ![s] = None] ELSE active
    /\ Then(t, IF active[s] = r THEN Answer(r) ELSE <<>>)
    /\ UNCHANGED <<latest, engine, pending, engineVars, jobVars, raced>>

\* cancelRequest.
CancelRequest(t) ==
    LET s == Head(todo[t]).by
        r == Head(todo[t]).req IN
    /\ Does(t, "cancelRequest")
    /\ \/ pending[s] = r /\ pending' = [pending EXCEPT ![s] = None]
          /\ Then(t, <<>>) /\ UNCHANGED active
       \/ pending[s] # r /\ active[s] = r /\ active' = [active EXCEPT ![s] = None]
          /\ Then(t, <<Do("stop", s, None)>>) /\ UNCHANGED pending
       \/ r \notin {pending[s], active[s]} /\ Then(t, <<>>) /\ UNCHANGED <<pending, active>>
    /\ UNCHANGED <<latest, engine, engineVars, jobVars, raced>>

\* close: the engine is shut down and says nothing more.
Shut(t) ==
    LET s == Head(todo[t]).by IN
    /\ Does(t, "shut")
    /\ engine' = [engine EXCEPT ![s] = "closed"]
    /\ voice' = [voice EXCEPT ![s] = None]
    /\ calls' = {c \in calls : c.by # s}
    /\ Then(t, <<>>)
    /\ UNCHANGED <<latest, pending, active, jobVars, raced>>

Step(t) ==
    \/ Claim(t) \/ Disown(t) \/ Drop(t) \/ Stop(t) \/ Resume(t) \/ Swap(t)
    \/ Activate(t) \/ Say(t) \/ Finish(t) \/ CancelRequest(t) \/ Shut(t)

------------------------------------------------------------------------------
\* TextToSpeech

\* The callback of its constructor, on the main thread: what was asked for is spoken now.
InitSucceeds(s) ==
    /\ engine[s] = "starting"
    /\ engine' = [engine EXCEPT ![s] = "ready"]
    /\ pending' = [pending EXCEPT ![s] = None]
    /\ IF pending[s] = None
       THEN Idle("main") /\ UNCHANGED <<todo, raced>>
       ELSE BeginSpeech("main", SpeakNow(s, pending[s]))
    /\ UNCHANGED <<latest, active, engineVars, jobVars>>

\* The same, when there is no engine: requests made from now on stay pending.
InitFails(s) ==
    /\ engine[s] = "starting" /\ Idle("main")
    /\ engine' = [engine EXCEPT ![s] = "failed"]
    /\ awaited' = IF awaited = pending[s] THEN None ELSE awaited
    /\ pending' = [pending EXCEPT ![s] = None]
    /\ UNCHANGED <<latest, active, todo, engineVars, streaming, job, raced>>

\* An utterance ends, or breaks off.
SpeechEnds(s) ==
    /\ voice[s] # None
    /\ calls' = calls \cup Ended(s)
    /\ voice' = [voice EXCEPT ![s] = None]
    /\ UNCHANGED <<speakerVars, todo, jobVars, raced>>

\* onDone, onError or onStop.
Callback(c) ==
    /\ Begin("binder", <<Do("finish", c.by, c.req)>>)
    /\ calls' = calls \ {c}
    /\ UNCHANGED <<speakerVars, voice, jobVars, raced>>

------------------------------------------------------------------------------
\* CameraViewModel, on the main thread

Speech(s, r) == <<Do("claim", s, r), Do("swap", s, r)>>

\* onLeftPinch, released, up to speakAndAwait.
Pinch(r) ==
    /\ streaming /\ job = "idle" /\ Fresh(r)
    /\ job' = "speaking" /\ awaited' = r
    /\ BeginSpeech("main", Speech("camera", r))
    /\ UNCHANGED <<speakerVars, engineVars, streaming>>

\* The continuation was resumed: the job goes on.
Spoken ==
    /\ Idle("main") /\ job = "speaking" /\ awaited = None
    /\ job' = "delaying"
    /\ UNCHANGED <<speakerVars, todo, engineVars, streaming, awaited, raced>>

\* Mutant: nobody waits longer for an engine that is there than it takes.
TimeOutReady ==
    /\ job = "speaking" /\ awaited # None /\ engine["camera"] = "ready"
    /\ Begin("main", <<Do("cancelRequest", "camera", awaited)>>)
    /\ job' = "delaying" /\ awaited' = None
    /\ UNCHANGED <<speakerVars, engineVars, streaming, raced>>

\* withTimeoutOrNull: TTS_COMPLETION_TIMEOUT_MS have passed.
TimeOut ==
    /\ job = "speaking" /\ awaited # None
    /\ Begin("main", <<Do("cancelRequest", "camera", awaited)>>)
    /\ job' = "delaying" /\ awaited' = None
    /\ UNCHANGED <<speakerVars, engineVars, streaming, raced>>

\* After PINCH_CAPTURE_DELAY_MS: capturePhoto, if the setting still allows it.
Capture ==
    /\ Idle("main") /\ job = "delaying"
    /\ job' = "idle"
    /\ UNCHANGED <<speakerVars, todo, engineVars, streaming, awaited, raced>>

StreamStarts ==
    /\ ~streaming /\ Idle("main") /\ engine["camera"] # "closed"
    /\ streaming' = TRUE
    /\ UNCHANGED <<speakerVars, todo, engineVars, job, awaited, raced>>

\* The job is cancelled, and what it waits for with it.
CancelJob ==
    /\ job' = "idle" /\ awaited' = None

CancelAwaited ==
    IF awaited = None THEN <<>> ELSE <<Do("cancelRequest", "camera", awaited)>>

\* clearStreamResources, as far as it is about the pinch.
StreamStops ==
    /\ streaming
    /\ streaming' = FALSE
    /\ CancelJob
    /\ Begin("main", CancelAwaited)
    /\ UNCHANGED <<speakerVars, engineVars, raced>>

Close(s) == <<Do("disown", s, None), Do("shut", s, None)>>

\* onCleared.
ViewModelCleared ==
    /\ engine["camera"] # "closed"
    /\ streaming' = FALSE
    /\ CancelJob
    /\ Begin("main", CancelAwaited \o Close("camera"))
    /\ UNCHANGED <<speakerVars, engineVars, raced>>

------------------------------------------------------------------------------
\* The web screen

\* NativeBridge.speakGestureFeedback, which a page may call after the screen has gone, too.
Speak(w) ==
    /\ Fresh(w)
    /\ BeginSpeech("bridge", Speech("web", w))
    /\ UNCHANGED <<speakerVars, engineVars, jobVars>>

\* NativeBridge.cancelGestureFeedback.
Cancel ==
    /\ BeginSpeech("bridge", <<Do("disown", "web", None)>>)
    /\ UNCHANGED <<speakerVars, engineVars, jobVars>>

\* The screen is disposed of, on the main thread.
Dispose ==
    /\ engine["web"] # "closed"
    /\ Begin("main", Close("web"))
    /\ UNCHANGED <<speakerVars, engineVars, jobVars, raced>>

Next ==
    \/ \E t \in Threads : Step(t)
    \/ \E s \in Speakers : InitSucceeds(s) \/ InitFails(s) \/ SpeechEnds(s)
    \/ \E c \in calls : Callback(c)
    \/ \E r \in Pinches : Pinch(r)
    \/ Spoken \/ TimeOut \/ Capture
    \/ StreamStarts \/ StreamStops \/ ViewModelCleared
    \/ \E w \in Words : Speak(w)
    \/ Cancel \/ Dispose

Spec == Init /\ [][Next]_vars

\* Threads run; the job's timers end.  Nobody has to pinch, and an engine may never come up, or
\* speak for ever.  The main thread's other events do not keep the job from it for ever.
FairSpec ==
    /\ Spec
    /\ \A t \in Threads : WF_vars(Step(t))
    /\ SF_vars(Spoken) /\ SF_vars(TimeOut) /\ SF_vars(Capture)

------------------------------------------------------------------------------
(* Properties *)

Calls == [by : Speakers, req : Requests]
Steps == [what : {"claim", "disown", "drop", "stop", "resume", "swap", "activate", "say",
                  "finish", "cancelRequest", "shut"},
          by : Speakers, req : Requests \cup {None}]

\* Types: the owner is one of the two speakers, every thread has a few well-formed steps to go,
\* and only announcements of the view model wait for their end (the fields of
\* GestureSpeechFeedback, pinchCaptureJob).
TypeOK ==
    /\ latest \in Speakers \cup {None}
    /\ engine \in [Speakers -> {"starting", "ready", "failed", "closed"}]
    /\ \A s \in Speakers : {pending[s], active[s], voice[s]}
           \subseteq {None} \cup (IF s = "camera" THEN Pinches ELSE Words)
    /\ \A t \in Threads : Len(todo[t]) <= 3 /\ \A i \in DOMAIN todo[t] : todo[t][i] \in Steps
    /\ calls \subseteq Calls
    /\ {streaming, raced} \subseteq BOOLEAN
    /\ job \in {"idle", "speaking", "delaying"}
    /\ awaited \in Pinches \cup {None}

Answers(t, r) == \E i \in DOMAIN todo[t] :
                    todo[t][i].what = "resume" /\ todo[t][i].req = r

\* isActive and resume are two steps: a continuation that two threads are about to resume is one
\* that may be resumed twice, which is an exception on one of them.  No request is ever in two
\* threads' hands, nor still held by the speaker when a thread answers it.
ResumedByOne ==
    \A t \in Threads : \A r \in Pinches :
        Answers(t, r) =>
            /\ r \notin {pending["camera"], active["camera"]}
            /\ \A u \in Threads \ {t} : ~Answers(u, r)
            /\ \A i, j \in DOMAIN todo[t] :
                   todo[t][i] = todo[t][j] /\ todo[t][i].what = "resume" => i = j

\* Whoever waits for the end of an announcement is known to somebody who will tell: a thread that
\* has still to deal with it, an engine that speaks it or has said that it is over, or an engine
\* that is not up.  A speech that comes in between, on whatever thread, does not lose the caller.
CallerIsKnown ==
    awaited # None =>
        \/ pending["camera"] = awaited /\ engine["camera"] # "ready"
        \/ active["camera"] = awaited /\ (voice["camera"] = awaited \/ \E c \in calls : c.req = awaited)
        \/ \E t \in Threads : \E i \in DOMAIN todo[t] : todo[t][i].req = awaited

Quiet == \A t \in Threads : Idle(t)

\* "Latest-wins" (the class's comment): when nobody is in the middle of an operation, no speaker
\* but the newest speaks, or has something to say as soon as its engine is up.  Two that claim
\* while the other is still about to speak are excepted: claim and speech are not one step.
NewestSpeaks == Quiet /\ ~raced => ~Stray

\* "Resumes only after ... audible playback has ended" (speakAndAwait): in the delay before the
\* photo the announcement is over, however it ended, or a thread has just taken it and stops it;
\* the same exception.
OverBeforeCapture ==
    job = "delaying" /\ Idle("main") /\ ~raced =>
        \/ voice["camera"] = None
        \/ \E t \in Threads : ~Idle(t) /\ Head(todo[t]) = Do("stop", "camera", None)

\* A pinch is never stuck in its announcement: whatever happens to the engines and whoever speaks
\* in between, the job ends, so that the next pinch is accepted.
PinchEnds == job = "speaking" ~> job = "idle"
==============================================================================
