------------------------ MODULE SpeechFeedbackProofs ------------------------
(***************************************************************************)
(* Proofs about SpeechFeedback for any requests: its types, and that of    *)
(* three threads that announce, speak, interrupt, cancel and close in any  *)
(* order one at most answers the caller of speakAndAwait, who is never     *)
(* lost; that the newest speaker is the one that speaks, and that the      *)
(* announcement is over before the photo, until claims have raced.         *)
(*                                                                         *)
(* Whatever the interleaving, what a thread has left is one of a few       *)
(* programs of at most three different steps (Program).  So it is enough   *)
(* to know the set of steps each has left (Left) and what such sets are    *)
(* like (Fits).  The first half of the module shows what each step does to *)
(* these sets (<step>Moves); the second half shows of each action, for     *)
(* each part of the invariant, that it keeps it (<action>Holds).           *)
(***************************************************************************)
EXTENDS SpeechFeedback, SequenceTheorems, TLAPS

\* What short sequences contain ...
LEMMA Elems ==
    /\ Range(<<>>) = {}
    /\ \A a : Range(<<a>>) = {a}
    /\ \A a, b : Range(<<a, b>>) = {a, b}
    /\ \A a, b, c : Range(<<a, b, c>>) = {a, b, c}
<1>1. Range(<<>>) = {}
  BY DEF Range
<1>2. ASSUME NEW a PROVE Range(<<a>>) = {a}
  BY DEF Range
<1>3. ASSUME NEW a, NEW b PROVE Range(<<a, b>>) = {a, b}
  BY DEF Range
<1>4. ASSUME NEW a, NEW b, NEW c PROVE Range(<<a, b, c>>) = {a, b, c}
  BY DEF Range
<1> QED BY <1>1, <1>2, <1>3, <1>4

\* ... what comes first in them ...
LEMMA Heads ==
    /\ \A a : Head(<<a>>) = a /\ Tail(<<a>>) = <<>> /\ <<a>> # <<>>
    /\ \A a, b : Head(<<a, b>>) = a /\ Tail(<<a, b>>) = <<b>> /\ <<a, b>> # <<>>
    /\ \A a, b, c : Head(<<a, b, c>>) = a /\ Tail(<<a, b, c>>) = <<b, c>> /\ <<a, b, c>> # <<>>
<1>1. ASSUME NEW a PROVE Head(<<a>>) = a /\ Tail(<<a>>) = <<>> /\ <<a>> # <<>>
  OBVIOUS
<1>2. ASSUME NEW a, NEW b PROVE Head(<<a, b>>) = a /\ Tail(<<a, b>>) = <<b>> /\ <<a, b>> # <<>>
  OBVIOUS
<1>3. ASSUME NEW a, NEW b, NEW c PROVE Head(<<a, b, c>>) = a /\ Tail(<<a, b, c>>) = <<b, c>> /\ <<a, b, c>> # <<>>
  OBVIOUS
<1> QED BY <1>1, <1>2, <1>3

\* ... and how they are joined: a sequence is the one that has its elements.
LEMMA Join ==
    ASSUME NEW S, NEW s \in Seq(S), NEW q \in Seq(S), NEW z \in Seq(S),
           Len(z) = Len(s) + Len(q),
           \A i \in 1..Len(z) : z[i] = IF i <= Len(s) THEN s[i] ELSE q[i - Len(s)]
    PROVE  s \o q = z
<1>1. /\ s \o q \in Seq(S)
      /\ Len(s \o q) = Len(s) + Len(q)
      /\ \A i \in 1..(Len(s) + Len(q)) : (s \o q)[i] = IF i <= Len(s) THEN s[i] ELSE q[i - Len(s)]
  BY ConcatProperties
<1>2. Len(s \o q) = Len(z) /\ \A i \in 1..Len(s \o q) : (s \o q)[i] = z[i]
  BY <1>1
<1> QED
  BY <1>1, <1>2, SeqEqual

\* The joins that occur.
LEMMA Joins ==
    /\ <<>> \o <<>> = <<>>
    /\ \A a : <<a>> \o <<>> = <<a>> /\ <<>> \o <<a>> = <<a>>
    /\ \A a, b : <<a>> \o <<b>> = <<a, b>> /\ <<>> \o <<a, b>> = <<a, b>> /\ <<a, b>> \o <<>> = <<a, b>>
    /\ \A a, b, c : <<a>> \o <<b, c>> = <<a, b, c>> /\ <<a, b>> \o <<c>> = <<a, b, c>>
<1>1. <<>> \o <<>> = <<>>
  OBVIOUS
<1>2. ASSUME NEW a PROVE <<a>> \o <<>> = <<a>> /\ <<>> \o <<a>> = <<a>>
  OBVIOUS
<1>3. ASSUME NEW a, NEW b
      PROVE <<a>> \o <<b>> = <<a, b>> /\ <<>> \o <<a, b>> = <<a, b>> /\ <<a, b>> \o <<>> = <<a, b>>
  <2>1. <<a, b>> \in Seq({a, b})
    OBVIOUS
  <2>2. <<a, b>> \o <<>> = <<a, b>> /\ <<>> \o <<a, b>> = <<a, b>>
    BY <2>1, ConcatEmptySeq
  <2>3. <<a>> \in Seq({a, b}) /\ <<b>> \in Seq({a, b})
    OBVIOUS
  <2>4. Len(<<a>>) = 1 /\ Len(<<b>>) = 1 /\ Len(<<a, b>>) = 2
    OBVIOUS
  <2>5. \A i \in 1..2 : <<a, b>>[i] = IF i <= 1 THEN <<a>>[i] ELSE <<b>>[i - 1]
    OBVIOUS
  <2>6. <<a>> \o <<b>> = <<a, b>>
    <3> DEFINE s == <<a>>  q == <<b>>  z == <<a, b>>  S == {a, b}
    <3>1. s \in Seq(S) /\ q \in Seq(S) /\ z \in Seq(S) /\ Len(z) = Len(s) + Len(q)
          /\ \A i \in 1..Len(z) : z[i] = IF i <= Len(s) THEN s[i] ELSE q[i - Len(s)]
      BY <2>1, <2>3, <2>4, <2>5
    <3> HIDE DEF s, q, z, S
    <3>2. s \o q = z
      BY <3>1, Join
    <3> QED
      BY <3>2 DEF s, q, z
  <2> QED
    BY <2>2, <2>6
<1>4. ASSUME NEW a, NEW b, NEW c
      PROVE <<a>> \o <<b, c>> = <<a, b, c>> /\ <<a, b>> \o <<c>> = <<a, b, c>>
  <2>1. /\ <<a>> \in Seq({a, b, c}) /\ <<c>> \in Seq({a, b, c})
        /\ <<a, b>> \in Seq({a, b, c}) /\ <<b, c>> \in Seq({a, b, c})
        /\ <<a, b, c>> \in Seq({a, b, c})
    OBVIOUS
  <2>2. <<a>> \o <<b, c>> = <<a, b, c>>
    <3> DEFINE s == <<a>>  q == <<b, c>>  z == <<a, b, c>>  S == {a, b, c}
    <3>1. s \in Seq(S) /\ q \in Seq(S) /\ z \in Seq(S) /\ Len(z) = Len(s) + Len(q)
          /\ \A i \in 1..Len(z) : z[i] = IF i <= Len(s) THEN s[i] ELSE q[i - Len(s)]
      BY <2>1
    <3> HIDE DEF s, q, z, S
    <3>2. s \o q = z
      BY <3>1, Join
    <3> QED
      BY <3>2 DEF s, q, z
  <2>3. <<a, b>> \o <<c>> = <<a, b, c>>
    <3> DEFINE s == <<a, b>>  q == <<c>>  z == <<a, b, c>>  S == {a, b, c}
    <3>1. s \in Seq(S) /\ q \in Seq(S) /\ z \in Seq(S) /\ Len(z) = Len(s) + Len(q)
          /\ \A i \in 1..Len(z) : z[i] = IF i <= Len(s) THEN s[i] ELSE q[i - Len(s)]
      BY <2>1
    <3> HIDE DEF s, q, z, S
    <3>2. s \o q = z
      BY <3>1, Join
    <3> QED
      BY <3>2 DEF s, q, z
  <2> QED
    BY <2>2, <2>3
<1> QED BY <1>1, <1>2, <1>3, <1>4
\* Three steps at most, which are all well-formed.
LEMMA Tuples ==
    ASSUME NEW S, NEW q,
           \/ q = <<>>
           \/ \E a \in S : q = <<a>>
           \/ \E a, b \in S : q = <<a, b>>
           \/ \E a, b, c \in S : q = <<a, b, c>>
    PROVE  q \in Seq(S) /\ Len(q) <= 3
<1>1. CASE q = <<>>
  BY <1>1
<1>2. ASSUME NEW a \in S, q = <<a>> PROVE q \in Seq(S) /\ Len(q) <= 3
  BY <1>2
<1>3. ASSUME NEW a \in S, NEW b \in S, q = <<a, b>> PROVE q \in Seq(S) /\ Len(q) <= 3
  BY <1>3
<1>4. ASSUME NEW a \in S, NEW b \in S, NEW c \in S, q = <<a, b, c>> PROVE q \in Seq(S) /\ Len(q) <= 3
  BY <1>4
<1> QED
  BY <1>1, <1>2, <1>3, <1>4

\* A step names what is to be done, the speaker and the request.
LEMMA DoFields ==
    \A w, s, r : Do(w, s, r).what = w /\ Do(w, s, r).by = s /\ Do(w, s, r).req = r
BY DEF Do

------------------------------------------------------------------------------

\* Whose request it is: announcements are the view model's, words the page's.
Of(s) == IF s = "camera" THEN Pinches ELSE Words

\* The programs: what is left of an operation.  enqueue by speaker o: it claims, tells the other
\* speaker (cancelLocal, whose step may be to answer the view model) and then takes the request.
Enqueues(q, o) ==
    \E r \in Of(o) :
        \/ q \in {<<Do("claim", o, r), Do("swap", o, r)>>, <<Do("swap", o, r)>>}
        \/ \E s \in Speakers :
               q \in {<<Do("drop", s, None), Do("swap", o, r)>>,
                      <<Do("stop", s, None), Do("swap", o, r)>>}
        \/ \E p \in Pinches :
               q \in {<<Do("stop", "camera", None), Do("resume", "camera", p), Do("swap", o, r)>>,
                      <<Do("resume", "camera", p), Do("swap", o, r)>>}

\* speakNow by a speaker of S.
Says(q, S) ==
    \E s \in S : \E r \in Of(s) : q \in {SpeakNow(s, r), <<Do("say", s, r)>>}

\* A callback of the engine, which may answer the view model.
Finishes(q) ==
    \/ \E s \in Speakers : \E r \in Of(s) : q = <<Do("finish", s, r)>>
    \/ \E p \in Pinches : q = <<Do("resume", "camera", p)>>

\* cancel by the page: there is nobody to answer.
Cancels(q) ==
    q \in {<<Do("disown", "web", None)>>, <<Do("drop", "web", None)>>, <<Do("stop", "web", None)>>}

\* The view model gives up an announcement.
GivesUp(q) ==
    \/ \E p \in Pinches : q = <<Do("cancelRequest", "camera", p)>>
    \/ q = <<Do("stop", "camera", None)>>

\* close of a speaker, by the view model after giving up its announcement.
Closes(q) ==
    \/ \E s \in Speakers :
           q \in {Close(s), <<Do("drop", s, None), Do("shut", s, None)>>,
                  <<Do("stop", s, None), Do("shut", s, None)>>, <<Do("shut", s, None)>>}
    \/ \E p \in Pinches :
           q \in {<<Do("cancelRequest", "camera", p),
                    Do("disown", "camera", None), Do("shut", "camera", None)>>,
                  <<Do("stop", "camera", None), Do("resume", "camera", p), Do("shut", "camera", None)>>,
                  <<Do("resume", "camera", p), Do("shut", "camera", None)>>}
    \/ q = <<Do("stop", "camera", None), Do("disown", "camera", None), Do("shut", "camera", None)>>

\* What a thread may have left: callbacks anywhere, the view model and the screens' ends on the
\* main thread, the page on its bridge.
Program(t, q) ==
    \/ q = <<>>
    \/ Finishes(q)
    \/ t = "main" /\ (Enqueues(q, "camera") \/ Says(q, Speakers) \/ GivesUp(q) \/ Closes(q))
    \/ t = "bridge" /\ (Enqueues(q, "web") \/ Says(q, {"web"}) \/ Cancels(q))

\* Who enqueues for whom.
Enqueuer(t, s) == (t = "main" /\ s = "camera") \/ (t = "bridge" /\ s = "web")

\* What is left tells which operation it is: by what comes first ...
LEMMA Forms ==
    ASSUME NEW t, NEW q, Program(t, q), q # <<>>
    PROVE  /\ Head(q).what = "claim" =>
                \E s \in Speakers : \E r \in Of(s) :
                    /\ q = <<Do("claim", s, r), Do("swap", s, r)>>
                    /\ Enqueuer(t, s)
           /\ Head(q).what = "disown" =>
                \/ q = <<Do("disown", "web", None)>> /\ t = "bridge"
                \/ \E s \in Speakers : q = <<Do("disown", s, None), Do("shut", s, None)>> /\ t = "main"
           /\ Head(q).what = "swap" =>
                \E s \in Speakers : \E r \in Of(s) :
                    /\ q = <<Do("swap", s, r)>>
                    /\ Enqueuer(t, s)
           /\ Head(q).what = "say" => \E s \in Speakers : \E r \in Of(s) : q = <<Do("say", s, r)>>
           /\ Head(q).what = "finish" => \E s \in Speakers : \E r \in Of(s) : q = <<Do("finish", s, r)>>
           /\ Head(q).what = "activate" =>
                \E s \in Speakers : \E r \in Of(s) : q = <<Do("activate", s, r), Do("say", s, r)>>
<1>0. Head(q).what \in {"claim", "swap"} =>
        \E o \in Speakers : Enqueues(q, o) /\ Enqueuer(t, o)
  BY DoFields, Heads
  DEF Program, Says, Finishes, Cancels, GivesUp, Closes, SpeakNow, Close, Speakers, Enqueuer
<1>1. Head(q).what = "claim" =>
        \E s \in Speakers : \E r \in Of(s) :
            /\ q = <<Do("claim", s, r), Do("swap", s, r)>>
            /\ Enqueuer(t, s)
  BY <1>0, DoFields, Heads DEF Enqueues
<1>2. Head(q).what = "disown" =>
        \/ q = <<Do("disown", "web", None)>> /\ t = "bridge"
        \/ \E s \in Speakers : q = <<Do("disown", s, None), Do("shut", s, None)>> /\ t = "main"
  BY DoFields, Heads
  DEF Program, Enqueues, Says, Finishes, Cancels, GivesUp, Closes, SpeakNow, Close, Speakers
<1>3. Head(q).what = "swap" =>
        \E s \in Speakers : \E r \in Of(s) :
            /\ q = <<Do("swap", s, r)>>
            /\ Enqueuer(t, s)
  BY <1>0, DoFields, Heads DEF Enqueues
<1>4. Head(q).what \in {"activate", "say", "finish"} => Says(q, Speakers) \/ Finishes(q)
  BY DoFields, Heads DEF Program, Enqueues, Says, Cancels, GivesUp, Closes, Close, Speakers
<1> QED
  BY <1>1, <1>2, <1>3, <1>4, DoFields, Heads DEF Says, Finishes, SpeakNow

\* ... for the steps that several operations share.
LEMMA OtherForms ==
    ASSUME NEW t, NEW q, Program(t, q), q # <<>>
    PROVE  /\ Head(q).what = "drop" =>
               \/ \E s, o \in Speakers : \E r \in Of(o) :
                      Enqueuer(t, o) /\ q = <<Do("drop", s, None), Do("swap", o, r)>>
               \/ t = "bridge" /\ q = <<Do("drop", "web", None)>>
               \/ t = "main" /\ \E s \in Speakers : q = <<Do("drop", s, None), Do("shut", s, None)>>
           /\ Head(q).what = "stop" =>
               \/ \E s, o \in Speakers : \E r \in Of(o) :
                      Enqueuer(t, o) /\ q = <<Do("stop", s, None), Do("swap", o, r)>>
               \/ \E o \in Speakers, p \in Pinches : \E r \in Of(o) :
                      /\ Enqueuer(t, o)
                      /\ q = <<Do("stop", "camera", None), Do("resume", "camera", p), Do("swap", o, r)>>
               \/ t = "bridge" /\ q = <<Do("stop", "web", None)>>
               \/ t = "main" /\ q = <<Do("stop", "camera", None)>>
               \/ t = "main" /\ \E s \in Speakers : q = <<Do("stop", s, None), Do("shut", s, None)>>
               \/ /\ t = "main"
                  /\ q = <<Do("stop", "camera", None), Do("disown", "camera", None), Do("shut", "camera", None)>>
               \/ /\ t = "main"
                  /\ \E p \in Pinches :
                         q = <<Do("stop", "camera", None), Do("resume", "camera", p), Do("shut", "camera", None)>>
           /\ Head(q).what = "resume" =>
               \/ \E p \in Pinches : q = <<Do("resume", "camera", p)>>
               \/ \E o \in Speakers, p \in Pinches : \E r \in Of(o) :
                      Enqueuer(t, o) /\ q = <<Do("resume", "camera", p), Do("swap", o, r)>>
               \/ /\ t = "main"
                  /\ \E p \in Pinches : q = <<Do("resume", "camera", p), Do("shut", "camera", None)>>
           /\ Head(q).what = "cancelRequest" =>
               /\ t = "main"
               /\ \E p \in Pinches :
                      \/ q = <<Do("cancelRequest", "camera", p)>>
                      \/ q = <<Do("cancelRequest", "camera", p),
                               Do("disown", "camera", None), Do("shut", "camera", None)>>
           /\ Head(q).what = "shut" =>
               t = "main" /\ \E s \in Speakers : q = <<Do("shut", s, None)>>
<1>1. Head(q).what = "drop" =>
        \/ \E s, o \in Speakers : \E r \in Of(o) :
               Enqueuer(t, o) /\ q = <<Do("drop", s, None), Do("swap", o, r)>>
        \/ t = "bridge" /\ q = <<Do("drop", "web", None)>>
        \/ t = "main" /\ \E s \in Speakers : q = <<Do("drop", s, None), Do("shut", s, None)>>
  BY DoFields, Heads
  DEF Program, Enqueues, Says, Finishes, Cancels, GivesUp, Closes, SpeakNow, Close, Speakers, Enqueuer
<1>2. Head(q).what = "stop" =>
        \/ \E s, o \in Speakers : \E r \in Of(o) :
               Enqueuer(t, o) /\ q = <<Do("stop", s, None), Do("swap", o, r)>>
        \/ \E o \in Speakers, p \in Pinches : \E r \in Of(o) :
               /\ Enqueuer(t, o)
               /\ q = <<Do("stop", "camera", None), Do("resume", "camera", p), Do("swap", o, r)>>
        \/ t = "bridge" /\ q = <<Do("stop", "web", None)>>
        \/ t = "main" /\ q = <<Do("stop", "camera", None)>>
        \/ t = "main" /\ \E s \in Speakers : q = <<Do("stop", s, None), Do("shut", s, None)>>
        \/ /\ t = "main"
           /\ q = <<Do("stop", "camera", None), Do("disown", "camera", None), Do("shut", "camera", None)>>
        \/ /\ t = "main"
           /\ \E p \in Pinches :
                  q = <<Do("stop", "camera", None), Do("resume", "camera", p), Do("shut", "camera", None)>>
  BY DoFields, Heads
  DEF Program, Enqueues, Says, Finishes, Cancels, GivesUp, Closes, SpeakNow, Close, Speakers, Enqueuer
<1>3. Head(q).what = "resume" =>
        \/ \E p \in Pinches : q = <<Do("resume", "camera", p)>>
        \/ \E o \in Speakers, p \in Pinches : \E r \in Of(o) :
               Enqueuer(t, o) /\ q = <<Do("resume", "camera", p), Do("swap", o, r)>>
        \/ /\ t = "main"
           /\ \E p \in Pinches : q = <<Do("resume", "camera", p), Do("shut", "camera", None)>>
  BY DoFields, Heads
  DEF Program, Enqueues, Says, Finishes, Cancels, GivesUp, Closes, SpeakNow, Close, Speakers, Enqueuer
<1>4. Head(q).what = "cancelRequest" =>
        /\ t = "main"
        /\ \E p \in Pinches :
               \/ q = <<Do("cancelRequest", "camera", p)>>
               \/ q = <<Do("cancelRequest", "camera", p),
                        Do("disown", "camera", None), Do("shut", "camera", None)>>
  BY DoFields, Heads
  DEF Program, Enqueues, Says, Finishes, Cancels, GivesUp, Closes, SpeakNow, Close, Speakers, Enqueuer
<1>5. Head(q).what = "shut" =>
        t = "main" /\ \E s \in Speakers : q = <<Do("shut", s, None)>>
  BY DoFields, Heads
  DEF Program, Enqueues, Says, Finishes, Cancels, GivesUp, Closes, SpeakNow, Close, Speakers, Enqueuer
<1> QED
  BY <1>1, <1>2, <1>3, <1>4, <1>5

\* Programs are sequences of at most three well-formed steps.
LEMMA ProgramSteps ==
    ASSUME NEW t, NEW q, Program(t, q)
    PROVE  q \in Seq(Steps) /\ Len(q) <= 3
<1>1. \A w, s, r : Do(w, s, r) \in Steps <=>
          /\ w \in {"claim", "disown", "drop", "stop", "resume", "swap", "activate", "say",
                    "finish", "cancelRequest", "shut"}
          /\ s \in Speakers
          /\ r \in Pinches \cup Words \cup {None}
  BY DEF Do, Steps, Requests
<1>2. ASSUME NEW s \in Speakers, NEW r \in Of(s)
      PROVE  r \in Pinches \cup Words \cup {None}
  BY <1>2 DEF Of
<1> DEFINE Tuple ==
            \/ q = <<>>
            \/ \E a \in Steps : q = <<a>>
            \/ \E a, b \in Steps : q = <<a, b>>
            \/ \E a, b, c \in Steps : q = <<a, b, c>>
<1>3. ASSUME NEW o \in Speakers, Enqueues(q, o) PROVE Tuple
  BY <1>1, <1>2, <1>3 DEF Enqueues, Speakers
<1>4. ASSUME NEW S \in SUBSET Speakers, Says(q, S) PROVE q \in Seq(Steps) /\ Len(q) <= 3
  <2>1. Tuple
    BY <1>1, <1>2, <1>4 DEF Says, SpeakNow
  <2> QED
    BY <2>1, Tuples
<1>5. CASE Finishes(q)
  <2>1. Tuple
    BY <1>1, <1>2, <1>5 DEF Finishes, Speakers
  <2> QED
    BY <2>1, Tuples
<1>6. CASE Cancels(q) \/ GivesUp(q)
  <2>1. Tuple
    BY <1>1, <1>6 DEF Cancels, GivesUp, Speakers
  <2> QED
    BY <2>1, Tuples
<1>7. CASE Closes(q)
  <2>1. Tuple
    BY <1>1, <1>7 DEF Closes, Close, Speakers
  <2> QED
    BY <2>1, Tuples
<1>8. CASE Enqueues(q, "camera") \/ Enqueues(q, "web")
  <2>1. Tuple
    BY <1>3, <1>8 DEF Speakers
  <2> QED
    BY <2>1, Tuples
<1>9. CASE q = <<>>
  BY <1>9, Tuples
<1> QED
  BY <1>4, <1>5, <1>6, <1>7, <1>8, <1>9 DEF Program, Speakers

\* The steps each thread has left.  The steps of a program differ and their order is its form, so
\* that the invariant need only speak of sets of steps.
Left == [t \in Threads |-> Range(todo[t])]

\* Threads whose next step stops the camera's engine (OverBeforeCapture looks for one).
Stopping == {t \in Threads : ~Idle(t) /\ Head(todo[t]) = Do("stop", "camera", None)}

\* Every thread has a program left.
Shaped == todo \in [Threads -> Seq(Steps)] /\ \A t \in Threads : Program(t, todo[t])

\* Whoever goes on to another program leaves the other threads as they are.
LEMMA Moves ==
    ASSUME Shaped, NEW t \in Threads, NEW z, Program(t, z), todo' = [todo EXCEPT ![t] = z]
    PROVE  /\ Shaped'
           /\ Left' = [Left EXCEPT ![t] = Range(z)]
           /\ Stopping \ {t} \subseteq Stopping'
           /\ z # <<>> /\ Head(z) = Do("stop", "camera", None) => t \in Stopping'
<1>1. z \in Seq(Steps)
  BY ProgramSteps
<1>2. todo' \in [Threads -> Seq(Steps)] /\ todo'[t] = z /\ \A u \in Threads \ {t} : todo'[u] = todo[u]
  BY <1>1 DEF Shaped
<1>3. Shaped'
  BY <1>2 DEF Shaped
<1>4. Left' = [Left EXCEPT ![t] = Range(z)]
  BY <1>2 DEF Left
<1>5. Stopping \ {t} \subseteq Stopping'
  BY <1>2 DEF Stopping, Idle
<1>6. z # <<>> /\ Head(z) = Do("stop", "camera", None) => t \in Stopping'
  BY <1>2 DEF Stopping, Idle
<1> QED
  BY <1>3, <1>4, <1>5, <1>6

\* Nothing moves when no thread does.
LEMMA Stays ==
    ASSUME Shaped, UNCHANGED todo
    PROVE  Shaped' /\ Left' = Left /\ Stopping' = Stopping
BY DEF Shaped, Left, Stopping, Idle

\* A thread that starts an operation had nothing left.
LEMMA Begins ==
    ASSUME Shaped, NEW t \in Threads, NEW z, Program(t, z), Begin(t, z)
    PROVE  Shaped' /\ Left[t] = {} /\ Left' = [Left EXCEPT ![t] = Range(z)] /\ Stopping \subseteq Stopping'
<1>1. todo[t] = <<>> /\ todo' = [todo EXCEPT ![t] = z]
  BY DEF Begin, Idle
<1>2. Left[t] = {}
  BY <1>1, Elems DEF Left
<1>3. t \notin Stopping
  BY <1>1 DEF Stopping, Idle
<1> QED
  BY <1>1, <1>2, <1>3, Moves

\* No program has the same step twice.
LEMMA ShortPrograms ==
    ASSUME NEW t, NEW q, Program(t, q)
    PROVE  \/ q = <<>>
           \/ \E a : q = <<a>>
           \/ \E a, b : q = <<a, b>> /\ a # b
           \/ \E a, b, c : q = <<a, b, c>> /\ a # b /\ a # c /\ b # c
<1> DEFINE Short == \/ q = <<>>
                    \/ \E a : q = <<a>>
                    \/ \E a, b : q = <<a, b>> /\ a # b
                    \/ \E a, b, c : q = <<a, b, c>> /\ a # b /\ a # c /\ b # c
<1>1. ASSUME NEW o, Enqueues(q, o) PROVE Short
  BY <1>1, DoFields DEF Enqueues
<1>2. ASSUME NEW S, Says(q, S) PROVE Short
  BY <1>2, DoFields DEF Says, SpeakNow
<1>3. Finishes(q) \/ Cancels(q) \/ GivesUp(q) => Short
  BY DEF Finishes, Cancels, GivesUp
<1>4. Closes(q) => Short
  BY DoFields DEF Closes, Close
<1> QED
  BY <1>1, <1>2, <1>3, <1>4 DEF Program

\* What is left after a step is the program without it.
LEMMA TailIsRest ==
    ASSUME NEW t, NEW q, Program(t, q), q # <<>>
    PROVE  Head(q) \in Range(q) /\ Tail(q) \in Seq(Steps) /\ Range(Tail(q)) = Range(q) \ {Head(q)}
<1> DEFINE Fine == Head(q) \in Range(q) /\ Range(Tail(q)) = Range(q) \ {Head(q)}
<1>1. ASSUME NEW a, q = <<a>> PROVE Fine
  BY <1>1, Elems, Heads
<1>2. ASSUME NEW a, NEW b, q = <<a, b>>, a # b PROVE Fine
  BY <1>2, Elems, Heads
<1>3. ASSUME NEW a, NEW b, NEW c, q = <<a, b, c>>, a # b, a # c PROVE Fine
  BY <1>3, Elems, Heads
<1>4. \/ \E a : q = <<a>>
      \/ \E a, b : q = <<a, b>> /\ a # b
      \/ \E a, b, c : q = <<a, b, c>> /\ a # b /\ a # c
  BY ShortPrograms
<1>5. Tail(q) \in Seq(Steps)
  BY ProgramSteps
<1> QED
  BY <1>1, <1>2, <1>3, <1>4, <1>5

\* A step replaces itself by the steps it gives rise to.
LEMMA StepMoves ==
    ASSUME Shaped, NEW t \in Threads, NEW what, Does(t, what),
           NEW steps \in Seq(Steps), Then(t, steps), Program(t, steps \o Tail(todo[t]))
    PROVE  /\ Shaped'
           /\ Head(todo[t]) \in Left[t]
           /\ Left' = [Left EXCEPT ![t] = Range(steps) \cup (Left[t] \ {Head(todo[t])})]
           /\ Stopping \ {t} \subseteq Stopping'
           /\ what # "stop" => Stopping \subseteq Stopping'
           /\ steps # <<>> /\ Head(steps) = Do("stop", "camera", None) => t \in Stopping'
<1> DEFINE q == todo[t]
           z == steps \o Tail(q)
<1>1. q # <<>> /\ Program(t, q) /\ Head(q).what = what
  BY DEF Shaped, Does, Idle
<1>2. /\ Head(q) \in Range(q) /\ Tail(q) \in Seq(Steps)
      /\ Range(Tail(q)) = Range(q) \ {Head(q)}
  BY <1>1, TailIsRest
<1>3. Range(z) = Range(steps) \cup (Range(q) \ {Head(q)})
  <2>1. ASSUME NEW rest \in Seq(Steps) PROVE Range(steps \o rest) = Range(steps) \cup Range(rest)
    BY RangeConcatenation
  <2> QED
    BY <1>2, <2>1
<1>4. Left[t] = Range(q)
  BY DEF Left
<1>5. todo' = [todo EXCEPT ![t] = z]
  BY DEF Then
<1>6. what # "stop" => t \notin Stopping
  BY <1>1, DoFields DEF Stopping
<1>7. steps # <<>> => z # <<>> /\ Head(z) = Head(steps)
  BY <1>2
<1> HIDE DEF q, z
<1>8. Program(t, z)
  BY DEF q, z
<1> QED
  BY <1>2, <1>3, <1>4, <1>5, <1>6, <1>7, <1>8, Moves DEF q
\* The steps that occur are well-formed.
LEMMA DoSteps ==
    ASSUME NEW w \in {"claim", "disown", "drop", "stop", "resume", "swap", "activate", "say",
                      "finish", "cancelRequest", "shut"},
           NEW s \in Speakers
    PROVE  /\ \A r \in Of(s) \cup {None} : Do(w, s, r) \in Steps /\ <<Do(w, s, r)>> \in Seq(Steps)
           /\ \A r \in Of(s) : SpeakNow(s, r) \in Seq(Steps)
           /\ <<>> \in Seq(Steps)
<1>1. \A v \in {w, "activate", "say"}, r \in Of(s) \cup {None} : Do(v, s, r) \in Steps
  BY DEF Do, Steps, Of, Requests
<1> QED
  BY <1>1 DEF SpeakNow

\* Claim, by what it does to the steps left and to the speakers.  The same of each step below.
Claimed(t, s, r) ==
    /\ r \in Of(s)
    /\ Left[t] = {Do("claim", s, r), Do("swap", s, r)}
    /\ latest' = s
    /\ Left' = [Left EXCEPT ![t] =
           (IF latest \in {None, s} THEN {} ELSE {Do("drop", latest, None)})
               \cup (Left[t] \ {Do("claim", s, r)})]
    /\ Shaped' /\ Stopping \subseteq Stopping'
    /\ UNCHANGED <<engine, pending, active, voice, calls, streaming, job, awaited, raced>>

\* Claim does that, and no more.
LEMMA ClaimMoves ==
    ASSUME Shaped, latest \in Speakers \cup {None}, NEW t \in Threads, Claim(t)
    PROVE  \E s \in Speakers, r \in Requests : Claimed(t, s, r)
<1>1. Program(t, todo[t]) /\ todo[t] # <<>> /\ Head(todo[t]).what = "claim" /\ Does(t, "claim")
  BY DEF Claim, Does, Idle, Shaped
<1>2. PICK s \in Speakers :
          \E r \in Of(s) : todo[t] = <<Do("claim", s, r), Do("swap", s, r)>> /\ Enqueuer(t, s)
  BY <1>1, Forms
<1>3. PICK r \in Of(s) : todo[t] = <<Do("claim", s, r), Do("swap", s, r)>> /\ Enqueuer(t, s)
  BY <1>2
<1>4. Head(todo[t]) = Do("claim", s, r) /\ Head(todo[t]).by = s /\ Tail(todo[t]) = <<Do("swap", s, r)>>
  BY <1>3, Heads, DoFields
<1> DEFINE steps == IF latest \in {None, s} THEN <<>> ELSE <<Do("drop", latest, None)>>
<1>5. Then(t, steps) /\ latest' = s
  BY <1>4 DEF Claim
<1>6. steps \in Seq(Steps)
  BY DoSteps
<1>7. Program(t, steps \o Tail(todo[t]))
  <2>1. steps \o Tail(todo[t]) = IF latest \in {None, s}
                                 THEN <<Do("swap", s, r)>>
                                 ELSE <<Do("drop", latest, None), Do("swap", s, r)>>
    BY <1>4, Joins
  <2>2. Enqueues(steps \o Tail(todo[t]), s)
    BY <2>1 DEF Enqueues
  <2> QED
    BY <1>3, <2>2 DEF Program, Enqueuer
<1>8. Range(steps) = IF latest \in {None, s} THEN {} ELSE {Do("drop", latest, None)}
  BY Elems
<1>9. Left[t] = {Do("claim", s, r), Do("swap", s, r)}
  BY <1>3, Elems DEF Left
<1> HIDE DEF steps
<1> QED
  BY <1>1, <1>4, <1>5, <1>6, <1>7, <1>8, <1>9, StepMoves
  DEF Claimed, Claim, speakerVars, engineVars, jobVars, Of, Requests

\* Disown.
Disowned(t, s) ==
    /\ Do("disown", s, None) \in Left[t]
    /\ latest' = IF latest = s THEN None ELSE latest
    /\ Left' = [Left EXCEPT ![t] =
           {Do("drop", s, None)} \cup (Left[t] \ {Do("disown", s, None)})]
    /\ Shaped' /\ Stopping \subseteq Stopping'
    /\ UNCHANGED <<engine, pending, active, voice, calls, streaming, job, awaited, raced>>

\* Disown does that.
LEMMA DisownMoves ==
    ASSUME Shaped, NEW t \in Threads, Disown(t)
    PROVE  \E s \in Speakers : Disowned(t, s)
<1>1. Program(t, todo[t]) /\ todo[t] # <<>> /\ Head(todo[t]).what = "disown" /\ Does(t, "disown")
  BY DEF Disown, Does, Idle, Shaped
<1>2. PICK s \in Speakers :
          \/ t = "bridge" /\ s = "web" /\ todo[t] = <<Do("disown", s, None)>>
          \/ t = "main" /\ todo[t] = <<Do("disown", s, None), Do("shut", s, None)>>
  BY <1>1, Forms DEF Speakers
<1> DEFINE steps == <<Do("drop", s, None)>>
<1>3. Head(todo[t]) = Do("disown", s, None) /\ Head(todo[t]).by = s
  BY <1>2, Heads, DoFields
<1>4. Then(t, steps) /\ latest' = IF latest = s THEN None ELSE latest
  BY <1>3 DEF Disown
<1>5. steps \in Seq(Steps)
  BY DoSteps
<1>6. Program(t, steps \o Tail(todo[t]))
  <2>1. CASE t = "bridge" /\ s = "web" /\ todo[t] = <<Do("disown", s, None)>>
    <3>1. steps \o Tail(todo[t]) = <<Do("drop", "web", None)>>
      BY <2>1, Heads, Joins
    <3>2. Cancels(steps \o Tail(todo[t]))
      BY <3>1 DEF Cancels
    <3> QED
      BY <2>1, <3>2 DEF Program
  <2>2. CASE t = "main" /\ todo[t] = <<Do("disown", s, None), Do("shut", s, None)>>
    <3>1. steps \o Tail(todo[t]) = <<Do("drop", s, None), Do("shut", s, None)>>
      BY <2>2, Heads, Joins
    <3>2. Closes(steps \o Tail(todo[t]))
      BY <3>1 DEF Closes
    <3> QED
      BY <2>2, <3>2 DEF Program
  <2> QED
    BY <1>2, <2>1, <2>2
<1>7. Range(steps) = {Do("drop", s, None)}
  BY Elems
<1> HIDE DEF steps
<1> QED
  BY <1>1, <1>3, <1>4, <1>5, <1>6, <1>7, StepMoves
  DEF Disowned, Disown, speakerVars, engineVars, jobVars

\* Only announcements of the view model are answered.
LEMMA AnswerIs ==
    ASSUME NEW s \in Speakers, NEW r \in Of(s) \cup {None}
    PROVE  /\ Answer(r) \in Seq(Steps)
           /\ Range(Answer(r)) = {Do("resume", "camera", x) : x \in {r} \cap Pinches}
           /\ \/ r \notin Pinches /\ Answer(r) = <<>>
              \/ r \in Pinches /\ s = "camera" /\ Answer(r) = <<Do("resume", "camera", r)>>
<1>1. r \in Pinches => s = "camera"
  BY RequestsDiffer DEF Of, Requests
<1>2. CASE r \in Pinches
  <2>1. Answer(r) = <<Do("resume", "camera", r)>>
    BY <1>2 DEF Answer
  <2>2. Do("resume", "camera", r) \in Steps
    BY <1>2 DEF Do, Steps, Requests, Speakers
  <2>3. Range(Answer(r)) = {Do("resume", "camera", r)}
    BY <2>1, Elems
  <2> QED
    BY <1>1, <1>2, <2>1, <2>2, <2>3
<1>3. CASE r \notin Pinches
  <2>1. Answer(r) = <<>>
    BY <1>3 DEF Answer
  <2>2. Range(Answer(r)) = {}
    BY <2>1, Elems
  <2> QED
    BY <1>3, <2>1, <2>2
<1> QED
  BY <1>2, <1>3

\* What the speakers hold or speak is their own.
Held == {f \in [Speakers -> Requests \cup {None}] : \A s \in Speakers : f[s] \in Of(s) \cup {None}}

\* Drop: who stops the camera's engine is the same thread, next.
Dropped(t, s) ==
    /\ Do("drop", s, None) \in Left[t]
    /\ pending' = [pending EXCEPT ![s] = None]
    /\ active' = [active EXCEPT ![s] = None]
    /\ Left' = [Left EXCEPT ![t] =
           {Do("stop", s, None)}
               \cup {Do("resume", "camera", x) : x \in {Interrupted(s)} \cap Pinches}
               \cup (Left[t] \ {Do("drop", s, None)})]
    /\ Shaped' /\ Stopping \subseteq Stopping'
    /\ s = "camera" => t \in Stopping'
    /\ UNCHANGED <<latest, engine, voice, calls, streaming, job, awaited, raced>>

\* Drop does that, in all the operations it is part of.
LEMMA DropMoves ==
    ASSUME Shaped, pending \in Held, active \in Held, NEW t \in Threads, Drop(t)
    PROVE  \E s \in Speakers : Dropped(t, s)
<1>1. Program(t, todo[t]) /\ todo[t] # <<>> /\ Head(todo[t]).what = "drop" /\ Does(t, "drop")
  BY DEF Drop, Does, Idle, Shaped
<1>2. \E s \in Speakers :
        \/ \E o \in Speakers : \E r \in Of(o) :
               Enqueuer(t, o) /\ todo[t] = <<Do("drop", s, None), Do("swap", o, r)>>
        \/ t = "bridge" /\ s = "web" /\ todo[t] = <<Do("drop", s, None)>>
        \/ t = "main" /\ todo[t] = <<Do("drop", s, None), Do("shut", s, None)>>
  BY <1>1, OtherForms DEF Speakers
<1>3. PICK s \in Speakers :
        \/ \E o \in Speakers : \E r \in Of(o) :
               Enqueuer(t, o) /\ todo[t] = <<Do("drop", s, None), Do("swap", o, r)>>
        \/ t = "bridge" /\ s = "web" /\ todo[t] = <<Do("drop", s, None)>>
        \/ t = "main" /\ todo[t] = <<Do("drop", s, None), Do("shut", s, None)>>
  BY <1>2
<1> DEFINE p == Interrupted(s)
           steps == <<Do("stop", s, None)>> \o Answer(p)
<1>4. Head(todo[t]) = Do("drop", s, None) /\ Head(todo[t]).by = s
  BY <1>3, Heads, DoFields
<1>5. /\ Then(t, steps)
      /\ pending' = [pending EXCEPT ![s] = None]
      /\ active' = [active EXCEPT ![s] = None]
  BY <1>4 DEF Drop
<1>6. p \in Of(s) \cup {None}
  BY DEF Interrupted, Held
<1> HIDE DEF p
<1>7. \/ steps = <<Do("stop", s, None)>>
      \/ p \in Pinches /\ s = "camera" /\ steps = <<Do("stop", s, None), Do("resume", "camera", p)>>
  <2>1. \/ Answer(p) = <<>>
        \/ p \in Pinches /\ s = "camera" /\ Answer(p) = <<Do("resume", "camera", p)>>
    BY <1>6, AnswerIs
  <2>2. CASE Answer(p) = <<>>
    BY <2>2, Joins
  <2>3. CASE p \in Pinches /\ s = "camera" /\ Answer(p) = <<Do("resume", "camera", p)>>
    BY <2>3, Joins
  <2> QED
    BY <2>1, <2>2, <2>3
<1>8. /\ Answer(p) \in Seq(Steps) /\ <<Do("stop", s, None)>> \in Seq(Steps)
      /\ Range(Answer(p)) = {Do("resume", "camera", x) : x \in {p} \cap Pinches}
      /\ Range(<<Do("stop", s, None)>>) = {Do("stop", s, None)}
  BY <1>6, AnswerIs, DoSteps, Elems
<1>9. steps \in Seq(Steps)
  BY <1>8
<1>10. Range(steps) = {Do("stop", s, None)} \cup {Do("resume", "camera", x) : x \in {p} \cap Pinches}
  <2>1. ASSUME NEW x \in Seq(Steps), NEW y \in Seq(Steps) PROVE Range(x \o y) = Range(x) \cup Range(y)
    BY RangeConcatenation
  <2> QED
    BY <1>8, <2>1
<1>11. steps # <<>> /\ Head(steps) = Do("stop", s, None)
  BY <1>7, Heads
<1> HIDE DEF steps
<1>12. Program(t, steps \o Tail(todo[t]))
  <2>1. ASSUME NEW o \in Speakers, NEW r \in Of(o), Enqueuer(t, o),
               todo[t] = <<Do("drop", s, None), Do("swap", o, r)>>
        PROVE  Program(t, steps \o Tail(todo[t]))
    <3>1. \/ steps \o Tail(todo[t]) = <<Do("stop", s, None), Do("swap", o, r)>>
          \/ /\ p \in Pinches /\ s = "camera"
             /\ steps \o Tail(todo[t]) =
                    <<Do("stop", s, None), Do("resume", "camera", p), Do("swap", o, r)>>
      <4>1. Tail(todo[t]) = <<Do("swap", o, r)>>
        BY <2>1, Heads
      <4>2. CASE steps = <<Do("stop", s, None)>>
        BY <4>1, <4>2, Joins
      <4>3. CASE p \in Pinches /\ s = "camera"
                 /\ steps = <<Do("stop", s, None), Do("resume", "camera", p)>>
        <5>1. <<Do("stop", s, None), Do("resume", "camera", p)>> \o <<Do("swap", o, r)>>
                 = <<Do("stop", s, None), Do("resume", "camera", p), Do("swap", o, r)>>
          BY Joins
        <5> QED
          BY <4>1, <4>3, <5>1
      <4> QED
        BY <1>7, <4>2, <4>3
    <3>2. Enqueues(steps \o Tail(todo[t]), o)
      BY <3>1 DEF Enqueues
    <3> QED
      BY <2>1, <3>2 DEF Program, Enqueuer
  <2>2. CASE t = "bridge" /\ s = "web" /\ todo[t] = <<Do("drop", s, None)>>
    <3>1. steps \o Tail(todo[t]) = <<Do("stop", "web", None)>>
      BY <1>7, <2>2, Heads, Joins
    <3>2. Cancels(steps \o Tail(todo[t]))
      BY <3>1 DEF Cancels
    <3> QED
      BY <2>2, <3>2 DEF Program
  <2>3. CASE t = "main" /\ todo[t] = <<Do("drop", s, None), Do("shut", s, None)>>
    <3>1. \/ steps \o Tail(todo[t]) = <<Do("stop", s, None), Do("shut", s, None)>>
          \/ /\ p \in Pinches /\ s = "camera"
             /\ steps \o Tail(todo[t]) =
                    <<Do("stop", s, None), Do("resume", "camera", p), Do("shut", s, None)>>
      <4>1. Tail(todo[t]) = <<Do("shut", s, None)>>
        BY <2>3, Heads
      <4>2. CASE steps = <<Do("stop", s, None)>>
        BY <4>1, <4>2, Joins
      <4>3. CASE p \in Pinches /\ s = "camera"
                 /\ steps = <<Do("stop", s, None), Do("resume", "camera", p)>>
        <5>1. <<Do("stop", s, None), Do("resume", "camera", p)>> \o <<Do("shut", s, None)>>
                 = <<Do("stop", s, None), Do("resume", "camera", p), Do("shut", s, None)>>
          BY Joins
        <5> QED
          BY <4>1, <4>3, <5>1
      <4> QED
        BY <1>7, <4>2, <4>3
    <3>2. Closes(steps \o Tail(todo[t]))
      BY <3>1 DEF Closes
    <3> QED
      BY <2>3, <3>2 DEF Program
  <2> QED
    BY <1>3, <2>1, <2>2, <2>3
<1> QED
  <2>1. /\ Shaped' /\ Head(todo[t]) \in Left[t] /\ Stopping \subseteq Stopping'
        /\ Left' = [Left EXCEPT ![t] = Range(steps) \cup (Left[t] \ {Head(todo[t])})]
        /\ Head(steps) = Do("stop", "camera", None) => t \in Stopping'
    BY <1>1, <1>5, <1>9, <1>11, <1>12, StepMoves
  <2> QED
    BY <1>4, <1>5, <1>10, <1>11, <2>1 DEF p, Dropped, Drop, speakerVars, engineVars, jobVars

\* After a stop or an answer, the rest is a program.
LEMMA RestIsProgram ==
    ASSUME NEW t, NEW q, Program(t, q), q # <<>>, Head(q).what \in {"stop", "resume"}
    PROVE  Program(t, Tail(q))
<1>1. ASSUME NEW o \in Speakers, Enqueuer(t, o), Enqueues(Tail(q), o) PROVE Program(t, Tail(q))
  BY <1>1 DEF Program, Enqueuer
<1>2. ASSUME NEW o \in Speakers, NEW r \in Of(o), Enqueuer(t, o), Tail(q) = <<Do("swap", o, r)>>
      PROVE  Program(t, Tail(q))
  BY <1>1, <1>2 DEF Enqueues
<1>3. ASSUME NEW o \in Speakers, NEW r \in Of(o), NEW p \in Pinches, Enqueuer(t, o),
             Tail(q) = <<Do("resume", "camera", p), Do("swap", o, r)>>
      PROVE  Program(t, Tail(q))
  BY <1>1, <1>3 DEF Enqueues
<1>4. ASSUME NEW s \in Speakers, t = "main", Tail(q) \in {Close(s), <<Do("shut", s, None)>>}
      PROVE  Program(t, Tail(q))
  BY <1>4 DEF Program, Closes
<1>5. ASSUME NEW p \in Pinches, t = "main",
             Tail(q) = <<Do("resume", "camera", p), Do("shut", "camera", None)>>
      PROVE  Program(t, Tail(q))
  BY <1>5 DEF Program, Closes
<1>6. Tail(q) = <<>> => Program(t, Tail(q))
  BY DEF Program
<1>7. CASE Head(q).what = "stop"
  <2>1. \/ \E s, o \in Speakers : \E r \in Of(o) :
              Enqueuer(t, o) /\ q = <<Do("stop", s, None), Do("swap", o, r)>>
        \/ \E o \in Speakers, p \in Pinches : \E r \in Of(o) :
              /\ Enqueuer(t, o)
              /\ q = <<Do("stop", "camera", None), Do("resume", "camera", p), Do("swap", o, r)>>
        \/ \E s \in Speakers : q = <<Do("stop", s, None)>>
        \/ t = "main" /\ \E s \in Speakers : q = <<Do("stop", s, None), Do("shut", s, None)>>
        \/ /\ t = "main"
           /\ q = <<Do("stop", "camera", None), Do("disown", "camera", None), Do("shut", "camera", None)>>
        \/ /\ t = "main"
           /\ \E p \in Pinches :
                  q = <<Do("stop", "camera", None), Do("resume", "camera", p), Do("shut", "camera", None)>>
    BY <1>7, OtherForms DEF Speakers
  <2>2. ASSUME NEW s \in Speakers, NEW o \in Speakers, NEW r \in Of(o), Enqueuer(t, o),
               q = <<Do("stop", s, None), Do("swap", o, r)>>
        PROVE  Program(t, Tail(q))
    BY <1>2, <2>2, Heads
  <2>3. ASSUME NEW o \in Speakers, NEW p \in Pinches, NEW r \in Of(o), Enqueuer(t, o),
               q = <<Do("stop", "camera", None), Do("resume", "camera", p), Do("swap", o, r)>>
        PROVE  Program(t, Tail(q))
    BY <1>3, <2>3, Heads
  <2>4. ASSUME NEW s \in Speakers, q = <<Do("stop", s, None)>> PROVE Program(t, Tail(q))
    BY <1>6, <2>4, Heads
  <2>5. ASSUME NEW s \in Speakers, t = "main", q = <<Do("stop", s, None), Do("shut", s, None)>>
        PROVE  Program(t, Tail(q))
    BY <1>4, <2>5, Heads
  <2>6. ASSUME t = "main",
               q = <<Do("stop", "camera", None), Do("disown", "camera", None), Do("shut", "camera", None)>>
        PROVE  Program(t, Tail(q))
    BY <1>4, <2>6, Heads DEF Close, Speakers
  <2>7. ASSUME NEW p \in Pinches, t = "main",
               q = <<Do("stop", "camera", None), Do("resume", "camera", p), Do("shut", "camera", None)>>
        PROVE  Program(t, Tail(q))
    BY <1>5, <2>7, Heads
  <2> QED
    BY <2>1, <2>2, <2>3, <2>4, <2>5, <2>6, <2>7
<1>8. CASE Head(q).what = "resume"
  <2>1. \/ \E p \in Pinches : q = <<Do("resume", "camera", p)>>
        \/ \E o \in Speakers, p \in Pinches : \E r \in Of(o) :
               Enqueuer(t, o) /\ q = <<Do("resume", "camera", p), Do("swap", o, r)>>
        \/ /\ t = "main"
           /\ \E p \in Pinches : q = <<Do("resume", "camera", p), Do("shut", "camera", None)>>
    BY <1>8, OtherForms
  <2>2. ASSUME NEW p \in Pinches, q = <<Do("resume", "camera", p)>> PROVE Program(t, Tail(q))
    BY <1>6, <2>2, Heads
  <2>3. ASSUME NEW o \in Speakers, NEW p \in Pinches, NEW r \in Of(o), Enqueuer(t, o),
               q = <<Do("resume", "camera", p), Do("swap", o, r)>>
        PROVE  Program(t, Tail(q))
    BY <1>2, <2>3, Heads
  <2>4. ASSUME NEW p \in Pinches, t = "main", q = <<Do("resume", "camera", p), Do("shut", "camera", None)>>
        PROVE  Program(t, Tail(q))
    BY <1>4, <2>4, Heads DEF Speakers
  <2> QED
    BY <2>1, <2>2, <2>3, <2>4
<1> QED
  BY <1>7, <1>8

\* Stop.
Stopped(t, s) ==
    /\ Do("stop", s, None) \in Left[t]
    /\ calls' = calls \cup Ended(s)
    /\ voice' = [voice EXCEPT ![s] = None]
    /\ Left' = [Left EXCEPT ![t] = Left[t] \ {Do("stop", s, None)}]
    /\ Shaped' /\ Stopping \ {t} \subseteq Stopping'
    /\ s # "camera" => Stopping \subseteq Stopping'
    /\ UNCHANGED <<latest, engine, pending, active, streaming, job, awaited, raced>>

\* Stop does that.
LEMMA StopMoves ==
    ASSUME Shaped, NEW t \in Threads, Stop(t)
    PROVE  \E s \in Speakers : Stopped(t, s)
<1>1. Program(t, todo[t]) /\ todo[t] # <<>> /\ Head(todo[t]).what = "stop" /\ Does(t, "stop")
  BY DEF Stop, Does, Idle, Shaped
<1>2. PICK s \in Speakers : Head(todo[t]) = Do("stop", s, None)
  BY <1>1, OtherForms, Heads DEF Speakers
<1>3. Head(todo[t]).by = s /\ Head(todo[t]).req = None
  BY <1>2, DoFields
<1>4. calls' = calls \cup Ended(s) /\ voice' = [voice EXCEPT ![s] = None] /\ Then(t, <<>>)
  BY <1>3 DEF Stop
<1>5. <<>> \o Tail(todo[t]) = Tail(todo[t]) /\ <<>> \in Seq(Steps) /\ Range(<<>>) = {}
  BY <1>1, TailIsRest, ConcatEmptySeq, Elems
<1>6. Program(t, <<>> \o Tail(todo[t]))
  BY <1>1, <1>5, RestIsProgram
<1>7. /\ Shaped' /\ Head(todo[t]) \in Left[t] /\ Stopping \ {t} \subseteq Stopping'
      /\ Left' = [Left EXCEPT ![t] = {} \cup (Left[t] \ {Head(todo[t])})]
  BY <1>1, <1>4, <1>5, <1>6, StepMoves
<1>8. s # "camera" => t \notin Stopping
  BY <1>3, DoFields DEF Stopping
<1> QED
  BY <1>2, <1>4, <1>7, <1>8
  DEF Stopped, Stop, speakerVars, engineVars, jobVars

\* Resume.
Resumed(t, r) ==
    /\ Do("resume", "camera", r) \in Left[t]
    /\ awaited' = IF awaited = r THEN None ELSE awaited
    /\ Left' = [Left EXCEPT ![t] = Left[t] \ {Do("resume", "camera", r)}]
    /\ Shaped' /\ Stopping \subseteq Stopping'
    /\ UNCHANGED <<latest, engine, pending, active, voice, calls, streaming, job, raced>>

\* Resume does that.
LEMMA ResumeMoves ==
    ASSUME Shaped, NEW t \in Threads, Resume(t)
    PROVE  \E r \in Pinches : Resumed(t, r)
<1>1. Program(t, todo[t]) /\ todo[t] # <<>> /\ Head(todo[t]).what = "resume" /\ Does(t, "resume")
  BY DEF Resume, Does, Idle, Shaped
<1>2. PICK r \in Pinches : Head(todo[t]) = Do("resume", "camera", r)
  BY <1>1, OtherForms, Heads
<1>3. Head(todo[t]).req = r
  BY <1>2, DoFields
<1>4. awaited' = (IF awaited = r THEN None ELSE awaited) /\ Then(t, <<>>)
  BY <1>3 DEF Resume
<1>5. <<>> \o Tail(todo[t]) = Tail(todo[t]) /\ <<>> \in Seq(Steps) /\ Range(<<>>) = {}
  BY <1>1, TailIsRest, ConcatEmptySeq, Elems
<1>6. Program(t, <<>> \o Tail(todo[t]))
  BY <1>1, <1>5, RestIsProgram
<1>7. /\ Shaped' /\ Head(todo[t]) \in Left[t] /\ Stopping \subseteq Stopping'
      /\ Left' = [Left EXCEPT ![t] = {} \cup (Left[t] \ {Head(todo[t])})]
  BY <1>1, <1>4, <1>5, <1>6, StepMoves
<1> QED
  BY <1>2, <1>4, <1>7
  DEF Resumed, Resume, speakerVars, engineVars, jobVars

\* Swap.
Swapped(t, s, r) ==
    /\ r \in Of(s)
    /\ Left[t] = {Do("swap", s, r)}
    /\ pending' = [pending EXCEPT ![s] = IF engine[s] = "ready" THEN None ELSE r]
    /\ Left' = [Left EXCEPT ![t] =
           IF engine[s] = "ready" THEN {Do("activate", s, r), Do("say", s, r)} ELSE {}]
    /\ Shaped' /\ Stopping \subseteq Stopping'
    /\ UNCHANGED <<latest, engine, active, voice, calls, streaming, job, awaited, raced>>

\* Swap does that: an announcement finds the speaker empty, so that nobody is answered.
LEMMA SwapMoves ==
    ASSUME Shaped, pending \in Held, active \in Held, NEW t \in Threads, Swap(t),
           \A r : Do("swap", "camera", r) \in Left[t] =>
                      pending["camera"] = None /\ active["camera"] = None
    PROVE  \E s \in Speakers, r \in Requests : Swapped(t, s, r)
<1>1. Program(t, todo[t]) /\ todo[t] # <<>> /\ Head(todo[t]).what = "swap" /\ Does(t, "swap")
  BY DEF Swap, Does, Idle, Shaped
<1>2. PICK s \in Speakers : \E r \in Of(s) : todo[t] = <<Do("swap", s, r)>> /\ Enqueuer(t, s)
  BY <1>1, Forms
<1>3. PICK r \in Of(s) : todo[t] = <<Do("swap", s, r)>> /\ Enqueuer(t, s)
  BY <1>2
<1>4. /\ Head(todo[t]) = Do("swap", s, r) /\ Tail(todo[t]) = <<>>
      /\ Head(todo[t]).by = s /\ Head(todo[t]).req = r
  BY <1>3, Heads, DoFields
<1>5. Left[t] = {Do("swap", s, r)}
  BY <1>3, Elems DEF Left
<1>6. Answer(Interrupted(s)) = <<>>
  <2>1. Interrupted(s) \in Of(s) \cup {None}
    BY DEF Interrupted, Held
  <2>2. s = "camera" => Interrupted(s) = None
    BY <1>5 DEF Interrupted
  <2>3. Interrupted(s) \notin Pinches
    BY <2>1, <2>2, RequestsDiffer DEF Of, Requests
  <2> QED
    BY <2>3 DEF Answer
<1> DEFINE now == IF engine[s] = "ready" THEN SpeakNow(s, r) ELSE <<>>
<1>7. now \in Seq(Steps)
  BY DoSteps
<1>8. /\ Then(t, <<>> \o now)
      /\ pending' = [pending EXCEPT ![s] = IF engine[s] = "ready" THEN None ELSE r]
  BY <1>4, <1>6 DEF Swap
<1>9. Program(t, now)
  <2>1. Says(SpeakNow(s, r), {s})
    BY DEF Says
  <2>2. Program(t, SpeakNow(s, r))
    BY <1>3, <2>1 DEF Program, Enqueuer, Says
  <2> QED
    BY <2>2 DEF Program
<1>10. Range(now) = IF engine[s] = "ready" THEN {Do("activate", s, r), Do("say", s, r)} ELSE {}
  BY Elems DEF SpeakNow
<1> HIDE DEF now
<1>11. <<>> \o now = now /\ now \o <<>> = now
  BY <1>7, ConcatEmptySeq
<1>12. Then(t, now) /\ Program(t, now \o Tail(todo[t]))
  BY <1>4, <1>8, <1>9, <1>11
<1>13. /\ Shaped' /\ Stopping \subseteq Stopping'
       /\ Left' = [Left EXCEPT ![t] = Range(now) \cup (Left[t] \ {Head(todo[t])})]
  BY <1>1, <1>7, <1>12, StepMoves
<1>14. Range(now) \cup (Left[t] \ {Head(todo[t])})
           = IF engine[s] = "ready" THEN {Do("activate", s, r), Do("say", s, r)} ELSE {}
  BY <1>4, <1>5, <1>10
<1> QED
  BY <1>5, <1>8, <1>13, <1>14
  DEF Swapped, Swap, speakerVars, engineVars, jobVars, Of, Requests

\* Activate.
Activated(t, s, r) ==
    /\ r \in Of(s)
    /\ Left[t] = {Do("activate", s, r), Do("say", s, r)}
    /\ active' = [active EXCEPT ![s] = r]
    /\ Left' = [Left EXCEPT ![t] = {Do("say", s, r)}]
    /\ Shaped' /\ Stopping \subseteq Stopping'
    /\ UNCHANGED <<latest, engine, pending, voice, calls, streaming, job, awaited, raced>>

\* Activate does that.
LEMMA ActivateMoves ==
    ASSUME Shaped, NEW t \in Threads, Activate(t)
    PROVE  \E s \in Speakers, r \in Requests : Activated(t, s, r)
<1>1. Program(t, todo[t]) /\ todo[t] # <<>> /\ Head(todo[t]).what = "activate" /\ Does(t, "activate")
  BY DEF Activate, Does, Idle, Shaped
<1>2. \E s \in Speakers : \E r \in Of(s) : todo[t] = <<Do("activate", s, r), Do("say", s, r)>>
  BY <1>1, Forms
<1>3. PICK s \in Speakers : \E r \in Of(s) : todo[t] = <<Do("activate", s, r), Do("say", s, r)>>
  BY <1>2
<1>4. PICK r \in Of(s) : todo[t] = <<Do("activate", s, r), Do("say", s, r)>>
  BY <1>3
<1>5. /\ Head(todo[t]) = Do("activate", s, r) /\ Tail(todo[t]) = <<Do("say", s, r)>>
      /\ Head(todo[t]).by = s /\ Head(todo[t]).req = r
  BY <1>4, Heads, DoFields
<1>6. Left[t] = {Do("activate", s, r), Do("say", s, r)}
  BY <1>4, Elems DEF Left
<1>7. active' = [active EXCEPT ![s] = r] /\ Then(t, <<>>)
  BY <1>5 DEF Activate
<1>8. <<>> \o Tail(todo[t]) = <<Do("say", s, r)>> /\ <<>> \in Seq(Steps) /\ Range(<<>>) = {}
  BY <1>5, Joins, Elems
<1>9. Program(t, <<Do("say", s, r)>>)
  <2>1. t = "main" \/ (t = "bridge" /\ s = "web")
    BY <1>1, <1>4, Heads, DoFields
    DEF Program, Enqueues, Says, Finishes, Cancels, GivesUp, Closes, Close, SpeakNow
  <2>2. Says(<<Do("say", s, r)>>, {s})
    BY DEF Says
  <2>3. Says(<<Do("say", s, r)>>, Speakers)
    BY DEF Says
  <2> QED
    BY <2>1, <2>2, <2>3 DEF Program
<1>10. /\ Shaped' /\ Stopping \subseteq Stopping'
       /\ Left' = [Left EXCEPT ![t] = {} \cup (Left[t] \ {Head(todo[t])})]
  BY <1>1, <1>7, <1>8, <1>9, StepMoves
<1>11. {} \cup (Left[t] \ {Head(todo[t])}) = {Do("say", s, r)}
  BY <1>5, <1>6, DoFields
<1> QED
  BY <1>6, <1>7, <1>10, <1>11
  DEF Activated, Activate, speakerVars, engineVars, jobVars, Of, Requests

\* Say.
Said(t, s, r) ==
    /\ r \in Of(s)
    /\ Left[t] = {Do("say", s, r)}
    /\ \/ /\ engine[s] = "ready"
          /\ calls' = calls \cup Ended(s)
          /\ voice' = [voice EXCEPT ![s] = r]
          /\ Left' = [Left EXCEPT ![t] = {}]
       \/ /\ engine[s] = "ready" /\ UNCHANGED <<voice, calls>>
          /\ Left' = [Left EXCEPT ![t] = {Do("finish", s, r)}]
       \/ /\ engine[s] = "closed" /\ UNCHANGED <<voice, calls>>
          /\ Left' = [Left EXCEPT ![t] = {}]
    /\ Shaped' /\ Stopping \subseteq Stopping'
    /\ UNCHANGED <<latest, engine, pending, active, streaming, job, awaited, raced>>

\* Say does that, whatever the engine does.
LEMMA SayMoves ==
    ASSUME Shaped, NEW t \in Threads, Say(t)
    PROVE  \E s \in Speakers, r \in Requests : Said(t, s, r)
<1>1. Program(t, todo[t]) /\ todo[t] # <<>> /\ Head(todo[t]).what = "say" /\ Does(t, "say")
  BY DEF Say, Does, Idle, Shaped
<1>2. \E s \in Speakers : \E r \in Of(s) : todo[t] = <<Do("say", s, r)>>
  BY <1>1, Forms
<1>3. PICK s \in Speakers : \E r \in Of(s) : todo[t] = <<Do("say", s, r)>>
  BY <1>2
<1>4. PICK r \in Of(s) : todo[t] = <<Do("say", s, r)>>
  BY <1>3
<1>5. /\ Head(todo[t]) = Do("say", s, r) /\ Tail(todo[t]) = <<>>
      /\ Head(todo[t]).by = s /\ Head(todo[t]).req = r
  BY <1>4, Heads, DoFields
<1>6. Left[t] = {Do("say", s, r)}
  BY <1>4, Elems DEF Left
<1>7. \A steps \in Seq(Steps) : Then(t, steps) /\ Program(t, steps) =>
         /\ Shaped' /\ Stopping \subseteq Stopping'
         /\ Left' = [Left EXCEPT ![t] = Range(steps) \cup (Left[t] \ {Head(todo[t])})]
  <2> TAKE steps \in Seq(Steps)
  <2>1. steps \o Tail(todo[t]) = steps
    BY <1>5, ConcatEmptySeq
  <2> QED
    BY <1>1, <2>1, StepMoves
<1>8. Left[t] \ {Head(todo[t])} = {}
  BY <1>5, <1>6
<1>9. Then(t, <<>>) => Shaped' /\ Stopping \subseteq Stopping' /\ Left' = [Left EXCEPT ![t] = {}]
  <2>1. Program(t, <<>>) /\ <<>> \in Seq(Steps) /\ Range(<<>>) = {}
    BY Elems DEF Program
  <2> QED
    BY <1>7, <1>8, <2>1
<1>10. Then(t, <<Do("finish", s, r)>>) =>
           Shaped' /\ Stopping \subseteq Stopping' /\ Left' = [Left EXCEPT ![t] = {Do("finish", s, r)}]
  <2> DEFINE steps == <<Do("finish", s, r)>>
  <2>1. Finishes(steps)
    BY DEF Finishes
  <2>2. steps \in Seq(Steps) /\ Range(steps) = {Do("finish", s, r)}
    BY DoSteps, Elems
  <2> HIDE DEF steps
  <2>3. Program(t, steps)
    BY <2>1 DEF Program
  <2>4. Then(t, steps) =>
           Shaped' /\ Stopping \subseteq Stopping' /\ Left' = [Left EXCEPT ![t] = {Do("finish", s, r)}]
    BY <1>7, <1>8, <2>2, <2>3
  <2> QED
    BY <2>4 DEF steps
<1>11. \/ /\ engine[s] = "ready"
          /\ calls' = calls \cup Ended(s)
          /\ voice' = [voice EXCEPT ![s] = r]
          /\ Then(t, <<>>)
       \/ engine[s] = "ready" /\ Then(t, <<Do("finish", s, r)>>) /\ UNCHANGED <<voice, calls>>
       \/ engine[s] = "closed" /\ Then(t, <<>>) /\ UNCHANGED <<voice, calls>>
  BY <1>5 DEF Say, engineVars
<1> QED
  BY <1>6, <1>9, <1>10, <1>11
  DEF Said, Say, speakerVars, engineVars, jobVars, Of, Requests

\* Finish.
Finished(t, s, r) ==
    /\ r \in Of(s)
    /\ Left[t] = {Do("finish", s, r)}
    /\ active' = IF active[s] = r THEN [active EXCEPT ![s] = None] ELSE active
    /\ Left' = [Left EXCEPT ![t] =
           IF active[s] = r THEN {Do("resume", "camera", x) : x \in {r} \cap Pinches} ELSE {}]
    /\ Shaped' /\ Stopping \subseteq Stopping'
    /\ UNCHANGED <<latest, engine, pending, voice, calls, streaming, job, awaited, raced>>

\* Finish does that.
LEMMA FinishMoves ==
    ASSUME Shaped, NEW t \in Threads, Finish(t)
    PROVE  \E s \in Speakers, r \in Requests : Finished(t, s, r)
<1>1. Program(t, todo[t]) /\ todo[t] # <<>> /\ Head(todo[t]).what = "finish" /\ Does(t, "finish")
  BY DEF Finish, Does, Idle, Shaped
<1>2. \E s \in Speakers : \E r \in Of(s) : todo[t] = <<Do("finish", s, r)>>
  BY <1>1, Forms
<1>3. PICK s \in Speakers : \E r \in Of(s) : todo[t] = <<Do("finish", s, r)>>
  BY <1>2
<1>4. PICK r \in Of(s) : todo[t] = <<Do("finish", s, r)>>
  BY <1>3
<1>5. /\ Head(todo[t]) = Do("finish", s, r) /\ Tail(todo[t]) = <<>>
      /\ Head(todo[t]).by = s /\ Head(todo[t]).req = r
  BY <1>4, Heads, DoFields
<1>6. Left[t] = {Do("finish", s, r)}
  BY <1>4, Elems DEF Left
<1> DEFINE steps == IF active[s] = r THEN Answer(r) ELSE <<>>
<1>7. /\ Then(t, steps)
      /\ active' = IF active[s] = r THEN [active EXCEPT ![s] = None] ELSE active
  BY <1>5 DEF Finish
<1>8. /\ Answer(r) \in Seq(Steps) /\ Range(Answer(r)) = {Do("resume", "camera", x) : x \in {r} \cap Pinches}
      /\ \/ Answer(r) = <<>>
         \/ r \in Pinches /\ Answer(r) = <<Do("resume", "camera", r)>>
  BY AnswerIs
<1>9. steps \in Seq(Steps)
  BY <1>8
<1>10. Range(steps) = IF active[s] = r THEN {Do("resume", "camera", x) : x \in {r} \cap Pinches} ELSE {}
  BY <1>8, Elems
<1>11. Program(t, steps)
  <2>1. steps = <<>> \/ (r \in Pinches /\ steps = <<Do("resume", "camera", r)>>)
    BY <1>8
  <2> HIDE DEF steps
  <2>2. steps = <<>> \/ Finishes(steps)
    BY <2>1 DEF Finishes
  <2> QED
    BY <2>2 DEF Program
<1> HIDE DEF steps
<1>12. steps \o Tail(todo[t]) = steps
  BY <1>5, <1>9, ConcatEmptySeq
<1>13. /\ Shaped' /\ Stopping \subseteq Stopping'
       /\ Left' = [Left EXCEPT ![t] = Range(steps) \cup (Left[t] \ {Head(todo[t])})]
  BY <1>1, <1>7, <1>9, <1>11, <1>12, StepMoves
<1>14. Left[t] \ {Head(todo[t])} = {}
  BY <1>5, <1>6
<1> QED
  BY <1>6, <1>7, <1>10, <1>13, <1>14
  DEF Finished, Finish, speakerVars, engineVars, jobVars, Of, Requests

\* CancelRequest.
RequestCancelled(t, r) ==
    /\ t = "main" /\ Do("cancelRequest", "camera", r) \in Left[t]
    /\ \/ /\ pending["camera"] = r /\ pending' = [pending EXCEPT !["camera"] = None]
          /\ UNCHANGED active
          /\ Left' = [Left EXCEPT ![t] = Left[t] \ {Do("cancelRequest", "camera", r)}]
       \/ /\ pending["camera"] # r /\ active["camera"] = r
          /\ active' = [active EXCEPT !["camera"] = None] /\ UNCHANGED pending
          /\ Left' = [Left EXCEPT ![t] =
                 {Do("stop", "camera", None)} \cup (Left[t] \ {Do("cancelRequest", "camera", r)})]
          /\ t \in Stopping'
       \/ /\ r \notin {pending["camera"], active["camera"]}
          /\ UNCHANGED <<pending, active>>
          /\ Left' = [Left EXCEPT ![t] = Left[t] \ {Do("cancelRequest", "camera", r)}]
    /\ Shaped' /\ Stopping \subseteq Stopping'
    /\ UNCHANGED <<latest, engine, voice, calls, streaming, job, awaited, raced>>

\* CancelRequest does that, on its own or before a close.
LEMMA CancelRequestMoves ==
    ASSUME Shaped, NEW t \in Threads, CancelRequest(t)
    PROVE  \E r \in Pinches : RequestCancelled(t, r)
<1>1. /\ Program(t, todo[t]) /\ todo[t] # <<>> /\ Head(todo[t]).what = "cancelRequest"
      /\ Does(t, "cancelRequest")
  BY DEF CancelRequest, Does, Idle, Shaped
<1>2. /\ t = "main"
      /\ \E p \in Pinches :
             \/ todo[t] = <<Do("cancelRequest", "camera", p)>>
             \/ todo[t] = <<Do("cancelRequest", "camera", p),
                            Do("disown", "camera", None), Do("shut", "camera", None)>>
  BY <1>1, OtherForms
<1>3. PICK r \in Pinches :
          \/ todo[t] = <<Do("cancelRequest", "camera", r)>>
          \/ todo[t] = <<Do("cancelRequest", "camera", r),
                         Do("disown", "camera", None), Do("shut", "camera", None)>>
  BY <1>2
<1>13. Tail(todo[t]) = <<>> \/ Tail(todo[t]) = <<Do("disown", "camera", None), Do("shut", "camera", None)>>
  <2>1. CASE todo[t] = <<Do("cancelRequest", "camera", r)>>
    BY <2>1, Heads
  <2>2. CASE todo[t] = <<Do("cancelRequest", "camera", r),
                         Do("disown", "camera", None), Do("shut", "camera", None)>>
    BY <2>2, Heads
  <2> QED
    BY <1>3, <2>1, <2>2
<1>4. /\ Head(todo[t]) = Do("cancelRequest", "camera", r)
      /\ Head(todo[t]).by = "camera" /\ Head(todo[t]).req = r
  BY <1>3, Heads, DoFields
<1> DEFINE stop == <<Do("stop", "camera", None)>>
<1>5. /\ <<>> \o Tail(todo[t]) = Tail(todo[t])
      /\ \/ stop \o Tail(todo[t]) = stop
         \/ stop \o Tail(todo[t])
               = <<Do("stop", "camera", None), Do("disown", "camera", None), Do("shut", "camera", None)>>
  <2>1. CASE Tail(todo[t]) = <<>>
    BY <2>1, Joins
  <2>2. CASE Tail(todo[t]) = <<Do("disown", "camera", None), Do("shut", "camera", None)>>
    <3>1. /\ <<>> \o <<Do("disown", "camera", None), Do("shut", "camera", None)>>
                = <<Do("disown", "camera", None), Do("shut", "camera", None)>>
          /\ stop \o <<Do("disown", "camera", None), Do("shut", "camera", None)>>
                = <<Do("stop", "camera", None), Do("disown", "camera", None), Do("shut", "camera", None)>>
      BY Joins
    <3> QED
      BY <2>2, <3>1
  <2> QED
    BY <1>13, <2>1, <2>2
<1>6. Program(t, <<>> \o Tail(todo[t])) /\ Program(t, stop \o Tail(todo[t]))
  <2>1. Closes(<<Do("disown", "camera", None), Do("shut", "camera", None)>>)
    BY DEF Closes, Close, Speakers
  <2>2. GivesUp(stop)
    BY DEF GivesUp
  <2>3. Closes(<<Do("stop", "camera", None), Do("disown", "camera", None), Do("shut", "camera", None)>>)
    BY DEF Closes
  <2>4. Tail(todo[t]) = <<>> \/ Closes(Tail(todo[t]))
    BY <1>13, <2>1
  <2>5. Program(t, Tail(todo[t]))
    BY <1>2, <2>4 DEF Program
  <2>6. GivesUp(stop \o Tail(todo[t])) \/ Closes(stop \o Tail(todo[t]))
    BY <1>5, <2>2, <2>3
  <2>7. Program(t, stop \o Tail(todo[t]))
    BY <1>2, <2>6 DEF Program
  <2> QED
    BY <1>5, <2>5, <2>7
<1>7. /\ stop \in Seq(Steps) /\ <<>> \in Seq(Steps) /\ Range(<<>>) = {}
      /\ Range(stop) = {Do("stop", "camera", None)} /\ stop # <<>> /\ Head(stop) = Do("stop", "camera", None)
  BY DoSteps, Elems, Heads DEF Speakers
<1>8. \/ /\ pending["camera"] = r /\ pending' = [pending EXCEPT !["camera"] = None]
         /\ Then(t, <<>>) /\ UNCHANGED active
      \/ /\ pending["camera"] # r /\ active["camera"] = r
         /\ active' = [active EXCEPT !["camera"] = None]
         /\ Then(t, stop) /\ UNCHANGED pending
      \/ r \notin {pending["camera"], active["camera"]} /\ Then(t, <<>>) /\ UNCHANGED <<pending, active>>
  BY <1>4 DEF CancelRequest
<1> HIDE DEF stop
<1>9. Then(t, <<>>) =>
          /\ Shaped' /\ Stopping \subseteq Stopping'
          /\ Left' = [Left EXCEPT ![t] = {} \cup (Left[t] \ {Do("cancelRequest", "camera", r)})]
  BY <1>1, <1>4, <1>6, <1>7, StepMoves
<1>10. Then(t, stop) =>
          /\ Shaped' /\ Stopping \subseteq Stopping' /\ t \in Stopping'
          /\ Left' = [Left EXCEPT ![t] =
                 {Do("stop", "camera", None)} \cup (Left[t] \ {Do("cancelRequest", "camera", r)})]
  BY <1>1, <1>4, <1>6, <1>7, StepMoves
<1>11. Do("cancelRequest", "camera", r) \in Left[t]
  BY <1>1, <1>4, TailIsRest DEF Left
<1>12. {} \cup (Left[t] \ {Do("cancelRequest", "camera", r)}) = Left[t] \ {Do("cancelRequest", "camera", r)}
  OBVIOUS
<1> QED
  BY <1>2, <1>8, <1>9, <1>10, <1>11, <1>12
  DEF RequestCancelled, CancelRequest, speakerVars, engineVars, jobVars

\* Shut.
ShutDown(t, s) ==
    /\ t = "main" /\ Left[t] = {Do("shut", s, None)}
    /\ engine' = [engine EXCEPT ![s] = "closed"]
    /\ voice' = [voice EXCEPT ![s] = None]
    /\ calls' = {c \in calls : c.by # s}
    /\ Left' = [Left EXCEPT ![t] = {}]
    /\ Shaped' /\ Stopping \subseteq Stopping'
    /\ UNCHANGED <<latest, pending, active, streaming, job, awaited, raced>>

\* Shut does that.
LEMMA ShutMoves ==
    ASSUME Shaped, NEW t \in Threads, Shut(t)
    PROVE  \E s \in Speakers : ShutDown(t, s)
<1>1. Program(t, todo[t]) /\ todo[t] # <<>> /\ Head(todo[t]).what = "shut" /\ Does(t, "shut")
  BY DEF Shut, Does, Idle, Shaped
<1>2. t = "main" /\ \E s \in Speakers : todo[t] = <<Do("shut", s, None)>>
  BY <1>1, OtherForms
<1>3. PICK s \in Speakers : todo[t] = <<Do("shut", s, None)>>
  BY <1>2
<1>4. Head(todo[t]) = Do("shut", s, None) /\ Tail(todo[t]) = <<>> /\ Head(todo[t]).by = s
  BY <1>3, Heads, DoFields
<1>5. Left[t] = {Do("shut", s, None)}
  BY <1>3, Elems DEF Left
<1>6. /\ engine' = [engine EXCEPT ![s] = "closed"]
      /\ voice' = [voice EXCEPT ![s] = None]
      /\ calls' = {c \in calls : c.by # s}
      /\ Then(t, <<>>)
  BY <1>4 DEF Shut
<1>7. <<>> \o Tail(todo[t]) = <<>> /\ <<>> \in Seq(Steps) /\ Range(<<>>) = {}
  BY <1>4, Joins, Elems
<1>8. Program(t, <<>> \o Tail(todo[t]))
  BY <1>7 DEF Program
<1>9. /\ Shaped' /\ Stopping \subseteq Stopping'
      /\ Left' = [Left EXCEPT ![t] = {} \cup (Left[t] \ {Head(todo[t])})]
  BY <1>1, <1>6, <1>7, <1>8, StepMoves
<1>10. {} \cup (Left[t] \ {Head(todo[t])}) = {}
  BY <1>4, <1>5
<1> QED
  BY <1>2, <1>5, <1>6, <1>9, <1>10
  DEF ShutDown, Shut, speakerVars, engineVars, jobVars

\* The steps of a speech.
Turns == {"claim", "swap", "activate", "say"}

\* What the invariants use of the form of a program: of a thread t with the steps S left, which
\* steps may be there, whose they are, and which ones exclude each other.
Fits(t, S) ==
    /\ \A w, s, r : Do(w, s, r) \in S =>
          /\ s \in Speakers
          /\ IF w \in {"disown", "drop", "stop", "shut"} THEN r = None ELSE r \in Of(s)
          /\ w \in {"resume", "cancelRequest"} => s = "camera"
          /\ w \in {"cancelRequest", "shut"} => t = "main"
          /\ t = "binder" => w \in {"finish", "resume"}
          /\ w \in Turns /\ s = "camera" => t = "main"
          /\ w = "disown" => IF t = "main" THEN Do("shut", s, None) \in S ELSE s = "web"
          /\ w \in {"cancelRequest", "shut", "disown"} =>
                \A v \in Turns \cup {"finish"} : \A o, x : Do(v, o, x) \notin S
          /\ w \in {"drop", "stop", "resume"} =>
                \A v \in {"claim", "activate", "say", "finish"} : \A o, x : Do(v, o, x) \notin S
          /\ w = "resume" => \A x : Do("resume", "camera", x) \in S => x = r
          /\ w \in Turns => \A v \in Turns : \A o, x : Do(v, o, x) \in S => o = s /\ x = r
          /\ w = "finish" => S = {Do(w, s, r)}

\* Every program is like that ...
LEMMA ProgramFits ==
    ASSUME NEW t, NEW q, Program(t, q)
    PROVE  Fits(t, Range(q))
<1>1. ASSUME NEW o \in Speakers, Enqueuer(t, o), Enqueues(q, o) PROVE Fits(t, Range(q))
  BY <1>1, Elems, DoFields DEF Enqueues, Enqueuer, Fits, Turns, Speakers, Of
<1>2. ASSUME NEW S \in SUBSET Speakers, Says(q, S), t = "main" \/ (t = "bridge" /\ S = {"web"}) PROVE Fits(t, Range(q))
  BY <1>2, Elems, DoFields DEF Says, SpeakNow, Fits, Turns, Speakers, Of
<1>3. ASSUME Finishes(q) PROVE Fits(t, Range(q))
  BY <1>3, Elems, DoFields DEF Finishes, Fits, Turns, Speakers, Of
<1>4. ASSUME Cancels(q), t = "bridge" PROVE Fits(t, Range(q))
  BY <1>4, Elems, DoFields DEF Cancels, Fits, Turns, Speakers, Of
<1>5. ASSUME GivesUp(q), t = "main" PROVE Fits(t, Range(q))
  BY <1>5, Elems, DoFields DEF GivesUp, Fits, Turns, Speakers, Of
<1>6. ASSUME Closes(q), t = "main" PROVE Fits(t, Range(q))
  BY <1>6, Elems, DoFields DEF Closes, Close, Fits, Turns, Speakers, Of
<1>7. ASSUME q = <<>> PROVE Fits(t, Range(q))
  BY <1>7, Elems DEF Fits
<1> QED
  BY <1>1, <1>2, <1>3, <1>4, <1>5, <1>6, <1>7 DEF Program, Enqueuer, Speakers

\* ... so every thread is ...
LEMMA AllFit ==
    ASSUME Shaped
    PROVE  /\ \A t \in Threads : Fits(t, Left[t])
           /\ DOMAIN Left = Threads
BY ProgramFits DEF Shaped, Left

\* ... after the step, too.
LEMMA AllFitNext ==
    ASSUME Shaped'
    PROVE  \A t \in Threads : Fits(t, Left'[t])
BY ProgramFits DEF Shaped, Left

\* Every operation starts with a program.
LEMMA FirstPrograms ==
    /\ \A s \in Speakers : \A r \in Of(s) :
          /\ Program("main", SpeakNow(s, r))
          /\ Range(SpeakNow(s, r)) = {Do("activate", s, r), Do("say", s, r)}
          /\ Program("binder", <<Do("finish", s, r)>>)
          /\ Range(<<Do("finish", s, r)>>) = {Do("finish", s, r)}
          /\ Range(Speech(s, r)) = {Do("claim", s, r), Do("swap", s, r)}
    /\ \A r \in Pinches :
          /\ Program("main", Speech("camera", r))
          /\ Program("main", <<Do("cancelRequest", "camera", r)>>)
          /\ Range(<<Do("cancelRequest", "camera", r)>>) = {Do("cancelRequest", "camera", r)}
          /\ Program("main", <<Do("cancelRequest", "camera", r)>> \o Close("camera"))
          /\ Range(<<Do("cancelRequest", "camera", r)>> \o Close("camera")) =
                 {Do("cancelRequest", "camera", r), Do("disown", "camera", None), Do("shut", "camera", None)}
    /\ \A s \in Speakers :
          /\ Program("main", Close(s))
          /\ Range(Close(s)) = {Do("disown", s, None), Do("shut", s, None)}
          /\ <<>> \o Close(s) = Close(s)
    /\ \A r \in Words : Program("bridge", Speech("web", r))
    /\ Program("bridge", <<Do("disown", "web", None)>>)
    /\ Range(<<Do("disown", "web", None)>>) = {Do("disown", "web", None)}
    /\ \A t : Program(t, <<>>)
    /\ Range(<<>>) = {}
<1>1. ASSUME NEW s \in Speakers, NEW r \in Of(s)
      PROVE  /\ Program("main", SpeakNow(s, r))
             /\ Range(SpeakNow(s, r)) = {Do("activate", s, r), Do("say", s, r)}
             /\ Program("binder", <<Do("finish", s, r)>>)
             /\ Range(<<Do("finish", s, r)>>) = {Do("finish", s, r)}
             /\ Range(Speech(s, r)) = {Do("claim", s, r), Do("swap", s, r)}
  <2>1. Says(SpeakNow(s, r), Speakers) /\ Finishes(<<Do("finish", s, r)>>)
    BY DEF Says, Finishes
  <2>2. Program("main", SpeakNow(s, r)) /\ Program("binder", <<Do("finish", s, r)>>)
    BY <2>1 DEF Program
  <2> QED
    BY <2>2, Elems DEF SpeakNow, Speech
<1>2. ASSUME NEW r \in Pinches
      PROVE  /\ Program("main", Speech("camera", r))
             /\ Program("main", <<Do("cancelRequest", "camera", r)>>)
             /\ Range(<<Do("cancelRequest", "camera", r)>>) = {Do("cancelRequest", "camera", r)}
             /\ Program("main", <<Do("cancelRequest", "camera", r)>> \o Close("camera"))
             /\ Range(<<Do("cancelRequest", "camera", r)>> \o Close("camera")) =
                 {Do("cancelRequest", "camera", r), Do("disown", "camera", None), Do("shut", "camera", None)}
  <2>1. Enqueues(Speech("camera", r), "camera")
    BY DEF Enqueues, Speech, Of
  <2>2. GivesUp(<<Do("cancelRequest", "camera", r)>>)
    BY DEF GivesUp
  <2>3. <<Do("cancelRequest", "camera", r)>> \o Close("camera")
           = <<Do("cancelRequest", "camera", r), Do("disown", "camera", None), Do("shut", "camera", None)>>
    BY Joins DEF Close
  <2>4. Closes(<<Do("cancelRequest", "camera", r)>> \o Close("camera"))
    BY <2>3 DEF Closes
  <2>5. /\ Program("main", Speech("camera", r))
        /\ Program("main", <<Do("cancelRequest", "camera", r)>>)
        /\ Program("main", <<Do("cancelRequest", "camera", r)>> \o Close("camera"))
    BY <2>1, <2>2, <2>4 DEF Program
  <2>6. /\ Range(<<Do("cancelRequest", "camera", r)>>) = {Do("cancelRequest", "camera", r)}
        /\ Range(<<Do("cancelRequest", "camera", r), Do("disown", "camera", None), Do("shut", "camera", None)>>)
               = {Do("cancelRequest", "camera", r), Do("disown", "camera", None), Do("shut", "camera", None)}
    BY Elems
  <2> QED
    BY <2>3, <2>5, <2>6
<1>3. ASSUME NEW s \in Speakers
      PROVE  /\ Program("main", Close(s))
             /\ Range(Close(s)) = {Do("disown", s, None), Do("shut", s, None)}
             /\ <<>> \o Close(s) = Close(s)
  <2>1. Closes(Close(s))
    BY DEF Closes
  <2>2. Program("main", Close(s))
    BY <2>1 DEF Program
  <2> QED
    BY <2>2, Elems, Joins DEF Close
<1>4. ASSUME NEW r \in Words PROVE Program("bridge", Speech("web", r))
  <2>1. Enqueues(Speech("web", r), "web")
    BY DEF Enqueues, Speech, Of
  <2> QED
    BY <2>1 DEF Program
<1>5. Program("bridge", <<Do("disown", "web", None)>>)
  <2>1. Cancels(<<Do("disown", "web", None)>>)
    BY DEF Cancels
  <2> QED
    BY <2>1 DEF Program
<1>6. \A t : Program(t, <<>>)
  BY DEF Program
<1> QED
  BY <1>1, <1>2, <1>3, <1>4, <1>5, <1>6, Elems

\* Nobody has a step left for a request that has just been made.
LEMMA FreshIsNew ==
    ASSUME Shaped, NEW r, Fresh(r)
    PROVE  \A t \in Threads : \A w, s : Do(w, s, r) \notin Left[t]
<1> SUFFICES ASSUME NEW t \in Threads, NEW w, NEW s, Do(w, s, r) \in Left[t] PROVE FALSE
  OBVIOUS
<1>1. PICK i \in DOMAIN todo[t] : todo[t][i] = Do(w, s, r)
  BY DEF Left, Range
<1> QED
  BY <1>1, DoFields DEF Fresh

------------------------------------------------------------------------------
\* The invariant

\* Types, by the speaker.
Typed ==
    /\ latest \in Speakers \cup {None}
    /\ engine \in [Speakers -> {"starting", "ready", "failed", "closed"}]
    /\ pending \in Held /\ active \in Held /\ voice \in Held
    /\ \A c \in calls : c \in Calls /\ c.req \in Of(c.by)
    /\ streaming \in BOOLEAN /\ raced \in BOOLEAN
    /\ job \in {"idle", "speaking", "delaying"}
    /\ awaited \in Pinches \cup {None}

\* The job waits in its speaking phase only, and what is cancelled or closed is not waited for.
WaitsInJob ==
    /\ awaited # None => job = "speaking"
    /\ \A r : Do("cancelRequest", "camera", r) \in Left["main"] => awaited = None
    /\ Do("shut", "camera", None) \in Left["main"] => awaited = None

\* What the camera's speaker holds is waited for, or about to be cancelled, and nobody answers it.
HeldIsCurrent ==
    \A r \in {pending["camera"], active["camera"]} \ {None} :
        /\ r = awaited \/ Do("cancelRequest", "camera", r) \in Left["main"]
        /\ \A t \in Threads : Do("resume", "camera", r) \notin Left[t]

\* The camera's speaker has one request at most.
NotBoth == pending["camera"] = None \/ active["camera"] = None

\* An announcement on its way to the speaker is the one waited for, and finds the speaker empty.
SpeaksOnce ==
    /\ \A what \in {"claim", "swap", "activate"}, r \in Pinches :
          Do(what, "camera", r) \in Left["main"] =>
              /\ r = awaited
              /\ pending["camera"] = None /\ active["camera"] = None
              /\ \A t \in Threads : Do("resume", "camera", r) \notin Left[t]
    /\ \A r \in Pinches :
          Do("say", "camera", r) \in Left["main"] => engine["camera"] = "ready" /\ pending["camera"] = None

\* One thread at most answers a request.
AnsweredOnce ==
    \A r \in Pinches, t, u \in Threads :
        Do("resume", "camera", r) \in Left[t] /\ Do("resume", "camera", r) \in Left[u] => t = u

\* The engine has said nothing of what it is still to speak ...
Unspoken ==
    \A r \in Pinches :
        pending["camera"] = r \/ (\E what \in Turns : Do(what, "camera", r) \in Left["main"])
        => /\ voice["camera"] # r
           /\ \A c \in calls : c.req # r
           /\ \A t \in Threads : Do("finish", "camera", r) \notin Left[t]

\* ... nor that it has ended what it speaks.
SpokenOnce ==
    \A r \in Pinches :
        voice["camera"] = r =>
            /\ \A c \in calls : c.req # r
            /\ \A t \in Threads : Do("finish", "camera", r) \notin Left[t]

\* CallerIsKnown, by the steps that know.
Known ==
    awaited # None =>
        \/ pending["camera"] = awaited /\ engine["camera"] # "ready"
        \/ /\ active["camera"] = awaited
           /\ \/ voice["camera"] = awaited
              \/ \E c \in calls : c.req = awaited
              \/ \E t \in Threads : Do("finish", "camera", awaited) \in Left[t]
              \/ Do("say", "camera", awaited) \in Left["main"]
        \/ \E what \in {"swap", "activate"} : Do(what, "camera", awaited) \in Left["main"]
        \/ \E t \in Threads : Do("resume", "camera", awaited) \in Left[t]

\* The threads that are in the middle of claiming, cancelling or speaking.
Turning ==
    {t \in Threads : \E w \in Turns \cup {"disown", "drop"}, s \in Speakers, r \in Requests \cup {None} :
         Do(w, s, r) \in Left[t]}

\* The speaker is about to be shut down.
Closing(s) == Do("shut", s, None) \in Left["main"]

\* The speaker need not be stopped: it is the newest, or closed, or about to be.
Over(s) == s = latest \/ engine[s] = "closed" \/ Closing(s)

\* Until threads race, one at a time claims, cancels or speaks, unless a screen is closing.
OneTurns == \A t, u \in Turning : t = u \/ \E s \in Speakers : Closing(s)

\* Whoever has claimed and is about to speak is still the newest.
TurnIsLatest ==
    \A t \in Threads, s \in Speakers : \A r \in Of(s) :
        (\/ Do("swap", s, r) \in Left[t] /\ Do("claim", s, r) \notin Left[t]
         \/ Do("activate", s, r) \in Left[t]
         \/ Do("say", s, r) \in Left[t])
        => Over(s)

\* NewestSpeaks, while threads still stop an older speaker.
OlderIsStopped ==
    \A s \in Speakers :
        \/ Over(s)
        \/ \E t \in Threads : Do("drop", s, None) \in Left[t]
        \/ /\ pending[s] = None
           /\ voice[s] = None \/ (\E t \in Threads : Do("stop", s, None) \in Left[t])

\* The camera's engine speaks what the speaker knows of, unless somebody stops it next.
VoiceIsActive ==
    /\ \A r \in Pinches :
          Do("say", "camera", r) \in Left["main"] /\ Do("activate", "camera", r) \notin Left["main"]
              => active["camera"] = r
    /\ voice["camera"] \in {None, active["camera"]} \/ Stopping # {}

\* What holds until threads have raced.
Ordered == OneTurns /\ TurnIsLatest /\ OlderIsStopped /\ VoiceIsActive

\* The invariant.
IInv ==
    /\ Shaped /\ Typed
    /\ WaitsInJob /\ HeldIsCurrent /\ NotBoth /\ SpeaksOnce /\ AnsweredOnce
    /\ Unspoken /\ SpokenOnce /\ Known
    /\ ~raced => Ordered

\* A speaker keeps holding requests of its own.
LEMMA StaysHeld ==
    ASSUME NEW f \in Held, NEW s \in Speakers, NEW r \in Of(s) \cup {None}
    PROVE  [f EXCEPT ![s] = r] \in Held
BY DEF Held, Of, Requests

\* What an engine says of an utterance names it.
LEMMA EndedIs ==
    \A s : /\ voice[s] # None => \E c \in Ended(s) : c.req = voice[s]
           /\ \A c \in Ended(s) : c.by = s /\ c.req = voice[s] /\ voice[s] # None
<1> TAKE s
<1> DEFINE c == [by |-> s, req |-> voice[s]]
<1>1. c.by = s /\ c.req = voice[s]
  OBVIOUS
<1>2. Ended(s) = IF voice[s] = None THEN {} ELSE {c}
  BY DEF Ended
<1> HIDE DEF c
<1> QED
  BY <1>1, <1>2

\* While a thread that has nothing to do overlaps no other, nobody is in the middle of a speech.
LEMMA NobodyTurns ==
    ASSUME Shaped, NEW t \in Threads, Left[t] = {}, ~Overlaps(t)
    PROVE  Turning = {}
<1> SUFFICES ASSUME NEW u \in Threads, NEW w \in Turns \cup {"disown", "drop"}, NEW s, NEW r,
                    Do(w, s, r) \in Left[u]
             PROVE  FALSE
  BY DEF Turning
<1>1. u # t
  OBVIOUS
<1>2. PICK i \in DOMAIN todo[u] : todo[u][i] = Do(w, s, r)
  BY DEF Left, Range
<1> QED
  BY <1>1, <1>2, DoFields DEF Overlaps, Turns

\* A speech that begins without overlapping another finds everything in order: either nothing has
\* raced before, or nobody speaks who should not.
LEMMA SpeechBegins ==
    ASSUME IInv, NEW t \in Threads, NEW z, BeginSpeech(t, z), ~raced', Left[t] = {}
    PROVE  Ordered /\ Turning = {}
<1>1. Turning = {}
  BY NobodyTurns DEF IInv, BeginSpeech
<1>2. ~raced \/ (~Stray /\ ~Unknown)
  BY DEF BeginSpeech
<1>3. OneTurns
  BY <1>1 DEF OneTurns
<1>4. TurnIsLatest
  BY <1>1 DEF TurnIsLatest, Turning, Turns, Of, Requests
<1>5. OlderIsStopped
  BY <1>2 DEF IInv, Ordered, OlderIsStopped, Stray, Over
<1>6. VoiceIsActive
  <2>1. \A r \in Pinches : Do("say", "camera", r) \notin Left["main"]
    BY <1>1 DEF Turning, Turns, Requests, Speakers, Threads
  <2>2. voice["camera"] \in {None, active["camera"]} \/ Stopping # {}
    BY <1>2 DEF IInv, Ordered, VoiceIsActive, Unknown, Speakers
  <2> QED
    BY <2>1, <2>2 DEF VoiceIsActive
<1> QED
  BY <1>1, <1>3, <1>4, <1>5, <1>6 DEF Ordered

------------------------------------------------------------------------------
\* The steps of the threads

\* The speaker becomes the newest; the other one is still to be told.
LEMMA ClaimHolds ==
    ASSUME IInv, NEW t \in Threads, Claim(t)
    PROVE  IInv'
<1>1. PICK s \in Speakers, r \in Requests : Claimed(t, s, r)
  BY ClaimMoves DEF IInv, Typed
<1>2. /\ \A u \in Threads : Fits(u, Left[u]) /\ Fits(u, Left'[u])
      /\ DOMAIN Left = Threads
  BY <1>1, AllFit, AllFitNext DEF IInv, Claimed
<1>3. Typed'
  BY <1>1 DEF IInv, Typed, Claimed
<1>4. NotBoth'
  BY <1>1 DEF IInv, NotBoth, Claimed
<1>5. WaitsInJob'
  BY <1>1, DoFields DEF IInv, WaitsInJob, Claimed
<1>6. HeldIsCurrent'
  BY <1>1, DoFields DEF IInv, HeldIsCurrent, Claimed
<1>7. SpeaksOnce'
  BY <1>1, DoFields DEF IInv, SpeaksOnce, Claimed
<1>8. AnsweredOnce'
  BY <1>1, DoFields DEF IInv, AnsweredOnce, Claimed
<1>9. Unspoken'
  BY <1>1, DoFields DEF IInv, Unspoken, Claimed, Turns
<1>10. SpokenOnce'
  BY <1>1, DoFields DEF IInv, SpokenOnce, Claimed
<1>11. Known'
  BY <1>1, DoFields DEF IInv, Known, Claimed
<1>12. ASSUME ~raced' PROVE Ordered'
  <2>1. Ordered
    BY <1>1, <1>12 DEF IInv, Claimed
  <2>2. OneTurns'
    BY <1>1, <2>1, DoFields DEF Ordered, OneTurns, Closing, Turning, Claimed, Turns
  <2>3. TurnIsLatest'
    BY <1>1, <2>1, <1>2, DoFields
    DEF Ordered, TurnIsLatest, Over, Closing, Claimed, Fits, Turns, Threads, Of, Requests,
        OneTurns, Turning
  <2>4. OlderIsStopped'
    BY <1>1, <2>1, <1>2, DoFields, RequestsDiffer
    DEF Ordered, OlderIsStopped, Over, Closing, Claimed
  <2>5. VoiceIsActive'
    BY <1>1, <2>1, DoFields DEF Ordered, VoiceIsActive, Claimed
  <2> QED
    BY <2>2, <2>3, <2>4, <2>5 DEF Ordered
<1> QED
  BY <1>1, <1>3, <1>4, <1>5, <1>6, <1>7, <1>8, <1>9, <1>10, <1>11, <1>12 DEF IInv, Claimed

\* A speaker gives up its claim; it is still to be told itself.
LEMMA DisownHolds ==
    ASSUME IInv, NEW t \in Threads, Disown(t)
    PROVE  IInv'
<1>1. PICK s \in Speakers : Disowned(t, s)
  BY DisownMoves DEF IInv
<1>2. /\ \A u \in Threads : Fits(u, Left[u]) /\ Fits(u, Left'[u])
      /\ DOMAIN Left = Threads
  BY <1>1, AllFit, AllFitNext DEF IInv, Disowned
<1>3. Typed'
  BY <1>1 DEF IInv, Typed, Disowned
<1>4. NotBoth'
  BY <1>1 DEF IInv, NotBoth, Disowned
<1>5. WaitsInJob'
  BY <1>1, DoFields DEF IInv, WaitsInJob, Disowned
<1>6. HeldIsCurrent'
  BY <1>1, DoFields DEF IInv, HeldIsCurrent, Disowned
<1>7. SpeaksOnce'
  BY <1>1, DoFields DEF IInv, SpeaksOnce, Disowned
<1>8. AnsweredOnce'
  BY <1>1, DoFields DEF IInv, AnsweredOnce, Disowned
<1>9. Unspoken'
  BY <1>1, DoFields DEF IInv, Unspoken, Disowned, Turns
<1>10. SpokenOnce'
  BY <1>1, DoFields DEF IInv, SpokenOnce, Disowned
<1>11. Known'
  BY <1>1, DoFields DEF IInv, Known, Disowned
<1>12. ASSUME ~raced' PROVE Ordered'
  <2>1. Ordered
    BY <1>1, <1>12 DEF IInv, Disowned
  <2>2. OneTurns'
    BY <1>1, <2>1, DoFields DEF Ordered, OneTurns, Closing, Turning, Disowned, Turns
  <2>3. TurnIsLatest'
    BY <1>1, <2>1, <1>2, DoFields
    DEF Ordered, TurnIsLatest, Over, Closing, Disowned, Fits, Turns, Threads, Of, Requests,
        OneTurns, Turning
  <2>4. OlderIsStopped'
    BY <1>1, <2>1, <1>2, DoFields DEF Ordered, OlderIsStopped, Over, Closing, Disowned
  <2>5. VoiceIsActive'
    BY <1>1, <2>1, DoFields DEF Ordered, VoiceIsActive, Disowned
  <2> QED
    BY <2>2, <2>3, <2>4, <2>5 DEF Ordered
<1> QED
  BY <1>1, <1>3, <1>4, <1>5, <1>6, <1>7, <1>8, <1>9, <1>10, <1>11, <1>12 DEF IInv, Disowned

\* What the speaker held is in one thread's hands, which stops the engine first.
LEMMA DropHolds ==
    ASSUME IInv, NEW t \in Threads, Drop(t)
    PROVE  IInv'
<1>1. PICK s \in Speakers : Dropped(t, s)
  BY DropMoves DEF IInv, Typed
<1>2. /\ \A u \in Threads : Fits(u, Left[u]) /\ Fits(u, Left'[u])
      /\ DOMAIN Left = Threads
  BY <1>1, AllFit, AllFitNext DEF IInv, Dropped
<1>3. Typed'
  <2>1. pending' \in Held /\ active' \in Held
    BY <1>1, StaysHeld DEF IInv, Typed, Of, Dropped
  <2> QED
    BY <1>1, <2>1 DEF IInv, Typed, Dropped
<1>4. NotBoth'
  BY <1>1 DEF IInv, NotBoth, Dropped
<1>5. WaitsInJob'
  BY <1>1, DoFields DEF IInv, WaitsInJob, Dropped
<1>6. HeldIsCurrent'
  BY <1>1, DoFields, RequestsDiffer DEF IInv, HeldIsCurrent, Dropped, Of, Typed, Held, Interrupted
<1>7. SpeaksOnce'
  BY <1>1, DoFields, RequestsDiffer
  DEF IInv, SpeaksOnce, Dropped, Of, Requests, Typed, Held, Interrupted
<1>8. AnsweredOnce'
  BY <1>1, DoFields, RequestsDiffer
  DEF IInv, AnsweredOnce, Dropped, Of, Requests, Typed, HeldIsCurrent, Held, Interrupted
<1>9. Unspoken'
  BY <1>1, DoFields, RequestsDiffer DEF IInv, Unspoken, Dropped, Turns, Requests
<1>10. SpokenOnce'
  BY <1>1, DoFields DEF IInv, SpokenOnce, Dropped
<1>11. Known'
  BY <1>1, <1>2, DoFields DEF IInv, Known, Dropped, Typed, NotBoth, Interrupted
<1>12. ASSUME ~raced' PROVE Ordered'
  <2>1. Ordered
    BY <1>1, <1>12 DEF IInv, Dropped
  <2>2. OneTurns'
    <3>1. \A u \in Threads, w \in Turns \cup {"disown", "drop"} : \A o, x :
              Do(w, o, x) \in Left'[u] => Do(w, o, x) \in Left[u]
      BY <1>1, <1>2, DoFields DEF Dropped, Turns
    <3>2. Turning' \subseteq Turning
      BY <3>1 DEF Turning
    <3>3. \A o : Do("shut", o, None) \in Left["main"] => Do("shut", o, None) \in Left'["main"]
      BY <1>1, <1>2, DoFields DEF Dropped, Threads
    <3> QED
      BY <2>1, <3>2, <3>3 DEF Ordered, OneTurns, Closing
  <2>3. TurnIsLatest'
    BY <1>1, <2>1, DoFields DEF Ordered, TurnIsLatest, Over, Closing, Dropped
  <2>4. OlderIsStopped'
    BY <1>1, <2>1, DoFields DEF Ordered, OlderIsStopped, Over, Closing, Dropped, IInv, Typed, Held
  <2>5. VoiceIsActive'
    BY <1>1, <2>1, <1>2
    DEF Ordered, VoiceIsActive, Dropped, Fits, Turns, Threads, Requests, OneTurns, Turning, Closing
  <2> QED
    BY <2>2, <2>3, <2>4, <2>5 DEF Ordered
<1> QED
  BY <1>1, <1>3, <1>4, <1>5, <1>6, <1>7, <1>8, <1>9, <1>10, <1>11, <1>12 DEF IInv, Dropped

\* The engine says of what it spoke that it is over.
LEMMA StopHolds ==
    ASSUME IInv, NEW t \in Threads, Stop(t)
    PROVE  IInv'
<1>1. PICK s \in Speakers : Stopped(t, s)
  BY StopMoves DEF IInv
<1>2. /\ \A u \in Threads : Fits(u, Left[u]) /\ Fits(u, Left'[u])
      /\ DOMAIN Left = Threads
  BY <1>1, AllFit, AllFitNext DEF IInv, Stopped
<1>3. Typed'
  <2>1. voice' \in Held
    BY <1>1, StaysHeld DEF IInv, Typed, Of, Stopped
  <2>2. \A c \in calls' : c \in Calls /\ c.req \in Of(c.by)
    BY <1>1 DEF Stopped, IInv, Typed, Held, Ended, Calls, Of, Requests
  <2> QED
    BY <1>1, <2>1, <2>2 DEF IInv, Typed, Stopped
<1>4. WaitsInJob' /\ NotBoth' /\ SpeaksOnce' /\ AnsweredOnce'
  BY <1>1 DEF IInv, WaitsInJob, NotBoth, SpeaksOnce, AnsweredOnce, Stopped
<1>5. HeldIsCurrent'
  BY <1>1, DoFields DEF IInv, HeldIsCurrent, Stopped
<1>6. Unspoken'
  BY <1>1, RequestsDiffer, EndedIs DEF IInv, Unspoken, Stopped, Of, Requests, Typed, Held
<1>7. SpokenOnce'
  BY <1>1, RequestsDiffer, EndedIs DEF IInv, SpokenOnce, Stopped, Of, Requests, Typed, Held
<1>8. Known'
  BY <1>1, DoFields, EndedIs DEF IInv, Known, Stopped
<1>9. ASSUME ~raced' PROVE Ordered'
  <2>1. Ordered
    BY <1>1, <1>9 DEF IInv, Stopped
  <2>2. OneTurns'
    BY <1>1, <2>1, DoFields DEF Ordered, OneTurns, Closing, Turning, Stopped, Turns
  <2>3. TurnIsLatest'
    BY <1>1, <2>1, DoFields DEF Ordered, TurnIsLatest, Over, Closing, Stopped
  <2>4. OlderIsStopped'
    BY <1>1, <2>1, DoFields
    DEF Ordered, OlderIsStopped, Over, Closing, Stopped, Held, IInv, Typed, WaitsInJob
  <2>5. VoiceIsActive'
    BY <1>1, <2>1, DoFields DEF Ordered, VoiceIsActive, Stopped, Held, IInv, Typed
  <2> QED
    BY <2>2, <2>3, <2>4, <2>5 DEF Ordered
<1> QED
  BY <1>1, <1>3, <1>4, <1>5, <1>6, <1>7, <1>8, <1>9 DEF IInv, Stopped

\* The caller is answered, or no longer waits.
LEMMA ResumeHolds ==
    ASSUME IInv, NEW t \in Threads, Resume(t)
    PROVE  IInv'
<1>1. PICK r \in Pinches : Resumed(t, r)
  BY ResumeMoves DEF IInv
<1>2. /\ \A u \in Threads : Fits(u, Left[u]) /\ Fits(u, Left'[u])
      /\ DOMAIN Left = Threads
  BY <1>1, AllFit, AllFitNext DEF IInv, Resumed
<1>3. Typed'
  BY <1>1 DEF IInv, Typed, Resumed
<1>4. WaitsInJob' /\ NotBoth' /\ SpeaksOnce' /\ AnsweredOnce' /\ Unspoken' /\ SpokenOnce'
  BY <1>1 DEF IInv, WaitsInJob, NotBoth, SpeaksOnce, AnsweredOnce, Unspoken, SpokenOnce, Resumed
<1>5. HeldIsCurrent'
  BY <1>1, DoFields DEF IInv, HeldIsCurrent, Resumed
<1>6. Known'
  BY <1>1, DoFields DEF IInv, Known, Resumed
<1>7. ASSUME ~raced' PROVE Ordered'
  <2>1. Ordered
    BY <1>1, <1>7 DEF IInv, Resumed
  <2>2. OneTurns'
    BY <1>1, <2>1, DoFields DEF Ordered, OneTurns, Closing, Turning, Resumed, Turns
  <2>3. TurnIsLatest'
    BY <1>1, <2>1, DoFields DEF Ordered, TurnIsLatest, Over, Closing, Resumed
  <2>4. OlderIsStopped'
    BY <1>1, <2>1, DoFields DEF Ordered, OlderIsStopped, Over, Closing, Resumed
  <2>5. VoiceIsActive'
    BY <1>1, <2>1, DoFields DEF Ordered, VoiceIsActive, Resumed
  <2> QED
    BY <2>2, <2>3, <2>4, <2>5 DEF Ordered
<1> QED
  BY <1>1, <1>3, <1>4, <1>5, <1>6, <1>7 DEF IInv, Resumed

\* The request is held for an engine that is not up, or about to be spoken.
LEMMA SwapHolds ==
    ASSUME IInv, NEW t \in Threads, Swap(t)
    PROVE  IInv'
<1>1. PICK s \in Speakers, r \in Requests : Swapped(t, s, r)
  <2>1. \A x : Do("swap", "camera", x) \in Left[t] => pending["camera"] = None /\ active["camera"] = None
    BY AllFit, RequestsDiffer DEF IInv, SpeaksOnce, Fits, Turns, Of
  <2> QED
    BY <2>1, SwapMoves DEF IInv, Typed
<1>2. /\ \A u \in Threads : Fits(u, Left[u]) /\ Fits(u, Left'[u])
      /\ DOMAIN Left = Threads
  BY <1>1, AllFit, AllFitNext DEF IInv, Swapped
<1>3. Typed'
  <2>1. pending' \in Held
    BY <1>1, StaysHeld DEF IInv, Typed, Of, Swapped
  <2> QED
    BY <1>1, <2>1 DEF IInv, Typed, Swapped
<1>4. WaitsInJob'
  BY <1>1, DoFields DEF IInv, WaitsInJob, Swapped
<1>5. HeldIsCurrent'
  BY <1>1, <1>2 DEF IInv, HeldIsCurrent, Swapped, Fits, Turns, Of, Typed, SpeaksOnce
<1>6. NotBoth'
  BY <1>1, <1>2 DEF IInv, NotBoth, Swapped, Fits, Turns, Of, SpeaksOnce
<1>7. SpeaksOnce'
  BY <1>1, <1>2 DEF IInv, SpeaksOnce, Swapped, Fits, Turns
<1>8. AnsweredOnce'
  BY <1>1, DoFields DEF IInv, AnsweredOnce, Swapped
<1>9. Unspoken'
  BY <1>1, <1>2, DoFields, RequestsDiffer DEF IInv, Unspoken, Swapped, Fits, Turns, Requests
<1>10. SpokenOnce'
  BY <1>1, DoFields DEF IInv, SpokenOnce, Swapped
<1>11. Known'
  BY <1>1, <1>2, DoFields DEF IInv, Known, Swapped, Fits, Turns, Of, Typed, SpeaksOnce, Held
<1>12. ASSUME ~raced' PROVE Ordered'
  <2>1. Ordered
    BY <1>1, <1>12 DEF IInv, Swapped
  <2>2. OneTurns'
    BY <1>1, <2>1, DoFields DEF Ordered, OneTurns, Closing, Turning, Swapped, Turns
  <2>3. TurnIsLatest'
    BY <1>1, <2>1, DoFields DEF Ordered, TurnIsLatest, Over, Closing, Swapped
  <2>4. OlderIsStopped'
    BY <1>1, <2>1, DoFields DEF Ordered, OlderIsStopped, Over, Closing, Swapped, TurnIsLatest
  <2>5. VoiceIsActive'
    BY <1>1, <2>1, DoFields DEF Ordered, VoiceIsActive, Swapped
  <2> QED
    BY <2>2, <2>3, <2>4, <2>5 DEF Ordered
<1> QED
  BY <1>1, <1>3, <1>4, <1>5, <1>6, <1>7, <1>8, <1>9, <1>10, <1>11, <1>12 DEF IInv, Swapped

\* The request is the speaker's, before its engine has it.
LEMMA ActivateHolds ==
    ASSUME IInv, NEW t \in Threads, Activate(t)
    PROVE  IInv'
<1>1. PICK s \in Speakers, r \in Requests : Activated(t, s, r)
  BY ActivateMoves DEF IInv
<1>2. /\ \A u \in Threads : Fits(u, Left[u]) /\ Fits(u, Left'[u])
      /\ DOMAIN Left = Threads
  BY <1>1, AllFit, AllFitNext DEF IInv, Activated
<1>3. Typed'
  <2>1. active' \in Held
    BY <1>1, StaysHeld DEF IInv, Typed, Of, Activated
  <2> QED
    BY <1>1, <2>1 DEF IInv, Typed, Activated
<1>4. WaitsInJob' /\ AnsweredOnce' /\ Unspoken' /\ SpokenOnce'
  BY <1>1 DEF IInv, WaitsInJob, AnsweredOnce, Unspoken, SpokenOnce, Activated
<1>5. HeldIsCurrent'
  BY <1>1, <1>2 DEF IInv, HeldIsCurrent, Activated, Fits, Turns, Of, SpeaksOnce
<1>6. NotBoth'
  BY <1>1, <1>2 DEF IInv, NotBoth, Activated, Fits, Turns, Of, SpeaksOnce
<1>7. SpeaksOnce'
  BY <1>1, <1>2, DoFields DEF IInv, SpeaksOnce, Activated, Fits, Turns
<1>8. Known'
  BY <1>1, <1>2 DEF IInv, Known, Activated, Fits, Turns, Of, Typed, SpeaksOnce, Held
<1>9. ASSUME ~raced' PROVE Ordered'
  <2>1. Ordered
    BY <1>1, <1>9 DEF IInv, Activated
  <2>2. OneTurns'
    BY <1>1, <2>1, DoFields DEF Ordered, OneTurns, Closing, Turning, Activated, Turns
  <2>3. TurnIsLatest'
    BY <1>1, <2>1, DoFields DEF Ordered, TurnIsLatest, Over, Closing, Activated
  <2>4. OlderIsStopped'
    BY <1>1, <2>1, DoFields DEF Ordered, OlderIsStopped, Over, Closing, Activated
  <2>5. VoiceIsActive'
    BY <1>1, <2>1, <1>2
    DEF Ordered, VoiceIsActive, Activated, Fits, Turns, Of, Held, IInv, Typed, SpeaksOnce
  <2> QED
    BY <2>2, <2>3, <2>4, <2>5 DEF Ordered
<1> QED
  BY <1>1, <1>3, <1>4, <1>5, <1>6, <1>7, <1>8, <1>9 DEF IInv, Activated

\* The engine has the request, or has refused it, or is gone.
LEMMA SayHolds ==
    ASSUME IInv, NEW t \in Threads, Say(t)
    PROVE  IInv'
<1>1. PICK s \in Speakers, r \in Requests : Said(t, s, r)
  BY SayMoves DEF IInv
<1>2. /\ \A u \in Threads : Fits(u, Left[u]) /\ Fits(u, Left'[u])
      /\ DOMAIN Left = Threads
  BY <1>1, AllFit, AllFitNext DEF IInv, Said
<1>3. Typed'
  <2>1. voice' \in Held
    BY <1>1, StaysHeld DEF IInv, Typed, Of, Said
  <2>2. \A c \in calls' : c \in Calls /\ c.req \in Of(c.by)
    BY <1>1 DEF Said, IInv, Typed, Held, Ended, Calls, Of, Requests
  <2> QED
    BY <1>1, <2>1, <2>2 DEF IInv, Typed, Said
<1>4. NotBoth'
  BY <1>1 DEF IInv, NotBoth, Said
<1>5. WaitsInJob'
  BY <1>1, <1>2, DoFields DEF IInv, WaitsInJob, Said, Threads
<1>6. HeldIsCurrent'
  BY <1>1, <1>2, DoFields DEF IInv, HeldIsCurrent, Said, Threads
<1>7. SpeaksOnce'
  BY <1>1, <1>2, DoFields DEF IInv, SpeaksOnce, Said, Threads
<1>8. AnsweredOnce'
  BY <1>1, <1>2 DEF IInv, AnsweredOnce, Said, Fits
<1>9. Unspoken'
  BY <1>1, <1>2, DoFields, RequestsDiffer, EndedIs
  DEF IInv, Unspoken, Said, Fits, Turns, Threads, Of, Speakers, Typed, SpeaksOnce, Held
<1>10. SpokenOnce'
  BY <1>1, <1>2, DoFields, RequestsDiffer, EndedIs
  DEF IInv, SpokenOnce, Said, Fits, Turns, Of, Speakers, Typed, Unspoken, Held
<1>11. Known'
  BY <1>1, <1>2, DoFields, EndedIs DEF IInv, Known, Said, Threads, Speakers, Typed, SpeaksOnce, Held
<1>12. ASSUME ~raced' PROVE Ordered'
  <2>1. Ordered
    BY <1>1, <1>12 DEF IInv, Said
  <2>2. OneTurns'
    BY <1>1, <1>2, DoFields DEF OneTurns, Turning, Said, Fits, Turns, Threads
  <2>3. TurnIsLatest'
    BY <1>1, <2>1, <1>2, DoFields DEF Ordered, TurnIsLatest, Over, Closing, Said, Threads
  <2>4. OlderIsStopped'
    BY <1>1, <2>1, <1>2
    DEF Ordered, OlderIsStopped, Over, Closing, Said, Fits, Turns, Threads, Of, Speakers,
        TurnIsLatest, Held, IInv, Typed, WaitsInJob, HeldIsCurrent, NotBoth, AnsweredOnce,
        VoiceIsActive, Ended
  <2>5. VoiceIsActive'
    BY <1>1, <1>2, <2>1, DoFields
    DEF Ordered, VoiceIsActive, Said, Fits, Turns, Threads, Of, Speakers, IInv, Typed, Held
  <2> QED
    BY <2>2, <2>3, <2>4, <2>5 DEF Ordered
<1> QED
  BY <1>1, <1>3, <1>4, <1>5, <1>6, <1>7, <1>8, <1>9, <1>10, <1>11, <1>12 DEF IInv, Said

\* An announcement that ends while it is still the speaker's is answered by the one thread that took it.
LEMMA FinishHolds ==
    ASSUME IInv, NEW t \in Threads, Finish(t)
    PROVE  IInv'
<1>1. PICK s \in Speakers, r \in Requests : Finished(t, s, r)
  BY FinishMoves DEF IInv
<1>2. /\ \A u \in Threads : Fits(u, Left[u]) /\ Fits(u, Left'[u])
      /\ DOMAIN Left = Threads
  BY <1>1, AllFit, AllFitNext DEF IInv, Finished
<1>3. Typed'
  <2>1. active' \in Held
    BY <1>1, StaysHeld DEF IInv, Typed, Of, Finished
  <2> QED
    BY <1>1, <2>1 DEF IInv, Typed, Finished
<1>4. NotBoth'
  BY <1>1 DEF IInv, NotBoth, Finished
<1>5. WaitsInJob'
  BY <1>1, DoFields DEF IInv, WaitsInJob, Finished
<1>6. HeldIsCurrent'
  BY <1>1, DoFields, RequestsDiffer
  DEF IInv, HeldIsCurrent, Finished, Of, Speakers, Typed, NotBoth, Held
<1>7. SpeaksOnce'
  BY <1>1, DoFields, RequestsDiffer DEF IInv, SpeaksOnce, Finished, Of
<1>8. AnsweredOnce'
  BY <1>1, RequestsDiffer DEF IInv, AnsweredOnce, Finished, Of, HeldIsCurrent
<1>9. Unspoken'
  BY <1>1, DoFields DEF IInv, Unspoken, Finished, Turns
<1>10. SpokenOnce'
  BY <1>1, DoFields DEF IInv, SpokenOnce, Finished
<1>11. Known'
  BY <1>1, <1>2, DoFields DEF IInv, Known, Finished, Of
<1>12. ASSUME ~raced' PROVE Ordered'
  <2>1. Ordered
    BY <1>1, <1>12 DEF IInv, Finished
  <2>2. OneTurns'
    BY <1>1, <2>1, DoFields DEF Ordered, OneTurns, Closing, Turning, Finished, Turns
  <2>3. TurnIsLatest'
    BY <1>1, <2>1, DoFields DEF Ordered, TurnIsLatest, Over, Closing, Finished
  <2>4. OlderIsStopped'
    BY <1>1, <2>1, DoFields DEF Ordered, OlderIsStopped, Over, Closing, Finished
  <2>5. VoiceIsActive'
    BY <1>1, <2>1, DoFields
    DEF Ordered, VoiceIsActive, Finished, Turns, Of, IInv, Unspoken, SpokenOnce
  <2> QED
    BY <2>2, <2>3, <2>4, <2>5 DEF Ordered
<1> QED
  BY <1>1, <1>3, <1>4, <1>5, <1>6, <1>7, <1>8, <1>9, <1>10, <1>11, <1>12 DEF IInv, Finished

\* The view model has stopped waiting: nobody is answered.
LEMMA CancelRequestHolds ==
    ASSUME IInv, NEW t \in Threads, CancelRequest(t)
    PROVE  IInv'
<1>1. PICK r \in Pinches : RequestCancelled(t, r)
  BY CancelRequestMoves DEF IInv
<1>2. /\ \A u \in Threads : Fits(u, Left[u]) /\ Fits(u, Left'[u])
      /\ DOMAIN Left = Threads
  BY <1>1, AllFit, AllFitNext DEF IInv, RequestCancelled
<1>3. Typed'
  <2>1. pending' \in Held /\ active' \in Held
    BY <1>1, StaysHeld DEF IInv, Typed, Of, RequestCancelled, Speakers
  <2> QED
    BY <1>1, <2>1 DEF IInv, Typed, RequestCancelled
<1>4. WaitsInJob'
  BY <1>1 DEF IInv, WaitsInJob, RequestCancelled
<1>5. HeldIsCurrent'
  BY <1>1, <1>2, DoFields DEF IInv, HeldIsCurrent, RequestCancelled, Fits, Typed, NotBoth, Held
<1>6. NotBoth'
  BY <1>1, RequestsDiffer DEF IInv, NotBoth, RequestCancelled, Requests
<1>7. SpeaksOnce'
  BY <1>1, <1>2, DoFields DEF SpeaksOnce, RequestCancelled, Fits, Turns
<1>8. AnsweredOnce'
  BY <1>1, <1>2, DoFields DEF IInv, AnsweredOnce, RequestCancelled
<1>9. Unspoken'
  BY <1>1, <1>2, DoFields, RequestsDiffer
  DEF IInv, Unspoken, RequestCancelled, Requests, Typed, Held
<1>10. SpokenOnce'
  BY <1>1, <1>2 DEF IInv, SpokenOnce, RequestCancelled, Fits
<1>11. Known'
  BY <1>1 DEF IInv, Known, RequestCancelled, WaitsInJob
<1>12. ASSUME ~raced' PROVE Ordered'
  <2>1. Ordered
    BY <1>1, <1>12 DEF IInv, RequestCancelled
  <2>2. OneTurns'
    BY <1>1, <2>1, <1>2, DoFields DEF Ordered, OneTurns, Closing, Turning, RequestCancelled, Turns
  <2>3. TurnIsLatest'
    BY <1>1, <2>1, <1>2, DoFields DEF Ordered, TurnIsLatest, Over, Closing, RequestCancelled
  <2>4. OlderIsStopped'
    BY <1>1, <2>1, <1>2, DoFields
    DEF Ordered, OlderIsStopped, Over, Closing, RequestCancelled, Threads, Requests, Held, IInv,
        Typed, WaitsInJob, HeldIsCurrent, NotBoth, SpeaksOnce, AnsweredOnce, SpokenOnce, Known,
        VoiceIsActive
  <2>5. VoiceIsActive'
    BY <1>1, <2>1, <1>2, DoFields DEF Ordered, VoiceIsActive, RequestCancelled, Fits
  <2> QED
    BY <2>2, <2>3, <2>4, <2>5 DEF Ordered
<1> QED
  BY <1>1, <1>3, <1>4, <1>5, <1>6, <1>7, <1>8, <1>9, <1>10, <1>11, <1>12 DEF IInv, RequestCancelled

\* A closed engine is silent, and nobody waits for it.
LEMMA ShutHolds ==
    ASSUME IInv, NEW t \in Threads, Shut(t)
    PROVE  IInv'
<1>1. PICK s \in Speakers : ShutDown(t, s)
  BY ShutMoves DEF IInv
<1>2. /\ \A u \in Threads : Fits(u, Left[u]) /\ Fits(u, Left'[u])
      /\ DOMAIN Left = Threads
  BY <1>1, AllFit, AllFitNext DEF IInv, ShutDown
<1>3. Typed'
  <2>1. voice' \in Held
    BY <1>1, StaysHeld DEF IInv, Typed, Of, ShutDown
  <2>2. \A c \in calls' : c \in Calls /\ c.req \in Of(c.by)
    BY <1>1 DEF ShutDown, IInv, Typed, Held, Ended, Calls, Of, Requests
  <2> QED
    BY <1>1, <2>1, <2>2 DEF IInv, Typed, ShutDown
<1>4. WaitsInJob' /\ NotBoth' /\ AnsweredOnce'
  BY <1>1 DEF IInv, WaitsInJob, NotBoth, AnsweredOnce, ShutDown
<1>5. HeldIsCurrent'
  BY <1>1, <1>2, DoFields DEF IInv, HeldIsCurrent, ShutDown, Fits, Threads
<1>6. SpeaksOnce'
  BY <1>1, <1>2 DEF SpeaksOnce, ShutDown
<1>7. Unspoken'
  BY <1>1, RequestsDiffer DEF IInv, Unspoken, ShutDown, Requests
<1>8. SpokenOnce'
  BY <1>1, RequestsDiffer DEF IInv, SpokenOnce, ShutDown, Requests
<1>9. Known'
  BY <1>1, DoFields, RequestsDiffer DEF IInv, Known, ShutDown, Of, Typed, WaitsInJob
<1>10. ASSUME ~raced' PROVE Ordered'
  <2>1. Ordered
    BY <1>1, <1>10 DEF IInv, ShutDown
  <2>2. VoiceIsActive'
    BY <1>1, <2>1 DEF Ordered, VoiceIsActive, ShutDown
  <2>3. OneTurns'
    BY <1>1, <1>2 DEF OneTurns, Turning, ShutDown, Fits, Turns, Threads
  <2>4. TurnIsLatest'
    BY <1>1, <2>1, DoFields
    DEF Ordered, TurnIsLatest, Over, Closing, ShutDown, Speakers, IInv, Typed
  <2>5. OlderIsStopped'
    BY <1>1, <2>1, DoFields
    DEF Ordered, OlderIsStopped, Over, Closing, ShutDown, Speakers, IInv, Typed, WaitsInJob
  <2> QED
    BY <2>2, <2>3, <2>4, <2>5 DEF Ordered
<1> QED
  BY <1>1, <1>3, <1>4, <1>5, <1>6, <1>7, <1>8, <1>9, <1>10 DEF IInv, ShutDown

------------------------------------------------------------------------------
\* What the engines, the view model and the web screen do

\* What was held is about to be spoken.
LEMMA InitSucceedsHolds ==
    ASSUME IInv, NEW s \in Speakers, InitSucceeds(s)
    PROVE  IInv'
<1>1. /\ Left["main"] = {}
      /\ Left' = IF pending[s] = None THEN Left
                 ELSE [Left EXCEPT !["main"] =
                           {Do("activate", s, pending[s]), Do("say", s, pending[s])}]
      /\ Shaped' /\ Stopping \subseteq Stopping'
  <2>1. CASE pending[s] = None
    <3>1. Idle("main") /\ UNCHANGED todo
      BY <2>1 DEF InitSucceeds
    <3>2. Left["main"] = {}
      BY <3>1, Elems DEF Left, Idle, Threads
    <3> QED
      BY <2>1, <3>1, <3>2, Stays DEF IInv
  <2>2. CASE pending[s] # None
    <3>1. pending[s] \in Of(s)
      BY <2>2 DEF IInv, Typed, Held
    <3>2. Begin("main", SpeakNow(s, pending[s])) /\ "main" \in Threads
      BY <2>2 DEF InitSucceeds, BeginSpeech, Threads
    <3>3. /\ Program("main", SpeakNow(s, pending[s]))
          /\ Range(SpeakNow(s, pending[s])) =
                 {Do("activate", s, pending[s]), Do("say", s, pending[s])}
      BY <3>1, FirstPrograms
    <3> QED
      BY <2>2, <3>2, <3>3, Begins DEF IInv
  <2> QED
    BY <2>1, <2>2
<1>2. /\ \A u \in Threads : Fits(u, Left[u]) /\ Fits(u, Left'[u])
      /\ DOMAIN Left = Threads
  BY <1>1, AllFit, AllFitNext DEF IInv
<1>3. Typed'
  <2>1. pending' \in Held
    BY <1>1, StaysHeld DEF IInv, Typed, Of, InitSucceeds
  <2> QED
    BY <1>1, <2>1
    DEF IInv, Typed, InitSucceeds, BeginSpeech, engineVars, jobVars, Overlaps, Stray, Unknown
<1>4. NotBoth'
  BY <1>1 DEF IInv, NotBoth, InitSucceeds
<1>5. WaitsInJob'
  BY <1>1, DoFields DEF IInv, WaitsInJob, InitSucceeds, jobVars
<1>6. HeldIsCurrent'
  BY <1>1, DoFields DEF IInv, HeldIsCurrent, InitSucceeds, jobVars
<1>7. SpeaksOnce'
  BY <1>1, DoFields DEF IInv, SpeaksOnce, InitSucceeds, jobVars, Typed, HeldIsCurrent, NotBoth, Held
<1>8. AnsweredOnce'
  BY <1>1, DoFields DEF IInv, AnsweredOnce
<1>9. Unspoken'
  BY <1>1, DoFields, RequestsDiffer DEF IInv, Unspoken, InitSucceeds, engineVars, Requests
<1>10. SpokenOnce'
  BY <1>1, DoFields DEF IInv, SpokenOnce, InitSucceeds, engineVars
<1>11. Known'
  BY <1>1, <1>2 DEF IInv, Known, InitSucceeds, engineVars, jobVars, Threads
<1>12. ASSUME ~raced' PROVE Ordered'
  <2>1. Ordered /\ (pending[s] # None => Turning = {})
    BY <1>1, <1>12, SpeechBegins DEF IInv, InitSucceeds, Threads
  <2>2. OneTurns' /\ OlderIsStopped'
    BY <1>1, <2>1
    DEF Ordered, OneTurns, OlderIsStopped, Closing, Turning, Over, InitSucceeds, engineVars
  <2>3. TurnIsLatest'
    <3>1. CASE pending[s] = None
      BY <1>1, <2>1, <3>1 DEF Ordered, TurnIsLatest, Over, Closing, InitSucceeds, IInv, Typed
    <3>2. CASE pending[s] # None
      <4>1. \A t \in Threads : Do("drop", s, None) \notin Left[t]
        BY <2>1, <3>2 DEF Turning
      <4>2. s = latest
        BY <1>1, <2>1, <3>2, <4>1 DEF Ordered, OlderIsStopped, Over, Closing, InitSucceeds
      <4>3. \A t \in Threads, w \in {"swap", "activate", "say"}, o \in Speakers : \A x \in Of(o) :
               Do(w, o, x) \in Left'[t] => o = s
        BY <1>1, <1>2, <2>1, <3>2, DoFields DEF Turning, Turns, Of, Requests
      <4> QED
        BY <4>2, <4>3 DEF TurnIsLatest, Over, InitSucceeds
    <3> QED
      BY <3>1, <3>2
  <2>4. VoiceIsActive'
    BY <1>1, <2>1, DoFields DEF Ordered, VoiceIsActive, InitSucceeds, engineVars
  <2> QED
    BY <2>2, <2>3, <2>4 DEF Ordered
<1> QED
  BY <1>1, <1>3, <1>4, <1>5, <1>6, <1>7, <1>8, <1>9, <1>10, <1>11, <1>12 DEF IInv

\* What was held is answered.
LEMMA InitFailsHolds ==
    ASSUME IInv, NEW s \in Speakers, InitFails(s)
    PROVE  IInv'
<1>1. Shaped' /\ Left' = Left /\ Stopping' = Stopping
  BY Stays DEF IInv, InitFails
<1>2. /\ \A u \in Threads : Fits(u, Left[u]) /\ Fits(u, Left'[u])
      /\ DOMAIN Left = Threads
  BY <1>1, AllFit, AllFitNext DEF IInv
<1>3. Typed'
  <2>1. pending' \in Held
    BY <1>1, StaysHeld DEF IInv, Typed, Of, InitFails
  <2> QED
    BY <1>1, <2>1 DEF IInv, Typed, InitFails, engineVars
<1>4. WaitsInJob' /\ NotBoth' /\ AnsweredOnce' /\ SpokenOnce' /\ Known'
  BY <1>1 DEF IInv, WaitsInJob, NotBoth, AnsweredOnce, SpokenOnce, Known, InitFails, engineVars
<1>5. HeldIsCurrent'
  BY <1>1, RequestsDiffer DEF IInv, HeldIsCurrent, InitFails, Of, Typed, NotBoth, Held
<1>6. SpeaksOnce'
  BY <1>1, RequestsDiffer DEF IInv, SpeaksOnce, InitFails, Of, Typed, Held
<1>7. Unspoken'
  BY <1>1, RequestsDiffer DEF IInv, Unspoken, InitFails, engineVars, Requests
<1>8. ASSUME ~raced' PROVE Ordered'
  <2>1. Ordered
    BY <1>1, <1>8 DEF IInv, InitFails, engineVars
  <2>2. OneTurns' /\ TurnIsLatest' /\ OlderIsStopped' /\ VoiceIsActive'
    BY <1>1, <2>1
    DEF Ordered, OneTurns, TurnIsLatest, OlderIsStopped, VoiceIsActive, Closing, Turning, Over,
        InitFails, engineVars
  <2> QED
    BY <2>2 DEF Ordered
<1> QED
  BY <1>1, <1>3, <1>4, <1>5, <1>6, <1>7, <1>8 DEF IInv

\* The engine will say that it is over.
LEMMA SpeechEndsHolds ==
    ASSUME IInv, NEW s \in Speakers, SpeechEnds(s)
    PROVE  IInv'
<1>1. Shaped' /\ Left' = Left /\ Stopping' = Stopping
  BY Stays DEF IInv, SpeechEnds
<1>2. /\ \A u \in Threads : Fits(u, Left[u]) /\ Fits(u, Left'[u])
      /\ DOMAIN Left = Threads
  BY <1>1, AllFit, AllFitNext DEF IInv
<1>3. Typed'
  <2>1. voice' \in Held
    BY <1>1, StaysHeld DEF IInv, Typed, Of, SpeechEnds
  <2>2. \A c \in calls' : c \in Calls /\ c.req \in Of(c.by)
    BY <1>1 DEF SpeechEnds, IInv, Typed, Held, Ended, Calls, Of, Requests
  <2> QED
    BY <1>1, <2>1, <2>2 DEF IInv, Typed, SpeechEnds, speakerVars, jobVars
<1>4. WaitsInJob' /\ HeldIsCurrent' /\ NotBoth' /\ SpeaksOnce' /\ AnsweredOnce'
  BY <1>1
  DEF IInv, WaitsInJob, HeldIsCurrent, NotBoth, SpeaksOnce, AnsweredOnce, SpeechEnds, speakerVars,
      jobVars
<1>5. Unspoken'
  BY <1>1, RequestsDiffer, EndedIs
  DEF IInv, Unspoken, SpeechEnds, speakerVars, Of, Requests, Typed, Held
<1>6. SpokenOnce'
  BY <1>1, RequestsDiffer, EndedIs DEF IInv, SpokenOnce, SpeechEnds, Of, Requests, Typed, Held
<1>7. Known'
  BY <1>1, EndedIs DEF IInv, Known, SpeechEnds, speakerVars, jobVars
<1>8. ASSUME ~raced' PROVE Ordered'
  <2>1. Ordered
    BY <1>1, <1>8 DEF IInv, SpeechEnds, speakerVars, jobVars
  <2>2. OneTurns' /\ TurnIsLatest' /\ OlderIsStopped' /\ VoiceIsActive'
    BY <1>1, <2>1
    DEF Ordered, OneTurns, TurnIsLatest, OlderIsStopped, VoiceIsActive, Closing, Turning, Over,
        SpeechEnds, speakerVars
  <2> QED
    BY <2>2 DEF Ordered
<1> QED
  BY <1>1, <1>3, <1>4, <1>5, <1>6, <1>7, <1>8 DEF IInv

\* One thread has what the engine said.
LEMMA CallbackHolds ==
    ASSUME IInv, NEW c \in calls, Callback(c)
    PROVE  IInv'
<1>1. /\ Left["binder"] = {}
      /\ Left' = [Left EXCEPT !["binder"] = {Do("finish", c.by, c.req)}]
      /\ Shaped' /\ Stopping \subseteq Stopping'
  <2>1. Begin("binder", <<Do("finish", c.by, c.req)>>) /\ "binder" \in Threads
    BY DEF Callback, Threads
  <2>2. c.by \in Speakers /\ c.req \in Of(c.by)
    BY DEF IInv, Typed, Calls
  <2>3. /\ Program("binder", <<Do("finish", c.by, c.req)>>)
        /\ Range(<<Do("finish", c.by, c.req)>>) = {Do("finish", c.by, c.req)}
    BY <2>2, FirstPrograms
  <2> QED
    BY <2>1, <2>3, Begins DEF IInv
<1>2. /\ \A u \in Threads : Fits(u, Left[u]) /\ Fits(u, Left'[u])
      /\ DOMAIN Left = Threads
  BY <1>1, AllFit, AllFitNext DEF IInv
<1>3. Typed'
  BY <1>1 DEF IInv, Typed, Callback, speakerVars, jobVars
<1>4. WaitsInJob' /\ NotBoth'
  BY <1>1 DEF IInv, WaitsInJob, NotBoth, Callback, speakerVars, jobVars
<1>5. HeldIsCurrent'
  BY <1>1, DoFields DEF IInv, HeldIsCurrent, Callback, speakerVars, jobVars
<1>6. SpeaksOnce'
  BY <1>1, DoFields DEF IInv, SpeaksOnce, Callback, speakerVars, jobVars
<1>7. AnsweredOnce'
  BY <1>1, DoFields DEF IInv, AnsweredOnce
<1>8. Unspoken'
  BY <1>1, DoFields DEF IInv, Unspoken, Callback, speakerVars
<1>9. SpokenOnce'
  BY <1>1, DoFields DEF IInv, SpokenOnce, Callback
<1>10. Known'
  BY <1>1, <1>2, RequestsDiffer DEF IInv, Known, Callback, speakerVars, jobVars, Threads, Of, Typed
<1>11. ASSUME ~raced' PROVE Ordered'
  <2>1. Ordered
    BY <1>1, <1>11 DEF IInv, Callback, speakerVars, jobVars
  <2>2. OlderIsStopped' /\ VoiceIsActive'
    BY <1>1, <2>1 DEF Ordered, OlderIsStopped, VoiceIsActive, Over, Closing, Callback, speakerVars
  <2>3. OneTurns'
    BY <1>1, <2>1, DoFields DEF Ordered, OneTurns, Closing, Turning, Turns
  <2>4. TurnIsLatest'
    BY <1>1, <2>1, DoFields DEF Ordered, TurnIsLatest, Over, Closing, Callback, speakerVars
  <2> QED
    BY <2>2, <2>3, <2>4 DEF Ordered
<1> QED
  BY <1>1, <1>3, <1>4, <1>5, <1>6, <1>7, <1>8, <1>9, <1>10, <1>11 DEF IInv

\* A new announcement is on its way, of which nobody has heard yet.
LEMMA PinchHolds ==
    ASSUME IInv, NEW r \in Pinches, Pinch(r)
    PROVE  IInv'
<1>1. /\ Left["main"] = {}
      /\ Left' = [Left EXCEPT !["main"] = {Do("claim", "camera", r), Do("swap", "camera", r)}]
      /\ Shaped' /\ Stopping \subseteq Stopping'
      /\ \A t \in Threads : \A w, s : Do(w, s, r) \notin Left[t]
  <2>1. Begin("main", Speech("camera", r)) /\ "main" \in Threads
    BY DEF Pinch, BeginSpeech, Threads
  <2>2. "camera" \in Speakers /\ r \in Of("camera")
    BY DEF Speakers, Of
  <2>3. \A t \in Threads : \A w, s : Do(w, s, r) \notin Left[t]
    BY FreshIsNew DEF IInv, Pinch
  <2>4. /\ Program("main", Speech("camera", r))
        /\ Range(Speech("camera", r)) = {Do("claim", "camera", r), Do("swap", "camera", r)}
    BY <2>2, FirstPrograms
  <2> QED
    BY <2>1, <2>3, <2>4, Begins DEF IInv
<1>2. /\ \A u \in Threads : Fits(u, Left[u]) /\ Fits(u, Left'[u])
      /\ DOMAIN Left = Threads
  BY <1>1, AllFit, AllFitNext DEF IInv
<1>3. Typed'
  BY <1>1 DEF IInv, Typed, Pinch, BeginSpeech, speakerVars, engineVars
<1>4. NotBoth' /\ AnsweredOnce'
  BY <1>1 DEF IInv, NotBoth, AnsweredOnce, Pinch, speakerVars
<1>5. WaitsInJob'
  BY <1>1, DoFields DEF WaitsInJob, Pinch
<1>6. HeldIsCurrent'
  BY <1>1 DEF IInv, HeldIsCurrent, Pinch, speakerVars, WaitsInJob
<1>7. SpeaksOnce'
  BY <1>1, DoFields
  DEF IInv, SpeaksOnce, Pinch, speakerVars, Speakers, Typed, WaitsInJob, HeldIsCurrent, Held
<1>8. Unspoken'
  BY <1>1, <1>2, DoFields DEF IInv, Unspoken, Pinch, Fresh, speakerVars, engineVars, Fits
<1>9. SpokenOnce'
  BY <1>1, DoFields DEF IInv, SpokenOnce, Pinch, engineVars
<1>10. Known'
  BY <1>1, <1>2 DEF Known, Pinch, Threads
<1>11. ASSUME ~raced' PROVE Ordered'
  <2>1. Ordered /\ Turning = {}
    BY <1>1, <1>11, SpeechBegins DEF Pinch, Threads
  <2>2. OneTurns' /\ OlderIsStopped'
    BY <1>1, <2>1
    DEF Ordered, OneTurns, OlderIsStopped, Closing, Turning, Over, Pinch, speakerVars, engineVars
  <2>3. TurnIsLatest'
    BY <1>1, <2>1, DoFields DEF Ordered, TurnIsLatest, Over, Closing, Pinch, speakerVars
  <2>4. VoiceIsActive'
    BY <1>1, <2>1, DoFields DEF Ordered, VoiceIsActive, Pinch, speakerVars, engineVars
  <2> QED
    BY <2>2, <2>3, <2>4 DEF Ordered
<1> QED
  BY <1>1, <1>3, <1>4, <1>5, <1>6, <1>7, <1>8, <1>9, <1>10, <1>11 DEF IInv

\* The caller goes on.
LEMMA SpokenHolds ==
    ASSUME IInv, Spoken
    PROVE  IInv'
<1>1. Shaped' /\ Left' = Left /\ Stopping' = Stopping
  BY Stays DEF IInv, Spoken
<1>2. /\ \A u \in Threads : Fits(u, Left[u]) /\ Fits(u, Left'[u])
      /\ DOMAIN Left = Threads
  BY <1>1, AllFit, AllFitNext DEF IInv
<1>3. Typed'
  BY <1>1 DEF IInv, Typed, Spoken, speakerVars, engineVars
<1>4. WaitsInJob' /\ HeldIsCurrent' /\ NotBoth' /\ SpeaksOnce' /\ AnsweredOnce' /\ Unspoken' /\ SpokenOnce' /\ Known'
  BY <1>1
  DEF IInv, WaitsInJob, HeldIsCurrent, NotBoth, SpeaksOnce, AnsweredOnce, Unspoken, SpokenOnce,
      Known, Spoken, speakerVars, engineVars
<1>5. ASSUME ~raced' PROVE Ordered'
  <2>1. Ordered
    BY <1>1, <1>5 DEF IInv, Spoken, speakerVars, engineVars
  <2>2. OneTurns' /\ TurnIsLatest' /\ OlderIsStopped' /\ VoiceIsActive'
    BY <1>1, <2>1
    DEF Ordered, OneTurns, TurnIsLatest, OlderIsStopped, VoiceIsActive, Closing, Turning, Over,
        Spoken, speakerVars, engineVars
  <2> QED
    BY <2>2 DEF Ordered
<1> QED
  BY <1>1, <1>3, <1>4, <1>5 DEF IInv

\* The caller goes on, and gives the announcement up first.
LEMMA TimeOutHolds ==
    ASSUME IInv, TimeOut
    PROVE  IInv'
<1>1. /\ awaited \in Pinches /\ Left["main"] = {}
      /\ Left' = [Left EXCEPT !["main"] = {Do("cancelRequest", "camera", awaited)}]
      /\ Shaped' /\ Stopping \subseteq Stopping'
  <2>1. /\ Begin("main", <<Do("cancelRequest", "camera", awaited)>>) /\ "main" \in Threads
        /\ awaited \in Pinches
    BY DEF TimeOut, Threads, IInv, Typed
  <2> QED
    BY <2>1, FirstPrograms, Begins DEF IInv
<1>2. /\ \A u \in Threads : Fits(u, Left[u]) /\ Fits(u, Left'[u])
      /\ DOMAIN Left = Threads
  BY <1>1, AllFit, AllFitNext DEF IInv
<1>3. Typed'
  BY <1>1 DEF IInv, Typed, TimeOut, speakerVars, engineVars
<1>4. WaitsInJob' /\ NotBoth' /\ Known'
  BY <1>1 DEF IInv, WaitsInJob, NotBoth, Known, TimeOut, speakerVars
<1>5. HeldIsCurrent'
  BY <1>1, <1>2, DoFields DEF IInv, HeldIsCurrent, TimeOut, speakerVars, Threads
<1>6. SpeaksOnce'
  BY <1>1, DoFields DEF SpeaksOnce
<1>7. AnsweredOnce'
  BY <1>1, DoFields DEF IInv, AnsweredOnce
<1>8. Unspoken'
  BY <1>1, DoFields DEF IInv, Unspoken, TimeOut, speakerVars, engineVars, Turns
<1>9. SpokenOnce'
  BY <1>1, DoFields DEF IInv, SpokenOnce, TimeOut, engineVars
<1>10. ASSUME ~raced' PROVE Ordered'
  <2>1. Ordered
    BY <1>1, <1>10 DEF IInv, TimeOut, speakerVars, engineVars
  <2>2. OlderIsStopped'
    BY <1>1, <2>1 DEF Ordered, OlderIsStopped, Over, Closing, TimeOut, speakerVars, engineVars
  <2>3. OneTurns'
    BY <1>1, <1>2, DoFields DEF OneTurns, Turning, Fits, Turns, Threads
  <2>4. TurnIsLatest'
    BY <1>1, <2>1, DoFields DEF Ordered, TurnIsLatest, Over, Closing, TimeOut, speakerVars
  <2>5. VoiceIsActive'
    BY <1>1, <2>1, DoFields DEF Ordered, VoiceIsActive, TimeOut, speakerVars, engineVars
  <2> QED
    BY <2>2, <2>3, <2>4, <2>5 DEF Ordered
<1> QED
  BY <1>1, <1>3, <1>4, <1>5, <1>6, <1>7, <1>8, <1>9, <1>10 DEF IInv

\* The photo is taken.
LEMMA CaptureHolds ==
    ASSUME IInv, Capture
    PROVE  IInv'
<1>1. Shaped' /\ Left' = Left /\ Stopping' = Stopping
  BY Stays DEF IInv, Capture
<1>2. /\ \A u \in Threads : Fits(u, Left[u]) /\ Fits(u, Left'[u])
      /\ DOMAIN Left = Threads
  BY <1>1, AllFit, AllFitNext DEF IInv
<1>3. Typed'
  BY <1>1 DEF IInv, Typed, Capture, speakerVars, engineVars
<1>4. WaitsInJob' /\ HeldIsCurrent' /\ NotBoth' /\ SpeaksOnce' /\ AnsweredOnce' /\ Unspoken' /\ SpokenOnce' /\ Known'
  BY <1>1
  DEF IInv, WaitsInJob, HeldIsCurrent, NotBoth, SpeaksOnce, AnsweredOnce, Unspoken, SpokenOnce,
      Known, Capture, speakerVars, engineVars
<1>5. ASSUME ~raced' PROVE Ordered'
  <2>1. Ordered
    BY <1>1, <1>5 DEF IInv, Capture, speakerVars, engineVars
  <2>2. OneTurns' /\ TurnIsLatest' /\ OlderIsStopped' /\ VoiceIsActive'
    BY <1>1, <2>1
    DEF Ordered, OneTurns, TurnIsLatest, OlderIsStopped, VoiceIsActive, Closing, Turning, Over,
        Capture, speakerVars, engineVars
  <2> QED
    BY <2>2 DEF Ordered
<1> QED
  BY <1>1, <1>3, <1>4, <1>5 DEF IInv

\* Pinches are accepted.
LEMMA StreamStartsHolds ==
    ASSUME IInv, StreamStarts
    PROVE  IInv'
<1>1. Shaped' /\ Left' = Left /\ Stopping' = Stopping
  BY Stays DEF IInv, StreamStarts
<1>2. /\ \A u \in Threads : Fits(u, Left[u]) /\ Fits(u, Left'[u])
      /\ DOMAIN Left = Threads
  BY <1>1, AllFit, AllFitNext DEF IInv
<1>3. Typed'
  BY <1>1 DEF IInv, Typed, StreamStarts, speakerVars, engineVars
<1>4. WaitsInJob' /\ HeldIsCurrent' /\ NotBoth' /\ SpeaksOnce' /\ AnsweredOnce' /\ Unspoken' /\ SpokenOnce' /\ Known'
  BY <1>1
  DEF IInv, WaitsInJob, HeldIsCurrent, NotBoth, SpeaksOnce, AnsweredOnce, Unspoken, SpokenOnce,
      Known, StreamStarts, speakerVars, engineVars
<1>5. ASSUME ~raced' PROVE Ordered'
  <2>1. Ordered
    BY <1>1, <1>5 DEF IInv, StreamStarts, speakerVars, engineVars
  <2>2. OneTurns' /\ TurnIsLatest' /\ OlderIsStopped' /\ VoiceIsActive'
    BY <1>1, <2>1
    DEF Ordered, OneTurns, TurnIsLatest, OlderIsStopped, VoiceIsActive, Closing, Turning, Over,
        StreamStarts, speakerVars, engineVars
  <2> QED
    BY <2>2 DEF Ordered
<1> QED
  BY <1>1, <1>3, <1>4, <1>5 DEF IInv

\* The job is cancelled, its announcement given up.
LEMMA StreamStopsHolds ==
    ASSUME IInv, StreamStops
    PROVE  IInv'
<1>1. /\ Left["main"] = {}
      /\ Left' = [Left EXCEPT !["main"] =
             IF awaited = None THEN {} ELSE {Do("cancelRequest", "camera", awaited)}]
      /\ Shaped' /\ Stopping \subseteq Stopping'
  <2>1. Begin("main", CancelAwaited) /\ "main" \in Threads /\ awaited \in Pinches \cup {None}
    BY DEF StreamStops, Threads, IInv, Typed
  <2>2. /\ Program("main", CancelAwaited)
        /\ Range(CancelAwaited) = IF awaited = None THEN {} ELSE {Do("cancelRequest", "camera", awaited)}
    BY <2>1, FirstPrograms DEF CancelAwaited
  <2> QED
    BY <2>1, <2>2, Begins DEF IInv
<1>2. /\ \A u \in Threads : Fits(u, Left[u]) /\ Fits(u, Left'[u])
      /\ DOMAIN Left = Threads
  BY <1>1, AllFit, AllFitNext DEF IInv
<1>3. Typed'
  BY <1>1 DEF IInv, Typed, StreamStops, CancelJob, speakerVars, engineVars
<1>4. WaitsInJob' /\ NotBoth' /\ Known'
  BY <1>1 DEF IInv, WaitsInJob, NotBoth, Known, StreamStops, CancelJob, speakerVars
<1>5. HeldIsCurrent'
  BY <1>1, <1>2, DoFields DEF IInv, HeldIsCurrent, StreamStops, speakerVars, Threads
<1>6. SpeaksOnce'
  BY <1>1, DoFields DEF SpeaksOnce
<1>7. AnsweredOnce'
  BY <1>1, DoFields DEF IInv, AnsweredOnce
<1>8. Unspoken'
  BY <1>1, DoFields DEF IInv, Unspoken, StreamStops, speakerVars, engineVars, Turns
<1>9. SpokenOnce'
  BY <1>1, DoFields DEF IInv, SpokenOnce, StreamStops, engineVars
<1>10. ASSUME ~raced' PROVE Ordered'
  <2>1. Ordered
    BY <1>1, <1>10 DEF IInv, StreamStops, CancelJob, speakerVars, engineVars
  <2>2. OlderIsStopped'
    BY <1>1, <2>1 DEF Ordered, OlderIsStopped, Over, Closing, StreamStops, speakerVars, engineVars
  <2>3. OneTurns'
    BY <1>1, <1>2, DoFields DEF OneTurns, Turning, Fits, Turns, Threads
  <2>4. TurnIsLatest'
    BY <1>1, <2>1, DoFields DEF Ordered, TurnIsLatest, Over, Closing, StreamStops, speakerVars
  <2>5. VoiceIsActive'
    BY <1>1, <2>1, DoFields DEF Ordered, VoiceIsActive, StreamStops, speakerVars, engineVars
  <2> QED
    BY <2>2, <2>3, <2>4, <2>5 DEF Ordered
<1> QED
  BY <1>1, <1>3, <1>4, <1>5, <1>6, <1>7, <1>8, <1>9, <1>10 DEF IInv

\* The same, and the speaker is closed.
LEMMA ViewModelClearedHolds ==
    ASSUME IInv, ViewModelCleared
    PROVE  IInv'
<1>1. /\ Left["main"] = {}
      /\ Left' = [Left EXCEPT !["main"] =
             (IF awaited = None THEN {} ELSE {Do("cancelRequest", "camera", awaited)})
                 \cup {Do("disown", "camera", None), Do("shut", "camera", None)}]
      /\ Shaped' /\ Stopping \subseteq Stopping'
  <2> DEFINE z == CancelAwaited \o Close("camera")
  <2>1. Begin("main", z) /\ "main" \in Threads /\ "camera" \in Speakers
    BY DEF ViewModelCleared, Threads, Speakers
  <2>2. CASE awaited = None
    <3>1. z = Close("camera")
      BY <2>1, <2>2, FirstPrograms DEF CancelAwaited
    <3>2. /\ Program("main", Close("camera"))
          /\ Range(Close("camera")) = {Do("disown", "camera", None), Do("shut", "camera", None)}
      BY <2>1, FirstPrograms
    <3> HIDE DEF z
    <3> QED
      BY <2>1, <2>2, <3>1, <3>2, Begins DEF IInv
  <2>3. CASE awaited \in Pinches
    <3>1. z = <<Do("cancelRequest", "camera", awaited)>> \o Close("camera") /\ awaited # None
      BY <2>3, RequestsDiffer DEF CancelAwaited, Requests
    <3>2. /\ Program("main", z)
          /\ Range(z) = {Do("cancelRequest", "camera", awaited),
                         Do("disown", "camera", None), Do("shut", "camera", None)}
      BY <2>3, <3>1, FirstPrograms
    <3> HIDE DEF z
    <3> QED
      BY <2>1, <3>1, <3>2, Begins DEF IInv
  <2> QED
    BY <2>2, <2>3 DEF IInv, Typed
<1>2. /\ \A u \in Threads : Fits(u, Left[u]) /\ Fits(u, Left'[u])
      /\ DOMAIN Left = Threads
  BY <1>1, AllFit, AllFitNext DEF IInv
<1>3. Typed'
  BY <1>1 DEF IInv, Typed, ViewModelCleared, CancelJob, speakerVars, engineVars
<1>4. WaitsInJob' /\ NotBoth' /\ Known'
  BY <1>1 DEF IInv, WaitsInJob, NotBoth, Known, ViewModelCleared, CancelJob, speakerVars
<1>5. HeldIsCurrent'
  BY <1>1, <1>2, DoFields DEF IInv, HeldIsCurrent, ViewModelCleared, speakerVars, Threads
<1>6. SpeaksOnce'
  BY <1>1, DoFields DEF SpeaksOnce
<1>7. AnsweredOnce'
  BY <1>1, DoFields DEF IInv, AnsweredOnce
<1>8. Unspoken'
  BY <1>1, DoFields DEF IInv, Unspoken, ViewModelCleared, speakerVars, engineVars, Turns
<1>9. SpokenOnce'
  BY <1>1, DoFields DEF IInv, SpokenOnce, ViewModelCleared, engineVars
<1>10. ASSUME ~raced' PROVE Ordered'
  <2>1. Ordered
    BY <1>1, <1>10 DEF IInv, ViewModelCleared, CancelJob, speakerVars, engineVars
  <2>2. OlderIsStopped'
    BY <1>1, <2>1
    DEF Ordered, OlderIsStopped, Over, Closing, ViewModelCleared, speakerVars, engineVars
  <2>3. OneTurns'
    BY <1>1, <2>1, DoFields DEF Ordered, OneTurns, Closing, Turning
  <2>4. TurnIsLatest'
    BY <1>1, <2>1, DoFields DEF Ordered, TurnIsLatest, Over, Closing, ViewModelCleared, speakerVars
  <2>5. VoiceIsActive'
    BY <1>1, <2>1, DoFields DEF Ordered, VoiceIsActive, ViewModelCleared, speakerVars, engineVars
  <2> QED
    BY <2>2, <2>3, <2>4, <2>5 DEF Ordered
<1> QED
  BY <1>1, <1>3, <1>4, <1>5, <1>6, <1>7, <1>8, <1>9, <1>10 DEF IInv

\* Words are on their way.
LEMMA SpeakHolds ==
    ASSUME IInv, NEW w \in Words, Speak(w)
    PROVE  IInv'
<1>1. /\ Left["bridge"] = {}
      /\ Left' = [Left EXCEPT !["bridge"] = {Do("claim", "web", w), Do("swap", "web", w)}]
      /\ Shaped' /\ Stopping \subseteq Stopping'
  <2>1. Begin("bridge", Speech("web", w)) /\ "bridge" \in Threads
    BY DEF Speak, BeginSpeech, Threads
  <2>2. "web" \in Speakers /\ w \in Of("web")
    BY DEF Speakers, Of
  <2>3. /\ Program("bridge", Speech("web", w))
        /\ Range(Speech("web", w)) = {Do("claim", "web", w), Do("swap", "web", w)}
    BY <2>2, FirstPrograms
  <2> QED
    BY <2>1, <2>3, Begins DEF IInv
<1>2. /\ \A u \in Threads : Fits(u, Left[u]) /\ Fits(u, Left'[u])
      /\ DOMAIN Left = Threads
  BY <1>1, AllFit, AllFitNext DEF IInv
<1>3. Typed'
  BY <1>1 DEF IInv, Typed, Speak, BeginSpeech, speakerVars, engineVars, jobVars
<1>4. WaitsInJob' /\ NotBoth' /\ Known'
  BY <1>1 DEF IInv, WaitsInJob, NotBoth, Known, Speak, speakerVars, engineVars, jobVars
<1>5. HeldIsCurrent'
  BY <1>1, DoFields DEF IInv, HeldIsCurrent, Speak, speakerVars, jobVars
<1>6. SpeaksOnce'
  BY <1>1, DoFields DEF IInv, SpeaksOnce, Speak, speakerVars, jobVars
<1>7. AnsweredOnce'
  BY <1>1, DoFields DEF IInv, AnsweredOnce
<1>8. Unspoken'
  BY <1>1, DoFields DEF IInv, Unspoken, Speak, speakerVars, engineVars
<1>9. SpokenOnce'
  BY <1>1, DoFields DEF IInv, SpokenOnce, Speak, engineVars
<1>10. ASSUME ~raced' PROVE Ordered'
  <2>1. Ordered /\ Turning = {}
    BY <1>1, <1>10, SpeechBegins DEF Speak, Threads
  <2>2. OneTurns' /\ OlderIsStopped' /\ VoiceIsActive'
    BY <1>1, <2>1
    DEF Ordered, OneTurns, OlderIsStopped, VoiceIsActive, Closing, Turning, Over, Speak,
        speakerVars, engineVars
  <2>3. TurnIsLatest'
    BY <1>1, <2>1, DoFields DEF Ordered, TurnIsLatest, Over, Closing, Speak, speakerVars
  <2> QED
    BY <2>2, <2>3 DEF Ordered
<1> QED
  BY <1>1, <1>3, <1>4, <1>5, <1>6, <1>7, <1>8, <1>9, <1>10 DEF IInv

\* The page gives up its speaker's claim.
LEMMA CancelHolds ==
    ASSUME IInv, Cancel
    PROVE  IInv'
<1>1. /\ Left["bridge"] = {}
      /\ Left' = [Left EXCEPT !["bridge"] = {Do("disown", "web", None)}]
      /\ Shaped' /\ Stopping \subseteq Stopping'
  <2>1. Begin("bridge", <<Do("disown", "web", None)>>) /\ "bridge" \in Threads
    BY DEF Cancel, BeginSpeech, Threads
  <2> QED
    BY <2>1, FirstPrograms, Begins DEF IInv
<1>2. /\ \A u \in Threads : Fits(u, Left[u]) /\ Fits(u, Left'[u])
      /\ DOMAIN Left = Threads
  BY <1>1, AllFit, AllFitNext DEF IInv
<1>3. Typed'
  BY <1>1 DEF IInv, Typed, Cancel, BeginSpeech, speakerVars, engineVars, jobVars
<1>4. WaitsInJob' /\ NotBoth' /\ Known'
  BY <1>1 DEF IInv, WaitsInJob, NotBoth, Known, Cancel, speakerVars, engineVars, jobVars
<1>5. HeldIsCurrent'
  BY <1>1, DoFields DEF IInv, HeldIsCurrent, Cancel, speakerVars, jobVars
<1>6. SpeaksOnce'
  BY <1>1, DoFields DEF IInv, SpeaksOnce, Cancel, speakerVars, jobVars
<1>7. AnsweredOnce'
  BY <1>1, DoFields DEF IInv, AnsweredOnce
<1>8. Unspoken'
  BY <1>1, DoFields DEF IInv, Unspoken, Cancel, speakerVars, engineVars
<1>9. SpokenOnce'
  BY <1>1, DoFields DEF IInv, SpokenOnce, Cancel, engineVars
<1>10. ASSUME ~raced' PROVE Ordered'
  <2>1. Ordered /\ Turning = {}
    BY <1>1, <1>10, SpeechBegins DEF Cancel, Threads
  <2>2. OneTurns' /\ OlderIsStopped' /\ VoiceIsActive'
    BY <1>1, <2>1
    DEF Ordered, OneTurns, OlderIsStopped, VoiceIsActive, Closing, Turning, Over, Cancel,
        speakerVars, engineVars
  <2>3. TurnIsLatest'
    BY <1>1, <2>1, DoFields DEF Ordered, TurnIsLatest, Over, Closing, Cancel, speakerVars
  <2> QED
    BY <2>2, <2>3 DEF Ordered
<1> QED
  BY <1>1, <1>3, <1>4, <1>5, <1>6, <1>7, <1>8, <1>9, <1>10 DEF IInv

\* The screen closes its speaker.
LEMMA DisposeHolds ==
    ASSUME IInv, Dispose
    PROVE  IInv'
<1>1. /\ Left["main"] = {}
      /\ Left' = [Left EXCEPT !["main"] = {Do("disown", "web", None), Do("shut", "web", None)}]
      /\ Shaped' /\ Stopping \subseteq Stopping'
  <2>1. Begin("main", Close("web")) /\ "main" \in Threads /\ "web" \in Speakers
    BY DEF Dispose, Threads, Speakers
  <2> QED
    BY <2>1, FirstPrograms, Begins DEF IInv
<1>2. /\ \A u \in Threads : Fits(u, Left[u]) /\ Fits(u, Left'[u])
      /\ DOMAIN Left = Threads
  BY <1>1, AllFit, AllFitNext DEF IInv
<1>3. Typed'
  BY <1>1 DEF IInv, Typed, Dispose, speakerVars, engineVars, jobVars
<1>4. NotBoth' /\ Known'
  BY <1>1 DEF IInv, NotBoth, Known, Dispose, speakerVars, engineVars, jobVars
<1>5. WaitsInJob'
  BY <1>1, DoFields DEF IInv, WaitsInJob, Dispose, jobVars
<1>6. HeldIsCurrent'
  BY <1>1, DoFields DEF IInv, HeldIsCurrent, Dispose, speakerVars, jobVars, AnsweredOnce, Held
<1>7. SpeaksOnce'
  BY <1>1, DoFields DEF SpeaksOnce
<1>8. AnsweredOnce'
  BY <1>1, DoFields DEF IInv, AnsweredOnce
<1>9. Unspoken'
  BY <1>1, DoFields DEF IInv, Unspoken, Dispose, speakerVars, engineVars
<1>10. SpokenOnce'
  BY <1>1, DoFields DEF IInv, SpokenOnce, Dispose, engineVars
<1>11. ASSUME ~raced' PROVE Ordered'
  <2>1. Ordered
    BY <1>1, <1>11 DEF IInv, Dispose, speakerVars, engineVars, jobVars
  <2>2. OlderIsStopped'
    BY <1>1, <2>1 DEF Ordered, OlderIsStopped, Over, Closing, Dispose, speakerVars, engineVars
  <2>3. OneTurns'
    BY <1>1, <2>1, DoFields DEF Ordered, OneTurns, Closing, Turning, Dispose
  <2>4. TurnIsLatest'
    BY <1>1, <2>1, DoFields DEF Ordered, TurnIsLatest, Over, Closing, Dispose, speakerVars
  <2>5. VoiceIsActive'
    BY <1>1, <2>1, DoFields DEF Ordered, VoiceIsActive, Dispose, speakerVars, engineVars
  <2> QED
    BY <2>2, <2>3, <2>4, <2>5 DEF Ordered
<1> QED
  BY <1>1, <1>3, <1>4, <1>5, <1>6, <1>7, <1>8, <1>9, <1>10, <1>11 DEF IInv

\* Nothing happens.
LEMMA StutterHolds ==
    ASSUME IInv, UNCHANGED vars
    PROVE  IInv'
<1>1. Shaped' /\ Left' = Left /\ Stopping' = Stopping
  BY Stays DEF IInv, vars
<1>2. /\ \A u \in Threads : Fits(u, Left[u]) /\ Fits(u, Left'[u])
      /\ DOMAIN Left = Threads
  BY <1>1, AllFit, AllFitNext DEF IInv
<1>3. Typed'
  BY <1>1 DEF IInv, Typed, vars, speakerVars, engineVars, jobVars
<1>4. WaitsInJob' /\ HeldIsCurrent' /\ NotBoth' /\ SpeaksOnce' /\ AnsweredOnce' /\ Unspoken' /\ SpokenOnce' /\ Known'
  BY <1>1
  DEF IInv, WaitsInJob, HeldIsCurrent, NotBoth, SpeaksOnce, AnsweredOnce, Unspoken, SpokenOnce,
      Known, vars, speakerVars, engineVars, jobVars
<1>5. ASSUME ~raced' PROVE Ordered'
  <2>1. Ordered
    BY <1>1, <1>5 DEF IInv, vars, speakerVars, engineVars, jobVars
  <2>2. OneTurns' /\ TurnIsLatest' /\ OlderIsStopped' /\ VoiceIsActive'
    BY <1>1, <2>1
    DEF Ordered, OneTurns, TurnIsLatest, OlderIsStopped, VoiceIsActive, Closing, Turning, Over,
        vars, speakerVars, engineVars
  <2> QED
    BY <2>2 DEF Ordered
<1> QED
  BY <1>1, <1>3, <1>4, <1>5 DEF IInv

------------------------------------------------------------------------------
\* The invariant holds

\* Nobody has anything to do, holds or speaks anything yet.
LEMMA InitHolds == Init => IInv
<1> SUFFICES ASSUME Init PROVE IInv
  OBVIOUS
<1>1. Shaped
  <2>1. <<>> \in Seq(Steps)
    OBVIOUS
  <2> QED
    BY <2>1 DEF Init, Shaped, Program
<1>2. Left = [t \in Threads |-> {}]
  BY Elems DEF Init, Left
<1>3. Typed
  BY DEF Init, Typed, Held, Speakers
<1>4. WaitsInJob /\ HeldIsCurrent /\ NotBoth /\ SpeaksOnce /\ AnsweredOnce /\ Known
  BY <1>2
  DEF Init, WaitsInJob, HeldIsCurrent, NotBoth, SpeaksOnce, AnsweredOnce, Known, Threads, Speakers
<1>5. Unspoken /\ SpokenOnce
  BY <1>2, RequestsDiffer DEF Init, Unspoken, SpokenOnce, Threads, Speakers, Requests
<1>6. OneTurns /\ TurnIsLatest
  BY <1>2 DEF OneTurns, TurnIsLatest, Turning
<1>7. OlderIsStopped /\ VoiceIsActive
  BY <1>2 DEF Init, OlderIsStopped, VoiceIsActive, Threads, Speakers
<1> QED
  BY <1>1, <1>3, <1>4, <1>5, <1>6, <1>7 DEF IInv, Ordered

\* Every step of a thread keeps the invariant.
LEMMA StepHolds ==
    ASSUME IInv, NEW t \in Threads, Step(t)
    PROVE  IInv'
BY ClaimHolds, DisownHolds, DropHolds, StopHolds, ResumeHolds, SwapHolds, ActivateHolds,
   SayHolds, FinishHolds, CancelRequestHolds, ShutHolds DEF Step

\* Every step of the system does.
LEMMA NextHolds == IInv /\ [Next]_vars => IInv'
<1> SUFFICES ASSUME IInv, [Next]_vars PROVE IInv'
  OBVIOUS
<1>1. ASSUME NEW t \in Threads, Step(t) PROVE IInv'
  BY <1>1, StepHolds
<1>2. ASSUME NEW s \in Speakers, InitSucceeds(s) PROVE IInv'
  BY <1>2, InitSucceedsHolds
<1>3. ASSUME NEW s \in Speakers, InitFails(s) PROVE IInv'
  BY <1>3, InitFailsHolds
<1>4. ASSUME NEW s \in Speakers, SpeechEnds(s) PROVE IInv'
  BY <1>4, SpeechEndsHolds
<1>5. ASSUME NEW c \in calls, Callback(c) PROVE IInv'
  BY <1>5, CallbackHolds
<1>6. ASSUME NEW r \in Pinches, Pinch(r) PROVE IInv'
  BY <1>6, PinchHolds
<1>7. CASE Spoken
  BY <1>7, SpokenHolds
<1>8. CASE TimeOut
  BY <1>8, TimeOutHolds
<1>9. CASE Capture
  BY <1>9, CaptureHolds
<1>10. CASE StreamStarts
  BY <1>10, StreamStartsHolds
<1>11. CASE StreamStops
  BY <1>11, StreamStopsHolds
<1>12. CASE ViewModelCleared
  BY <1>12, ViewModelClearedHolds
<1>13. ASSUME NEW w \in Words, Speak(w) PROVE IInv'
  BY <1>13, SpeakHolds
<1>14. CASE Cancel
  BY <1>14, CancelHolds
<1>15. CASE Dispose
  BY <1>15, DisposeHolds
<1>16. CASE UNCHANGED vars
  BY <1>16, StutterHolds
<1> QED
  BY <1>1, <1>2, <1>3, <1>4, <1>5, <1>6, <1>7, <1>8, <1>9, <1>10, <1>11, <1>12, <1>13, <1>14,
     <1>15, <1>16
  DEF Next
\* The invariant holds in every state the program reaches.
THEOREM Inductive == Spec => []IInv
BY InitHolds, NextHolds, PTL DEF Spec

------------------------------------------------------------------------------

\* Types: what the fields of the two speakers, the threads and the job hold.  That a thread has at
\* most three steps to go is what bounds the interleavings: operations do not pile up.
THEOREM TypeCorrect == Spec => []TypeOK
<1>1. IInv => TypeOK
  <2> SUFFICES ASSUME IInv PROVE TypeOK
    OBVIOUS
  <2>1. Shaped /\ Typed
    BY DEF IInv
  <2>2. \A s \in Speakers : {pending[s], active[s], voice[s]}
            \subseteq {None} \cup (IF s = "camera" THEN Pinches ELSE Words)
    BY <2>1 DEF Typed, Held, Of
  <2>3. \A t \in Threads : Len(todo[t]) <= 3 /\ \A i \in DOMAIN todo[t] : todo[t][i] \in Steps
    <3> TAKE t \in Threads
    <3>1. todo[t] \in Seq(Steps) /\ Len(todo[t]) <= 3
      BY <2>1, ProgramSteps DEF Shaped
    <3> QED
      BY <3>1
  <2>4. calls \subseteq Calls
    BY <2>1 DEF Typed
  <2> QED
    BY <2>1, <2>2, <2>3, <2>4 DEF Typed, TypeOK
<1> QED
  BY <1>1, Inductive, PTL

\* No thread has to do the same step twice.
LEMMA ProgramDiffers ==
    ASSUME NEW t, NEW q, Program(t, q)
    PROVE  \A i, j \in DOMAIN q : q[i] = q[j] => i = j
<1>1. ASSUME NEW a, NEW b, NEW c, q = <<a, b, c>>, a # b, a # c, b # c
      PROVE  \A i, j \in DOMAIN q : q[i] = q[j] => i = j
  BY <1>1
<1>2. ASSUME NEW a, NEW b, q = <<a, b>>, a # b
      PROVE  \A i, j \in DOMAIN q : q[i] = q[j] => i = j
  BY <1>2
<1>3. ASSUME NEW a, q = <<a>> \/ q = <<>>
      PROVE  \A i, j \in DOMAIN q : q[i] = q[j] => i = j
  BY <1>3
<1> QED
  BY <1>1, <1>2, <1>3, ShortPrograms

\* To answer a request is to have that step left.
LEMMA AnswersIsLeft ==
    ASSUME Shaped, NEW t \in Threads, NEW r, Answers(t, r)
    PROVE  Do("resume", "camera", r) \in Left[t]
<1>1. PICK i \in DOMAIN todo[t] : todo[t][i].what = "resume" /\ todo[t][i].req = r
  BY DEF Answers
<1> DEFINE x == todo[t][i]
<1>2. x \in Steps /\ x \in Left[t]
  BY DEF Shaped, Left, Range
<1>3. x = Do(x.what, x.by, x.req)
  BY <1>2 DEF Steps, Do
<1> HIDE DEF x
<1>4. x.by = "camera"
  BY <1>1, <1>2, <1>3, AllFit DEF Fits, x
<1> QED
  BY <1>1, <1>2, <1>3, <1>4 DEF x

\* Whatever the threads do in between, one of them at most is about to resume the caller of
\* speakAndAwait, once, and the speaker has let go of the request by then (cancelLocal, enqueue,
\* finish and cancelRequest take it under the lock before they answer).
THEOREM AnsweredByOne == Spec => []ResumedByOne
<1>1. IInv => ResumedByOne
  <2> SUFFICES ASSUME IInv, NEW t \in Threads, NEW r \in Pinches, Answers(t, r)
               PROVE  /\ r \notin {pending["camera"], active["camera"]}
                      /\ \A u \in Threads \ {t} : ~Answers(u, r)
                      /\ \A i, j \in DOMAIN todo[t] :
                             todo[t][i] = todo[t][j] /\ todo[t][i].what = "resume" => i = j
    BY DEF ResumedByOne
  <2>1. Shaped /\ HeldIsCurrent /\ AnsweredOnce
    BY DEF IInv
  <2>2. Do("resume", "camera", r) \in Left[t]
    BY <2>1, AnswersIsLeft
  <2>3. r \notin {pending["camera"], active["camera"]}
    BY <2>1, <2>2, RequestsDiffer DEF HeldIsCurrent, Requests
  <2>4. \A u \in Threads \ {t} : ~Answers(u, r)
    BY <2>1, <2>2, AnswersIsLeft DEF AnsweredOnce
  <2>5. \A i, j \in DOMAIN todo[t] : todo[t][i] = todo[t][j] => i = j
    BY <2>1, ProgramDiffers DEF Shaped
  <2> QED
    BY <2>3, <2>4, <2>5
<1> QED
  BY <1>1, Inductive, PTL

\* The caller of speakAndAwait is never lost, whichever thread interrupts its announcement.
THEOREM CallersAreKnown == Spec => []CallerIsKnown
<1>1. IInv => CallerIsKnown
  <2> SUFFICES ASSUME IInv, awaited # None,
                      ~(pending["camera"] = awaited /\ engine["camera"] # "ready"),
                      ~(active["camera"] = awaited
                          /\ (voice["camera"] = awaited \/ \E c \in calls : c.req = awaited))
               PROVE  \E t \in Threads : \E i \in DOMAIN todo[t] : todo[t][i].req = awaited
    BY DEF CallerIsKnown
  <2>1. \E t \in Threads : \E w : Do(w, "camera", awaited) \in Left[t]
    BY DEF IInv, Known, Threads
  <2>2. PICK t \in Threads : \E w : Do(w, "camera", awaited) \in Left[t]
    BY <2>1
  <2>3. PICK w : Do(w, "camera", awaited) \in Left[t]
    BY <2>2
  <2>4. \E i \in DOMAIN todo[t] : todo[t][i] = Do(w, "camera", awaited)
    BY <2>3 DEF Left, Range
  <2> QED
    BY <2>4, DoFields
<1> QED
  BY <1>1, Inductive, PTL

\* Latest wins: when all is quiet and no two threads have overlapped, only the newest speaker
\* speaks (claimLatestSpeech).
THEOREM NewestWins == Spec => []NewestSpeaks
<1>1. IInv => NewestSpeaks
  <2> SUFFICES ASSUME IInv, Quiet, ~raced PROVE ~Stray
    BY DEF NewestSpeaks
  <2>1. \A t \in Threads : Left[t] = {}
    BY Elems DEF Quiet, Idle, Left
  <2>2. OlderIsStopped
    BY DEF IInv, Ordered
  <2> QED
    BY <2>1, <2>2 DEF OlderIsStopped, Over, Closing, Stray, Threads
<1> QED
  BY <1>1, Inductive, PTL

\* The delay before the photo begins when the announcement is over, or about to be stopped.
THEOREM SilentBeforeCapture == Spec => []OverBeforeCapture
<1>1. IInv => OverBeforeCapture
  <2> SUFFICES ASSUME IInv, job = "delaying", Idle("main"), ~raced, voice["camera"] # None
               PROVE  \E t \in Threads : ~Idle(t) /\ Head(todo[t]) = Do("stop", "camera", None)
    BY DEF OverBeforeCapture
  <2>1. WaitsInJob /\ HeldIsCurrent /\ VoiceIsActive
    BY DEF IInv, Ordered
  <2>2. Left["main"] = {}
    BY Elems DEF Idle, Left, Threads
  <2>3. active["camera"] = None
    BY <2>1, <2>2 DEF WaitsInJob, HeldIsCurrent
  <2>4. Stopping # {}
    BY <2>1, <2>3 DEF VoiceIsActive
  <2> QED
    BY <2>4 DEF Stopping
<1> QED
  BY <1>1, Inductive, PTL
==============================================================================
