--------------------------- MODULE PhotoSyncProofs ---------------------------
(***************************************************************************)
(* The phone's queue of photos, for any photos, threads, handlers and      *)
(* number of mishaps.  QueueInv says what the threads of the phone may     *)
(* rely on when they read the queue, which no lock protects: a photo's     *)
(* files are written in order, and only its own thread completes them.     *)
(***************************************************************************)
EXTENDS PhotoSync, TLAPS

USE NamesAreDistinct DEF Uploaders

------------------------------------------------------------------------------
\* The invariant of the phone's queue

\* The dispatcher has a capture exactly while it is at work.
CaptureInHand == (captured = None) <=> At(Dispatcher, "idle")

\* Nothing of a photo is queued before it was captured; the description of the capture in hand is
\* not complete, and is written when its image is.
QueueOrdered ==
    /\ \A p \in Photos \ taken : json[p] = "absent" /\ jpg[p] = "absent"
    /\ captured # None => captured \in taken /\ json[captured] # "complete"
    /\ At(Dispatcher, "describing") => jpg[captured] = "complete"

\* Who uploads or deletes has a photo, who waits for an answer is uploading, and the web screen's
\* threads keep off the dispatcher's capture.
JobsKnown ==
    \A u \in Uploaders :
        /\ up[u].at \in {"uploading", "deleting"} => up[u].job # None
        /\ up[u].call # None => up[u].at = "uploading"
        /\ u # Dispatcher /\ up[u].job # None => up[u].job \in taken /\ up[u].job # captured

\* A handler that is not free has a photo.
HandlersKnown == \A h \in Handlers : handler[h] # Free => handler[h].photo # None

\* A photo being restored is known.
RestoreKnown == bridge.at \in {"rewriting", "indexing"} => bridge.photo # None

QueueInv ==
    /\ TypeOK /\ CaptureInHand /\ QueueOrdered /\ PendingIsWhole
    /\ JobsKnown /\ HandlersKnown /\ RestoreKnown

------------------------------------------------------------------------------
\* Types

\* Nobody at work and no files: the initial state is typed.
LEMMA InitTyped == Init => TypeOK
  BY DEF Init, TypeOK, NotUploading, NotRestoring, Free, UploaderStates, BridgeStates,
         HandlerStates, FileStates, RelayFileStates, MaxTries

\* The places an uploader may be at.
Places == {"idle", "saving", "indexing", "resolving", "listing", "uploading", "deleting",
           "queueing", "describing"}

\* Going to another place, and nothing else, keeps the uploaders typed.
LEMMA GoToTyped ==
    ASSUME TypeOK, NEW u \in Uploaders, NEW a \in Places, GoTo(u, a)
    PROVE  up' \in [Uploaders -> UploaderStates]
<1>1. [up[u] EXCEPT !.at = a] \in UploaderStates
  BY DEF TypeOK, UploaderStates, Places
<1>2. up' = [up EXCEPT ![u] = [up[u] EXCEPT !.at = a]]
  BY DEF GoTo
<1> QED
  BY <1>1, <1>2 DEF TypeOK

\* So does beginning to list the queue.
LEMMA ListQueueTyped ==
    ASSUME TypeOK, NEW u \in Uploaders, ListQueue(u)
    PROVE  up' \in [Uploaders -> UploaderStates]
<1>1. up[u] \in UploaderStates
  BY DEF TypeOK
<1>2. Queued \in SUBSET Photos
  BY DEF Queued
<1>3. [up[u] EXCEPT !.at = "listing", !.todo = Queued] \in UploaderStates
  BY <1>1, <1>2 DEF UploaderStates
<1>4. up' = [up EXCEPT ![u] = [up[u] EXCEPT !.at = "listing", !.todo = Queued]]
  BY DEF ListQueue
<1> QED
  BY <1>3, <1>4 DEF TypeOK

\* Mishaps are bounded.
LEMMA MishapTyped ==
    ASSUME TypeOK, Mishap
    PROVE  mishaps' \in 0..MaxMishaps
  BY DEF TypeOK, Mishap

\* Steps of the dispatcher keep the types.
LEMMA SyncTyped == QueueInv /\ SyncStep => TypeOK'
<1> SUFFICES ASSUME QueueInv, SyncStep PROVE TypeOK'
  OBVIOUS
<1>1. UNCHANGED <<configured, bridge, temp, path, rows, handler, reclaimed>>
  BY DEF SyncStep, relayVars
<1>2. TypeOK
  BY DEF QueueInv
<1>3. ASSUME ~At(Dispatcher, "idle") PROVE captured \in Photos
  BY <1>3 DEF QueueInv, CaptureInHand, TypeOK
<1>4. ASSUME NEW p \in Photos, Capture(p) PROVE TypeOK'
  BY <1>1, <1>2, <1>4, GoToTyped DEF Capture, TypeOK, localVars, queueVars, Places
<1>5. CASE LocalFileWritten
  BY <1>1, <1>2, <1>3, <1>5, GoToTyped DEF LocalFileWritten, TypeOK, queueVars, Places, At
<1>6. CASE LocalRowStored
  BY <1>1, <1>2, <1>3, <1>6, GoToTyped DEF LocalRowStored, TypeOK, queueVars, Places, At
<1>7. CASE LocalSaveFails
  BY <1>1, <1>2, <1>7, GoToTyped, MishapTyped
  DEF LocalSaveFails, TypeOK, localVars, queueVars, Places
<1>8. CASE PlaceResolved
  <2>1. up' \in [Uploaders -> UploaderStates]
    BY <1>2, <1>8, GoToTyped, ListQueueTyped DEF PlaceResolved, Places
  <2>2. jpg' \in [Photos -> FileStates]
    BY <1>2, <1>8 DEF PlaceResolved, QueueImageOpened, TypeOK, FileStates
  <2> QED
    BY <1>1, <1>2, <1>8, <2>1, <2>2 DEF PlaceResolved, TypeOK, localVars
<1>9. CASE QueueImageWritten
  <2>1. jpg' \in [Photos -> FileStates] /\ json' \in [Photos -> FileStates]
    BY <1>2, <1>9 DEF QueueImageWritten, TypeOK, FileStates
  <2> QED
    BY <1>1, <1>2, <1>9, <2>1, GoToTyped DEF QueueImageWritten, TypeOK, localVars, Places
<1>10. CASE QueueDescribed
  <2>1. json' \in [Photos -> FileStates]
    BY <1>2, <1>10 DEF QueueDescribed, TypeOK, FileStates
  <2> QED
    BY <1>1, <1>2, <1>10, <2>1, GoToTyped DEF QueueDescribed, TypeOK, localVars, Places
<1>11. CASE QueueFails
  <2>1. captured \in Photos
    BY <1>3, <1>11 DEF QueueFails, At
  <2> QED
    BY <1>1, <1>2, <1>11, <2>1, GoToTyped, MishapTyped
    DEF QueueFails, TypeOK, localVars, queueVars, Places
<1> QED
  BY <1>4, <1>5, <1>6, <1>7, <1>8, <1>9, <1>10, <1>11 DEF SyncStep

\* The fields of an uploader, a handler and the bridge are typed.
LEMMA FieldsTyped ==
    ASSUME TypeOK
    PROVE  /\ \A u \in Uploaders :
                 /\ up[u] \in UploaderStates
                 /\ up[u].at \in Places /\ up[u].job \in Photos \cup {None}
                 /\ up[u].todo \in SUBSET Photos /\ up[u].tries \in 0..MaxTries
                 /\ up[u].call \in Handlers \cup {None}
           /\ \A h \in Handlers :
                 /\ handler[h] \in HandlerStates
                 /\ handler[h].photo \in Photos \cup {None}
                 /\ handler[h].client \in Uploaders \cup {None}
           /\ bridge.photo \in Photos \cup {None} /\ bridge.todo \in SUBSET Photos
<1>1. \A u \in Uploaders : up[u] \in UploaderStates
  BY DEF TypeOK
<1>2. \A h \in Handlers : handler[h] \in HandlerStates
  BY DEF TypeOK
<1>3. bridge \in BridgeStates
  BY DEF TypeOK
<1>4. \A h \in Handlers : handler[h].photo \in Photos \cup {None}
                       /\ handler[h].client \in Uploaders \cup {None}
  BY <1>2 DEF HandlerStates
<1> QED
  BY <1>1, <1>2, <1>3, <1>4 DEF UploaderStates, BridgeStates, Places

\* Steps of retryPendingPhotos keep the types.
LEMMA RetryTyped == QueueInv /\ RetryStep => TypeOK'
<1> SUFFICES ASSUME QueueInv, RetryStep PROVE TypeOK'
  OBVIOUS
<1>1. UNCHANGED <<localFile, localRows, jpg, configured, captured, bridge, temp, path, rows, handler,
                  taken, forgotten, reclaimed, mishaps>>
  BY DEF RetryStep, relayVars, localVars, auxVars
<1>2. TypeOK
  BY DEF QueueInv
<1>3. SUFFICES up' \in [Uploaders -> UploaderStates] /\ json' \in [Photos -> FileStates]
  BY <1>1, <1>2 DEF TypeOK
<1>4. ASSUME NEW r \in Retriers, RetryBegins(r)
      PROVE  up' \in [Uploaders -> UploaderStates] /\ json' \in [Photos -> FileStates]
  BY <1>2, <1>4, ListQueueTyped DEF RetryBegins, TypeOK
<1>5. ASSUME NEW u \in Uploaders, NEW p \in Photos, RetryNext(u, p)
      PROVE  up' \in [Uploaders -> UploaderStates] /\ json' \in [Photos -> FileStates]
  <2>1. up[u] \in UploaderStates /\ up[u].todo \ {p} \in SUBSET Photos /\ 0 \in 0..MaxTries
    BY <1>2, FieldsTyped DEF MaxTries
  <2>2. [up[u] EXCEPT !.todo = @ \ {p}, !.at = "uploading", !.job = p, !.tries = 0]
            \in UploaderStates
    BY <2>1 DEF UploaderStates
  <2>3. [up[u] EXCEPT !.todo = @ \ {p}] \in UploaderStates
    BY <2>1 DEF UploaderStates
  <2>4. \/ up' = [up EXCEPT ![u] = [up[u] EXCEPT !.todo = @ \ {p}, !.at = "uploading", !.job = p,
                                                 !.tries = 0]]
        \/ up' = [up EXCEPT ![u] = [up[u] EXCEPT !.todo = @ \ {p}]]
    BY <1>5 DEF RetryNext
  <2>5. json' = json \/ json' = [json EXCEPT ![p] = "absent"]
    BY <1>5 DEF RetryNext
  <2>6. up' \in [Uploaders -> UploaderStates]
    BY <1>2, <2>2, <2>3, <2>4 DEF TypeOK
  <2>7. json' \in [Photos -> FileStates]
    BY <1>2, <2>5 DEF TypeOK, FileStates
  <2> QED
    BY <2>6, <2>7
<1>6. ASSUME NEW u \in Uploaders, RetryEnds(u)
      PROVE  up' \in [Uploaders -> UploaderStates] /\ json' \in [Photos -> FileStates]
  <2>1. CASE u = Dispatcher
    <3>1. captured \in Photos /\ up[u] \in UploaderStates /\ 0 \in 0..MaxTries
      BY <1>2, <1>6, <2>1, FieldsTyped
      DEF RetryEnds, QueueInv, CaptureInHand, At, TypeOK, MaxTries
    <3>2. [up[u] EXCEPT !.at = "uploading", !.job = captured, !.tries = 0] \in UploaderStates
      BY <3>1 DEF UploaderStates
    <3>3. up' = [up EXCEPT ![u] = [up[u] EXCEPT !.at = "uploading", !.job = captured, !.tries = 0]]
      BY <1>6, <2>1 DEF RetryEnds, BeginUpload
    <3> QED
      BY <1>2, <1>6, <3>2, <3>3 DEF TypeOK, RetryEnds
  <2>2. CASE u # Dispatcher
    BY <1>2, <1>6, <2>2, GoToTyped DEF RetryEnds, TypeOK, Places
  <2> QED
    BY <2>1, <2>2
<1>7. ASSUME NEW u \in Uploaders, QueueFilesDeleted(u)
      PROVE  up' \in [Uploaders -> UploaderStates] /\ json' \in [Photos -> FileStates]
  <2>1. [up[u] EXCEPT !.at = "listing", !.job = None] \in UploaderStates
    BY <1>2, FieldsTyped DEF UploaderStates
  <2>2. up' = [up EXCEPT ![u] = [up[u] EXCEPT !.at = "listing", !.job = None]]
    BY <1>7 DEF QueueFilesDeleted
  <2>3. up' \in [Uploaders -> UploaderStates]
    BY <1>2, <2>1, <2>2 DEF TypeOK
  <2>4. json' \in [Photos -> FileStates]
    BY <1>2, <1>7 DEF TypeOK, QueueFilesDeleted, FileStates
  <2> QED
    BY <2>3, <2>4
<1> QED
  BY <1>4, <1>5, <1>6, <1>7 DEF RetryStep

\* What an attempt changes: it is counted, and either it never reaches the relay or a free handler
\* takes it.
LEMMA SendSends ==
    ASSUME NEW u \in Uploaders, Send(u)
    PROVE  \/ up' = [up EXCEPT ![u] = [up[u] EXCEPT !.tries = @ + 1]] /\ UNCHANGED handler
           \/ \E h \in Handlers :
                 /\ up' = [up EXCEPT ![u] = [up[u] EXCEPT !.tries = @ + 1, !.call = h]]
                 /\ handler' = [handler EXCEPT
                                   ![h] = [at |-> "arrived", photo |-> up[u].job, client |-> u]]
<1>1. CASE up' = [up EXCEPT ![u].tries = @ + 1] /\ UNCHANGED handler
  BY <1>1
<1>2. ASSUME NEW h \in Handlers,
             handler' = [handler EXCEPT
                            ![h] = [at |-> "arrived", photo |-> up[u].job, client |-> u]],
             up' = [up EXCEPT ![u].tries = @ + 1, ![u].call = h]
      PROVE  up' = [up EXCEPT ![u] = [up[u] EXCEPT !.tries = @ + 1, !.call = h]]
  BY <1>2
<1> QED
  BY <1>1, <1>2 DEF Send

\* Steps of uploadPhoto keep the types.
LEMMA UploadTyped == QueueInv /\ UploadStep => TypeOK'
<1> SUFFICES ASSUME QueueInv, UploadStep PROVE TypeOK'
  OBVIOUS
<1>1. UNCHANGED <<localFile, localRows, json, configured, bridge, temp, path, rows,
                  taken, forgotten, reclaimed, mishaps>>
  BY DEF UploadStep, relayVars, localVars, auxVars
<1>2. TypeOK
  BY DEF QueueInv
<1> DEFINE Typed == /\ up' \in [Uploaders -> UploaderStates]
                    /\ handler' \in [Handlers -> HandlerStates]
                    /\ jpg' \in [Photos -> FileStates]
                    /\ captured' \in Photos \cup {None}
<1>3. SUFFICES Typed
  BY <1>1, <1>2 DEF TypeOK
<1>4. Free \in HandlerStates /\ NotUploading \in UploaderStates
  BY DEF Free, NotUploading, HandlerStates, UploaderStates, MaxTries
<1>5. ASSUME NEW u \in Uploaders, Send(u) PROVE Typed
  <2>1. up[u] \in UploaderStates /\ up[u].job \in Photos /\ up[u].tries + 1 \in 0..MaxTries
    BY <1>2, <1>5, FieldsTyped DEF Send, MayTry, At, MaxTries, QueueInv, JobsKnown
  <2>2. [up[u] EXCEPT !.tries = @ + 1] \in UploaderStates
    BY <2>1 DEF UploaderStates
  <2>3. ASSUME NEW h \in Handlers
        PROVE  /\ [up[u] EXCEPT !.tries = @ + 1, !.call = h] \in UploaderStates
               /\ [at |-> "arrived", photo |-> up[u].job, client |-> u] \in HandlerStates
    BY <2>1 DEF UploaderStates, HandlerStates
  <2>4. \/ up' = [up EXCEPT ![u] = [up[u] EXCEPT !.tries = @ + 1]] /\ UNCHANGED handler
        \/ \E h \in Handlers :
              /\ up' = [up EXCEPT ![u] = [up[u] EXCEPT !.tries = @ + 1, !.call = h]]
              /\ handler' = [handler EXCEPT
                                ![h] = [at |-> "arrived", photo |-> up[u].job, client |-> u]]
    BY <1>5, SendSends
  <2>5. up' \in [Uploaders -> UploaderStates]
    <3>1. \E r \in UploaderStates : up' = [up EXCEPT ![u] = r]
      BY <2>2, <2>3, <2>4
    <3> QED
      BY <1>2, <3>1 DEF TypeOK
  <2>6. handler' \in [Handlers -> HandlerStates]
    BY <1>2, <2>3, <2>4 DEF TypeOK
  <2> QED
    BY <1>2, <1>5, <2>5, <2>6 DEF TypeOK, Send
<1>6. ASSUME NEW u \in Uploaders, up[u].call # None
      PROVE  /\ up[u].call \in Handlers
             /\ [up[u] EXCEPT !.call = None] \in UploaderStates
             /\ [up[u] EXCEPT !.at = "deleting", !.call = None] \in UploaderStates
             /\ [handler[up[u].call] EXCEPT !.client = None] \in HandlerStates
  <2>1. up[u].call \in Handlers /\ up[u] \in UploaderStates /\ handler[up[u].call] \in HandlerStates
    BY <1>2, <1>6, FieldsTyped
  <2> QED
    BY <2>1 DEF UploaderStates, HandlerStates
<1>7. ASSUME NEW u \in Uploaders, TimesOut(u) PROVE Typed
  <2>1. up' = [up EXCEPT ![u] = [up[u] EXCEPT !.call = None]]
    BY <1>7 DEF TimesOut
  <2>2. handler' = [handler EXCEPT ![up[u].call] = [handler[up[u].call] EXCEPT !.client = None]]
    BY <1>7 DEF TimesOut
  <2>3. up' \in [Uploaders -> UploaderStates]
    BY <1>2, <1>6, <1>7, <2>1 DEF TypeOK, TimesOut
  <2>4. handler' \in [Handlers -> HandlerStates]
    BY <1>2, <1>6, <1>7, <2>2 DEF TypeOK, TimesOut
  <2> QED
    BY <1>2, <1>7, <2>3, <2>4 DEF TypeOK, TimesOut
<1>8. ASSUME NEW u \in Uploaders, Refused(u) PROVE Typed
  <2>1. up' = [up EXCEPT ![u] = [up[u] EXCEPT !.call = None]]
    BY <1>8 DEF Refused
  <2>2. up[u].call # None /\ handler' = [handler EXCEPT ![up[u].call] = Free]
    BY <1>8 DEF Refused
  <2>3. up' \in [Uploaders -> UploaderStates]
    BY <1>2, <1>6, <2>1, <2>2 DEF TypeOK
  <2>4. handler' \in [Handlers -> HandlerStates]
    BY <1>2, <1>4, <2>2 DEF TypeOK
  <2> QED
    BY <1>2, <1>8, <2>3, <2>4 DEF TypeOK, Refused
<1>9. ASSUME NEW u \in Uploaders, Accepted(u) PROVE Typed
  <2>1. handler' \in [Handlers -> HandlerStates]
    BY <1>2, <1>4, <1>6, <1>9 DEF TypeOK, Accepted
  <2>2. CASE SendsCapture(u)
    BY <1>2, <1>4, <1>9, <2>1, <2>2 DEF Accepted, Uploaded, TypeOK
  <2>3. CASE ~SendsCapture(u)
    <3>1. up' = [up EXCEPT ![u] = [up[u] EXCEPT !.at = "deleting", !.call = None]]
      BY <1>9, <2>3 DEF Accepted, Uploaded
    <3> QED
      BY <1>2, <1>6, <1>9, <2>1, <2>3, <3>1 DEF Accepted, Uploaded, TypeOK, FileStates
  <2> QED
    BY <2>2, <2>3
<1>10. ASSUME NEW u \in Uploaders, GivesUp(u) PROVE Typed
  <2>1. up[u] \in UploaderStates
    BY <1>2, FieldsTyped
  <2>2. /\ [up[u] EXCEPT !.at = "queueing", !.job = None] \in UploaderStates
        /\ [up[u] EXCEPT !.at = "listing", !.job = None] \in UploaderStates
    BY <2>1 DEF UploaderStates
  <2>3. \/ up' = [up EXCEPT ![u] = [up[u] EXCEPT !.at = "queueing", !.job = None]]
        \/ up' = [up EXCEPT ![u] = [up[u] EXCEPT !.at = "listing", !.job = None]]
    BY <1>10 DEF GivesUp
  <2>4. jpg' = jpg \/ jpg' = [jpg EXCEPT ![captured] = "partial"]
    BY <1>10 DEF GivesUp, QueueImageOpened
  <2> QED
    BY <1>2, <1>10, <2>2, <2>3, <2>4 DEF TypeOK, GivesUp, FileStates
<1> QED
  BY <1>5, <1>7, <1>8, <1>9, <1>10 DEF UploadStep

\* Steps of restorePendingPhotos keep the types.
LEMMA RestoreTyped == QueueInv /\ RestoreStep => TypeOK'
<1> SUFFICES ASSUME QueueInv, RestoreStep PROVE TypeOK'
  OBVIOUS
<1>1. UNCHANGED <<jpg, json, configured, up, captured, temp, path, rows, handler, taken,
                  forgotten, reclaimed>>
  BY DEF RestoreStep, relayVars, queueVars
<1>2. TypeOK
  BY DEF QueueInv
<1> DEFINE Typed == /\ bridge' \in BridgeStates
                    /\ localFile' \subseteq Photos /\ localRows' \subseteq Photos
                    /\ mishaps' \in 0..MaxMishaps
<1>3. SUFFICES Typed
  BY <1>1, <1>2 DEF TypeOK
<1>4. bridge \in BridgeStates /\ bridge.todo \in SUBSET Photos
  BY <1>2, FieldsTyped DEF TypeOK
<1>5. CASE RestoreBegins
  <2>1. Queued \in SUBSET Photos
    BY DEF Queued
  <2>2. [bridge EXCEPT !.at = "listing", !.todo = Queued] \in BridgeStates
    BY <1>4, <2>1 DEF BridgeStates
  <2> QED
    BY <1>2, <1>5, <2>2 DEF RestoreBegins, TypeOK, localVars
<1>6. ASSUME NEW p \in Photos, RestoreNext(p) PROVE Typed
  <2>1. bridge.todo \ {p} \in SUBSET Photos
    BY <1>4
  <2>2. /\ [at |-> "rewriting", photo |-> p, todo |-> bridge.todo \ {p}] \in BridgeStates
        /\ [bridge EXCEPT !.todo = @ \ {p}] \in BridgeStates
    BY <1>4, <2>1 DEF BridgeStates
  <2> QED
    BY <1>2, <1>6, <2>2 DEF RestoreNext, TypeOK
<1>7. [bridge EXCEPT !.at = "indexing"] \in BridgeStates
  BY <1>4 DEF BridgeStates
<1>8. [bridge EXCEPT !.at = "listing", !.photo = None] \in BridgeStates
  BY <1>4 DEF BridgeStates
<1>9. bridge.at \in {"rewriting", "indexing"} => bridge.photo \in Photos
  BY <1>2, FieldsTyped DEF QueueInv, RestoreKnown
<1>10. CASE RestoreWritten
  BY <1>2, <1>7, <1>9, <1>10 DEF RestoreWritten, TypeOK
<1>11. CASE RestoreIndexed
  BY <1>2, <1>8, <1>9, <1>11 DEF RestoreIndexed, TypeOK
<1>12. CASE RestoreFails
  BY <1>2, <1>8, <1>12, MishapTyped DEF RestoreFails, TypeOK, localVars
<1>13. CASE RestoreEnds
  BY <1>2, <1>13 DEF RestoreEnds, TypeOK, localVars, NotRestoring, BridgeStates
<1> QED
  BY <1>5, <1>6, <1>10, <1>11, <1>12, <1>13 DEF RestoreStep

\* Steps of sync_photo keep the types.
LEMMA RelayTyped == QueueInv /\ RelayStep => TypeOK'
<1> SUFFICES ASSUME QueueInv, RelayStep PROVE TypeOK'
  OBVIOUS
<1>1. UNCHANGED <<localFile, localRows, jpg, json, configured, up, captured, bridge, taken,
                  forgotten, reclaimed, mishaps>>
  BY DEF RelayStep, queueVars, localVars, auxVars
<1>2. TypeOK
  BY DEF QueueInv
<1> DEFINE Typed == /\ handler' \in [Handlers -> HandlerStates]
                    /\ temp' \in [Photos -> RelayFileStates]
                    /\ path' \in [Photos -> RelayFileStates]
                    /\ rows' \subseteq Photos
<1>3. SUFFICES Typed
  BY <1>1, <1>2 DEF TypeOK
<1>4. PICK h \in Handlers :
          TempOpened(h) \/ TempWritten(h) \/ TempReplaces(h) \/ RowStored(h) \/ Unheard(h)
  BY DEF RelayStep
<1>5. handler[h] \in HandlerStates /\ handler[h].photo \in Photos \cup {None}
  BY <1>2, FieldsTyped
<1>6. ASSUME NEW a \in {"writing", "written", "placed", "stored", "failed"}, HandlerGoes(h, a)
      PROVE  handler' \in [Handlers -> HandlerStates]
  <2>1. [handler[h] EXCEPT !.at = a] \in HandlerStates
    BY <1>5 DEF HandlerStates
  <2>2. handler' = [handler EXCEPT ![h] = [handler[h] EXCEPT !.at = a]]
    BY <1>6 DEF HandlerGoes
  <2> QED
    BY <1>2, <2>1, <2>2 DEF TypeOK
<1>7. CASE TempOpened(h)
  BY <1>2, <1>6, <1>7 DEF TempOpened, TypeOK, RelayFileStates
<1>8. CASE TempWritten(h)
  <2>1. temp' \in [Photos -> RelayFileStates] /\ path' \in [Photos -> RelayFileStates]
    BY <1>2, <1>8 DEF TempWritten, TypeOK, RelayFileStates, FileStates
  <2> QED
    BY <1>2, <1>6, <1>8, <2>1 DEF TempWritten, TypeOK
<1>9. CASE TempReplaces(h)
  <2>1. handler' \in [Handlers -> HandlerStates]
    BY <1>6, <1>9 DEF TempReplaces
  <2>2. temp' = temp \/ temp' = [temp EXCEPT ![handler[h].photo] = "absent"]
    BY <1>9 DEF TempReplaces
  <2>3. path' = path \/ path' = [path EXCEPT ![handler[h].photo] = temp[handler[h].photo]]
    BY <1>9 DEF TempReplaces
  <2>4. temp' \in [Photos -> RelayFileStates]
    BY <1>2, <2>2 DEF TypeOK, RelayFileStates, FileStates
  <2>5. path' \in [Photos -> RelayFileStates]
    BY <1>2, <2>3 DEF TypeOK
  <2> QED
    BY <1>2, <1>9, <2>1, <2>4, <2>5 DEF TempReplaces, TypeOK
<1>10. CASE RowStored(h)
  <2>1. handler[h].photo \in Photos
    BY <1>5, <1>10 DEF RowStored, QueueInv, HandlersKnown, Free
  <2> QED
    BY <1>2, <1>6, <1>10, <2>1 DEF RowStored, TypeOK
<1>11. CASE Unheard(h)
  BY <1>2, <1>11 DEF Unheard, TypeOK, relayVars, Free, HandlerStates
<1> QED
  BY <1>4, <1>7, <1>8, <1>9, <1>10, <1>11

\* What happens around them keeps the types.
LEMMA EnvTyped == QueueInv /\ EnvStep => TypeOK'
<1> SUFFICES ASSUME QueueInv, EnvStep PROVE TypeOK'
  OBVIOUS
<1> USE DEF localVars, queueVars, relayVars, auxVars
<1>1. TypeOK
  BY DEF QueueInv
<1>2. CASE AddressSaved
  BY <1>1, <1>2 DEF AddressSaved, TypeOK
<1>3. ASSUME NEW p \in Photos, CacheReclaimed(p) PROVE TypeOK'
  BY <1>1, <1>3, MishapTyped DEF CacheReclaimed, TypeOK, FileStates
<1>4. CASE AppKilled
  <2>1. up' \in [Uploaders -> UploaderStates]
    BY <1>4 DEF AppKilled, NotUploading, UploaderStates, MaxTries
  <2>2. bridge' \in BridgeStates
    BY <1>4 DEF AppKilled, NotRestoring, BridgeStates
  <2>3. handler' \in [Handlers -> HandlerStates]
    <3>1. ASSUME NEW h \in Handlers PROVE [handler[h] EXCEPT !.client = None] \in HandlerStates
      BY <1>1, FieldsTyped DEF HandlerStates
    <3> QED
      BY <1>4, <3>1 DEF AppKilled
  <2> QED
    BY <1>1, <1>4, <2>1, <2>2, <2>3, MishapTyped DEF AppKilled, TypeOK
<1>5. CASE RelayKilled
  <2>1. handler' \in [Handlers -> HandlerStates]
    <3>1. ASSUME NEW h \in Handlers
          PROVE  Free \in HandlerStates /\ [handler[h] EXCEPT !.at = "failed"] \in HandlerStates
      BY <1>1, FieldsTyped DEF HandlerStates, Free
    <3> QED
      BY <1>5, <3>1 DEF RelayKilled
  <2>2. temp' \in [Photos -> RelayFileStates] /\ path' \in [Photos -> RelayFileStates]
    BY <1>1, <1>5 DEF RelayKilled, TypeOK, RelayFileStates, FileStates
  <2> QED
    BY <1>1, <1>5, <2>1, <2>2, MishapTyped DEF RelayKilled, TypeOK
<1> QED
  BY <1>2, <1>3, <1>4, <1>5 DEF EnvStep

------------------------------------------------------------------------------
\* The queue's invariant

\* What is true of the queue beside the types.
QueueRest ==
    CaptureInHand /\ QueueOrdered /\ PendingIsWhole /\ JobsKnown /\ HandlersKnown /\ RestoreKnown

\* Going to another place changes nothing else.
LEMMA Moved ==
    ASSUME TypeOK, NEW u \in Uploaders, NEW a, GoTo(u, a)
    PROVE  /\ up'[u].at = a
           /\ up'[u].job = up[u].job /\ up'[u].call = up[u].call /\ up'[u].todo = up[u].todo
           /\ \A v \in Uploaders \ {u} : up'[v] = up[v]
<1>1. up[u] \in UploaderStates
  BY FieldsTyped
<1>2. up' = [up EXCEPT ![u] = [up[u] EXCEPT !.at = a]]
  BY DEF GoTo
<1>3. up'[u] = [up[u] EXCEPT !.at = a]
  BY <1>2 DEF TypeOK
<1>4. \A v \in Uploaders \ {u} : up'[v] = up[v]
  BY <1>2 DEF TypeOK
<1> QED
  BY <1>1, <1>3, <1>4 DEF UploaderStates

\* Listing the queue is going there, with what is to be done.
LEMMA Listed ==
    ASSUME TypeOK, NEW u \in Uploaders, ListQueue(u)
    PROVE  /\ up'[u].at = "listing" /\ up'[u].job = up[u].job /\ up'[u].call = up[u].call
           /\ \A v \in Uploaders \ {u} : up'[v] = up[v]
<1>1. up[u] \in UploaderStates
  BY FieldsTyped
<1>2. up' = [up EXCEPT ![u] = [up[u] EXCEPT !.at = "listing", !.todo = Queued]]
  BY DEF ListQueue
<1>3. up'[u] = [up[u] EXCEPT !.at = "listing", !.todo = Queued]
  BY <1>2 DEF TypeOK
<1>4. \A v \in Uploaders \ {u} : up'[v] = up[v]
  BY <1>2 DEF TypeOK
<1> QED
  BY <1>1, <1>3, <1>4 DEF UploaderStates

\* A dispatcher that goes from one place to another, neither of which uploads, leaves the jobs
\* known, as long as the capture in hand is nobody's job.
LEMMA JobsStay ==
    ASSUME QueueInv, UNCHANGED handler, taken \subseteq taken',
           NEW a \in Places \ {"uploading", "deleting"},
           ~At(Dispatcher, "uploading"), up'[Dispatcher].at = a,
           up'[Dispatcher].call = up[Dispatcher].call,
           \A v \in Uploaders \ {Dispatcher} : up'[v] = up[v],
           captured' # captured => captured' \notin taken
    PROVE  JobsKnown'
<1>1. \A u \in Uploaders \ {Dispatcher} :
          /\ up'[u].at \in {"uploading", "deleting"} => up'[u].job # None
          /\ up'[u].call # None => up'[u].at = "uploading"
          /\ up'[u].job # None => up'[u].job \in taken' /\ up'[u].job # captured'
  BY DEF QueueInv, JobsKnown
<1>2. up'[Dispatcher].call = None
  BY DEF QueueInv, JobsKnown, At
<1> QED
  BY <1>1, <1>2 DEF JobsKnown, Places

\* Steps of the dispatcher keep the queue's invariant.
LEMMA SyncQueue == QueueInv /\ SyncStep => QueueRest'
<1> SUFFICES ASSUME QueueInv, SyncStep PROVE QueueRest'
  OBVIOUS
<1>1. UNCHANGED <<configured, bridge, temp, path, rows, handler, reclaimed>>
  BY DEF SyncStep, relayVars
<1>2. TypeOK /\ CaptureInHand /\ QueueOrdered /\ PendingIsWhole /\ JobsKnown /\ HandlersKnown
             /\ RestoreKnown
  BY DEF QueueInv
<1>3. HandlersKnown' /\ RestoreKnown'
  BY <1>1, <1>2 DEF HandlersKnown, RestoreKnown
<1>4. ASSUME ~At(Dispatcher, "idle") PROVE captured \in Photos
  BY <1>2, <1>4 DEF CaptureInHand, TypeOK
<1> USE DEF Places
<1>5. ASSUME NEW p \in Photos, Capture(p) PROVE QueueRest'
  <2>1. up'[Dispatcher].at = "saving" /\ UNCHANGED <<json, jpg>>
    BY <1>2, <1>5, Moved DEF Capture, queueVars
  <2>2. JobsKnown'
    BY <1>1, <1>2, <1>5, Moved, JobsStay DEF Capture, At
  <2>3. CaptureInHand' /\ QueueOrdered' /\ PendingIsWhole'
    BY <1>2, <1>5, <2>1 DEF Capture, CaptureInHand, QueueOrdered, PendingIsWhole, At
  <2> QED
    BY <1>3, <2>2, <2>3 DEF QueueRest
<1>6. ASSUME NEW a \in {"indexing", "resolving"}, GoTo(Dispatcher, a),
             \/ At(Dispatcher, "saving") \/ At(Dispatcher, "indexing"),
             UNCHANGED <<json, jpg, captured, taken>>
      PROVE  QueueRest'
  <2>1. up'[Dispatcher].at = a
    BY <1>2, <1>6, Moved
  <2>2. JobsKnown'
    BY <1>1, <1>2, <1>6, Moved, JobsStay DEF At
  <2>3. CaptureInHand' /\ QueueOrdered' /\ PendingIsWhole'
    BY <1>2, <1>6, <2>1 DEF CaptureInHand, QueueOrdered, PendingIsWhole, At
  <2> QED
    BY <1>3, <2>2, <2>3 DEF QueueRest
<1>7. CASE LocalFileWritten \/ LocalRowStored \/ LocalSaveFails
  BY <1>6, <1>7 DEF LocalFileWritten, LocalRowStored, LocalSaveFails, queueVars
<1>8. CASE PlaceResolved
  <2>1. /\ up'[Dispatcher].at \in {"queueing", "listing"}
        /\ up'[Dispatcher].call = up[Dispatcher].call
        /\ \A v \in Uploaders \ {Dispatcher} : up'[v] = up[v]
    BY <1>2, <1>8, Moved, Listed DEF PlaceResolved
  <2>2. JobsKnown'
    BY <1>1, <1>2, <1>8, <2>1, JobsStay DEF PlaceResolved, At
  <2>3. captured \in Photos /\ json' = json /\ captured' = captured /\ taken' = taken
    BY <1>4, <1>8 DEF PlaceResolved, At
  <2>4. jpg' = jpg \/ jpg' = [jpg EXCEPT ![captured] = "partial"]
    BY <1>8 DEF PlaceResolved, QueueImageOpened
  <2>5. CaptureInHand' /\ QueueOrdered' /\ PendingIsWhole'
    BY <1>2, <2>1, <2>3, <2>4 DEF CaptureInHand, QueueOrdered, PendingIsWhole, At, TypeOK
  <2> QED
    BY <1>3, <2>2, <2>5 DEF QueueRest
<1>9. CASE QueueImageWritten
  <2>1. up'[Dispatcher].at = "describing"
    BY <1>2, <1>9, Moved DEF QueueImageWritten
  <2>2. JobsKnown'
    BY <1>1, <1>2, <1>9, Moved, JobsStay DEF QueueImageWritten, At
  <2>3. captured \in Photos
    BY <1>4, <1>9 DEF QueueImageWritten, At
  <2>4. CaptureInHand' /\ QueueOrdered' /\ PendingIsWhole'
    BY <1>2, <1>9, <2>1, <2>3
    DEF QueueImageWritten, CaptureInHand, QueueOrdered, PendingIsWhole, At, TypeOK
  <2> QED
    BY <1>3, <2>2, <2>4 DEF QueueRest
<1>10. CASE QueueDescribed
  <2>1. up'[Dispatcher].at = "idle"
    BY <1>2, <1>10, Moved DEF QueueDescribed
  <2>2. JobsKnown'
    BY <1>1, <1>2, <1>10, Moved, JobsStay, <1>4 DEF QueueDescribed, At, TypeOK
  <2>3. captured \in Photos
    BY <1>4, <1>10 DEF QueueDescribed, At
  <2>4. CaptureInHand' /\ QueueOrdered' /\ PendingIsWhole'
    BY <1>2, <1>10, <2>1, <2>3
    DEF QueueDescribed, CaptureInHand, QueueOrdered, PendingIsWhole, At, TypeOK
  <2> QED
    BY <1>3, <2>2, <2>4 DEF QueueRest
<1>11. CASE QueueFails
  <2>1. up'[Dispatcher].at = "idle" /\ UNCHANGED <<json, jpg>>
    BY <1>2, <1>11, Moved DEF QueueFails, queueVars
  <2>2. JobsKnown'
    BY <1>1, <1>2, <1>11, Moved, JobsStay DEF QueueFails, At, TypeOK
  <2>3. CaptureInHand' /\ QueueOrdered' /\ PendingIsWhole'
    BY <1>2, <1>11, <2>1 DEF QueueFails, CaptureInHand, QueueOrdered, PendingIsWhole, At
  <2> QED
    BY <1>3, <2>2, <2>3 DEF QueueRest
<1> QED
  BY <1>5, <1>7, <1>8, <1>9, <1>10, <1>11 DEF SyncStep

\* What one uploader does leaves the others' jobs known; its own have to be shown.
LEMMA JobsOfOne ==
    ASSUME QueueInv, NEW u \in Uploaders, taken' = taken,
           \A v \in Uploaders \ {u} : up'[v] = up[v],
           captured' \in {captured, None},
           up'[u].at \in {"uploading", "deleting"} => up'[u].job # None,
           up'[u].call # None => up'[u].at = "uploading",
           u # Dispatcher /\ up'[u].job # None => up'[u].job \in taken /\ up'[u].job # captured
    PROVE  JobsKnown'
  BY DEF QueueInv, JobsKnown

\* Steps of retryPendingPhotos keep the queue's invariant.
LEMMA RetryQueue == QueueInv /\ RetryStep => QueueRest'
<1> SUFFICES ASSUME QueueInv, RetryStep PROVE QueueRest'
  OBVIOUS
<1>1. UNCHANGED <<jpg, captured, bridge, handler, taken>>
  BY DEF RetryStep, auxVars
<1>2. TypeOK /\ CaptureInHand /\ QueueOrdered /\ PendingIsWhole /\ JobsKnown /\ HandlersKnown
             /\ RestoreKnown
  BY DEF QueueInv
<1>3. HandlersKnown' /\ RestoreKnown'
  BY <1>1, <1>2 DEF HandlersKnown, RestoreKnown
<1>4. ASSUME NEW u \in Uploaders, \A v \in Uploaders \ {u} : up'[v] = up[v],
             u = Dispatcher => up[u].at \notin {"idle", "describing"}
                               /\ up'[u].at \notin {"idle", "describing"},
             \A p \in Photos : json'[p] \in {json[p], "absent"}
      PROVE  CaptureInHand' /\ QueueOrdered' /\ PendingIsWhole'
  <2>1. At(Dispatcher, "idle")' <=> At(Dispatcher, "idle")
    BY <1>4 DEF At
  <2>2. At(Dispatcher, "describing")' => At(Dispatcher, "describing")
    BY <1>4 DEF At
  <2> QED
    BY <1>1, <1>2, <1>4, <2>1, <2>2 DEF CaptureInHand, QueueOrdered, PendingIsWhole, TypeOK
<1>5. ASSUME NEW r \in Retriers, RetryBegins(r) PROVE QueueRest'
  <2>1. /\ up'[r].at = "listing" /\ up'[r].job = up[r].job /\ up'[r].call = up[r].call
        /\ \A v \in Uploaders \ {r} : up'[v] = up[v]
    BY <1>2, <1>5, Listed DEF RetryBegins
  <2>2. up[r].call = None /\ (up[r].job # None => up[r].job \in taken /\ up[r].job # captured)
    BY <1>2, <1>5 DEF JobsKnown, RetryBegins, At
  <2>3. JobsKnown'
    BY <1>1, <2>1, <2>2, JobsOfOne
  <2> QED
    BY <1>3, <1>4, <1>5, <2>1, <2>3 DEF QueueRest, RetryBegins
<1>6. ASSUME NEW u \in Uploaders, NEW p \in Photos, RetryNext(u, p) PROVE QueueRest'
  <2>1. up[u].at = "listing" /\ up[u] \in UploaderStates /\ up[u].call = None
    BY <1>2, <1>6, FieldsTyped DEF RetryNext, At, JobsKnown
  <2>2. \A v \in Uploaders \ {u} : up'[v] = up[v]
    BY <1>2, <1>6 DEF RetryNext, TypeOK
  <2>3. \/ /\ Readable(p)
           /\ up'[u] = [up[u] EXCEPT !.todo = @ \ {p}, !.at = "uploading", !.job = p, !.tries = 0]
        \/ up'[u] = [up[u] EXCEPT !.todo = @ \ {p}]
    BY <1>2, <1>6 DEF RetryNext, TypeOK
  <2>4. \/ Readable(p) /\ up'[u].at = "uploading" /\ up'[u].job = p /\ up'[u].call = None
        \/ up'[u].at = "listing" /\ up'[u].job = up[u].job /\ up'[u].call = None
    BY <2>1, <2>3 DEF UploaderStates
  <2>5. Readable(p) => p \in taken /\ p # captured
    BY <1>2 DEF Readable, QueueOrdered
  <2>6. JobsKnown'
    BY <1>1, <1>2, <2>2, <2>4, <2>5, JobsOfOne DEF JobsKnown
  <2>7. \A x \in Photos : json'[x] \in {json[x], "absent"}
    BY <1>2, <1>6 DEF RetryNext, TypeOK
  <2> QED
    BY <1>3, <1>4, <2>1, <2>2, <2>4, <2>6, <2>7 DEF QueueRest
<1>7. ASSUME NEW u \in Uploaders, RetryEnds(u) PROVE QueueRest'
  <2>1. up[u].at = "listing" /\ up[u] \in UploaderStates /\ up[u].call = None
    BY <1>2, <1>7, FieldsTyped DEF RetryEnds, At, JobsKnown
  <2>2. CASE u = Dispatcher
    <3>1. captured # None
      BY <1>2, <2>1, <2>2 DEF CaptureInHand, At
    <3>2. up'[u] = [up[u] EXCEPT !.at = "uploading", !.job = captured, !.tries = 0]
      BY <1>2, <1>7, <2>2 DEF RetryEnds, BeginUpload, TypeOK
    <3>3. up'[u].at = "uploading" /\ up'[u].job = captured /\ up'[u].call = None
      BY <2>1, <3>2 DEF UploaderStates
    <3>4. \A v \in Uploaders \ {u} : up'[v] = up[v]
      BY <1>2, <1>7, <2>2 DEF RetryEnds, BeginUpload, TypeOK
    <3>5. JobsKnown'
      BY <1>1, <2>2, <3>1, <3>3, <3>4, JobsOfOne
    <3> QED
      BY <1>3, <1>4, <1>7, <2>1, <3>3, <3>4, <3>5 DEF QueueRest, RetryEnds
  <2>3. CASE u # Dispatcher
    <3>1. /\ up'[u].at = "idle" /\ up'[u].job = up[u].job /\ up'[u].call = None
          /\ \A v \in Uploaders \ {u} : up'[v] = up[v]
      BY <1>2, <1>7, <2>1, <2>3, Moved DEF RetryEnds
    <3>2. JobsKnown'
      BY <1>1, <1>2, <3>1, JobsOfOne DEF JobsKnown
    <3> QED
      BY <1>3, <1>4, <1>7, <2>3, <3>1, <3>2 DEF QueueRest, RetryEnds
  <2> QED
    BY <2>2, <2>3
<1>8. ASSUME NEW u \in Uploaders, QueueFilesDeleted(u) PROVE QueueRest'
  <2>1. up[u].at = "deleting" /\ up[u] \in UploaderStates /\ up[u].call = None
    BY <1>2, <1>8, FieldsTyped DEF QueueFilesDeleted, At, JobsKnown
  <2>2. up'[u] = [up[u] EXCEPT !.at = "listing", !.job = None]
    BY <1>2, <1>8 DEF QueueFilesDeleted, TypeOK
  <2>3. up'[u].at = "listing" /\ up'[u].job = None /\ up'[u].call = None
    BY <2>1, <2>2 DEF UploaderStates
  <2>4. \A v \in Uploaders \ {u} : up'[v] = up[v]
    BY <1>2, <1>8 DEF QueueFilesDeleted, TypeOK
  <2>5. JobsKnown'
    BY <1>1, <2>3, <2>4, JobsOfOne
  <2>6. \A x \in Photos : json'[x] \in {json[x], "absent"}
    BY <1>2, <1>8 DEF QueueFilesDeleted, TypeOK
  <2> QED
    BY <1>3, <1>4, <2>1, <2>3, <2>4, <2>5, <2>6 DEF QueueRest
<1> QED
  BY <1>5, <1>6, <1>7, <1>8 DEF RetryStep

\* Steps of uploadPhoto keep the queue's invariant.
LEMMA UploadQueue == QueueInv /\ UploadStep => QueueRest'
<1> SUFFICES ASSUME QueueInv, UploadStep PROVE QueueRest'
  OBVIOUS
<1>1. UNCHANGED <<json, bridge, taken>>
  BY DEF UploadStep, auxVars
<1>2. TypeOK /\ CaptureInHand /\ QueueOrdered /\ PendingIsWhole /\ JobsKnown /\ HandlersKnown
             /\ RestoreKnown
  BY DEF QueueInv
<1>3. RestoreKnown'
  BY <1>1, <1>2 DEF RestoreKnown
<1>4. ASSUME NEW u \in Uploaders, up[u].at = "uploading",
             \A v \in Uploaders \ {u} : up'[v] = up[v],
             u = Dispatcher => (up'[u].at = "idle" <=> captured' = None)
                               /\ up'[u].at # "describing",
             u # Dispatcher => captured' = captured, captured' \in {captured, None},
             \A p \in Photos : \/ jpg'[p] = jpg[p]
                               \/ (u # Dispatcher /\ p = up[u].job /\ jpg'[p] = "absent")
                               \/ (u = Dispatcher /\ p = captured /\ jpg'[p] = "partial")
      PROVE  CaptureInHand' /\ QueueOrdered' /\ PendingIsWhole'
  <2>1. CaptureInHand'
    BY <1>2, <1>4 DEF CaptureInHand, At
  <2>2. At(Dispatcher, "describing")' => u # Dispatcher /\ At(Dispatcher, "describing")
    BY <1>4 DEF At
  <2>3. u # Dispatcher => up[u].job \in taken /\ up[u].job # captured
    BY <1>2, <1>4 DEF JobsKnown
  <2>4. ASSUME At(Dispatcher, "describing")' PROVE captured \in Photos
    BY <1>2, <2>2, <2>4 DEF CaptureInHand, TypeOK, At
  <2>5. QueueOrdered'
    BY <1>1, <1>2, <1>4, <2>2, <2>3, <2>4 DEF QueueOrdered
  <2>6. PendingIsWhole'
    BY <1>1, <1>2, <1>4 DEF PendingIsWhole, QueueOrdered
  <2> QED
    BY <2>1, <2>5, <2>6
<1>5. ASSUME NEW u \in Uploaders, up[u].call # None PROVE up[u].at = "uploading"
  BY <1>2, <1>5 DEF JobsKnown
<1>6. ASSUME NEW u \in Uploaders, up[u].at = "uploading"
      PROVE  /\ up[u] \in UploaderStates /\ up[u].job \in Photos
             /\ u # Dispatcher => up[u].job \in taken /\ up[u].job # captured
             /\ u = Dispatcher => captured \in Photos /\ captured \in taken
  BY <1>2, <1>6, FieldsTyped DEF JobsKnown, CaptureInHand, QueueOrdered, At, TypeOK
<1>7. ASSUME NEW u \in Uploaders, Send(u) PROVE QueueRest'
  <2>1. up[u].at = "uploading"
    BY <1>7 DEF Send, MayTry, At
  <2>2. \/ up' = [up EXCEPT ![u] = [up[u] EXCEPT !.tries = @ + 1]] /\ UNCHANGED handler
        \/ \E h \in Handlers :
              /\ up' = [up EXCEPT ![u] = [up[u] EXCEPT !.tries = @ + 1, !.call = h]]
              /\ handler' = [handler EXCEPT
                                ![h] = [at |-> "arrived", photo |-> up[u].job, client |-> u]]
    BY <1>7, SendSends
  <2>3. /\ \A v \in Uploaders \ {u} : up'[v] = up[v]
        /\ \/ up'[u] = [up[u] EXCEPT !.tries = @ + 1]
           \/ \E h \in Handlers : up'[u] = [up[u] EXCEPT !.tries = @ + 1, !.call = h]
    BY <1>2, <2>2 DEF TypeOK
  <2>4. up'[u].at = "uploading" /\ up'[u].job = up[u].job
    BY <1>6, <2>1, <2>3 DEF UploaderStates
  <2>5. UNCHANGED <<jpg, captured>>
    BY <1>7 DEF Send
  <2>6. JobsKnown'
    BY <1>1, <1>6, <2>1, <2>3, <2>4, <2>5, JobsOfOne
  <2>7. HandlersKnown'
    <3>1. CASE UNCHANGED handler
      BY <1>2, <3>1 DEF HandlersKnown
    <3>2. ASSUME NEW h \in Handlers,
                 handler' = [handler EXCEPT
                                ![h] = [at |-> "arrived", photo |-> up[u].job, client |-> u]]
          PROVE  HandlersKnown'
      <4>1. handler'[h].photo = up[u].job /\ \A g \in Handlers \ {h} : handler'[g] = handler[g]
        BY <1>2, <3>2 DEF TypeOK
      <4> QED
        BY <1>2, <1>6, <2>1, <4>1 DEF HandlersKnown
    <3> QED
      BY <2>2, <3>1, <3>2
  <2>8. u = Dispatcher => captured # None
    BY <1>6, <2>1
  <2> QED
    BY <1>3, <1>4, <2>1, <2>3, <2>4, <2>5, <2>6, <2>7, <2>8 DEF QueueRest
<1>8. ASSUME NEW u \in Uploaders, TimesOut(u) \/ Refused(u) PROVE QueueRest'
  <2>1. up[u].at = "uploading" /\ up[u].call \in Handlers
    BY <1>2, <1>5, <1>8, FieldsTyped DEF TimesOut, Refused
  <2>2. up'[u] = [up[u] EXCEPT !.call = None] /\ \A v \in Uploaders \ {u} : up'[v] = up[v]
    BY <1>2, <1>8 DEF TimesOut, Refused, TypeOK
  <2>3. up'[u].at = "uploading" /\ up'[u].job = up[u].job /\ up'[u].call = None
    BY <1>6, <2>1, <2>2 DEF UploaderStates
  <2>4. UNCHANGED <<jpg, captured>>
    BY <1>8 DEF TimesOut, Refused
  <2>5. JobsKnown'
    BY <1>1, <1>6, <2>1, <2>2, <2>3, <2>4, JobsOfOne
  <2>6. HandlersKnown'
    <3>1. handler[up[u].call] \in HandlerStates
      BY <1>2, <2>1, FieldsTyped
    <3>2. handler'[up[u].call] \in {Free, [handler[up[u].call] EXCEPT !.client = None]}
      BY <1>2, <1>8, <2>1 DEF TimesOut, Refused, TypeOK
    <3>3. \A h \in Handlers \ {up[u].call} : handler'[h] = handler[h]
      BY <1>2, <1>8 DEF TimesOut, Refused, TypeOK
    <3>4. handler'[up[u].call] # Free => handler'[up[u].call].photo # None
      <4>1. handler[up[u].call] = Free => [handler[up[u].call] EXCEPT !.client = None] = Free
        BY DEF Free
      <4>2. [handler[up[u].call] EXCEPT !.client = None].photo = handler[up[u].call].photo
        BY <3>1 DEF HandlerStates
      <4> QED
        BY <1>2, <2>1, <3>2, <4>1, <4>2 DEF HandlersKnown
    <3> QED
      BY <1>2, <3>3, <3>4 DEF HandlersKnown
  <2>7. u = Dispatcher => captured # None
    BY <1>6, <2>1
  <2> QED
    BY <1>3, <1>4, <2>1, <2>2, <2>3, <2>4, <2>5, <2>6, <2>7 DEF QueueRest
<1>9. ASSUME NEW u \in Uploaders, Accepted(u) PROVE QueueRest'
  <2>1. up[u].at = "uploading" /\ up[u].call \in Handlers
    BY <1>2, <1>5, <1>9, FieldsTyped DEF Accepted
  <2>2. HandlersKnown'
    BY <1>2, <1>9, <2>1 DEF Accepted, HandlersKnown, Free, TypeOK
  <2>3. \A v \in Uploaders \ {u} : up'[v] = up[v]
    BY <1>2, <1>9 DEF Accepted, Uploaded, TypeOK
  <2>4. CASE SendsCapture(u)
    <3>1. up'[u] = NotUploading /\ captured' = None /\ jpg' = jpg /\ u = Dispatcher
      BY <1>2, <1>9, <2>4 DEF Accepted, Uploaded, SendsCapture, TypeOK
    <3>2. up'[u].at = "idle" /\ up'[u].job = None /\ up'[u].call = None
      BY <3>1 DEF NotUploading
    <3>3. JobsKnown'
      BY <1>1, <2>3, <3>1, <3>2, JobsOfOne
    <3> QED
      BY <1>3, <1>4, <2>1, <2>2, <2>3, <3>1, <3>2, <3>3 DEF QueueRest
  <2>5. CASE ~SendsCapture(u)
    <3>1. /\ up'[u] = [up[u] EXCEPT !.at = "deleting", !.call = None] /\ captured' = captured
          /\ jpg' = [jpg EXCEPT ![up[u].job] = "absent"]
      BY <1>2, <1>9, <2>5 DEF Accepted, Uploaded, TypeOK
    <3>2. up'[u].at = "deleting" /\ up'[u].job = up[u].job /\ up'[u].call = None
      BY <1>6, <2>1, <3>1 DEF UploaderStates
    <3>3. JobsKnown'
      BY <1>1, <1>6, <2>1, <2>3, <3>1, <3>2, JobsOfOne
    <3>4. \A p \in Photos : jpg'[p] = jpg[p] \/ (p = up[u].job /\ jpg'[p] = "absent")
      <4>1. jpg \in [Photos -> FileStates]
        BY <1>2 DEF TypeOK
      <4> QED
        BY <3>1, <4>1
    <3>5. u = Dispatcher => captured # None
      BY <1>6, <2>1
    <3>6. CaptureInHand' /\ QueueOrdered' /\ PendingIsWhole'
      <4>1. CASE u # Dispatcher
        BY <1>4, <2>1, <2>3, <3>1, <3>4, <4>1
      <4>2. CASE u = Dispatcher
        <5>1. CaptureInHand'
          BY <3>1, <3>2, <3>5, <4>2 DEF CaptureInHand, At
        <5>2. QueueOrdered'
          BY <1>1, <1>2, <3>1, <3>2, <3>4, <4>2 DEF QueueOrdered, At
        <5>3. PendingIsWhole'
          BY <1>1, <1>2, <3>4 DEF PendingIsWhole
        <5> QED
          BY <5>1, <5>2, <5>3
      <4> QED
        BY <4>1, <4>2
    <3> QED
      BY <1>3, <2>2, <3>3, <3>6 DEF QueueRest
  <2> QED
    BY <2>4, <2>5
<1>10. ASSUME NEW u \in Uploaders, GivesUp(u) PROVE QueueRest'
  <2>1. up[u].at = "uploading" /\ up[u].call = None
    BY <1>10 DEF GivesUp, At
  <2>2. UNCHANGED <<captured, handler>> /\ \A v \in Uploaders \ {u} : up'[v] = up[v]
    BY <1>2, <1>10 DEF GivesUp, TypeOK
  <2>3. \/ /\ up'[u] = [up[u] EXCEPT !.at = "queueing", !.job = None] /\ u = Dispatcher
           /\ jpg' = [jpg EXCEPT ![captured] = "partial"]
        \/ up'[u] = [up[u] EXCEPT !.at = "listing", !.job = None] /\ jpg' = jpg
    BY <1>2, <1>10 DEF GivesUp, QueueImageOpened, SendsCapture, TypeOK
  <2>4. up'[u].at \in {"queueing", "listing"} /\ up'[u].job = None /\ up'[u].call = None
    BY <1>6, <2>1, <2>3 DEF UploaderStates
  <2>5. JobsKnown' /\ HandlersKnown'
    BY <1>1, <1>2, <2>2, <2>4, JobsOfOne DEF HandlersKnown
  <2>6. \A p \in Photos :
            jpg'[p] = jpg[p] \/ (u = Dispatcher /\ p = captured /\ jpg'[p] = "partial")
    <3>1. jpg \in [Photos -> FileStates]
      BY <1>2 DEF TypeOK
    <3> QED
      BY <2>3, <3>1
  <2>7. u = Dispatcher => captured # None
    BY <1>6, <2>1
  <2> QED
    BY <1>3, <1>4, <2>1, <2>2, <2>4, <2>5, <2>6, <2>7 DEF QueueRest
<1> QED
  BY <1>7, <1>8, <1>9, <1>10 DEF UploadStep

\* Steps of restorePendingPhotos do not touch the queue.
LEMMA RestoreQueue == QueueInv /\ RestoreStep => QueueRest'
<1> SUFFICES ASSUME QueueInv, RestoreStep PROVE QueueRest'
  OBVIOUS
<1>1. UNCHANGED <<jpg, json, up, captured, handler, taken>>
  BY DEF RestoreStep, queueVars
<1>2. CaptureInHand' /\ QueueOrdered' /\ PendingIsWhole' /\ JobsKnown' /\ HandlersKnown'
  BY <1>1 DEF QueueInv, CaptureInHand, QueueOrdered, PendingIsWhole, JobsKnown, HandlersKnown, At
<1>3. bridge \in BridgeStates
  BY DEF QueueInv, TypeOK
<1>4. RestoreKnown'
  <2>1. CASE RestoreBegins
    BY <1>3, <2>1 DEF RestoreBegins, RestoreKnown, BridgeStates
  <2>2. CASE RestoreIndexed \/ RestoreFails
    BY <1>3, <2>2 DEF RestoreIndexed, RestoreFails, RestoreKnown, BridgeStates
  <2>3. CASE RestoreEnds
    BY <2>3 DEF RestoreEnds, NotRestoring, RestoreKnown
  <2>4. CASE RestoreWritten
    BY <1>3, <2>4 DEF RestoreWritten, QueueInv, RestoreKnown, BridgeStates
  <2>5. ASSUME NEW p \in Photos, RestoreNext(p) PROVE RestoreKnown'
    BY <1>3, <2>5 DEF RestoreNext, RestoreKnown, BridgeStates
  <2> QED
    BY <2>1, <2>2, <2>3, <2>4, <2>5 DEF RestoreStep
<1> QED
  BY <1>2, <1>4 DEF QueueRest

\* Handlers of the relay do not touch the queue, and keep their photo.
LEMMA RelayQueue == QueueInv /\ RelayStep => QueueRest'
<1> SUFFICES ASSUME QueueInv, RelayStep PROVE QueueRest'
  OBVIOUS
<1>1. UNCHANGED <<jpg, json, up, captured, bridge, taken>>
  BY DEF RelayStep, queueVars, auxVars
<1>2. CaptureInHand' /\ QueueOrdered' /\ PendingIsWhole' /\ JobsKnown' /\ RestoreKnown'
  BY <1>1 DEF QueueInv, CaptureInHand, QueueOrdered, PendingIsWhole, JobsKnown, RestoreKnown, At
<1>3. PICK h \in Handlers : \/ handler[h] # Free /\ \E a : HandlerGoes(h, a)
                            \/ handler' = [handler EXCEPT ![h] = Free]
  BY DEF RelayStep, TempOpened, TempWritten, TempReplaces, RowStored, Unheard, Free
<1>4. handler \in [Handlers -> HandlerStates] /\ handler[h] \in HandlerStates
  BY FieldsTyped DEF QueueInv, TypeOK
<1>5. \A g \in Handlers \ {h} : handler'[g] = handler[g]
  BY <1>3, <1>4 DEF HandlerGoes
<1>6. handler'[h] # Free => handler'[h].photo # None
  <2>1. CASE handler' = [handler EXCEPT ![h] = Free]
    BY <1>4, <2>1
  <2>2. ASSUME NEW a, HandlerGoes(h, a), handler[h] # Free PROVE handler'[h].photo # None
    <3>1. handler'[h] = [handler[h] EXCEPT !.at = a]
      BY <1>4, <2>2 DEF HandlerGoes
    <3>2. handler'[h].photo = handler[h].photo
      BY <1>4, <3>1 DEF HandlerStates
    <3> QED
      BY <2>2, <3>2 DEF QueueInv, HandlersKnown
  <2> QED
    BY <1>3, <2>1, <2>2
<1>7. HandlersKnown'
  BY <1>5, <1>6 DEF QueueInv, HandlersKnown
<1> QED
  BY <1>2, <1>7 DEF QueueRest

\* Kills, a saved address and a reclaimed cache keep the queue's invariant.
LEMMA EnvQueue == QueueInv /\ EnvStep => QueueRest'
<1> SUFFICES ASSUME QueueInv, EnvStep PROVE QueueRest'
  OBVIOUS
<1> USE DEF localVars, queueVars, relayVars, auxVars
<1>1. TypeOK /\ CaptureInHand /\ QueueOrdered /\ PendingIsWhole /\ JobsKnown /\ HandlersKnown
             /\ RestoreKnown
  BY DEF QueueInv
<1>2. CASE AddressSaved
  BY <1>1, <1>2 DEF AddressSaved, QueueRest, CaptureInHand, QueueOrdered, PendingIsWhole, JobsKnown,
                    HandlersKnown, RestoreKnown, At
<1>3. ASSUME NEW p \in Photos, CacheReclaimed(p) PROVE QueueRest'
  <2>1. UNCHANGED <<up, captured, bridge, handler, taken>>
    BY <1>3 DEF CacheReclaimed
  <2>2. CaptureInHand' /\ JobsKnown' /\ HandlersKnown' /\ RestoreKnown'
    BY <1>1, <2>1 DEF CaptureInHand, JobsKnown, HandlersKnown, RestoreKnown, At
  <2>3. p # captured
    BY <1>1, <1>3 DEF CacheReclaimed, Readable, QueueOrdered
  <2>4. ASSUME NEW x \in Photos
        PROVE  /\ jpg'[x] = IF x = p THEN jpg'[p] ELSE jpg[x]
               /\ json'[x] = IF x = p THEN json'[p] ELSE json[x]
               /\ jpg'[p] \in {jpg[p], "absent"} /\ json'[p] \in {json[p], "absent"}
    BY <1>1, <1>3 DEF CacheReclaimed, TypeOK
  <2>5. captured # None => jpg'[captured] = jpg[captured] /\ json'[captured] = json[captured]
    <3>1. captured # None => captured \in Photos
      BY <1>1 DEF TypeOK
    <3> QED
      BY <2>3, <2>4, <3>1
  <2>6. QueueOrdered'
    <3>1. \A x \in Photos \ taken : json[x] = "absent" /\ jpg[x] = "absent"
      BY <1>1 DEF QueueOrdered
    <3>2. \A x \in Photos \ taken' : json'[x] = "absent" /\ jpg'[x] = "absent"
      BY <2>1, <2>4, <3>1
    <3>3. At(Dispatcher, "describing")' => captured' # None /\ jpg'[captured'] = "complete"
      BY <1>1, <2>1, <2>5 DEF QueueOrdered, CaptureInHand, At
    <3>4. captured' # None => captured' \in taken' /\ json'[captured'] # "complete"
      BY <1>1, <2>1, <2>5 DEF QueueOrdered
    <3> QED
      BY <3>2, <3>3, <3>4 DEF QueueOrdered
  <2>7. PendingIsWhole'
    BY <1>1, <2>4 DEF PendingIsWhole
  <2> QED
    BY <2>2, <2>6, <2>7 DEF QueueRest
<1>4. CASE AppKilled
  <2>1. \A u \in Uploaders : up'[u].at = "idle" /\ up'[u].job = None /\ up'[u].call = None
    BY <1>4 DEF AppKilled, NotUploading
  <2>2. captured' = None /\ bridge'.at = "idle" /\ UNCHANGED <<jpg, json, taken>>
    BY <1>4 DEF AppKilled, NotRestoring
  <2>3. \A h \in Handlers : handler'[h] = [handler[h] EXCEPT !.client = None]
    BY <1>4 DEF AppKilled
  <2>4. HandlersKnown'
    <3>1. SUFFICES ASSUME NEW h \in Handlers, handler'[h] # Free
                   PROVE  handler'[h].photo # None
      BY DEF HandlersKnown
    <3>2. handler[h] \in HandlerStates
      BY <1>1, FieldsTyped
    <3>3. handler[h] # Free
      BY <2>3, <3>1 DEF Free
    <3>4. handler'[h].photo = handler[h].photo
      BY <2>3, <3>2 DEF HandlerStates
    <3> QED
      BY <1>1, <3>3, <3>4 DEF HandlersKnown
  <2> QED
    BY <1>1, <2>1, <2>2, <2>4 DEF QueueRest, CaptureInHand, QueueOrdered, PendingIsWhole, JobsKnown,
                                  RestoreKnown, At
<1>5. CASE RelayKilled
  <2>1. UNCHANGED <<up, captured, bridge, taken, jpg, json>>
    BY <1>5 DEF RelayKilled
  <2>2. \A h \in Handlers :
            handler'[h] = IF handler[h].client = None THEN Free ELSE [handler[h] EXCEPT !.at = "failed"]
    BY <1>5 DEF RelayKilled
  <2>3. HandlersKnown'
    <3>1. SUFFICES ASSUME NEW h \in Handlers, handler'[h] # Free
                   PROVE  handler'[h].photo # None
      BY DEF HandlersKnown
    <3>2. handler[h] \in HandlerStates
      BY <1>1, FieldsTyped
    <3>3. handler[h].client # None /\ handler'[h] = [handler[h] EXCEPT !.at = "failed"]
      BY <2>2, <3>1
    <3>4. handler'[h].photo = handler[h].photo
      BY <3>2, <3>3 DEF HandlerStates
    <3> QED
      BY <1>1, <3>3, <3>4 DEF HandlersKnown, Free
  <2> QED
    BY <1>1, <2>1, <2>3 DEF QueueRest, CaptureInHand, QueueOrdered, PendingIsWhole, JobsKnown,
                            RestoreKnown, At
<1> QED
  BY <1>2, <1>3, <1>4, <1>5 DEF EnvStep

------------------------------------------------------------------------------
\* The theorems

\* The empty queue, with nobody at work, is in order.
LEMMA InitQueue == Init => QueueInv
  BY InitTyped DEF Init, QueueInv, CaptureInHand, QueueOrdered, PendingIsWhole, JobsKnown,
                   HandlersKnown, RestoreKnown, At, NotUploading, NotRestoring

\* Every step keeps the queue in order.
LEMMA NextQueue == QueueInv /\ [Next]_vars => QueueInv'
<1> SUFFICES ASSUME QueueInv, [Next]_vars PROVE QueueInv'
  OBVIOUS
<1>1. CASE UNCHANGED vars
  BY <1>1 DEF vars, localVars, queueVars, relayVars, auxVars, QueueInv, TypeOK, CaptureInHand,
              QueueOrdered, PendingIsWhole, JobsKnown, HandlersKnown, RestoreKnown, At
<1>2. CASE Next
  <2>1. TypeOK'
    BY <1>2, SyncTyped, RetryTyped, UploadTyped, RestoreTyped, RelayTyped, EnvTyped DEF Next
  <2>2. QueueRest'
    BY <1>2, SyncQueue, RetryQueue, UploadQueue, RestoreQueue, RelayQueue, EnvQueue DEF Next
  <2> QED
    BY <2>1, <2>2 DEF QueueInv, QueueRest
<1> QED
  BY <1>1, <1>2

\* QueueInv is an invariant of the specification, on any system and whatever is killed when.
THEOREM QueueInOrder == Spec => []QueueInv
  BY InitQueue, NextQueue, PTL DEF Spec

\* Every variable keeps its type.
THEOREM TypeCorrect == Spec => []TypeOK
<1>1. QueueInv => TypeOK
  BY DEF QueueInv
<1> QED
  BY <1>1, QueueInOrder, PTL

\* A description that can be read comes with a whole image (LifeLogSyncer.kt:183), for any number
\* of threads that retry, upload, restore and delete at once.
THEOREM QueueIsWhole == Spec => []PendingIsWhole
<1>1. QueueInv => PendingIsWhole
  BY DEF QueueInv
<1> QED
  BY <1>1, QueueInOrder, PTL

==============================================================================
