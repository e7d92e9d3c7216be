------------------------- MODULE PhotoDeliveryProofs -------------------------
(***************************************************************************)
(* No photo is lost on its way to the relay, and the relay serves only     *)
(* whole ones: for any photos, threads, handlers and number of mishaps, on *)
(* a system that does not rename a file another thread has open (see       *)
(* ReplaceWhileOpen of PhotoSync; where it does, a run shows a partial     *)
(* photo served).  RelayInv says what the relay's files hold while several *)
(* handlers write them; with the order of the phone's queue, proved in     *)
(* PhotoSyncProofs, it gives the rest.                                     *)
(***************************************************************************)
EXTENDS PhotoSyncProofs

USE NamesAreDistinct DEF Uploaders

------------------------------------------------------------------------------
\* The invariant of the relay's files

\* Who waits for a handler is who sent it, for that photo.
CallsMatch ==
    \A u \in Uploaders : up[u].call # None =>
        /\ handler[up[u].call].client = u
        /\ handler[up[u].call].photo = up[u].job

\* The temporary file belongs to a handler that is writing it, and is not a rest of an earlier
\* process once a handler has opened it.
TempOwned ==
    /\ \A p \in Photos : temp[p] \in Handlers =>
          handler[temp[p]].at = "writing" /\ handler[temp[p]].photo = p
    /\ \A h \in Handlers : handler[h].at \in {"writing", "written"} =>
          temp[handler[h].photo] # "partial"

\* The final file is whole from the first, and there for whoever has placed it.
PathWhole ==
    /\ \A p \in Photos : path[p] \in {"absent", "complete"}
    /\ \A h \in Handlers : handler[h].at \in {"placed", "stored"} =>
          path[handler[h].photo] = "complete"
    /\ \A h \in Handlers : handler[h].at = "stored" => handler[h].photo \in rows

RelayInv == CallsMatch /\ TempOwned /\ PathWhole /\ ServedWhole

------------------------------------------------------------------------------
\* The invariant of both

\* The queue's files are deleted for photos the relay has, and a row of the phone follows its file.
Delivered ==
    /\ \A u \in Uploaders : up[u].at = "deleting" => OnRelay(up[u].job)
    /\ At(Dispatcher, "indexing") => captured \in localFile
    /\ bridge.at = "indexing" => bridge.photo \in localFile

IInv == QueueInv /\ RelayInv /\ Delivered /\ SentOrQueued /\ NeverLost

------------------------------------------------------------------------------
\* The relay's files

\* Steps that leave the relay alone keep its invariant, as long as nobody changes what it waits for.
LEMMA RelayLeftAlone ==
    ASSUME RelayInv, UNCHANGED <<temp, path, rows, handler>>,
           \A u \in Uploaders : \/ up'[u].call = None
                               \/ (up'[u].call = up[u].call /\ up'[u].job = up[u].job)
    PROVE  RelayInv'
  BY DEF RelayInv, CallsMatch, TempOwned, PathWhole, ServedWhole

\* So do steps of the dispatcher.
LEMMA SyncRelay == QueueInv /\ RelayInv /\ SyncStep => RelayInv'
<1> SUFFICES ASSUME QueueInv, RelayInv, SyncStep PROVE RelayInv'
  OBVIOUS
<1>1. UNCHANGED <<temp, path, rows, handler>>
  BY DEF SyncStep, relayVars
<1>2. (\E a : GoTo(Dispatcher, a)) \/ ListQueue(Dispatcher)
  BY DEF SyncStep, Capture, LocalFileWritten, LocalRowStored, LocalSaveFails, PlaceResolved,
         QueueImageWritten, QueueDescribed, QueueFails
<1>3. \A u \in Uploaders : up'[u].call = up[u].call /\ up'[u].job = up[u].job
  BY <1>2, Moved, Listed DEF QueueInv
<1> QED
  BY <1>1, <1>3, RelayLeftAlone

\* So do steps of retryPendingPhotos, which waits for no answer.
LEMMA RetryRelay == QueueInv /\ RelayInv /\ RetryStep => RelayInv'
<1> SUFFICES ASSUME QueueInv, RelayInv, RetryStep PROVE RelayInv'
  OBVIOUS
<1>1. UNCHANGED <<temp, path, rows, handler>>
  BY DEF RetryStep, relayVars
<1>2. TypeOK /\ \A u \in Uploaders : up[u].at # "uploading" => up[u].call = None
  BY DEF QueueInv, JobsKnown
<1> DEFINE Quiet(u) == up'[u].call = None /\ \A v \in Uploaders \ {u} : up'[v] = up[v]
<1>3. ASSUME NEW r \in Retriers, RetryBegins(r) PROVE Quiet(r)
  BY <1>2, <1>3, Listed DEF RetryBegins, At
<1>4. ASSUME NEW u \in Uploaders, NEW p \in Photos, RetryNext(u, p) PROVE Quiet(u)
  <2>1. up[u] \in UploaderStates /\ up[u].call = None
    BY <1>2, <1>4, FieldsTyped DEF RetryNext, At
  <2>2. \A v \in Uploaders \ {u} : up'[v] = up[v]
    BY <1>2, <1>4 DEF RetryNext, TypeOK
  <2>3. \/ up'[u] = [up[u] EXCEPT !.todo = @ \ {p}, !.at = "uploading", !.job = p, !.tries = 0]
        \/ up'[u] = [up[u] EXCEPT !.todo = @ \ {p}]
    BY <1>2, <1>4 DEF RetryNext, TypeOK
  <2>4. up'[u].call = None
    BY <2>1, <2>3 DEF UploaderStates
  <2> QED
    BY <2>2, <2>4
<1>5. ASSUME NEW u \in Uploaders, RetryEnds(u) PROVE Quiet(u)
  <2>1. up[u] \in UploaderStates /\ up[u].call = None
    BY <1>2, <1>5, FieldsTyped DEF RetryEnds, At
  <2>2. CASE u = Dispatcher
    <3>1. up'[u] = [up[u] EXCEPT !.at = "uploading", !.job = captured, !.tries = 0]
      BY <1>2, <1>5, <2>2 DEF RetryEnds, BeginUpload, TypeOK
    <3>2. \A v \in Uploaders \ {u} : up'[v] = up[v]
      BY <1>2, <1>5, <2>2 DEF RetryEnds, BeginUpload, TypeOK
    <3> QED
      BY <2>1, <3>1, <3>2 DEF UploaderStates
  <2>3. CASE u # Dispatcher
    BY <1>2, <1>5, <2>1, <2>3, Moved DEF RetryEnds
  <2> QED
    BY <2>2, <2>3
<1>6. ASSUME NEW u \in Uploaders, QueueFilesDeleted(u) PROVE Quiet(u)
  <2>1. up[u] \in UploaderStates /\ up[u].call = None
    BY <1>2, <1>6, FieldsTyped DEF QueueFilesDeleted, At
  <2>2. up'[u] = [up[u] EXCEPT !.at = "listing", !.job = None]
    BY <1>2, <1>6 DEF QueueFilesDeleted, TypeOK
  <2>3. \A v \in Uploaders \ {u} : up'[v] = up[v]
    BY <1>2, <1>6 DEF QueueFilesDeleted, TypeOK
  <2> QED
    BY <2>1, <2>2, <2>3 DEF UploaderStates
<1>7. \E u \in Uploaders : Quiet(u)
  BY <1>3, <1>4, <1>5, <1>6 DEF RetryStep
<1> QED
  BY <1>1, <1>7, RelayLeftAlone

\* What matters of a step of uploadPhoto: one uploader and one handler, which is at its end, or
\* keeps what it does, or is free and hired.
OneHandler(u, h) ==
    /\ \A v \in Uploaders \ {u} : up'[v] = up[v] /\ up[v].call # h
    /\ \A g \in Handlers \ {h} : handler'[g] = handler[g]
    /\ \/ /\ up'[u].call = None
          /\ handler'[h] = Free /\ handler[h].at \in {"stored", "failed"}
       \/ /\ up'[u].call = None
          /\ handler'[h].at = handler[h].at /\ handler'[h].photo = handler[h].photo
       \/ /\ up'[u].call = h /\ handler[h] = Free
          /\ handler'[h] = [at |-> "arrived", photo |-> up'[u].job, client |-> u]

\* Steps of uploadPhoto free handlers that are at their end and hire free ones.
LEMMA UploadRelay == QueueInv /\ RelayInv /\ UploadStep => RelayInv'
<1> SUFFICES ASSUME QueueInv, RelayInv, UploadStep PROVE RelayInv'
  OBVIOUS
<1>1. UNCHANGED <<temp, path, rows>>
  BY DEF UploadStep, relayVars
<1>2. TypeOK /\ CallsMatch /\ TempOwned /\ PathWhole /\ ServedWhole
  BY DEF QueueInv, RelayInv
<1>3. ServedWhole'
  BY <1>1, <1>2 DEF ServedWhole
<1>4. ASSUME NEW u \in Uploaders, NEW h \in Handlers, OneHandler(u, h) PROVE RelayInv'
  <2>1. CallsMatch'
    <3>1. \A v \in Uploaders \ {u} : up[v].call # None => up[v].call \in Handlers \ {h}
      BY <1>2, <1>4, FieldsTyped DEF OneHandler
    <3>2. up'[u].call # None => handler'[h].client = u /\ handler'[h].photo = up'[u].job
      BY <1>4 DEF OneHandler
    <3>3. up'[u].call \in {None, h}
      BY <1>4 DEF OneHandler
    <3> QED
      BY <1>2, <1>4, <3>1, <3>2, <3>3 DEF OneHandler, CallsMatch
  <2>2. TempOwned'
    <3>1. ASSUME handler'[h].at # handler[h].at PROVE handler[h].at # "writing"
      BY <1>4, <3>1 DEF OneHandler, Free
    <3>2. \A p \in Photos : temp'[p] \in Handlers =>
              handler'[temp'[p]].at = "writing" /\ handler'[temp'[p]].photo = p
      BY <1>1, <1>2, <1>4 DEF OneHandler, TempOwned, Free
    <3>3. \A g \in Handlers : handler'[g].at \in {"writing", "written"} =>
              handler[g].at = handler'[g].at /\ handler'[g].photo = handler[g].photo
      BY <1>4 DEF OneHandler, Free
    <3> QED
      BY <1>1, <1>2, <3>2, <3>3 DEF TempOwned
  <2>3. PathWhole'
    <3>1. \A g \in Handlers : handler'[g].at \in {"placed", "stored"} =>
              handler[g].at = handler'[g].at /\ handler'[g].photo = handler[g].photo
      BY <1>4 DEF OneHandler, Free
    <3> QED
      BY <1>1, <1>2, <3>1 DEF PathWhole
  <2> QED
    BY <1>3, <2>1, <2>2, <2>3 DEF RelayInv
<1>5. ASSUME NEW u \in Uploaders, up[u].call # None
      PROVE  /\ up[u] \in UploaderStates /\ up[u].call \in Handlers
             /\ handler[up[u].call] \in HandlerStates
             /\ \A v \in Uploaders \ {u} : up[v].call # up[u].call
  BY <1>2, <1>5, FieldsTyped DEF CallsMatch
<1>6. ASSUME NEW u \in Uploaders, Send(u) PROVE RelayInv'
  <2>1. up[u] \in UploaderStates /\ up[u].call = None
    BY <1>2, <1>6, FieldsTyped DEF Send, MayTry
  <2>2. CASE UNCHANGED handler /\ up' = [up EXCEPT ![u].tries = @ + 1]
    <3>1. up'[u] = [up[u] EXCEPT !.tries = @ + 1] /\ \A v \in Uploaders \ {u} : up'[v] = up[v]
      BY <1>2, <2>2 DEF TypeOK
    <3>2. up'[u].call = None
      BY <2>1, <3>1 DEF UploaderStates
    <3> QED
      BY <1>1, <2>2, <3>1, <3>2, RelayLeftAlone
  <2>3. ASSUME NEW h \in Handlers, handler[h] = Free,
               handler' = [handler EXCEPT
                              ![h] = [at |-> "arrived", photo |-> up[u].job, client |-> u]],
               up' = [up EXCEPT ![u].tries = @ + 1, ![u].call = h]
        PROVE  RelayInv'
    <3>1. /\ up'[u] = [up[u] EXCEPT !.tries = @ + 1, !.call = h]
          /\ \A v \in Uploaders \ {u} : up'[v] = up[v]
      BY <1>2, <2>3 DEF TypeOK
    <3>2. up'[u].call = h /\ up'[u].job = up[u].job
      BY <2>1, <3>1 DEF UploaderStates
    <3>3. /\ handler'[h] = [at |-> "arrived", photo |-> up'[u].job, client |-> u]
          /\ \A g \in Handlers \ {h} : handler'[g] = handler[g]
      BY <1>2, <2>3, <3>2 DEF TypeOK
    <3>4. \A v \in Uploaders \ {u} : up[v].call # h
      BY <1>2, <2>3 DEF CallsMatch, Free
    <3>5. OneHandler(u, h)
      BY <2>3, <3>1, <3>2, <3>3, <3>4 DEF OneHandler
    <3> QED
      BY <1>4, <3>5
  <2> QED
    BY <1>6, <2>2, <2>3 DEF Send
<1>7. ASSUME NEW u \in Uploaders, TimesOut(u) PROVE RelayInv'
  <2> DEFINE h == up[u].call
  <2>1. /\ up'[u] = [up[u] EXCEPT !.call = None] /\ \A v \in Uploaders \ {u} : up'[v] = up[v]
        /\ handler'[h] = [handler[h] EXCEPT !.client = None]
        /\ \A g \in Handlers \ {h} : handler'[g] = handler[g]
    BY <1>2, <1>5, <1>7 DEF TimesOut, TypeOK
  <2>2. up'[u].call = None
    BY <1>5, <1>7, <2>1 DEF TimesOut, UploaderStates
  <2>3. handler'[h].at = handler[h].at /\ handler'[h].photo = handler[h].photo
    BY <1>5, <1>7, <2>1 DEF TimesOut, HandlerStates
  <2>4. h \in Handlers /\ \A v \in Uploaders \ {u} : up[v].call # h
    BY <1>5, <1>7 DEF TimesOut
  <2>5. OneHandler(u, h)
    BY <2>1, <2>2, <2>3, <2>4 DEF OneHandler
  <2> QED
    BY <1>4, <2>4, <2>5
<1>8. ASSUME NEW u \in Uploaders, Refused(u) \/ Accepted(u) PROVE RelayInv'
  <2> DEFINE h == up[u].call
  <2>1. h \in Handlers /\ handler[h].at \in {"stored", "failed"}
    BY <1>5, <1>8 DEF Refused, Accepted
  <2>2. handler'[h] = Free /\ \A g \in Handlers \ {h} : handler'[g] = handler[g]
    BY <1>2, <1>8, <2>1 DEF Refused, Accepted, TypeOK
  <2>3. \A v \in Uploaders \ {u} : up'[v] = up[v]
    BY <1>2, <1>8 DEF Refused, Accepted, Uploaded, TypeOK
  <2>4. up'[u] \in {[up[u] EXCEPT !.call = None], [up[u] EXCEPT !.at = "deleting", !.call = None],
                    NotUploading}
    BY <1>2, <1>8 DEF Refused, Accepted, Uploaded, TypeOK
  <2>5. up'[u].call = None
    <3>1. up[u] \in UploaderStates
      BY <1>2, FieldsTyped
    <3>2. /\ [up[u] EXCEPT !.call = None].call = None
          /\ [up[u] EXCEPT !.at = "deleting", !.call = None].call = None
      BY <3>1 DEF UploaderStates
    <3>3. NotUploading.call = None
      BY DEF NotUploading
    <3> QED
      BY <2>4, <3>2, <3>3
  <2>6. \A v \in Uploaders \ {u} : up[v].call # h
    BY <1>5, <1>8 DEF Refused, Accepted
  <2>7. OneHandler(u, h)
    BY <2>1, <2>2, <2>3, <2>5, <2>6 DEF OneHandler
  <2> QED
    BY <1>4, <2>1, <2>7
<1>9. ASSUME NEW u \in Uploaders, GivesUp(u) PROVE RelayInv'
  <2>1. up[u] \in UploaderStates /\ up[u].call = None
    BY <1>2, <1>9, FieldsTyped DEF GivesUp
  <2>2. up'[u] \in {[up[u] EXCEPT !.at = "queueing", !.job = None],
                    [up[u] EXCEPT !.at = "listing", !.job = None]}
    BY <1>2, <1>9 DEF GivesUp, TypeOK
  <2>3. up'[u].call = None /\ \A v \in Uploaders \ {u} : up'[v] = up[v]
    BY <1>2, <1>9, <2>1, <2>2 DEF GivesUp, TypeOK, UploaderStates
  <2> QED
    BY <1>1, <1>9, <2>3, RelayLeftAlone DEF GivesUp
<1> QED
  BY <1>6, <1>7, <1>8, <1>9 DEF UploadStep

\* Going on keeps a handler's photo and client, and the other handlers.
LEMMA HandlerWent ==
    ASSUME TypeOK, NEW h \in Handlers, NEW a, HandlerGoes(h, a)
    PROVE  /\ handler'[h].at = a
           /\ handler'[h].photo = handler[h].photo /\ handler'[h].client = handler[h].client
           /\ \A g \in Handlers \ {h} : handler'[g] = handler[g]
<1>1. handler[h] \in HandlerStates
  BY FieldsTyped
<1>2. handler' = [handler EXCEPT ![h] = [handler[h] EXCEPT !.at = a]]
  BY DEF HandlerGoes
<1>3. handler'[h] = [handler[h] EXCEPT !.at = a]
  BY <1>2 DEF TypeOK
<1>4. \A g \in Handlers \ {h} : handler'[g] = handler[g]
  BY <1>2 DEF TypeOK
<1> QED
  BY <1>1, <1>3, <1>4 DEF HandlerStates

\* Steps of sync_photo keep the relay's files whole, where no open file is renamed: the file that
\* is moved to its final name has been written to its end.
LEMMA HandlerRelay ==
    ~ReplaceWhileOpen => (QueueInv /\ RelayInv /\ RelayStep => RelayInv')
<1> SUFFICES ASSUME ~ReplaceWhileOpen, QueueInv, RelayInv, RelayStep PROVE RelayInv'
  OBVIOUS
<1>1. up' = up
  BY DEF RelayStep
<1>2. TypeOK /\ CallsMatch /\ TempOwned /\ PathWhole /\ ServedWhole
  BY DEF QueueInv, RelayInv
<1>3. PICK h \in Handlers :
          TempOpened(h) \/ TempWritten(h) \/ TempReplaces(h) \/ RowStored(h) \/ Unheard(h)
  BY DEF RelayStep
<1> DEFINE q == handler[h].photo
<1>4. handler[h].at # "free" => q \in Photos
  BY <1>2, FieldsTyped DEF QueueInv, HandlersKnown, Free
<1>5. \A u \in Uploaders : up[u].call \in Handlers \cup {None}
  BY <1>2, FieldsTyped
<1>6. ASSUME NEW a, HandlerGoes(h, a) PROVE CallsMatch'
  <2>1. \A g \in Handlers : handler'[g].client = handler[g].client
                          /\ handler'[g].photo = handler[g].photo
    BY <1>2, <1>6, HandlerWent
  <2> QED
    BY <1>1, <1>2, <1>5, <2>1 DEF CallsMatch
<1>7. CASE TempOpened(h)
  <2>1. /\ handler[h].at = "arrived" /\ HandlerGoes(h, "writing")
        /\ temp' = [temp EXCEPT ![q] = h] /\ path' = path /\ rows' = rows
    BY <1>7 DEF TempOpened
  <2>2. \A p \in Photos : temp'[p] = IF p = q THEN h ELSE temp[p]
    BY <1>2, <2>1 DEF TypeOK
  <2>3. h # "partial"
    OBVIOUS
  <2>4. TempOwned'
    <3>1. ASSUME NEW p \in Photos, temp'[p] \in Handlers
          PROVE  handler'[temp'[p]].at = "writing" /\ handler'[temp'[p]].photo = p
      BY <1>2, <2>1, <2>2, <3>1, HandlerWent DEF TempOwned
    <3>2. ASSUME NEW g \in Handlers, handler'[g].at \in {"writing", "written"}
          PROVE  temp'[handler'[g].photo] # "partial"
      <4>1. g # h => handler'[g] = handler[g] /\ handler[g].photo \in Photos
        BY <1>2, <2>1, <3>2, HandlerWent, FieldsTyped DEF QueueInv, HandlersKnown, Free
      <4>2. handler'[h].photo = q /\ q \in Photos
        BY <1>2, <1>4, <2>1, HandlerWent
      <4> QED
        BY <1>2, <2>2, <2>3, <3>2, <4>1, <4>2 DEF TempOwned
    <3> QED
      BY <3>1, <3>2 DEF TempOwned
  <2>5. PathWhole' /\ ServedWhole'
    BY <1>2, <2>1, HandlerWent DEF PathWhole, ServedWhole
  <2> QED
    BY <1>6, <2>1, <2>4, <2>5 DEF RelayInv
<1>8. CASE TempWritten(h)
  <2>1. /\ handler[h].at = "writing" /\ HandlerGoes(h, "written") /\ rows' = rows
        /\ \A p \in Photos : /\ temp'[p] = IF temp[p] = h THEN "complete" ELSE temp[p]
                            /\ path'[p] = IF path[p] = h THEN "complete" ELSE path[p]
    BY <1>8 DEF TempWritten
  <2>2. \A p \in Photos : path'[p] = path[p]
    BY <1>2, <2>1 DEF PathWhole
  <2>3. \A g \in Handlers : handler[g].at # "free" => handler[g].photo \in Photos
    BY <1>2, FieldsTyped DEF QueueInv, HandlersKnown, Free
  <2>4. TempOwned'
    <3>1. ASSUME NEW p \in Photos, temp'[p] \in Handlers
          PROVE  handler'[temp'[p]].at = "writing" /\ handler'[temp'[p]].photo = p
      BY <1>2, <2>1, <3>1, HandlerWent DEF TempOwned
    <3>2. ASSUME NEW g \in Handlers, handler'[g].at \in {"writing", "written"}
          PROVE  temp'[handler'[g].photo] # "partial"
      <4>1. handler[g].at \in {"writing", "written"} /\ handler'[g].photo = handler[g].photo
        BY <1>2, <2>1, <3>2, HandlerWent
      <4> QED
        BY <1>2, <2>1, <2>3, <4>1 DEF TempOwned
    <3> QED
      BY <3>1, <3>2 DEF TempOwned
  <2>5. PathWhole'
    <3>1. ASSUME NEW g \in Handlers, handler'[g].at \in {"placed", "stored"}
          PROVE  handler[g].at = handler'[g].at /\ handler'[g].photo = handler[g].photo
                 /\ handler[g].photo \in Photos
      BY <1>2, <2>1, <2>3, <3>1, HandlerWent
    <3> QED
      BY <1>2, <2>1, <2>2, <3>1 DEF PathWhole
  <2>6. ServedWhole'
    BY <1>2, <2>1, <2>2 DEF ServedWhole, TypeOK
  <2> QED
    BY <1>6, <2>1, <2>4, <2>5, <2>6 DEF RelayInv
<1>9. CASE TempReplaces(h)
  <2>1. handler[h].at = "written" /\ rows' = rows /\ q \in Photos
    BY <1>4, <1>9 DEF TempReplaces
  <2>2. CASE HandlerGoes(h, "failed") /\ UNCHANGED <<path, temp>>
    <3>1. \A g \in Handlers : handler'[g].photo = handler[g].photo
                            /\ (handler'[g].at = handler[g].at \/ handler'[g].at = "failed")
      BY <1>2, <2>2, HandlerWent
    <3>2. \A p \in Photos : temp[p] # h
      BY <1>2, <2>1 DEF TempOwned
    <3>3. \A p \in Photos : temp[p] \in Handlers => handler'[temp[p]] = handler[temp[p]]
      BY <1>2, <2>2, <3>2, HandlerWent
    <3>4. TempOwned'
      BY <1>2, <2>2, <3>1, <3>3 DEF TempOwned
    <3>5. PathWhole' /\ ServedWhole'
      BY <1>2, <2>1, <2>2, <3>1 DEF PathWhole, ServedWhole
    <3> QED
      BY <1>6, <2>2, <3>4, <3>5 DEF RelayInv
  <2>3. CASE /\ temp[q] # "absent" /\ ~OpenElsewhere(h) /\ HandlerGoes(h, "placed")
             /\ path' = [path EXCEPT ![q] = temp[q]] /\ temp' = [temp EXCEPT ![q] = "absent"]
    <3>1. temp[q] = "complete"
      <4>1. temp[q] \notin Handlers
        BY <1>2, <2>1, <2>3 DEF TempOwned, OpenElsewhere
      <4>2. temp[q] # "partial"
        BY <1>2, <2>1 DEF TempOwned
      <4> QED
        BY <1>2, <2>1, <2>3, <4>1, <4>2 DEF TypeOK, RelayFileStates, FileStates
    <3>2. \A p \in Photos : /\ temp'[p] = IF p = q THEN "absent" ELSE temp[p]
                           /\ path'[p] = IF p = q THEN "complete" ELSE path[p]
      BY <1>2, <2>3, <3>1 DEF TypeOK
    <3>3. \A g \in Handlers \ {h} : handler'[g] = handler[g]
      BY <1>2, <2>3, HandlerWent
    <3>4. handler'[h].at = "placed" /\ handler'[h].photo = q
      BY <1>2, <2>3, HandlerWent
    <3>5. \A g \in Handlers : handler[g].at # "free" => handler[g].photo \in Photos
      BY <1>2, FieldsTyped DEF QueueInv, HandlersKnown, Free
    <3>6. TempOwned'
      <4>1. ASSUME NEW p \in Photos, temp'[p] \in Handlers
            PROVE  handler'[temp'[p]].at = "writing" /\ handler'[temp'[p]].photo = p
        <5>1. temp'[p] = temp[p] /\ temp[p] # h
          BY <1>2, <2>1, <3>2, <4>1 DEF TempOwned
        <5> QED
          BY <1>2, <3>3, <4>1, <5>1 DEF TempOwned
      <4>2. ASSUME NEW g \in Handlers, handler'[g].at \in {"writing", "written"}
            PROVE  temp'[handler'[g].photo] # "partial"
        <5>1. g # h /\ handler'[g] = handler[g] /\ handler[g].photo \in Photos
          BY <3>3, <3>4, <3>5, <4>2
        <5> QED
          BY <1>2, <3>2, <4>2, <5>1 DEF TempOwned
      <4> QED
        BY <4>1, <4>2 DEF TempOwned
    <3>7. PathWhole'
      <4>1. ASSUME NEW g \in Handlers, handler'[g].at \in {"placed", "stored"}
            PROVE  /\ path'[handler'[g].photo] = "complete"
                   /\ handler'[g].at = "stored" => handler'[g].photo \in rows'
        <5>1. CASE g = h
          BY <2>1, <3>2, <3>4, <5>1
        <5>2. CASE g # h
          <6>1. handler'[g] = handler[g] /\ handler[g].photo \in Photos
            BY <3>3, <3>5, <4>1, <5>2
          <6> QED
            BY <1>2, <2>1, <3>2, <4>1, <6>1 DEF PathWhole
        <5> QED
          BY <5>1, <5>2
      <4>2. \A p \in Photos : path'[p] \in {"absent", "complete"}
        BY <1>2, <3>2 DEF PathWhole
      <4> QED
        BY <4>1, <4>2 DEF PathWhole
    <3>8. ServedWhole'
      BY <1>2, <2>1, <3>2 DEF ServedWhole, TypeOK
    <3> QED
      BY <1>6, <2>3, <3>6, <3>7, <3>8 DEF RelayInv
  <2> QED
    BY <1>9, <2>2, <2>3 DEF TempReplaces
<1>10. CASE RowStored(h)
  <2>1. /\ handler[h].at = "placed" /\ UNCHANGED <<path, temp>> /\ q \in Photos
        /\ path[q] = "complete"
    BY <1>2, <1>4, <1>10 DEF RowStored, PathWhole
  <2>2. \/ HandlerGoes(h, "stored") /\ rows' = rows \cup {q}
        \/ HandlerGoes(h, "failed") /\ rows' = rows
    BY <1>10 DEF RowStored
  <2>3. /\ \A g \in Handlers \ {h} : handler'[g] = handler[g]
        /\ handler'[h].photo = q
        /\ handler'[h].at = "failed" \/ (handler'[h].at = "stored" /\ q \in rows')
    BY <1>2, <2>2, HandlerWent
  <2>4. TempOwned'
    <3>1. \A p \in Photos : temp[p] \in Handlers => handler'[temp[p]] = handler[temp[p]]
      BY <1>2, <2>1, <2>3 DEF TempOwned
    <3>2. \A g \in Handlers : handler'[g].at \in {"writing", "written"} => handler'[g] = handler[g]
      BY <2>3
    <3> QED
      BY <1>2, <2>1, <3>1, <3>2 DEF TempOwned
  <2>5. PathWhole'
    BY <1>2, <2>1, <2>2, <2>3 DEF PathWhole
  <2>6. ServedWhole'
    BY <1>2, <2>1, <2>2 DEF ServedWhole
  <2> QED
    BY <1>6, <2>2, <2>4, <2>5, <2>6 DEF RelayInv
<1>11. CASE Unheard(h)
  <2>1. /\ handler[h].at \in {"stored", "failed"} /\ handler[h].client = None
        /\ UNCHANGED <<temp, path, rows>>
    BY <1>11 DEF Unheard, relayVars
  <2>2. handler'[h] = Free /\ \A g \in Handlers \ {h} : handler'[g] = handler[g]
    BY <1>2, <1>11 DEF Unheard, TypeOK
  <2>3. CallsMatch'
    <3>1. \A u \in Uploaders : u # None
      OBVIOUS
    <3>2. \A u \in Uploaders : up[u].call # None => up[u].call \in Handlers \ {h}
      BY <1>2, <1>5, <2>1, <3>1 DEF CallsMatch
    <3> QED
      BY <1>1, <1>2, <2>2, <3>2 DEF CallsMatch
  <2>4. TempOwned'
    <3>1. \A p \in Photos : temp[p] \in Handlers => handler'[temp[p]] = handler[temp[p]]
      BY <1>2, <2>1, <2>2 DEF TempOwned
    <3>2. \A g \in Handlers : handler'[g].at \in {"writing", "written"} => handler'[g] = handler[g]
      BY <2>2 DEF Free
    <3> QED
      BY <1>2, <2>1, <3>1, <3>2 DEF TempOwned
  <2>5. PathWhole' /\ ServedWhole'
    BY <1>2, <2>1, <2>2 DEF PathWhole, ServedWhole, Free
  <2> QED
    BY <2>3, <2>4, <2>5 DEF RelayInv
<1> QED
  BY <1>3, <1>7, <1>8, <1>9, <1>10, <1>11

\* A kill leaves no handler at work and no file in its hands; what is not the relay's does not
\* matter to it.
LEMMA EnvRelay == QueueInv /\ RelayInv /\ EnvStep => RelayInv'
<1> SUFFICES ASSUME QueueInv, RelayInv, EnvStep PROVE RelayInv'
  OBVIOUS
<1>1. TypeOK /\ CallsMatch /\ TempOwned /\ PathWhole /\ ServedWhole
  BY DEF QueueInv, RelayInv
<1>2. ASSUME AddressSaved \/ \E p \in Photos : CacheReclaimed(p) PROVE RelayInv'
  BY <1>2, RelayLeftAlone DEF AddressSaved, CacheReclaimed, relayVars
<1>3. CASE AppKilled
  <2>1. ASSUME NEW h \in Handlers
        PROVE  handler'[h].at = handler[h].at /\ handler'[h].photo = handler[h].photo
    <3>1. handler[h] \in HandlerStates
      BY <1>1, FieldsTyped
    <3>2. handler'[h] = [handler[h] EXCEPT !.client = None]
      BY <1>3 DEF AppKilled
    <3> QED
      BY <3>1, <3>2 DEF HandlerStates
  <2>2. CallsMatch'
    BY <1>3 DEF AppKilled, CallsMatch, NotUploading
  <2>3. UNCHANGED <<temp, path, rows>>
    BY <1>3 DEF AppKilled, relayVars
  <2> QED
    BY <1>1, <2>1, <2>2, <2>3 DEF RelayInv, TempOwned, PathWhole, ServedWhole
<1>4. CASE RelayKilled
  <2>1. UNCHANGED <<up, rows>>
    BY <1>4 DEF RelayKilled
  <2>2. ASSUME NEW h \in Handlers
        PROVE  IF handler[h].client = None
               THEN handler'[h].at = "free"
               ELSE /\ handler'[h].at = "failed"
                    /\ handler'[h].client = handler[h].client
                    /\ handler'[h].photo = handler[h].photo
    <3>1. handler[h] \in HandlerStates
      BY <1>1, FieldsTyped
    <3>2. handler'[h] = IF handler[h].client = None THEN Free
                        ELSE [handler[h] EXCEPT !.at = "failed"]
      BY <1>4 DEF RelayKilled
    <3>3. CASE handler[h].client = None
      BY <3>2, <3>3 DEF Free
    <3>4. CASE handler[h].client # None
      BY <3>1, <3>2, <3>4 DEF HandlerStates
    <3> QED
      BY <3>3, <3>4
  <2>3. \A p \in Photos : temp'[p] \notin Handlers /\ path'[p] = path[p]
    BY <1>1, <1>4 DEF RelayKilled, PathWhole
  <2>4. CallsMatch'
    <3>1. SUFFICES ASSUME NEW u \in Uploaders, up[u].call # None
                   PROVE  /\ handler'[up[u].call].client = u
                          /\ handler'[up[u].call].photo = up[u].job
      BY <2>1 DEF CallsMatch
    <3>2. u # None /\ up[u].call \in Handlers
      BY <1>1, <3>1, FieldsTyped
    <3>3. handler[up[u].call].client = u /\ handler[up[u].call].photo = up[u].job
      BY <1>1, <3>1 DEF CallsMatch
    <3> QED
      BY <2>2, <3>2, <3>3
  <2>5. \A h \in Handlers : handler'[h].at = "free" \/ handler'[h].at = "failed"
    BY <2>2
  <2>6. TempOwned' /\ PathWhole'
    BY <1>1, <2>3, <2>5 DEF TempOwned, PathWhole
  <2>7. ServedWhole'
    BY <1>1, <2>1, <2>3 DEF ServedWhole, TypeOK
  <2> QED
    BY <2>4, <2>6, <2>7 DEF RelayInv
<1> QED
  BY <1>2, <1>3, <1>4 DEF EnvStep

\* Every step keeps the relay's files whole, where no open file is renamed.
LEMMA NextRelay ==
    ~ReplaceWhileOpen => (QueueInv /\ RelayInv /\ [Next]_vars => RelayInv')
<1> SUFFICES ASSUME ~ReplaceWhileOpen, QueueInv, RelayInv, [Next]_vars PROVE RelayInv'
  OBVIOUS
<1>1. CASE UNCHANGED vars \/ RestoreStep
  BY <1>1, RelayLeftAlone DEF vars, relayVars, RestoreStep
<1> QED
  BY <1>1, SyncRelay, RetryRelay, UploadRelay, HandlerRelay, EnvRelay DEF Next

------------------------------------------------------------------------------
\* What each step of the phone does to a photo

\* The relay keeps what it has.
LEMMA OnRelayStays ==
    ASSUME QueueInv, [Next]_vars, ServedWhole', NEW p \in Photos, OnRelay(p)
    PROVE  OnRelay(p)'
<1>1. rows \subseteq rows'
  BY DEF Next, SyncStep, RetryStep, UploadStep, RestoreStep, RelayStep, EnvStep, relayVars, vars,
         TempOpened, TempWritten, TempReplaces, RowStored, Unheard, AddressSaved, AppKilled,
         RelayKilled, CacheReclaimed
<1> QED
  BY <1>1 DEF OnRelay, ServedWhole

\* An upload is accepted for a photo that the relay has.
LEMMA AcceptedIsThere ==
    ASSUME QueueInv, RelayInv, NEW u \in Uploaders, Accepted(u)
    PROVE  up[u].job \in Photos /\ OnRelay(up[u].job)
<1>1. up[u].call \in Handlers /\ handler[up[u].call].at = "stored"
      /\ up[u].call # None
  BY FieldsTyped DEF Accepted, QueueInv
<1>2. handler[up[u].call].photo = up[u].job
  BY <1>1 DEF RelayInv, CallsMatch
<1>3. up[u].job \in Photos
  BY <1>1, FieldsTyped DEF QueueInv, JobsKnown
<1> QED
  BY <1>1, <1>2, <1>3 DEF RelayInv, PathWhole, OnRelay

\* A photo that can be read in the queue is whole, and not the capture in hand.
LEMMA ReadableIsQueued ==
    ASSUME QueueInv, NEW p \in Photos, Readable(p)
    PROVE  InQueue(p) /\ p # captured
  BY DEF QueueInv, QueueOrdered, PendingIsWhole, Readable, InQueue, TypeOK, FileStates

\* A photo leaves the queue only when the relay has it, or the system reclaims it.
LEMMA QueueKept ==
    ASSUME QueueInv, RelayInv, Delivered, Next, NEW p \in Photos, InQueue(p)
    PROVE  InQueue(p)' \/ OnRelay(p) \/ p \in reclaimed'
<1>1. TypeOK /\ p # captured
  BY DEF QueueInv, QueueOrdered, InQueue
<1> DEFINE Kept == jpg'[p] = jpg[p] /\ json'[p] = json[p]
<1>2. SUFFICES Kept \/ OnRelay(p) \/ p \in reclaimed'
  BY DEF InQueue
<1>3. CASE SyncStep
  <2>1. /\ \/ jpg' = jpg
           \/ jpg' = [jpg EXCEPT ![captured] = "partial"]
           \/ jpg' = [jpg EXCEPT ![captured] = "complete"]
        /\ \/ json' = json
           \/ json' = [json EXCEPT ![captured] = "partial"]
           \/ json' = [json EXCEPT ![captured] = "complete"]
    BY <1>3 DEF SyncStep, Capture, LocalFileWritten, LocalRowStored, LocalSaveFails, PlaceResolved,
                QueueImageOpened, QueueImageWritten, QueueDescribed, QueueFails, queueVars
  <2> QED
    BY <1>1, <2>1 DEF TypeOK
<1>4. CASE RetryStep
  <2>1. jpg' = jpg
    BY <1>4 DEF RetryStep
  <2>2. ASSUME NEW r \in Retriers, RetryBegins(r) PROVE Kept
    BY <2>1, <2>2 DEF RetryBegins
  <2>3. ASSUME NEW u \in Uploaders, NEW x \in Photos, RetryNext(u, x) PROVE Kept
    <3>1. json' = json \/ (~Readable(x) /\ json' = [json EXCEPT ![x] = "absent"])
      BY <2>3 DEF RetryNext
    <3>2. Readable(p)
      BY DEF Readable, InQueue
    <3> QED
      BY <1>1, <2>1, <3>1, <3>2 DEF TypeOK
  <2>4. ASSUME NEW u \in Uploaders, RetryEnds(u) PROVE Kept
    BY <2>1, <2>4 DEF RetryEnds
  <2>5. ASSUME NEW u \in Uploaders, QueueFilesDeleted(u) PROVE Kept \/ OnRelay(p)
    <3>1. CASE p = up[u].job
      BY <2>5, <3>1 DEF QueueFilesDeleted, Delivered, At
    <3>2. CASE p # up[u].job
      BY <1>1, <2>1, <2>5, <3>2 DEF QueueFilesDeleted, TypeOK
    <3> QED
      BY <3>1, <3>2
  <2> QED
    BY <1>4, <2>2, <2>3, <2>4, <2>5 DEF RetryStep
<1>5. CASE UploadStep
  <2>1. json' = json
    BY <1>5 DEF UploadStep
  <2>2. PICK u \in Uploaders : Send(u) \/ TimesOut(u) \/ Refused(u) \/ Accepted(u) \/ GivesUp(u)
    BY <1>5 DEF UploadStep
  <2>3. CASE Send(u) \/ TimesOut(u) \/ Refused(u)
    BY <2>1, <2>3 DEF Send, TimesOut, Refused
  <2>4. CASE Accepted(u)
    <3>1. jpg' = jpg \/ jpg' = [jpg EXCEPT ![up[u].job] = "absent"]
      BY <2>4 DEF Accepted, Uploaded
    <3>2. OnRelay(up[u].job)
      BY <2>4, AcceptedIsThere
    <3> QED
      BY <1>1, <2>1, <3>1, <3>2 DEF TypeOK
  <2>5. CASE GivesUp(u)
    <3>1. jpg' = jpg \/ jpg' = [jpg EXCEPT ![captured] = "partial"]
      BY <2>5 DEF GivesUp, QueueImageOpened
    <3> QED
      BY <1>1, <2>1, <3>1 DEF TypeOK
  <2> QED
    BY <2>2, <2>3, <2>4, <2>5
<1>6. CASE RestoreStep \/ RelayStep
  BY <1>6 DEF RestoreStep, RelayStep, queueVars
<1>7. CASE AddressSaved \/ AppKilled \/ RelayKilled
  BY <1>7 DEF AddressSaved, AppKilled, RelayKilled, queueVars
<1>8. ASSUME NEW x \in Photos, CacheReclaimed(x) PROVE Kept \/ p \in reclaimed'
  BY <1>1, <1>8 DEF CacheReclaimed, TypeOK
<1> QED
  BY <1>3, <1>4, <1>5, <1>6, <1>7, <1>8 DEF Next, EnvStep

\* The dispatcher lets go of a capture when it is queued or on the relay, unless something kept it
\* from being queued.
LEMMA CaptureKept ==
    ASSUME QueueInv, RelayInv, Next, NEW c \in Photos, captured = c
    PROVE  captured' = c \/ InQueue(c)' \/ OnRelay(c) \/ c \in forgotten'
<1>1. TypeOK /\ c # None /\ ~At(Dispatcher, "idle")
  BY DEF QueueInv, CaptureInHand
<1>2. CASE QueueDescribed
  <2>1. jpg'[c] = "complete" /\ json'[c] = "complete"
    BY <1>1, <1>2 DEF QueueInv, QueueOrdered, QueueDescribed, TypeOK
  <2> QED
    BY <2>1 DEF InQueue
<1>3. CASE SyncStep /\ ~QueueDescribed
  BY <1>1, <1>3 DEF SyncStep, Capture, LocalFileWritten, LocalRowStored, LocalSaveFails, PlaceResolved,
                    QueueImageWritten, QueueFails
<1>4. CASE UploadStep
  <2>1. PICK u \in Uploaders : Send(u) \/ TimesOut(u) \/ Refused(u) \/ Accepted(u) \/ GivesUp(u)
    BY <1>4 DEF UploadStep
  <2>2. CASE Accepted(u)
    BY <2>2, AcceptedIsThere DEF Accepted, Uploaded, SendsCapture
  <2>3. CASE ~Accepted(u)
    BY <2>1, <2>3 DEF Send, TimesOut, Refused, GivesUp
  <2> QED
    BY <2>2, <2>3
<1>5. CASE RetryStep \/ RestoreStep \/ RelayStep
  BY <1>5 DEF RetryStep, RestoreStep, RelayStep
<1>6. CASE EnvStep
  BY <1>1, <1>6 DEF EnvStep, AddressSaved, AppKilled, RelayKilled, CacheReclaimed
<1> QED
  BY <1>2, <1>3, <1>4, <1>5, <1>6 DEF Next

\* A local copy is rewritten only while the queue has the photo too, and a row of the LifeLog is
\* stored only beside its file.
LEMMA FilesKept ==
    ASSUME QueueInv, Delivered, Next, NEW p \in Photos
    PROVE  /\ p \in localFile => p \in localFile' \/ (InQueue(p) /\ p # captured)
           /\ p \in localRows' => p \in localRows \/ p \in localFile'
<1>1. CASE SyncStep
  BY <1>1 DEF SyncStep, Capture, LocalFileWritten, LocalRowStored, LocalSaveFails, PlaceResolved,
              QueueImageWritten, QueueDescribed, QueueFails, localVars, Delivered
<1>2. CASE RestoreStep
  <2>1. ASSUME NEW x \in Photos, RestoreNext(x)
        PROVE  /\ p \in localFile => p \in localFile' \/ (InQueue(p) /\ p # captured)
               /\ localRows' = localRows
    BY <2>1, ReadableIsQueued DEF RestoreNext
  <2>2. CASE RestoreBegins \/ RestoreFails \/ RestoreEnds \/ RestoreWritten
    BY <2>2 DEF RestoreBegins, RestoreFails, RestoreEnds, RestoreWritten, localVars
  <2>3. CASE RestoreIndexed
    BY <2>3 DEF RestoreIndexed, Delivered
  <2> QED
    BY <1>2, <2>1, <2>2, <2>3 DEF RestoreStep
<1>3. CASE RetryStep \/ UploadStep \/ RelayStep \/ EnvStep
  BY <1>3 DEF RetryStep, UploadStep, RelayStep, EnvStep, AddressSaved, AppKilled, RelayKilled,
              CacheReclaimed, localVars
<1> QED
  BY <1>1, <1>2, <1>3 DEF Next

\* Captures come in one at a time; what is forgotten or reclaimed stays so.
LEMMA TakenKnown ==
    ASSUME Next
    PROVE  /\ taken' \subseteq taken \cup {captured'}
           /\ forgotten \subseteq forgotten' /\ reclaimed \subseteq reclaimed'
<1>1. CASE SyncStep
  BY <1>1 DEF SyncStep, Capture, LocalFileWritten, LocalRowStored, LocalSaveFails, PlaceResolved,
              QueueImageWritten, QueueDescribed, QueueFails
<1>2. CASE ~SyncStep
  BY <1>2 DEF Next, RetryStep, UploadStep, RestoreStep, RelayStep, EnvStep, AddressSaved, AppKilled,
              RelayKilled, CacheReclaimed, auxVars
<1> QED
  BY <1>1, <1>2

\* Who begins to delete a photo's files of the queue has just had the photo accepted, and who
\* begins to store a capture's row has just written its file.
LEMMA HowItGotThere ==
    ASSUME QueueInv, Next, NEW u \in Uploaders, up'[u].at \in {"deleting", "indexing"}
    PROVE  \/ up'[u] = up[u]
           \/ Accepted(u) /\ up'[u].at = "deleting" /\ up'[u].job = up[u].job
           \/ u = Dispatcher /\ LocalFileWritten /\ up'[u].at = "indexing"
<1>1. TypeOK /\ \A v \in Uploaders : up[v] \in UploaderStates
  BY FieldsTyped DEF QueueInv
<1>2. CASE SyncStep
  <2>1. \/ \E a : GoTo(Dispatcher, a) /\ a \notin {"deleting", "indexing"}
        \/ ListQueue(Dispatcher)
        \/ LocalFileWritten /\ GoTo(Dispatcher, "indexing")
    BY <1>2 DEF SyncStep, Capture, LocalFileWritten, LocalRowStored, LocalSaveFails, PlaceResolved,
                QueueImageWritten, QueueDescribed, QueueFails
  <2> QED
    BY <1>1, <2>1, Moved, Listed
<1>3. CASE RetryStep
  <2>1. ASSUME NEW r \in Retriers, RetryBegins(r) PROVE up'[u] = up[u]
    BY <1>1, <2>1, Listed DEF RetryBegins
  <2>2. ASSUME NEW v \in Uploaders, NEW x \in Photos, RetryNext(v, x) PROVE up'[u] = up[u]
    <3>1. up[v].at = "listing"
      BY <2>2 DEF RetryNext, At
    <3>2. \/ up' = [up EXCEPT ![v] = [up[v] EXCEPT !.todo = @ \ {x}, !.at = "uploading", !.job = x,
                                                   !.tries = 0]]
          \/ up' = [up EXCEPT ![v] = [up[v] EXCEPT !.todo = @ \ {x}]]
      BY <2>2 DEF RetryNext
    <3>3. /\ [up[v] EXCEPT !.todo = @ \ {x}, !.at = "uploading", !.job = x,
                           !.tries = 0].at = "uploading"
          /\ [up[v] EXCEPT !.todo = @ \ {x}].at = "listing"
      BY <1>1, <3>1 DEF UploaderStates
    <3> QED
      BY <1>1, <3>2, <3>3 DEF TypeOK
  <2>3. ASSUME NEW v \in Uploaders, RetryEnds(v) PROVE up'[u] = up[u]
    <3>1. CASE v = Dispatcher
      <4>1. up' = [up EXCEPT ![v] = [up[v] EXCEPT !.at = "uploading", !.job = captured, !.tries = 0]]
        BY <2>3, <3>1 DEF RetryEnds, BeginUpload
      <4>2. [up[v] EXCEPT !.at = "uploading", !.job = captured, !.tries = 0].at = "uploading"
        BY <1>1 DEF UploaderStates
      <4> QED
        BY <1>1, <4>1, <4>2 DEF TypeOK
    <3>2. CASE v # Dispatcher
      BY <1>1, <2>3, <3>2, Moved DEF RetryEnds
    <3> QED
      BY <3>1, <3>2
  <2>4. ASSUME NEW v \in Uploaders, QueueFilesDeleted(v) PROVE up'[u] = up[u]
    <3>1. up' = [up EXCEPT ![v] = [up[v] EXCEPT !.at = "listing", !.job = None]]
      BY <2>4 DEF QueueFilesDeleted
    <3>2. [up[v] EXCEPT !.at = "listing", !.job = None].at = "listing"
      BY <1>1 DEF UploaderStates
    <3> QED
      BY <1>1, <3>1, <3>2 DEF TypeOK
  <2> QED
    BY <1>3, <2>1, <2>2, <2>3, <2>4 DEF RetryStep
<1>4. CASE UploadStep
  <2>1. PICK v \in Uploaders : Send(v) \/ TimesOut(v) \/ Refused(v) \/ Accepted(v) \/ GivesUp(v)
    BY <1>4 DEF UploadStep
  <2>2. up[v].at = "uploading"
    BY <2>1 DEF QueueInv, JobsKnown, Send, MayTry, TimesOut, Refused, Accepted, GivesUp, At
  <2>3. \A w \in Uploaders \ {v} : up'[w] = up[w]
    BY <1>1, <2>1 DEF Send, TimesOut, Refused, Accepted, Uploaded, GivesUp, TypeOK
  <2>4. CASE Send(v)
    <3>1. \/ up'[v] = [up[v] EXCEPT !.tries = @ + 1]
          \/ \E h \in Handlers : up'[v] = [up[v] EXCEPT !.tries = @ + 1, !.call = h]
      BY <1>1, <2>4 DEF Send, TypeOK
    <3>2. up'[v].at = "uploading"
      BY <1>1, <2>2, <3>1 DEF UploaderStates
    <3> QED
      BY <2>3, <3>2
  <2>5. CASE TimesOut(v) \/ Refused(v)
    <3>1. up'[v] = [up[v] EXCEPT !.call = None]
      BY <1>1, <2>5 DEF TimesOut, Refused, TypeOK
    <3>2. up'[v].at = "uploading"
      BY <1>1, <2>2, <3>1 DEF UploaderStates
    <3> QED
      BY <2>3, <3>2
  <2>6. CASE Accepted(v)
    <3>1. \/ up'[v] = NotUploading
          \/ up'[v] = [up[v] EXCEPT !.at = "deleting", !.call = None]
      BY <1>1, <2>6 DEF Accepted, Uploaded, TypeOK
    <3>2. NotUploading.at = "idle"
      BY DEF NotUploading
    <3>3. /\ [up[v] EXCEPT !.at = "deleting", !.call = None].at = "deleting"
          /\ [up[v] EXCEPT !.at = "deleting", !.call = None].job = up[v].job
      BY <1>1 DEF UploaderStates
    <3> QED
      BY <2>3, <2>6, <3>1, <3>2, <3>3
  <2>7. CASE GivesUp(v)
    <3>1. \/ up'[v] = [up[v] EXCEPT !.at = "queueing", !.job = None]
          \/ up'[v] = [up[v] EXCEPT !.at = "listing", !.job = None]
      BY <1>1, <2>7 DEF GivesUp, TypeOK
    <3>2. up'[v].at = "queueing" \/ up'[v].at = "listing"
      BY <1>1, <3>1 DEF UploaderStates
    <3> QED
      BY <2>3, <3>2
  <2> QED
    BY <2>1, <2>4, <2>5, <2>6, <2>7
<1>5. CASE RestoreStep \/ RelayStep \/ EnvStep
  BY <1>5 DEF RestoreStep, RelayStep, EnvStep, AddressSaved, AppKilled, RelayKilled, CacheReclaimed,
              NotUploading
<1> QED
  BY <1>2, <1>3, <1>4, <1>5 DEF Next

\* A dispatcher or a restoring bridge about to store a row has written the file.
LEMMA FileBeforeRow ==
    ASSUME QueueInv, Delivered, Next
    PROVE  /\ up'[Dispatcher].at = "indexing" => captured' \in localFile'
           /\ bridge'.at = "indexing" => bridge'.photo \in localFile'
<1>1. TypeOK /\ bridge \in BridgeStates
  BY DEF QueueInv, TypeOK
<1>2. \A p \in Photos : p \in localFile /\ p = captured => p \in localFile'
  BY FilesKept
<1>3. ASSUME up'[Dispatcher].at = "indexing" PROVE captured' \in localFile'
  <2>1. CASE LocalFileWritten
    BY <2>1 DEF LocalFileWritten
  <2>2. CASE up'[Dispatcher] = up[Dispatcher]
    <3>1. At(Dispatcher, "indexing") /\ captured \in Photos /\ captured \in localFile
      BY <1>1, <1>3, <2>2 DEF At, QueueInv, CaptureInHand, TypeOK, Delivered
    <3>2. captured' = captured
      <4>1. CASE SyncStep
        BY <3>1, <4>1
        DEF SyncStep, Capture, LocalFileWritten, LocalRowStored, LocalSaveFails, PlaceResolved,
            QueueImageWritten, QueueDescribed, QueueFails, At
      <4>2. CASE UploadStep
        <5>1. PICK u \in Uploaders :
                  Send(u) \/ TimesOut(u) \/ Refused(u) \/ Accepted(u) \/ GivesUp(u)
          BY <4>2 DEF UploadStep
        <5>2. Accepted(u) /\ SendsCapture(u) => At(Dispatcher, "uploading")
          BY DEF Accepted, SendsCapture, QueueInv, JobsKnown, At
        <5> QED
          BY <3>1, <5>1, <5>2 DEF Send, TimesOut, Refused, Accepted, Uploaded, GivesUp, At
      <4>3. CASE RetryStep \/ RestoreStep \/ RelayStep \/ EnvStep
        BY <1>3, <4>3 DEF RetryStep, RestoreStep, RelayStep, EnvStep, AddressSaved, AppKilled,
                          RelayKilled, CacheReclaimed, NotUploading
      <4> QED
        BY <4>1, <4>2, <4>3 DEF Next
    <3> QED
      BY <1>2, <3>1, <3>2
  <2> QED
    BY <1>3, <2>1, <2>2, HowItGotThere
<1>4. ASSUME bridge'.at = "indexing" PROVE bridge'.photo \in localFile'
  <2>1. CASE RestoreStep
    <3>1. CASE RestoreWritten
      <4>1. bridge'.photo = bridge.photo
        BY <1>1, <3>1 DEF RestoreWritten, BridgeStates
      <4> QED
        BY <3>1, <4>1 DEF RestoreWritten
    <3>2. bridge'.at = "indexing" => RestoreWritten
      <4>1. ASSUME RestoreBegins \/ RestoreIndexed \/ RestoreFails \/ RestoreEnds
                   \/ \E p \in Photos : RestoreNext(p)
            PROVE  bridge'.at # "indexing"
        <5>1. CASE RestoreBegins
          BY <1>1, <5>1 DEF RestoreBegins, BridgeStates
        <5>2. CASE RestoreIndexed \/ RestoreFails
          BY <1>1, <5>2 DEF RestoreIndexed, RestoreFails, BridgeStates
        <5>3. CASE RestoreEnds
          BY <5>3 DEF RestoreEnds, NotRestoring
        <5>4. ASSUME NEW p \in Photos, RestoreNext(p) PROVE bridge'.at # "indexing"
          BY <1>1, <5>4 DEF RestoreNext, BridgeStates
        <5> QED
          BY <4>1, <5>1, <5>2, <5>3, <5>4
      <4> QED
        BY <2>1, <4>1 DEF RestoreStep
    <3> QED
      BY <1>4, <3>1, <3>2
  <2>2. CASE ~RestoreStep
    <3>1. bridge' = bridge
      BY <1>4, <2>2 DEF Next, SyncStep, RetryStep, UploadStep, RelayStep, EnvStep, AddressSaved,
                        AppKilled, RelayKilled, CacheReclaimed, NotRestoring
    <3>2. localFile \subseteq localFile'
      BY <2>2 DEF Next, SyncStep, Capture, LocalFileWritten, LocalRowStored, LocalSaveFails,
                  PlaceResolved, QueueImageWritten, QueueDescribed, QueueFails, RetryStep, UploadStep,
                  RelayStep, EnvStep, AddressSaved, AppKilled, RelayKilled, CacheReclaimed, localVars
    <3> QED
      BY <1>4, <3>1, <3>2 DEF Delivered
  <2> QED
    BY <2>1, <2>2
<1> QED
  BY <1>3, <1>4

\* Every step keeps Delivered.
LEMMA NextDelivered ==
    ASSUME QueueInv, RelayInv, Delivered, Next, ServedWhole'
    PROVE  Delivered'
<1>1. ASSUME NEW u \in Uploaders, up'[u].at = "deleting"
      PROVE  up'[u].job \in rows' /\ path'[up'[u].job] = "complete"
  <2>1. up'[u].job = up[u].job /\ up[u].job \in Photos /\ OnRelay(up[u].job)
    <3>1. up'[u] = up[u] \/ (Accepted(u) /\ up'[u].job = up[u].job)
      BY <1>1, HowItGotThere
    <3>2. CASE up'[u] = up[u]
      BY <1>1, <3>2, FieldsTyped DEF QueueInv, JobsKnown, Delivered
    <3>3. CASE Accepted(u) /\ up'[u].job = up[u].job
      BY <3>3, AcceptedIsThere
    <3> QED
      BY <3>1, <3>2, <3>3
  <2>2. ASSUME NEW p \in Photos, OnRelay(p) PROVE p \in rows' /\ path'[p] = "complete"
    BY <2>2, OnRelayStays DEF OnRelay
  <2> QED
    BY <2>1, <2>2
<1> QED
  BY <1>1, FileBeforeRow DEF Delivered, OnRelay, At

------------------------------------------------------------------------------
\* The theorems

\* Nothing taken, nothing served.
LEMMA InitAll == Init => IInv
<1> SUFFICES ASSUME Init PROVE IInv
  OBVIOUS
<1>1. QueueInv
  BY InitQueue
<1>2. RelayInv
  BY DEF Init, RelayInv, CallsMatch, TempOwned, PathWhole, ServedWhole, NotUploading, Free
<1>3. Delivered
  BY DEF Init, Delivered, NotUploading, NotRestoring, At
<1>4. SentOrQueued /\ NeverLost
  BY DEF Init, SentOrQueued, NeverLost
<1> QED
  BY <1>1, <1>2, <1>3, <1>4 DEF IInv

\* Every step keeps all of it, where no open file is renamed.
LEMMA NextAll == ~ReplaceWhileOpen => (IInv /\ [Next]_vars => IInv')
<1> SUFFICES ASSUME ~ReplaceWhileOpen, IInv, [Next]_vars PROVE IInv'
  OBVIOUS
<1>1. QueueInv' /\ RelayInv'
  BY NextQueue, NextRelay DEF IInv
<1>2. CASE UNCHANGED vars
  BY <1>1, <1>2 DEF IInv, vars, localVars, queueVars, relayVars, auxVars, Delivered, SentOrQueued,
                    NeverLost, OnRelay, InQueue, At
<1>3. CASE Next
  <2>1. QueueInv /\ RelayInv /\ Delivered /\ SentOrQueued /\ NeverLost /\ ServedWhole'
    BY <1>1 DEF IInv, RelayInv
  <2>2. Delivered'
    BY <1>3, <2>1, NextDelivered
  <2>3. /\ taken' \subseteq Photos /\ localRows' \subseteq Photos
        /\ captured' \in Photos \cup {None}
    BY <1>1 DEF QueueInv, TypeOK
  <2>4. ASSUME NEW p \in Photos, OnRelay(p) PROVE OnRelay(p)'
    BY <1>3, <2>1, <2>4, OnRelayStays
  <2>5. ASSUME NEW p \in Photos, InQueue(p)
        PROVE  InQueue(p)' \/ OnRelay(p)' \/ p \in reclaimed'
    BY <1>3, <2>1, <2>4, <2>5, QueueKept
  <2>6. SentOrQueued'
    <3>1. SUFFICES ASSUME NEW p \in Photos, p \in taken', p \notin forgotten', p \notin reclaimed',
                          captured' # p
                   PROVE  OnRelay(p)' \/ InQueue(p)'
      BY <2>3 DEF SentOrQueued
    <3>2. p \in taken \ (forgotten \cup reclaimed)
      BY <1>3, <3>1, TakenKnown
    <3>3. CASE captured = p
      BY <1>3, <2>1, <2>4, <3>1, <3>3, CaptureKept
    <3>4. CASE captured # p
      BY <2>1, <2>4, <2>5, <3>1, <3>2, <3>4 DEF SentOrQueued
    <3> QED
      BY <3>3, <3>4
  <2>7. NeverLost'
    <3>1. SUFFICES ASSUME NEW p \in Photos, p \in localRows', p \notin reclaimed',
                          p \notin localFile'
                   PROVE  OnRelay(p)' \/ InQueue(p)'
      BY <2>3 DEF NeverLost
    <3>2. p \in localRows \ reclaimed
      BY <1>3, <2>1, <3>1, FilesKept, TakenKnown
    <3>3. OnRelay(p) \/ InQueue(p)
      BY <1>3, <2>1, <3>1, <3>2, FilesKept DEF NeverLost
    <3> QED
      BY <2>4, <2>5, <3>1, <3>3
  <2> QED
    BY <1>1, <2>2, <2>6, <2>7 DEF IInv
<1> QED
  BY <1>2, <1>3

\* IInv is an invariant of the specification, where no open file is renamed.
THEOREM Delivery == ~ReplaceWhileOpen => (Spec => []IInv)
<1> SUFFICES ASSUME ~ReplaceWhileOpen PROVE Spec => []IInv
  OBVIOUS
<1>1. IInv /\ [Next]_vars => IInv'
  BY NextAll
<1> QED
  BY <1>1, InitAll, PTL DEF Spec

\* "Do not expose a partial JPEG" (server.py:528) holds however many uploads of a photo overlap,
\* on a system that does not rename an open file.
THEOREM ServesWholePhotos == ~ReplaceWhileOpen => (Spec => []ServedWhole)
<1>1. IInv => ServedWhole
  BY DEF IInv, RelayInv
<1> QED
  BY <1>1, Delivery, PTL

\* A capture is on the relay, in the queue or in the dispatcher's hands, unless it was cut off
\* before it was queued (syncPhoto, LifeLogSyncer.kt:46).
THEOREM NothingForgotten == ~ReplaceWhileOpen => (Spec => []SentOrQueued)
<1>1. IInv => SentOrQueued
  BY DEF IInv
<1> QED
  BY <1>1, Delivery, PTL

\* A capture the LifeLog lists is whole somewhere, on the phone or on the relay
\* (LifeLogSyncer.kt:77, 143).
THEOREM NothingLost == ~ReplaceWhileOpen => (Spec => []NeverLost)
<1>1. IInv => NeverLost
  BY DEF IInv
<1> QED
  BY <1>1, Delivery, PTL

==============================================================================
