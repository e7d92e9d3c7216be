------------------------------ MODULE PhotoSync ------------------------------
(***************************************************************************)
(* A captured photo on its way from the phone to the relay: LifeLogSyncer  *)
(* (syncPhoto, retryPendingPhotos, restorePendingPhotos) on the phone and  *)
(* sync_photo of server.py on the relay.                                   *)
(*                                                                         *)
(* Three kinds of threads run on the phone.  The photo dispatcher is one   *)
(* thread: it saves, retries, uploads and queues one capture at a time.    *)
(* The web screen runs retryPendingPhotos on an I/O thread whenever it     *)
(* reaches the relay.  The JavaScript bridge runs restorePendingPhotos     *)
(* whenever the LifeLog page lists the photos of a day.  They share the    *)
(* queue, two files per photo in the cache directory, without any lock.    *)
(* On the relay sync_photo runs in a thread pool, so two uploads of one    *)
(* photo are handled at once.                                              *)
(*                                                                         *)
(* A file is opened (and truncated) in one step and complete in a later    *)
(* one.  Requests and responses may be lost, a client may time out while   *)
(* the relay still works for it; the app and the relay may be killed, and  *)
(* the phone's disk may be full.  (The relay's may not: write_bytes of     *)
(* sync_photo fails only by a kill.)                                       *)
(***************************************************************************)
EXTENDS Naturals, FiniteSets

CONSTANTS
    Photos,             \* client_photo_id of the captures
    Dispatcher,         \* the photo dispatcher's thread
    Retriers,           \* I/O threads of the web screen
    Handlers,           \* threads of the relay that handle sync_photo
    None,
    MaxMishaps,         \* bound on the kills, full disks and reclaimed files of a behaviour
    ReplaceWhileOpen    \* may a file be renamed while another thread has it open?
                        \* (TRUE on POSIX, FALSE on Windows)

Uploaders == {Dispatcher} \cup Retriers

ASSUME NamesAreDistinct ==
    /\ Dispatcher \notin Retriers
    /\ None \notin Photos \cup Uploaders \cup Handlers
    /\ Handlers \cap {"absent", "partial", "complete"} = {}
    /\ MaxMishaps \in Nat
    /\ ReplaceWhileOpen \in BOOLEAN

VARIABLES
    \* ---- phone: storage ----
    localFile,      \* photos whose files/lifelog-photos/<id>.jpg is whole
    localRows,      \* photo_records of kimchi_lifelog.db
    jpg, json,      \* the queue: <id>.jpg and <id>.json of the cache directory
    configured,     \* is a relay address known?
    \* ---- phone: threads ----
    up,             \* each uploader: where it is, the photo it uploads, the queue files it has
                    \* listed and not yet looked at, its attempts, the handler it waits for
    captured,       \* the photo the dispatcher is saving and sending
    bridge,         \* restorePendingPhotos: where it is, its photo, what it has still to look at
    \* ---- relay ----
    temp, path,     \* <id>.upload and <id>.jpg of the photo folder
    rows,           \* photo_records of kimchi_r1.db
    handler,        \* the step, photo and client of each handler
    \* ---- auxiliary ----
    taken,          \* photos captured so far
    forgotten,      \* photos whose upload a kill or a full disk cut off before they were queued
    reclaimed,      \* photos the system dropped from the cache
    mishaps         \* number of kills, full disks and reclaimed files so far

localVars == <<localFile, localRows>>
queueVars == <<jpg, json>>
relayVars == <<temp, path, rows>>
auxVars == <<taken, forgotten, reclaimed, mishaps>>
vars == <<localVars, queueVars, configured, up, captured, bridge, relayVars, handler, auxVars>>

FileStates == {"absent", "partial", "complete"}
\* A file of the relay belongs to the handler that truncated it last until that one has written it.
RelayFileStates == FileStates \cup Handlers
MaxTries == 2
NotUploading == [at |-> "idle", job |-> None, todo |-> {}, tries |-> 0, call |-> None]
NotRestoring == [at |-> "idle", photo |-> None, todo |-> {}]
Free == [at |-> "free", photo |-> None, client |-> None]

UploaderStates ==
    [at : {"idle", "saving", "indexing", "resolving", "listing", "uploading", "deleting",
           "queueing", "describing"},
     job : Photos \cup {None}, todo : SUBSET Photos, tries : 0..MaxTries,
     call : Handlers \cup {None}]
BridgeStates ==
    [at : {"idle", "listing", "rewriting", "indexing"}, photo : Photos \cup {None},
     todo : SUBSET Photos]
HandlerStates ==
    [at : {"free", "arrived", "writing", "written", "placed", "stored", "failed"},
     photo : Photos \cup {None}, client : Uploaders \cup {None}]

TypeOK ==
    /\ localFile \subseteq Photos
    /\ localRows \subseteq Photos
    /\ jpg \in [Photos -> FileStates]
    /\ json \in [Photos -> FileStates]
    /\ configured \in BOOLEAN
    /\ up \in [Uploaders -> UploaderStates]
    /\ captured \in Photos \cup {None}
    /\ bridge \in BridgeStates
    /\ temp \in [Photos -> RelayFileStates]
    /\ path \in [Photos -> RelayFileStates]
    /\ rows \subseteq Photos
    /\ handler \in [Handlers -> HandlerStates]
    /\ taken \subseteq Photos
    /\ forgotten \subseteq Photos
    /\ reclaimed \subseteq Photos
    /\ mishaps \in 0..MaxMishaps

Init ==
    /\ localFile = {} /\ localRows = {}
    /\ jpg = [p \in Photos |-> "absent"]
    /\ json = [p \in Photos |-> "absent"]
    /\ configured \in BOOLEAN
    /\ up = [u \in Uploaders |-> NotUploading]
    /\ captured = None
    /\ bridge = NotRestoring
    /\ temp = [p \in Photos |-> "absent"]
    /\ path = [p \in Photos |-> "absent"]
    /\ rows = {}
    /\ handler = [h \in Handlers |-> Free]
    /\ taken = {} /\ forgotten = {} /\ reclaimed = {}
    /\ mishaps = 0

------------------------------------------------------------------------------
\* Pieces of the phone's operations

Queued == {p \in Photos : json[p] # "absent"}

\* A queued photo that retryPendingPhotos and restorePendingPhotos can read.
Readable(p) == json[p] = "complete" /\ jpg[p] # "absent"

At(u, where) == up[u].at = where
GoTo(u, where) == up' = [up EXCEPT ![u].at = where]

\* retryPendingPhotos lists the queue.
ListQueue(u) == up' = [up EXCEPT ![u].at = "listing", ![u].todo = Queued]

\* uploadPhoto begins; Send makes its attempts.
BeginUpload(u, p) == up' = [up EXCEPT ![u].at = "uploading", ![u].job = p, ![u].tries = 0]

\* Is u sending the capture of the dispatcher, and not a photo of the queue?
SendsCapture(u) == u = Dispatcher /\ up[u].job = captured

\* Something goes wrong on the phone or on the relay.
Mishap == mishaps < MaxMishaps /\ mishaps' = mishaps + 1

------------------------------------------------------------------------------
\* syncPhoto, on the dispatcher

\* A capture arrives and persistLocalPhoto begins to write its file.
Capture(p) ==
    /\ p \notin taken
    /\ At(Dispatcher, "idle")
    /\ taken' = taken \cup {p}
    /\ captured' = p
    /\ GoTo(Dispatcher, "saving")
    /\ UNCHANGED <<localVars, queueVars, forgotten, mishaps>>

LocalFileWritten ==
    /\ At(Dispatcher, "saving")
    /\ localFile' = localFile \cup {captured}
    /\ GoTo(Dispatcher, "indexing")
    /\ UNCHANGED <<localRows, queueVars, captured, taken, forgotten, mishaps>>

LocalRowStored ==
    /\ At(Dispatcher, "indexing")
    /\ localRows' = localRows \cup {captured}
    /\ GoTo(Dispatcher, "resolving")
    /\ UNCHANGED <<localFile, queueVars, captured, taken, forgotten, mishaps>>

\* The file or the row could not be written; syncPhoto goes on to the upload.
LocalSaveFails ==
    /\ At(Dispatcher, "saving") \/ At(Dispatcher, "indexing")
    /\ Mishap
    /\ GoTo(Dispatcher, "resolving")
    /\ UNCHANGED <<localVars, queueVars, captured, taken, forgotten>>

\* queuePhoto opens the image of the capture.
QueueImageOpened == jpg' = [jpg EXCEPT ![captured] = "partial"]

\* The place is resolved; without a relay address the capture is queued, with one the queue is
\* retried first.
PlaceResolved ==
    /\ At(Dispatcher, "resolving")
    /\ \/ /\ ~configured
          /\ QueueImageOpened
          /\ GoTo(Dispatcher, "queueing")
       \/ /\ configured
          /\ ListQueue(Dispatcher)
          /\ UNCHANGED jpg
    /\ UNCHANGED <<localVars, json, captured, taken, forgotten, mishaps>>

\* Mutant: the description is written before the image.
QueueImageWrittenLast ==
    /\ At(Dispatcher, "queueing")
    /\ json' = [json EXCEPT ![captured] = "complete"]
    /\ GoTo(Dispatcher, "describing")
    /\ UNCHANGED <<localVars, jpg, captured, taken, forgotten, mishaps>>

\* The image is complete and the description is opened.
QueueImageWritten ==
    /\ At(Dispatcher, "queueing")
    /\ jpg' = [jpg EXCEPT ![captured] = "complete"]
    /\ json' = [json EXCEPT ![captured] = "partial"]
    /\ GoTo(Dispatcher, "describing")
    /\ UNCHANGED <<localVars, captured, taken, forgotten, mishaps>>

QueueDescribed ==
    /\ At(Dispatcher, "describing")
    /\ json' = [json EXCEPT ![captured] = "complete"]
    /\ captured' = None
    /\ GoTo(Dispatcher, "idle")
    /\ UNCHANGED <<localVars, jpg, taken, forgotten, mishaps>>

\* A file of the queue could not be written; the failure is logged and the upload forgotten.
QueueFails ==
    /\ At(Dispatcher, "queueing") \/ At(Dispatcher, "describing")
    /\ Mishap
    /\ forgotten' = forgotten \cup {captured}
    /\ captured' = None
    /\ GoTo(Dispatcher, "idle")
    /\ UNCHANGED <<localVars, queueVars, taken>>

------------------------------------------------------------------------------
\* retryPendingPhotos

\* The web screen has reached the relay.
RetryBegins(r) ==
    /\ configured
    /\ At(r, "idle")
    /\ ListQueue(r)
    /\ UNCHANGED json

\* The next file of the listing: its photo is uploaded; a description without image is deleted,
\* or passed over when the image vanishes after the check; one that is gone or cannot be read is
\* passed over.
RetryNext(u, p) ==
    /\ At(u, "listing")
    /\ p \in up[u].todo
    /\ \/ /\ Readable(p)
          /\ up' = [up EXCEPT ![u].todo = @ \ {p}, ![u].at = "uploading", ![u].job = p,
                              ![u].tries = 0]
          /\ UNCHANGED json
       \/ /\ ~Readable(p)
          /\ up' = [up EXCEPT ![u].todo = @ \ {p}]
          /\ \/ UNCHANGED json
             \/ /\ json[p] = "complete"
                /\ json' = [json EXCEPT ![p] = "absent"]

\* The listing is done: the dispatcher goes on to its capture.
RetryEnds(u) ==
    /\ At(u, "listing")
    /\ up[u].todo = {}
    /\ IF u = Dispatcher THEN BeginUpload(u, captured) ELSE GoTo(u, "idle")
    /\ UNCHANGED json

\* The image of an uploaded photo was deleted; now its description is.
QueueFilesDeleted(u) ==
    /\ At(u, "deleting")
    /\ json' = [json EXCEPT ![up[u].job] = "absent"]
    /\ up' = [up EXCEPT ![u].at = "listing", ![u].job = None]

------------------------------------------------------------------------------
\* uploadPhoto

\* Mutant: one attempt too many.
MayTryThrice(u) == At(u, "uploading") /\ up[u].call = None /\ up[u].tries <= MaxTries

MayTry(u) == At(u, "uploading") /\ up[u].call = None /\ up[u].tries < MaxTries

\* An attempt: the request is lost, or a thread of the relay takes it.
Send(u) ==
    /\ MayTry(u)
    /\ \/ /\ up' = [up EXCEPT ![u].tries = @ + 1]
          /\ UNCHANGED handler
       \/ \E h \in Handlers :
            /\ handler[h] = Free
            /\ handler' = [handler EXCEPT
                             ![h] = [at |-> "arrived", photo |-> up[u].job, client |-> u]]
            /\ up' = [up EXCEPT ![u].tries = @ + 1, ![u].call = h]
    /\ UNCHANGED <<jpg, captured>>

\* The attempt ends without an answer (timeout, response lost); the relay goes on with it.
TimesOut(u) ==
    /\ up[u].call # None
    /\ handler' = [handler EXCEPT ![up[u].call].client = None]
    /\ up' = [up EXCEPT ![u].call = None]
    /\ UNCHANGED <<jpg, captured>>

\* The relay answers with an error, or the connection breaks.
Refused(u) ==
    /\ up[u].call # None
    /\ handler[up[u].call].at = "failed"
    /\ handler' = [handler EXCEPT ![up[u].call] = Free]
    /\ up' = [up EXCEPT ![u].call = None]
    /\ UNCHANGED <<jpg, captured>>

\* The upload is over: syncPhoto returns; retryPendingPhotos deletes the image.
Uploaded(u) ==
    \/ /\ SendsCapture(u)
       /\ captured' = None
       /\ up' = [up EXCEPT ![u] = NotUploading]
       /\ UNCHANGED jpg
    \/ /\ ~SendsCapture(u)
       /\ jpg' = [jpg EXCEPT ![up[u].job] = "absent"]
       /\ up' = [up EXCEPT ![u].at = "deleting", ![u].call = None]
       /\ UNCHANGED captured

\* Mutant: any answer counts, an error too.
AcceptedBlindly(u) ==
    /\ up[u].call # None
    /\ handler[up[u].call].at \in {"stored", "failed"}
    /\ handler' = [handler EXCEPT ![up[u].call] = Free]
    /\ Uploaded(u)

\* The relay answers 200.
Accepted(u) ==
    /\ up[u].call # None
    /\ handler[up[u].call].at = "stored"
    /\ handler' = [handler EXCEPT ![up[u].call] = Free]
    /\ Uploaded(u)

\* Mutant: a capture that could not be sent is not queued.
GivesUpForgetting(u) ==
    /\ At(u, "uploading") /\ up[u].call = None /\ up[u].tries = MaxTries
    /\ captured' = IF SendsCapture(u) THEN None ELSE captured
    /\ up' = [up EXCEPT ![u].at = IF SendsCapture(u) THEN "idle" ELSE "listing", ![u].job = None]
    /\ UNCHANGED <<jpg, handler>>

\* Both attempts failed: the capture is queued, a queued photo stays where it is.
GivesUp(u) ==
    /\ At(u, "uploading") /\ up[u].call = None /\ up[u].tries = MaxTries
    /\ \/ /\ SendsCapture(u)
          /\ QueueImageOpened
          /\ up' = [up EXCEPT ![u].at = "queueing", ![u].job = None]
       \/ /\ ~SendsCapture(u)
          /\ up' = [up EXCEPT ![u].at = "listing", ![u].job = None]
          /\ UNCHANGED jpg
    /\ UNCHANGED <<captured, handler>>

------------------------------------------------------------------------------
\* restorePendingPhotos, on the bridge's thread

RestoreBegins ==
    /\ bridge.at = "idle"
    /\ Queued # {}
    /\ bridge' = [bridge EXCEPT !.at = "listing", !.todo = Queued]
    /\ UNCHANGED <<localVars, mishaps>>

\* Mutant: the file is opened for writing before the queued image is read.
RestoreNextBlindly(p) ==
    /\ bridge.at = "listing"
    /\ p \in bridge.todo
    /\ localFile' = localFile \ {p}
    /\ bridge' = IF Readable(p)
                 THEN [at |-> "rewriting", photo |-> p, todo |-> bridge.todo \ {p}]
                 ELSE [bridge EXCEPT !.todo = @ \ {p}]
    /\ UNCHANGED <<localRows, mishaps>>

\* A readable photo is read and written over its local copy.
RestoreNext(p) ==
    /\ bridge.at = "listing"
    /\ p \in bridge.todo
    /\ \/ /\ Readable(p)
          /\ localFile' = localFile \ {p}
          /\ bridge' = [at |-> "rewriting", photo |-> p, todo |-> bridge.todo \ {p}]
       \/ /\ ~Readable(p)
          /\ bridge' = [bridge EXCEPT !.todo = @ \ {p}]
          /\ UNCHANGED localFile
    /\ UNCHANGED <<localRows, mishaps>>

RestoreWritten ==
    /\ bridge.at = "rewriting"
    /\ localFile' = localFile \cup {bridge.photo}
    /\ bridge' = [bridge EXCEPT !.at = "indexing"]
    /\ UNCHANGED <<localRows, mishaps>>

RestoreIndexed ==
    /\ bridge.at = "indexing"
    /\ localRows' = localRows \cup {bridge.photo}
    /\ bridge' = [bridge EXCEPT !.at = "listing", !.photo = None]
    /\ UNCHANGED <<localFile, mishaps>>

\* The file or the row could not be written; the loop goes on.
RestoreFails ==
    /\ bridge.at \in {"rewriting", "indexing"}
    /\ Mishap
    /\ bridge' = [bridge EXCEPT !.at = "listing", !.photo = None]
    /\ UNCHANGED localVars

RestoreEnds ==
    /\ bridge.at = "listing"
    /\ bridge.todo = {}
    /\ bridge' = NotRestoring
    /\ UNCHANGED <<localVars, mishaps>>

------------------------------------------------------------------------------
\* sync_photo, on a thread of the relay

HandlerGoes(h, where) == handler' = [handler EXCEPT ![h].at = where]

\* A handler at its end is free again when nobody waits for its answer.
Unheard(h) ==
    /\ handler[h].at \in {"stored", "failed"}
    /\ handler[h].client = None
    /\ handler' = [handler EXCEPT ![h] = Free]
    /\ UNCHANGED relayVars

\* Mutant: the photo is written under its final name.
TempOpenedInPlace(h) ==
    /\ handler[h].at = "arrived"
    /\ path' = [path EXCEPT ![handler[h].photo] = h]
    /\ temp' = [temp EXCEPT ![handler[h].photo] = h]
    /\ HandlerGoes(h, "writing")
    /\ UNCHANGED rows

\* write_bytes opens <id>.upload: a new file, or the one another handler is writing, truncated.
TempOpened(h) ==
    /\ handler[h].at = "arrived"
    /\ temp' = [temp EXCEPT ![handler[h].photo] = h]
    /\ HandlerGoes(h, "writing")
    /\ UNCHANGED <<path, rows>>

\* write_bytes is done: the file that h truncated last is complete, whatever its name by now.
\* (All uploads of a photo carry the same bytes.)
TempWritten(h) ==
    /\ handler[h].at = "writing"
    /\ temp' = [p \in Photos |-> IF temp[p] = h THEN "complete" ELSE temp[p]]
    /\ path' = [p \in Photos |-> IF path[p] = h THEN "complete" ELSE path[p]]
    /\ HandlerGoes(h, "written")
    /\ UNCHANGED rows

\* Has another handler <id>.upload open?
OpenElsewhere(h) ==
    \E g \in Handlers \ {h} : handler[g].at = "writing" /\ handler[g].photo = handler[h].photo

\* temporary_path.replace(path) fails when another handler has moved the file away and, on
\* Windows, when another one has it open; there, a client reading the photo makes it fail too.
TempReplaces(h) ==
    /\ handler[h].at = "written"
    /\ \/ /\ temp[handler[h].photo] # "absent"
          /\ ReplaceWhileOpen \/ ~OpenElsewhere(h)
          /\ path' = [path EXCEPT ![handler[h].photo] = temp[handler[h].photo]]
          /\ temp' = [temp EXCEPT ![handler[h].photo] = "absent"]
          /\ HandlerGoes(h, "placed")
       \/ /\ temp[handler[h].photo] = "absent" \/ ~ReplaceWhileOpen
          /\ HandlerGoes(h, "failed")
          /\ UNCHANGED <<path, temp>>
    /\ UNCHANGED rows

\* The upsert of the photo's row, one transaction; it fails when the database is locked.
RowStored(h) ==
    /\ handler[h].at = "placed"
    /\ \/ /\ rows' = rows \cup {handler[h].photo}
          /\ HandlerGoes(h, "stored")
       \/ /\ HandlerGoes(h, "failed")
          /\ UNCHANGED rows
    /\ UNCHANGED <<path, temp>>

------------------------------------------------------------------------------
\* The environment

\* The user enters the relay's address.
AddressSaved ==
    /\ ~configured
    /\ configured' = TRUE
    /\ UNCHANGED <<localVars, queueVars, up, captured, bridge, relayVars, handler, auxVars>>

\* The system reclaims a queued file: the queue lives in the cache directory.
CacheReclaimed(p) ==
    /\ Readable(p)
    /\ Mishap
    /\ \/ /\ jpg' = [jpg EXCEPT ![p] = "absent"]
          /\ UNCHANGED json
       \/ /\ json' = [json EXCEPT ![p] = "absent"]
          /\ UNCHANGED jpg
    /\ reclaimed' = reclaimed \cup {p}
    /\ UNCHANGED <<localVars, configured, up, captured, bridge, relayVars, handler, taken,
                   forgotten>>

\* The app is killed: the threads are gone, the files stay as they are.
AppKilled ==
    /\ Mishap
    /\ (\E u \in Uploaders : ~At(u, "idle")) \/ bridge.at # "idle"
    /\ up' = [u \in Uploaders |-> NotUploading]
    /\ captured' = None
    /\ bridge' = NotRestoring
    /\ handler' = [h \in Handlers |-> [handler[h] EXCEPT !.client = None]]
    /\ forgotten' = forgotten \cup ({captured} \ {None})
    /\ UNCHANGED <<localVars, queueVars, configured, relayVars, taken, reclaimed>>

\* The relay is killed: the clients' connections break, a file being written stays partial.
RelayKilled ==
    /\ Mishap
    /\ \E h \in Handlers : handler[h].at \notin {"free", "failed"}
    /\ handler' = [h \in Handlers |->
                      IF handler[h].client = None THEN Free ELSE [handler[h] EXCEPT !.at = "failed"]]
    /\ temp' = [p \in Photos |-> IF temp[p] \in Handlers THEN "partial" ELSE temp[p]]
    /\ path' = [p \in Photos |-> IF path[p] \in Handlers THEN "partial" ELSE path[p]]
    /\ UNCHANGED <<localVars, queueVars, configured, up, captured, bridge, rows, taken, forgotten,
                   reclaimed>>

------------------------------------------------------------------------------
\* Each group of steps leaves alone what its operation has no access to.

SyncStep ==
    /\ \/ \E p \in Photos : Capture(p)
       \/ LocalFileWritten \/ LocalRowStored \/ LocalSaveFails \/ PlaceResolved
       \/ QueueImageWritten \/ QueueDescribed \/ QueueFails
    /\ UNCHANGED <<configured, bridge, relayVars, handler, reclaimed>>

RetryStep ==
    /\ \/ \E r \in Retriers : RetryBegins(r)
       \/ \E u \in Uploaders, p \in Photos : RetryNext(u, p)
       \/ \E u \in Uploaders : RetryEnds(u) \/ QueueFilesDeleted(u)
    /\ UNCHANGED <<localVars, jpg, configured, captured, bridge, relayVars, handler, auxVars>>

UploadStep ==
    /\ \E u \in Uploaders : Send(u) \/ TimesOut(u) \/ Refused(u) \/ Accepted(u) \/ GivesUp(u)
    /\ UNCHANGED <<localVars, json, configured, bridge, relayVars, auxVars>>

RestoreStep ==
    /\ \/ RestoreBegins \/ RestoreWritten \/ RestoreIndexed \/ RestoreFails \/ RestoreEnds
       \/ \E p \in Photos : RestoreNext(p)
    /\ UNCHANGED <<queueVars, configured, up, captured, relayVars, handler, taken, forgotten,
                   reclaimed>>

RelayStep ==
    /\ \E h \in Handlers :
          TempOpened(h) \/ TempWritten(h) \/ TempReplaces(h) \/ RowStored(h) \/ Unheard(h)
    /\ UNCHANGED <<localVars, queueVars, configured, up, captured, bridge, auxVars>>

EnvStep ==
    \/ AddressSaved \/ AppKilled \/ RelayKilled
    \/ \E p \in Photos : CacheReclaimed(p)

Next == SyncStep \/ RetryStep \/ UploadStep \/ RestoreStep \/ RelayStep \/ EnvStep

Spec == Init /\ [][Next]_vars

------------------------------------------------------------------------------
\* Properties

\* Whoever finds a complete description finds a whole image: no thread uploads or restores half a
\* photo, although nothing locks the queue (LifeLogSyncer.kt:183, image first).
PendingIsWhole == \A p \in Photos : json[p] = "complete" => jpg[p] # "partial"

\* The relay holds the whole photo.
OnRelay(p) == p \in rows /\ path[p] = "complete"

\* The queue holds the whole photo, and will offer it to the next retry.
InQueue(p) == json[p] = "complete" /\ jpg[p] = "complete"

\* A capture is on the relay, in the queue, or still in the dispatcher's hands: only a kill or a
\* full disk before it is queued, or a reclaimed cache, makes the phone forget to send it
\* (LifeLogSyncer.kt:46, syncPhoto).
SentOrQueued ==
    \A p \in taken \ (forgotten \cup reclaimed) : OnRelay(p) \/ InQueue(p) \/ captured = p

\* While the cache is not reclaimed, a capture listed in the LifeLog is never lost altogether: a
\* whole copy exists on the phone or on the relay, whoever was killed when, although
\* restorePendingPhotos rewrites the durable copy in place (LifeLogSyncer.kt:77, 143).
NeverLost ==
    \A p \in localRows \ reclaimed : p \in localFile \/ OnRelay(p) \/ InQueue(p)

\* The relay never serves a partial photo: "Do not expose a partial JPEG" (server.py:528).
ServedWhole == \A p \in rows : path[p] = "complete"

==============================================================================
