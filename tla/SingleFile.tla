------------------------------ MODULE SingleFile -------------------------------
(* The task of one Telegram file, core/tasks/tfile: by way of a cache file, whose upload is      *)
(* tried again, or streamed through a pipe from the download to the storage. Its progress        *)
(* message is edited in the callbacks themselves, one at a time.                                 *)
(*                                                                                               *)
(* A file has Chunks chunks. The storage and its transport are external: Save may fail anywhere, *)
(* may leave what it has read behind, may leave a read under way that calls back after it has    *)
(* returned, and may close the reader it is given when it fails (closes). The message is the one *)
(* the chat shows when its edits succeed.                                                        *)
EXTENDS Naturals, FiniteSets

CONSTANTS
  Chunks,    \* the size of the file
  RetryTimes \* config.C().Retry

ASSUME SingleFileAssumption == Chunks \in Nat

VARIABLES
  streamed,  \* whether NewTGFileTask chose the stream
  closes,    \* whether the storage closes a reader it fails to read
  aborted,   \* the context of the task is done
  at,        \* where Execute is
  fetched,   \* the chunks downloaded
  sent,      \* the chunks read of the cache file that is open, or of the pipe
  got,       \* the chunks the current Save has received
  pull,      \* stream: the download, "fetching", "writing", "ok" or "failed"
  put,       \* stream: the Save, "reading", "ok" or "failed"
  firstErr,  \* stream: the errgroup's error
  uploads,   \* attempts of the upload
  lingering, \* a read of an attempt that has failed is still under way
  uploadAttempt, uploadedBytes,   \* of Progress
  note,      \* the message: its kind and its bytes
  object,    \* how many chunks the storage holds under the path
  cache,     \* the cache file is open
  outcome,   \* what Execute returned, or "none"
  overwritten \* a late read has edited the message after the task's end
singleVars == <<streamed, closes, aborted, at, fetched, sent, got, pull, put, firstErr, uploads, lingering,
              uploadAttempt, uploadedBytes, note, object, cache, outcome, overwritten>>
streamVars == <<pull, put, firstErr>>
trackVars == <<uploadAttempt, uploadedBytes>>

Ends == {"done", "failed", "canceled"}

FileInit ==
  /\ streamed \in BOOLEAN /\ closes \in BOOLEAN
  /\ aborted = FALSE /\ at = "start" /\ fetched = 0 /\ sent = 0 /\ got = 0
  /\ pull = "off" /\ put = "off" /\ firstErr = "none"
  /\ uploads = 0 /\ lingering = FALSE /\ uploadAttempt = 0 /\ uploadedBytes = 0
  /\ note = [kind |-> "none", bytes |-> 0]
  /\ object = 0 /\ cache = FALSE /\ outcome = "none" /\ overwritten = FALSE

FailuresUnder(done) == IF done THEN {"failed", "canceled"} ELSE {"failed"}

(* ---- the tracker: every callback holds updateMu through its edit ---- *)
Note(kind, bytes) == note' = [kind |-> kind, bytes |-> bytes]

\* OnProgress: an edit unless the percentage has not moved far enough.
OnProgress(bytes) == note' \in {note, [kind |-> "downloading", bytes |-> bytes]}

OnUploadStart ==
  /\ uploadAttempt' = uploadAttempt + 1 /\ uploadedBytes' = 0
  /\ Note(IF uploadAttempt' > 1 THEN "retrying" ELSE "uploading", 0)

\* OnUploadProgress: fewer bytes than were shown are those of an older read.
OnUploadProgress(bytes) ==
  IF bytes < uploadedBytes THEN UNCHANGED <<trackVars, note>>
  ELSE /\ uploadedBytes' = bytes /\ UNCHANGED uploadAttempt
       /\ note' \in {note, [kind |-> IF uploadAttempt > 1 THEN "retrying" ELSE "uploading", bytes |-> bytes]}

OnDone(result) == Note(result, note.bytes)

(* ---- Execute ---- *)
Abort ==
  /\ ~aborted /\ outcome = "none" /\ aborted' = TRUE
  /\ UNCHANGED <<streamed, closes, at, fetched, sent, got, streamVars, uploads, lingering, trackVars, note, object, cache, outcome, overwritten>>

Begin ==
  /\ at = "start"
  /\ Note("downloading", 0)
  /\ IF streamed THEN at' = "stream" /\ pull' = "fetching" /\ put' = "reading"
                 ELSE at' = "create" /\ UNCHANGED <<pull, put>>
  /\ UNCHANGED <<streamed, closes, aborted, fetched, sent, got, firstErr, uploads, lingering, trackVars, object, cache, outcome, overwritten>>

\* fsutil.CreateFile fails: Execute returns before its report is deferred.
CreateFails ==
  /\ at = "create"
  /\ at' = "returned" /\ outcome' = "failed"
  /\ UNCHANGED <<streamed, closes, aborted, fetched, sent, got, streamVars, uploads, lingering, trackVars, note, object, cache, overwritten>>

Create ==
  /\ at = "create"
  /\ at' = "download" /\ cache' = TRUE
  /\ UNCHANGED <<streamed, closes, aborted, fetched, sent, got, streamVars, uploads, lingering, trackVars, note, object, outcome, overwritten>>

\* A part arrives and is written at its offset.
WriteAt ==
  /\ at = "download" /\ fetched < Chunks
  /\ fetched' = fetched + 1 /\ OnProgress(fetched')
  /\ UNCHANGED <<streamed, closes, aborted, at, sent, got, streamVars, uploads, lingering, trackVars, object, cache, outcome, overwritten>>

\* The deferred report, then the cache file is closed and removed.
Return(result) ==
  /\ at' = "returned" /\ outcome' = result /\ OnDone(result) /\ cache' = FALSE
  /\ UNCHANGED <<streamed, closes, aborted, fetched, sent, got, streamVars, uploads, lingering, trackVars, object, overwritten>>

DownloadFails ==
  /\ at = "download"
  /\ \E result \in FailuresUnder(aborted) : Return(result)

Downloaded ==
  /\ at = "download" /\ fetched = Chunks
  /\ at' = "try"
  /\ UNCHANGED <<streamed, closes, aborted, fetched, sent, got, streamVars, uploads, lingering, trackVars, note, object, cache, outcome, overwritten>>

\* retry.Retry calls the attempt: the cache file is opened anew.
Try ==
  /\ at = "try"
  /\ uploads' = uploads + 1 /\ sent' = 0 /\ got' = 0 /\ OnUploadStart
  /\ at' = "upload"
  /\ UNCHANGED <<streamed, closes, aborted, fetched, streamVars, lingering, object, cache, outcome, overwritten>>

\* The cache file cannot be opened: the attempt ends before it is told of.
ReopenFails ==
  /\ at = "try"
  /\ uploads' = uploads + 1 /\ at' = "backoff"
  /\ UNCHANGED <<streamed, closes, aborted, fetched, sent, got, streamVars, lingering, trackVars, note, object, cache, outcome, overwritten>>

UploadChunk ==
  /\ at = "upload" /\ sent < fetched
  /\ sent' = sent + 1 /\ got' = got + 1 /\ OnUploadProgress(sent')
  /\ UNCHANGED <<streamed, closes, aborted, at, fetched, streamVars, uploads, lingering, object, cache, outcome, overwritten>>

Uploaded ==
  /\ at = "upload" /\ sent = fetched
  /\ at' = "returned" /\ outcome' = "done" /\ OnDone("done") /\ cache' = FALSE
  /\ object' = got
  /\ UNCHANGED <<streamed, closes, aborted, fetched, sent, got, streamVars, uploads, lingering, trackVars, overwritten>>

\* A failed Save: all or part of the file may be there, and its transport inside a read.
UploadFails ==
  /\ at = "upload"
  /\ at' = "backoff"
  /\ object' \in {object, got}
  /\ lingering' \in {lingering, sent > 0}
  /\ UNCHANGED <<streamed, closes, aborted, fetched, sent, got, streamVars, uploads, trackVars, note, cache, outcome, overwritten>>

RetryUpload ==
  /\ at = "backoff" /\ uploads < RetryTimes
  /\ at' = "try"
  /\ UNCHANGED <<streamed, closes, aborted, fetched, sent, got, streamVars, uploads, lingering, trackVars, note, object, cache, outcome, overwritten>>

\* retry.Retry answers with an error of its own, whatever ended it.
StopTrying ==
  /\ at = "backoff" /\ (uploads = RetryTimes \/ aborted)
  /\ Return("failed")

\* The callback of a read that outlived its Save.
LateRead ==
  /\ lingering /\ lingering' = FALSE
  /\ \E bytes \in 1..Chunks : OnUploadProgress(bytes)
  /\ overwritten' = (overwritten \/ (outcome # "none" /\ note' # note))
  /\ UNCHANGED <<streamed, closes, aborted, at, fetched, sent, got, streamVars, uploads, object, cache, outcome>>

(* ---- executeStream ---- *)
UploadDone == aborted \/ firstErr # "none"          \* uploadCtx
GroupError(result) == firstErr' = IF firstErr = "none" THEN result ELSE firstErr
PipeEOFAnyway == pull \in {"ok", "failed"}
PipeEOF == pull = "ok"                              \* pw.Close
PipeError == pull = "failed"                        \* pw.CloseWithError before it

Fetch ==
  /\ pull = "fetching" /\ fetched < Chunks
  /\ fetched' = fetched + 1 /\ pull' = "writing"
  /\ UNCHANGED <<streamed, closes, aborted, at, sent, got, put, firstErr, uploads, lingering, trackVars, note, object, cache, outcome, overwritten>>

\* Save takes the chunk out of the pipe; the write returns and its progress is told.
PipeChunk ==
  /\ pull = "writing" /\ put = "reading"
  /\ sent' = sent + 1 /\ got' = got + 1 /\ pull' = "fetching" /\ OnProgress(fetched)
  /\ UNCHANGED <<streamed, closes, aborted, at, fetched, put, firstErr, uploads, lingering, trackVars, object, cache, outcome, overwritten>>

FetchEnds ==
  /\ pull = "fetching" /\ fetched = Chunks
  /\ pull' = "ok"
  /\ UNCHANGED <<streamed, closes, aborted, at, fetched, sent, got, put, firstErr, uploads, lingering, trackVars, note, object, cache, outcome, overwritten>>

\* The download fails, or a write meets a reader that Save has closed.
FetchFails ==
  /\ \E result \in {"failed", "canceled"} :
       /\ \/ pull = "fetching" /\ result \in FailuresUnder(UploadDone)
          \/ pull = "writing" /\ put = "failed" /\ closes /\ result = "failed"
       /\ GroupError(result)
  /\ pull' = "failed"
  /\ UNCHANGED <<streamed, closes, aborted, at, fetched, sent, got, put, uploads, lingering, trackVars, note, object, cache, outcome, overwritten>>

StreamSaved ==
  /\ put = "reading" /\ PipeEOF
  /\ put' = "ok" /\ object' = got
  /\ UNCHANGED <<streamed, closes, aborted, at, fetched, sent, got, pull, firstErr, uploads, lingering, trackVars, note, cache, outcome, overwritten>>

StreamSaveFails ==
  /\ put = "reading" /\ put' = "failed" /\ object' \in {object, got}
  /\ \E result \in FailuresUnder(UploadDone \/ PipeError) : GroupError(result)
  /\ UNCHANGED <<streamed, closes, aborted, at, fetched, sent, got, pull, uploads, lingering, trackVars, note, cache, outcome, overwritten>>

\* errg.Wait: both have returned; the pipe's reader is closed only now.
StreamReturns ==
  /\ at = "stream" /\ pull \in {"ok", "failed"} /\ put \in {"ok", "failed"}
  /\ Return(IF firstErr = "none" THEN "done" ELSE firstErr)

SingleStep ==
  \/ Begin \/ CreateFails \/ Create \/ WriteAt \/ DownloadFails \/ Downloaded
  \/ Try \/ ReopenFails \/ UploadChunk \/ Uploaded \/ UploadFails \/ RetryUpload \/ StopTrying \/ LateRead
  \/ Fetch \/ PipeChunk \/ FetchEnds \/ FetchFails \/ StreamSaved \/ StreamSaveFails \/ StreamReturns
FileNext == Abort \/ SingleStep

\* Execute runs, and every call of the downloader, of the storage and of Telegram returns; nothing
\* is assumed of a write into a pipe that nobody reads, nor of the user.
FileFairness == WF_singleVars(SingleStep)

FileSpec == FileInit /\ [][FileNext]_singleVars /\ FileFairness

-----------------------------------------------------------------------------
Stalled == pull = "writing" /\ put = "failed" /\ ~closes

(* A Save that succeeds has received every chunk, and so has the storage when the task is done: *)
(* a download that fails never ends the pipe as if the file were over (stream.go:24-30), and     *)
(* every attempt reads the cache file from its start (execute.go:66-70).                         *)
DoneIsWhole == outcome = "done" \/ put = "ok" => object = Chunks

(* After Execute has returned the message tells its outcome, with two exceptions: the cache file *)
(* could not be created, and the report was not deferred yet (execute.go:32-50); or a read that  *)
(* outlived its attempt has edited over it, offering once more to cancel the task.               *)
MessageTellsOutcome ==
  outcome # "none" =>
    \/ note.kind = outcome
    \/ note.kind = "downloading" /\ ~streamed /\ fetched = 0
    \/ overwritten

(* What a task of one file promises of the file and of its message.                              *)
FileInv == DoneIsWhole /\ MessageTellsOutcome

(* Execute returns, unless Save has failed in a stream and left its end of the pipe open: the    *)
(* download then waits in its write for good, as the reader is closed only after both have       *)
(* returned, and neither the errgroup's context nor a cancellation reaches it.                   *)
FileReturns == <>(outcome # "none" \/ Stalled)
=============================================================================
