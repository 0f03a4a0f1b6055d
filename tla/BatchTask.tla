------------------------------- MODULE BatchTask -------------------------------
(***************************************************************************)
(* A task that saves several Telegram files, core/tasks/batchtfile.        *)
(* Execute walks the files in order: a stretch of files of one album whose *)
(* storage takes albums is downloaded and sent as one batch, every other   *)
(* stretch is processed file by file, Workers at a time.  A file is cached *)
(* and uploaded with retries, or streamed through a pipe.  Each file has a *)
(* phase, which callbacks of the storage may move at any time, and OnDone  *)
(* reports to the chat what the phases say when Execute ends.              *)
(*                                                                         *)
(* The task has a progress tracker, as the bot's tasks have.  Creating,    *)
(* writing and inspecting a cache file fail like its download.             *)
(***************************************************************************)
EXTENDS Naturals, Sequences, FiniteSets, SequencesExt

CONSTANTS Order,          \* the files, a sequence without repetition
          Key,            \* for each file its storage and album, or None where it is saved alone
          Streams,        \* the files saved in stream mode
          Lingering,      \* files whose storage may still read the cache file when Save has failed
          Closing,        \* streamed files whose storage may close the pipe's reader when Save fails
          Workers,
          Retry,
          IgnoreErrors,
          Size,           \* bytes of each file
          None

Elems == ToSet(Order)

ASSUME BatchAssumption ==
  /\ Order \in Seq(Elems) /\ Order # <<>> /\ Len(Order) = Cardinality(Elems)
  /\ Streams \subseteq Elems /\ Lingering \subseteq Elems \ Streams /\ Closing \subseteq Streams
  /\ DOMAIN Key = Elems /\ \A e \in Streams : Key[e] = None
  /\ Workers \in Nat \ {0} /\ Retry \in Nat \ {0} /\ Size \in Nat \ {0}
  /\ IgnoreErrors \in BOOLEAN
  /\ None \notin {"ok", "error", "canceled", "all", "some", "failed"}

VARIABLES
  cancelled,    \* the task's context is done
  exec,         \* "ready", "files", "album" (a batch is being sent), "finished"
  at,           \* the position in Order where the current stretch begins
  epc,          \* where the goroutine of each file is
  groupErr,     \* first error the errgroup recorded
  phase, uploaded, attempt,
  saver, sender, pipeErr,     \* the two goroutines of a streamed file, their errgroup's first error
  result,       \* what Execute returned
  report,       \* what OnDone told the chat
  stored,       \* history: files the storage holds
  late,         \* files of which one more read may be reported
  overtaken     \* history: files whose phase a late read has moved

taskVars == <<exec, at, groupErr, result, report>>
pipeVars == <<saver, sender, pipeErr>>
readVars == <<late, overtaken>>
vars == <<cancelled, taskVars, epc, phase, uploaded, attempt, pipeVars, stored, readVars>>

Phases == {"Waiting", "Downloading", "Transferring", "Downloaded", "Uploading", "Retrying", "Confirming",
           "Completed", "Failed", "Stopped"}
Errors == {"error", "canceled"}

Init ==
  /\ cancelled = FALSE
  /\ exec = "ready" /\ at = 1 /\ groupErr = None /\ result = None /\ report = None
  /\ epc = [e \in Elems |-> "waiting"]
  /\ phase = [e \in Elems |-> "Waiting"]
  /\ uploaded = [e \in Elems |-> 0] /\ attempt = [e \in Elems |-> 0]
  /\ saver = [e \in Elems |-> "off"] /\ sender = [e \in Elems |-> "off"]
  /\ pipeErr = [e \in Elems |-> None]
  /\ stored = {} /\ late = {} /\ overtaken = {}

-----------------------------------------------------------------------------
(* The positions of the stretch that begins at p. *)
Stretch(p) == {q \in p..Len(Order) : \A r \in p..q : Key[Order[r]] = Key[Order[p]]}
Current == {Order[q] : q \in Stretch(at)}
IsAlbum == Key[Order[at]] # None
Fetched == {e \in Current : epc[e] = "fetched"}

GroupDone == cancelled \/ groupErr # None
PipeDone(e) == GroupDone \/ pipeErr[e] # None
(* The errors a call can return while its context is, or is not, done. *)
ErrorsUnder(done) == IF done THEN Errors ELSE {"error"}

(* The item phases that the operations of item_progress.go produce. *)
MarkAnyFailed(ph, E, err) ==
  [e \in Elems |-> IF e \notin E THEN ph[e] ELSE IF err = "canceled" THEN "Stopped" ELSE "Failed"]
MarkFailed(ph, E, err) ==
  [e \in Elems |-> IF e \notin E \/ ph[e] \in {"Failed", "Completed"} THEN ph[e]
                   ELSE IF err = "canceled" THEN "Stopped" ELSE "Failed"]
FinishItems(ph, err) ==
  IF err = None THEN ph
  ELSE [e \in Elems |-> IF ph[e] \in {"Completed", "Failed"} THEN ph[e] ELSE "Stopped"]

(* recordItemUpload of n bytes: progress backwards counts only while retrying. *)
UploadCounts(e, n) == n >= uploaded[e] \/ phase[e] = "Retrying"
RecordUpload(e, n) ==
  IF UploadCounts(e, n)
    THEN /\ uploaded' = [uploaded EXCEPT ![e] = n]
         /\ phase' = [phase EXCEPT ![e] = IF n >= Size THEN "Confirming" ELSE "Uploading"]
    ELSE UNCHANGED <<uploaded, phase>>

(* The goroutine of e returns err to the errgroup. *)
Ignored(err) == IgnoreErrors /\ err # "canceled"
Ends(e, err) ==
  /\ epc' = [epc EXCEPT ![e] = "ended"]
  /\ groupErr' = IF err = None \/ Ignored(err) \/ groupErr # None THEN groupErr ELSE err

(* What OnDone makes of the phases. *)
ReportErr(ph, err) == CASE err = "canceled" -> "canceled" [] err = "error" -> "failed" [] OTHER -> "all"
Report(ph, err) ==
  CASE err = "canceled" -> "canceled"
    [] err = "error" -> "failed"
    [] OTHER -> IF \E e \in Elems : ph[e] = "Failed" THEN "some" ELSE "all"

(* Execute goes on after a stretch that ended with err, the phases being ph. *)
AfterStretch(err, ph) ==
  LET next == at + Cardinality(Stretch(at))
      stops == err # None /\ ~Ignored(err)
      verdict == IF stops THEN err ELSE None
  IN IF stops \/ next > Len(Order)
       THEN /\ exec' = "finished"
            /\ phase' = FinishItems(ph, verdict)
            /\ report' = Report(FinishItems(ph, verdict), verdict)
            /\ result' = IF verdict = None THEN "ok" ELSE verdict
            /\ UNCHANGED <<at, groupErr>>
       ELSE /\ exec' = "files" /\ at' = next /\ groupErr' = None
            /\ phase' = ph
            /\ UNCHANGED <<result, report>>

-----------------------------------------------------------------------------
Start ==
  /\ exec = "ready"
  /\ exec' = "files"
  /\ UNCHANGED <<cancelled, at, groupErr, result, report, epc, phase, uploaded, attempt, pipeVars, stored, readVars>>

(* CancelTask, or the bot's shutdown. *)
Cancel ==
  /\ ~cancelled /\ exec # "finished"
  /\ cancelled' = TRUE
  /\ UNCHANGED <<taskVars, epc, phase, uploaded, attempt, pipeVars, stored, readVars>>

Running == {e \in Current : epc[e] \notin {"waiting", "fetched", "ended"}}

(* eg.Go starts the next file when a slot is free, whether or not the group has failed; markProcessing. *)
MarkProcessing(e) ==
  /\ exec = "files" /\ e \in Current /\ epc[e] = "waiting"
  /\ \A q \in Stretch(at) : epc[Order[q]] = "waiting" => Order[q] = e \/ \E r \in at..(q - 1) : Order[r] = e
  /\ Cardinality(Running) < Workers
  /\ IF e \in Streams
       THEN /\ epc' = [epc EXCEPT ![e] = "streaming"]
            /\ phase' = [phase EXCEPT ![e] = "Transferring"]
            /\ saver' = [saver EXCEPT ![e] = "active"]
            /\ sender' = [sender EXCEPT ![e] = "fetching"]
       ELSE /\ epc' = [epc EXCEPT ![e] = "downloading"]
            /\ phase' = [phase EXCEPT ![e] = "Downloading"]
            /\ UNCHANGED <<saver, sender>>
  /\ UNCHANGED <<cancelled, taskVars, uploaded, attempt, pipeErr, stored, readVars>>

-----------------------------------------------------------------------------
DownloadFails(e) ==
  /\ epc[e] = "downloading"
  /\ \E err \in ErrorsUnder(GroupDone) :
       /\ phase' = MarkFailed(phase, {e}, err)
       /\ Ends(e, err)
  /\ UNCHANGED <<cancelled, exec, at, result, report, uploaded, attempt, pipeVars, stored, readVars>>

Downloaded(e) ==
  /\ epc[e] = "downloading"
  /\ phase' = [phase EXCEPT ![e] = "Downloaded"]
  /\ epc' = [epc EXCEPT ![e] = IF IsAlbum THEN "fetched" ELSE "trying"]
  /\ UNCHANGED <<cancelled, taskVars, uploaded, attempt, pipeVars, stored, readVars>>

AttemptLeft(e) == attempt[e] < Retry

(* One attempt of retry.Retry: the cache file is opened, progress starts at 0, Save is called. *)
Attempt(e) ==
  /\ epc[e] = "trying"
  /\ attempt' = [attempt EXCEPT ![e] = @ + 1]
  /\ \/ /\ epc' = [epc EXCEPT ![e] = "backoff"]
        /\ phase' = [phase EXCEPT ![e] = "Retrying"]
        /\ UNCHANGED uploaded
     \/ /\ epc' = [epc EXCEPT ![e] = "saving"]
        /\ RecordUpload(e, 0)
  /\ UNCHANGED <<cancelled, taskVars, pipeVars, stored, readVars>>

SaveProgress(e) ==
  /\ epc[e] = "saving"
  /\ \E n \in 1..Size : n > uploaded[e] /\ RecordUpload(e, n)
  /\ UNCHANGED <<cancelled, taskVars, epc, attempt, pipeVars, stored, readVars>>

Saved(e) ==
  /\ epc[e] = "saving"
  /\ uploaded' = [uploaded EXCEPT ![e] = Size]
  /\ phase' = [phase EXCEPT ![e] = "Completed"]
  /\ stored' = stored \union {e}
  /\ Ends(e, None)
  /\ UNCHANGED <<cancelled, exec, at, result, report, attempt, pipeVars, readVars>>

(* Save fails: the storage may hold the file, and its transport may be inside a read. *)
SaveFails(e) ==
  /\ epc[e] = "saving"
  /\ phase' = [phase EXCEPT ![e] = "Retrying"]
  /\ epc' = [epc EXCEPT ![e] = "backoff"]
  /\ stored' \in {stored, stored \union {e}}
  /\ late' \in {late, late \union (Lingering \intersect {e})}
  /\ UNCHANGED <<cancelled, taskVars, uploaded, attempt, pipeVars, overtaken>>

(* The wait after a failed attempt is over. *)
TryAgain(e) ==
  /\ epc[e] = "backoff" /\ AttemptLeft(e)
  /\ epc' = [epc EXCEPT ![e] = "trying"]
  /\ UNCHANGED <<cancelled, taskVars, phase, uploaded, attempt, pipeVars, stored, readVars>>

(* Attempts are exhausted or the context is done: retry.Retry returns an error of its own for either. *)
GiveUp(e) ==
  /\ epc[e] = "backoff" /\ (~AttemptLeft(e) \/ GroupDone)
  /\ phase' = MarkFailed(phase, {e}, "error")
  /\ Ends(e, "error")
  /\ UNCHANGED <<cancelled, exec, at, result, report, uploaded, attempt, pipeVars, stored, readVars>>

(* The callback of a read that was under way when Save failed. *)
LateRead(e) ==
  /\ e \in late
  /\ late' = late \ {e}
  /\ \E n \in 1..Size :
       /\ RecordUpload(e, n)
       /\ overtaken' = IF UploadCounts(e, n) THEN overtaken \union {e} ELSE overtaken
  /\ UNCHANGED <<cancelled, taskVars, epc, attempt, pipeVars, stored>>

-----------------------------------------------------------------------------
PipeReturns(e, err) == pipeErr' = IF pipeErr[e] = None THEN [pipeErr EXCEPT ![e] = err] ELSE pipeErr

ClosedOnError(e) == sender[e] = "failed"
PipeClosed(e) == sender[e] \in {"ok", "failed"}     \* pw.Close, or before it pw.CloseWithError
SentOk(e) == sender[e] = "ok"
BothOk(e) == pipeErr[e] = None                      \* errg.Wait

(* The download goroutine has a chunk and writes it; the storage's Save reads it. *)
SendChunk(e) ==
  /\ sender[e] = "fetching"
  /\ sender' = [sender EXCEPT ![e] = "writing"]
  /\ UNCHANGED <<cancelled, taskVars, epc, phase, uploaded, attempt, saver, pipeErr, stored, readVars>>

ReadChunk(e) ==
  /\ sender[e] = "writing" /\ saver[e] = "active"
  /\ sender' = [sender EXCEPT ![e] = "fetching"]
  /\ UNCHANGED <<cancelled, taskVars, epc, phase, uploaded, attempt, saver, pipeErr, stored, readVars>>

(* Everything is sent; pw.Close. *)
SendEnds(e) ==
  /\ sender[e] = "fetching"
  /\ sender' = [sender EXCEPT ![e] = "ok"]
  /\ UNCHANGED <<cancelled, taskVars, epc, phase, uploaded, attempt, saver, pipeErr, stored, readVars>>

(* The download fails between chunks, or a write finds the reader closed. *)
SendFails(e) ==
  /\ \E err \in Errors :
       /\ \/ sender[e] = "fetching" /\ err \in ErrorsUnder(PipeDone(e))
          \/ sender[e] = "writing" /\ saver[e] = "closed" /\ err = "error"
       /\ phase' = MarkFailed(phase, {e}, err)
       /\ PipeReturns(e, err)
  /\ sender' = [sender EXCEPT ![e] = "failed"]
  /\ UNCHANGED <<cancelled, taskVars, epc, uploaded, attempt, saver, stored, readVars>>

(* Save has read to the end. *)
StreamSaved(e) ==
  /\ saver[e] = "active" /\ PipeClosed(e) /\ sender[e] = "ok"
  /\ saver' = [saver EXCEPT ![e] = "ok"]
  /\ stored' = stored \union {e}
  /\ UNCHANGED <<cancelled, taskVars, epc, phase, uploaded, attempt, sender, pipeErr, readVars>>

(* Save fails by itself, because the context is done, or with the error of the pipe. *)
StreamSaveFails(e) ==
  /\ saver[e] = "active"
  /\ \E err \in ErrorsUnder(PipeDone(e)) :
       /\ phase' = MarkFailed(phase, {e}, err)
       /\ PipeReturns(e, err)
  /\ \/ saver' = [saver EXCEPT ![e] = "failed"]
     \/ e \in Closing /\ saver' = [saver EXCEPT ![e] = "closed"]
  /\ stored' \in {stored, stored \union {e}}
  /\ UNCHANGED <<cancelled, taskVars, epc, uploaded, attempt, sender, readVars>>

StreamEnds(e) ==
  /\ epc[e] = "streaming"
  /\ saver[e] \in {"ok", "failed", "closed"} /\ sender[e] \in {"ok", "failed"}
  /\ phase' = IF BothOk(e) THEN [phase EXCEPT ![e] = "Completed"] ELSE phase
  /\ Ends(e, pipeErr[e])
  /\ UNCHANGED <<cancelled, exec, at, result, report, uploaded, attempt, pipeVars, stored, readVars>>

-----------------------------------------------------------------------------
AllDone == exec = "files" /\ \A e \in Current : epc[e] \in {"fetched", "ended"}

FilesEnd ==
  /\ AllDone /\ ~IsAlbum
  /\ AfterStretch(groupErr, phase)
  /\ UNCHANGED <<cancelled, epc, uploaded, attempt, pipeVars, stored, readVars>>

(* processBatch gives the album up: the group has failed, no file arrived, or a cache file cannot be opened. *)
AlbumGivenUp ==
  /\ AllDone /\ IsAlbum
  /\ \/ groupErr # None /\ AfterStretch(groupErr, phase)
     \/ groupErr = None /\ Fetched = {} /\ AfterStretch("error", phase)
     \/ groupErr = None /\ \E e \in Fetched : AfterStretch("error", MarkFailed(phase, {e}, "error"))
  /\ UNCHANGED <<cancelled, epc, uploaded, attempt, pipeVars, stored, readVars>>

AlbumSent ==
  /\ AllDone /\ IsAlbum /\ groupErr = None /\ Fetched # {}
  /\ exec' = "album"
  /\ UNCHANGED <<cancelled, at, groupErr, result, report, epc, phase, uploaded, attempt, pipeVars, stored, readVars>>

AlbumProgress(e) ==
  /\ exec = "album" /\ e \in Fetched
  /\ \E n \in 0..Size : (n > uploaded[e] \/ phase[e] = "Downloaded") /\ RecordUpload(e, n)
  /\ UNCHANGED <<cancelled, taskVars, epc, attempt, pipeVars, stored, readVars>>

AlbumSaved ==
  /\ exec = "album"
  /\ uploaded' = [e \in Elems |-> IF e \in Fetched THEN Size ELSE uploaded[e]]
  /\ stored' = stored \union Fetched
  /\ AfterStretch(None, [e \in Elems |-> IF e \in Fetched THEN "Completed" ELSE phase[e]])
  /\ UNCHANGED <<cancelled, epc, attempt, pipeVars, readVars>>

AlbumFails ==
  /\ exec = "album"
  /\ \E err \in ErrorsUnder(cancelled) : AfterStretch(err, MarkFailed(phase, Fetched, err))
  /\ \E kept \in SUBSET Fetched : stored' = stored \union kept
  /\ UNCHANGED <<cancelled, epc, uploaded, attempt, pipeVars, readVars>>

-----------------------------------------------------------------------------
(* The steps of the goroutine of e, those of its storage included. *)
CachedStep(e) ==
  DownloadFails(e) \/ Downloaded(e) \/ Attempt(e) \/ SaveProgress(e) \/ Saved(e) \/ SaveFails(e) \/ TryAgain(e) \/ GiveUp(e)
SenderStep(e) == SendChunk(e) \/ ReadChunk(e) \/ SendEnds(e) \/ SendFails(e)
SaverStep(e) == StreamSaved(e) \/ StreamSaveFails(e)
MainStep == Start \/ FilesEnd \/ AlbumGivenUp \/ AlbumSent \/ AlbumSaved \/ AlbumFails

Next ==
  \/ MainStep \/ Cancel
  \/ \E e \in Elems : MarkProcessing(e) \/ CachedStep(e) \/ LateRead(e) \/ AlbumProgress(e)
  \/ \E e \in Elems : SenderStep(e) \/ SaverStep(e) \/ StreamEnds(e)

Spec == Init /\ [][Next]_vars

(* Goroutines run; a download, a Save and a wait end, and a download does not stay between two chunks. *)
FairSpec ==
  /\ Spec
  /\ WF_vars(MainStep)
  /\ \A e \in Elems :
       /\ WF_vars(MarkProcessing(e)) /\ WF_vars(DownloadFails(e) \/ Downloaded(e))
       /\ WF_vars(Attempt(e)) /\ WF_vars(Saved(e) \/ SaveFails(e)) /\ WF_vars(TryAgain(e) \/ GiveUp(e))
       /\ WF_vars(ReadChunk(e)) /\ SF_vars(SendEnds(e) \/ SendFails(e)) /\ WF_vars(StreamEnds(e))
       /\ WF_vars(PipeClosed(e) /\ SaverStep(e))

-----------------------------------------------------------------------------
TypeOK ==
  /\ cancelled \in BOOLEAN
  /\ exec \in {"ready", "files", "album", "finished"} /\ at \in DOMAIN Order
  /\ groupErr \in Errors \union {None} /\ result \in Errors \union {"ok", None}
  /\ report \in {"all", "some", "canceled", "failed", None}
  /\ epc \in [Elems -> {"waiting", "downloading", "fetched", "trying", "saving", "backoff", "streaming", "ended"}]
  /\ phase \in [Elems -> Phases]
  /\ uploaded \in [Elems -> 0..Size] /\ attempt \in [Elems -> 0..Retry]
  /\ saver \in [Elems -> {"off", "active", "ok", "failed", "closed"}]
  /\ sender \in [Elems -> {"off", "fetching", "writing", "ok", "failed"}]
  /\ pipeErr \in [Elems -> Errors \union {None}]
  /\ stored \subseteq Elems /\ late \subseteq Lingering /\ overtaken \subseteq Lingering

(* A file shown as completed is on the storage: no callback, retry or album error in between makes a file of *)
(* which no Save succeeded look saved (markItemCompleted, saveBatchItems, the joined pipe).                *)
CompletedStored == \A e \in Elems : phase[e] = "Completed" => e \in stored

(* The chat is told that all files are done only if the storage holds all of them: every failure that       *)
(* IgnoreErrors passes over is counted when OnDone looks at the phases ("Report per-element failures         *)
(* instead of full completion", progress.go), unless a late read has replaced a file's failure.             *)
ReportHonest == report = "all" => Elems \subseteq stored \union overtaken

(* A file left as stopped belongs to a task that did not end well: an error that stops a file is never      *)
(* passed over as a failure of that file alone, whichever goroutine of a pipe reports first.                *)
StoppedMeansCanceled == result = "ok" => \A e \in Elems : phase[e] # "Stopped"

(* The report and the result agree with what became of the files. *)
ReportInv == TypeOK /\ ReportHonest /\ StoppedMeansCanceled

(* Once a file is completed or failed, only a late read changes what is shown of it: neither the other      *)
(* goroutine of its pipe, nor its album's error, nor the end of the task does.                              *)
VerdictFinal ==
  [][\A e \in Elems : phase[e] \in {"Completed", "Failed"} => phase'[e] = phase[e] \/ e \in overtaken']_vars

(* The download waits in pw.Write for a Save that has failed and left the reader open: pr.Close runs only    *)
(* after both goroutines have returned, and a write does not watch the context.                             *)
Stuck(e) == sender[e] = "writing" /\ saver[e] = "failed"

(* Execute returns, unless a streamed file is stuck: no other failure, cancellation or retry leaves it       *)
(* waiting for a goroutine.                                                                                 *)
ExecuteReturns == <>(exec = "finished" \/ \E e \in Elems : Stuck(e))

(* An upload is given up before its last attempt only because the task was cancelled.  A task in which that *)
(* happened is not reported as completed, "Task finished successfully" (docs/content/en/usage/api.md:514).  *)
CancelHonoured == result = "ok" => \A e \in Elems : attempt[e] \in 1..(Retry - 1) => e \in stored
=============================================================================
