------------------------------- MODULE FileTasks -------------------------------
(***************************************************************************)
(* Execute of the tasks of core/tasks that do not come from Telegram: a    *)
(* list of links ("direct"), a parsed page ("parsed"), a Telegraph page    *)
(* ("telegraph"), files of another storage ("transfer"), and the tasks     *)
(* that leave the download to a tool, aria2 ("aria2") and yt-dlp           *)
(* ("ytdlp").  The first four work on several files at once under an       *)
(* errgroup, the others let the tool finish and save its files in turn.    *)
(*                                                                         *)
(* The task has a progress message.  Caching a file in "direct" and        *)
(* "parsed" is left to a goroutine that the task may abandon.  aria2 is    *)
(* reachable when it is asked to remove a download.                        *)
(***************************************************************************)
EXTENDS Naturals, FiniteSets

CONSTANTS Files, Url, Workers, Retry, IgnoreErrors, KeepFile, None

ASSUME FileTasksAssumption ==
  /\ IsFiniteSet(Files) /\ Files # {} /\ DOMAIN Url = Files
  /\ Workers \in Nat \ {0} /\ Retry \in Nat \ {0}
  /\ IgnoreErrors \in BOOLEAN /\ KeepFile \in BOOLEAN
  /\ None \notin {"ok", "error", "canceled"}

VARIABLES
  kind,        \* which of the tasks this is
  stream,      \* the response goes to the storage without a cache file
  cancelled,   \* the task's context is done
  exec,        \* where Execute is
  fpc,         \* where the goroutine of each file, or the loop over the tool's files, is
  attempt,
  late,        \* files with a copying goroutine that the task has abandoned
  groupErr,    \* first error of the errgroup
  failed,      \* transfer: files whose failure is recorded and passed over
  message,     \* the progress message in the chat
  result,      \* what Execute returned
  stored,      \* history: files the storage holds
  remote,      \* aria2: the metadata download and the download that follows it
  gid,         \* aria2: the one the task looks at
  wanted,      \* the files the task is to save
  local,       \* the tool's files on disk
  lost         \* history: files of the tool that were not on disk when their turn came

fileVars == <<fpc, attempt, late>>
groupVars == <<groupErr, failed>>
toolVars == <<remote, gid, wanted, local, lost>>
taskVars == <<kind, stream, cancelled>>
endVars == <<exec, message, result>>
vars == <<taskVars, endVars, fileVars, groupVars, toolVars, stored>>

Kinds == {"direct", "parsed", "telegraph", "transfer", "aria2", "ytdlp"}
Tools == {"aria2", "ytdlp"}
Copying == {"direct", "parsed"}          \* kinds with a copying goroutine
Errors == {"error", "canceled"}
Active == {"getting", "copying", "saving", "resting"}

Init ==
  /\ kind \in Kinds /\ stream \in BOOLEAN /\ (kind \in Tools => ~stream)
  /\ cancelled = FALSE /\ exec = "ready" /\ message = "queued" /\ result = None
  /\ fpc = [f \in Files |-> "queued"] /\ attempt = [f \in Files |-> 0] /\ late = {}
  /\ groupErr = None /\ failed = {} /\ stored = {}
  /\ gid \in {"meta", "data"} /\ (kind \notin {"aria2"} => gid = "data")
  /\ remote = [g \in {"meta", "data"} |-> IF g = gid /\ kind = "aria2" THEN "active" ELSE "none"]
  /\ wanted = IF kind \in Tools THEN {} ELSE Files
  /\ local = {} /\ lost = {}

-----------------------------------------------------------------------------
GroupDone == cancelled \/ groupErr # None
ErrorsUnder(done) == IF done THEN Errors ELSE {"error"}

(* OnDone. *)
ShownByTransfer(err) == IF err = None THEN "done" ELSE "failed"
Shown(err) ==
  CASE kind = "transfer" -> ShownByTransfer(err)
    [] err = None -> "done"
    [] err = "canceled" -> "canceled"
    [] OTHER -> "failed"

(* Execute returns err, having reported it. *)
Finish(err) ==
  /\ exec' = "finished"
  /\ result' = IF err = None THEN "ok" ELSE err
  /\ message' = Shown(err)

Progressed == message' \in {message, "progress"}

FirstError(err) == IF groupErr = None THEN err ELSE groupErr

PassedOver(err) == kind = "transfer" /\ IgnoreErrors /\ err = "error"

(* The goroutine of f ends with err. *)
FileEnds(f, err) ==
  /\ fpc' = [fpc EXCEPT ![f] = "ended"]
  /\ groupErr' = IF err = None \/ PassedOver(err) THEN groupErr ELSE FirstError(err)
  /\ failed' = IF err # None /\ PassedOver(err) THEN failed \union {f} ELSE failed

(* What comes of the attempts: links and resources report a done context whatever retry.Retry says. *)
VerdictOfRetry(err) == err
Verdict(err) == IF kind \in Copying /\ GroupDone THEN "canceled" ELSE err

(* An attempt fails with err: a transfer has no other, the rest wait for the next one. *)
AttemptFails(f, err) ==
  IF kind = "transfer"
    THEN FileEnds(f, err)
    ELSE fpc' = [fpc EXCEPT ![f] = "resting"] /\ UNCHANGED groupVars

-----------------------------------------------------------------------------
Start ==
  /\ exec = "ready"
  /\ exec' = CASE kind = "direct" -> "head" [] kind \in Tools -> "tool" [] OTHER -> "files"
  /\ message' = "start"
  /\ UNCHANGED <<taskVars, result, fileVars, groupVars, toolVars, stored>>

Cancel ==
  /\ ~cancelled /\ result = None
  /\ cancelled' = TRUE
  /\ UNCHANGED <<kind, stream, endVars, fileVars, groupVars, toolVars, stored>>

(* The HEAD requests, which run under the task's own context. *)
HeadLinks ==
  /\ exec = "head"
  /\ \/ exec' = "files" /\ UNCHANGED <<message, result>>
     \/ \E err \in ErrorsUnder(cancelled) : Finish(err)
  /\ UNCHANGED <<taskVars, fileVars, groupVars, toolVars, stored>>

StartedFiles == {f \in Files : fpc[f] # "queued"}
RunningFiles == {f \in Files : fpc[f] \in Active}

(* eg.Go when a slot is free.  A link or resource that is being processed already is an error. *)
Go(f) ==
  /\ exec = "files" /\ fpc[f] = "queued" /\ Cardinality(RunningFiles) < Workers
  /\ IF kind \in Copying /\ \E g \in RunningFiles : Url[g] = Url[f]
       THEN FileEnds(f, "error") /\ UNCHANGED attempt
       ELSE /\ fpc' = [fpc EXCEPT ![f] = "getting"]
            /\ attempt' = [attempt EXCEPT ![f] = 1]
            /\ UNCHANGED groupVars
  /\ UNCHANGED <<taskVars, endVars, late, toolVars, stored>>

(* The response, or the file of the source storage, is open. *)
Get(f) ==
  /\ fpc[f] = "getting"
  /\ fpc' = [fpc EXCEPT ![f] = IF stream THEN "saving" ELSE "copying"]
  /\ UNCHANGED <<taskVars, endVars, attempt, late, groupVars, toolVars, stored>>

GetFails(f) ==
  /\ fpc[f] = "getting"
  /\ \E err \in ErrorsUnder(GroupDone) : AttemptFails(f, err)
  /\ UNCHANGED <<taskVars, endVars, attempt, late, toolVars, stored>>

(* The cache file is written and rewound. *)
Copied(f) ==
  /\ fpc[f] = "copying"
  /\ fpc' = [fpc EXCEPT ![f] = "saving"]
  /\ UNCHANGED <<taskVars, endVars, attempt, late, groupVars, toolVars, stored>>

CopyFails(f) ==
  /\ fpc[f] = "copying"
  /\ \E err \in ErrorsUnder(GroupDone) : AttemptFails(f, err)
  /\ UNCHANGED <<taskVars, endVars, attempt, late, toolVars, stored>>

(* The attempt leaves its copying goroutine behind, because the context is done. *)
Abandon(f) ==
  /\ fpc[f] = "copying" /\ kind \in Copying /\ GroupDone
  /\ fpc' = [fpc EXCEPT ![f] = "resting"]
  /\ late' = late \union {f}
  /\ UNCHANGED <<taskVars, endVars, attempt, groupVars, toolVars, stored>>

(* The copying goroutine has written a block and edits the message. *)
CopyProgress(f) ==
  /\ f \in late \/ (fpc[f] = "copying" /\ kind \in Copying)
  /\ message' = "progress"
  /\ UNCHANGED <<taskVars, exec, result, fileVars, groupVars, toolVars, stored>>

(* The body and the cache file of an abandoned copy are closed: its next read or write fails. *)
LateCopyEnds(f) ==
  /\ f \in late
  /\ late' = late \ {f}
  /\ UNCHANGED <<taskVars, endVars, fpc, attempt, groupVars, toolVars, stored>>

Saved(f) ==
  /\ exec = "files" /\ fpc[f] = "saving"
  /\ stored' = stored \union {f}
  /\ FileEnds(f, Verdict(None))
  /\ IF kind \in Copying THEN UNCHANGED message ELSE Progressed
  /\ UNCHANGED <<taskVars, exec, result, attempt, late, toolVars>>

SaveFails(f) ==
  /\ exec = "files" /\ fpc[f] = "saving"
  /\ \E err \in ErrorsUnder(GroupDone) : AttemptFails(f, err)
  /\ UNCHANGED <<taskVars, endVars, attempt, late, toolVars, stored>>

AttemptLeft(f) == attempt[f] < Retry

TryAgain(f) ==
  /\ fpc[f] = "resting" /\ AttemptLeft(f)
  /\ fpc' = [fpc EXCEPT ![f] = "getting"]
  /\ attempt' = [attempt EXCEPT ![f] = @ + 1]
  /\ UNCHANGED <<taskVars, endVars, late, groupVars, toolVars, stored>>

(* retry.Retry returns an error of its own, which is not context.Canceled. *)
GiveUp(f) ==
  /\ fpc[f] = "resting" /\ (~AttemptLeft(f) \/ GroupDone)
  /\ FileEnds(f, Verdict("error"))
  /\ UNCHANGED <<taskVars, endVars, attempt, late, toolVars, stored>>

FilesEnd ==
  /\ exec = "files" /\ \A f \in Files : fpc[f] = "ended"
  /\ Finish(groupErr)
  /\ UNCHANGED <<taskVars, fileVars, groupVars, toolVars, stored>>

-----------------------------------------------------------------------------
(* aria2 goes on with a download; metadata that is complete starts the download it describes. *)
Aria2Moves ==
  /\ \E g \in {"meta", "data"}, s \in {"complete", "error", "removed"} :
       /\ remote[g] = "active"
       /\ remote' = IF g = "meta" /\ s = "complete"
                      THEN [remote EXCEPT !["meta"] = s, !["data"] = "active"]
                      ELSE [remote EXCEPT ![g] = s]
  /\ UNCHANGED <<taskVars, endVars, fileVars, groupVars, gid, wanted, local, lost, stored>>

(* ForceRemove, which aria2 refuses for a download that has stopped, and RemoveDownloadResult. *)
ForceRemove == remote' = [remote EXCEPT ![gid] = "none"]

(* waitForDownload leaves at ctx.Done: the error is context.Canceled. *)
WaitCanceled ==
  /\ exec = "tool" /\ kind = "aria2" /\ cancelled
  /\ ForceRemove /\ Finish("canceled")
  /\ UNCHANGED <<taskVars, fileVars, groupVars, gid, wanted, local, lost, stored>>

(* At a tick the status cannot be had; the client's error does not wrap that of the context. *)
StatusFails ==
  /\ exec = "tool" /\ kind = "aria2"
  /\ Finish("error")
  /\ UNCHANGED <<taskVars, fileVars, groupVars, toolVars, stored>>

(* At a tick the status arrives. *)
Poll ==
  /\ exec = "tool" /\ kind = "aria2" /\ ~cancelled
  /\ \/ /\ remote[gid] = "active"
        /\ Progressed /\ UNCHANGED <<exec, result, gid, wanted, local>>
     \/ /\ gid = "meta" /\ remote[gid] = "complete"
        /\ gid' = "data"
        /\ Progressed /\ UNCHANGED <<exec, result, wanted, local>>
     \/ /\ gid = "data" /\ remote[gid] = "complete"
        /\ exec' = "transfer"
        /\ \E W \in SUBSET Files : wanted' = W /\ local' = W
        /\ Progressed /\ UNCHANGED <<result, gid>>
     \/ /\ remote[gid] \in {"error", "removed"}
        /\ Finish("error") /\ UNCHANGED <<gid, wanted, local>>
  /\ UNCHANGED <<taskVars, fileVars, groupVars, remote, lost, stored>>

(* The command of yt-dlp ends: with files, or with an error or without a file. *)
RunYtdlp ==
  /\ exec = "tool" /\ kind = "ytdlp"
  /\ \/ /\ exec' = "transfer"
        /\ \E W \in (SUBSET Files) \ {{}} : wanted' = W /\ local' = W
        /\ Progressed /\ UNCHANGED result
     \/ /\ \E err \in ErrorsUnder(cancelled) : Finish(err)
        /\ UNCHANGED <<wanted, local>>
  /\ UNCHANGED <<taskVars, fileVars, groupVars, remote, gid, lost, stored>>

(* transferFile opens the file; one that is not there counts as transferred. *)
OpenLocal(f) ==
  /\ exec = "transfer" /\ f \in wanted /\ fpc[f] = "queued" /\ RunningFiles = {}
  /\ \/ fpc' = [fpc EXCEPT ![f] = "saving"] /\ UNCHANGED <<local, lost>>
     \/ /\ fpc' = [fpc EXCEPT ![f] = "ended"]
        /\ local' = local \ {f} /\ lost' = lost \union {f}
  /\ UNCHANGED <<taskVars, endVars, attempt, late, groupVars, remote, gid, wanted, stored>>

(* removeFileIfNeeded, when Save has succeeded.  yt-dlp's directory goes when Execute returns. *)
Removed(f) == IF kind = "aria2" /\ ~KeepFile THEN {f} ELSE {}
RemovedAnyway == IF kind = "ytdlp" THEN local ELSE {f \in Files : fpc[f] = "saving"}
RemovedByFailure == IF kind = "ytdlp" THEN local ELSE {}

LocalSaved(f) ==
  /\ exec = "transfer" /\ fpc[f] = "saving"
  /\ fpc' = [fpc EXCEPT ![f] = "ended"]
  /\ stored' = stored \union {f}
  /\ local' = local \ Removed(f)
  /\ Progressed
  /\ UNCHANGED <<taskVars, exec, result, attempt, late, groupVars, remote, gid, wanted, lost>>

(* The status or a file cannot be read, or Save fails: the rest is not tried. *)
TransferFails ==
  /\ exec = "transfer"
  /\ \E err \in ErrorsUnder(cancelled) : Finish(err)
  /\ fpc' = [f \in Files |-> IF fpc[f] = "saving" THEN "ended" ELSE fpc[f]]
  /\ local' = local \ RemovedByFailure
  /\ UNCHANGED <<taskVars, attempt, late, groupVars, remote, gid, wanted, lost, stored>>

TransferEnds ==
  /\ exec = "transfer" /\ \A f \in wanted : fpc[f] = "ended"
  /\ Finish(IF wanted = {} THEN "error" ELSE None)
  /\ local' = IF kind = "ytdlp" THEN {} ELSE local
  /\ remote' = IF kind = "aria2" /\ wanted # {} THEN [remote EXCEPT ![gid] = "none"] ELSE remote
  /\ UNCHANGED <<taskVars, fileVars, groupVars, gid, wanted, lost, stored>>

-----------------------------------------------------------------------------
FileStep(f) ==
  \/ Go(f) \/ Get(f) \/ GetFails(f) \/ Copied(f) \/ CopyFails(f) \/ Abandon(f)
  \/ Saved(f) \/ SaveFails(f) \/ TryAgain(f) \/ GiveUp(f)
ToolStep ==
  \/ WaitCanceled \/ StatusFails \/ Poll \/ RunYtdlp
  \/ \E f \in Files : OpenLocal(f) \/ LocalSaved(f)
  \/ TransferFails \/ TransferEnds
Next ==
  \/ Start \/ Cancel \/ HeadLinks \/ FilesEnd \/ ToolStep \/ Aria2Moves
  \/ \E f \in Files : FileStep(f) \/ CopyProgress(f) \/ LateCopyEnds(f)
Spec == Init /\ [][Next]_vars

(* Requests, copies, Saves and yt-dlp end; nothing is assumed of aria2, of the user or of late copies. *)
Fairness ==
  /\ WF_vars(Start) /\ WF_vars(HeadLinks) /\ WF_vars(FilesEnd) /\ WF_vars(ToolStep)
  /\ \A f \in Files : WF_vars(FileStep(f))
FairSpec == Spec /\ Fairness

-----------------------------------------------------------------------------
TypeOK ==
  /\ kind \in Kinds /\ stream \in BOOLEAN /\ cancelled \in BOOLEAN
  /\ exec \in {"ready", "head", "files", "tool", "transfer", "finished"}
  /\ message \in {"queued", "start", "progress", "done", "canceled", "failed"}
  /\ result \in {None, "ok"} \union Errors
  /\ fpc \in [Files -> {"queued", "ended"} \union Active] /\ attempt \in [Files -> 0..Retry]
  /\ groupErr \in {None} \union Errors
  /\ remote \in [{"meta", "data"} -> {"none", "active", "complete", "error", "removed"}] /\ gid \in {"meta", "data"}
  /\ late \subseteq Files /\ failed \subseteq Files /\ stored \subseteq Files
  /\ wanted \subseteq Files /\ local \subseteq Files /\ lost \subseteq Files

(* A task that succeeds has saved every file it was to save, but for the failures a transfer     *)
(* records to report them, and for a tool's files that were gone before their turn.              *)
DoneMeansStored ==
  result = "ok" =>
    \A f \in wanted : f \in stored \/ (kind = "transfer" /\ f \in failed) \/ (kind \in Tools /\ f \in lost)

(* The message says done exactly when the task has succeeded, also when a copying goroutine that *)
(* was left behind still edits it; such an edit can only take the place of a cancellation or a   *)
(* failure.                                                                                      *)
MessageAgrees ==
  /\ message = "done" <=> result = "ok"
  /\ message = "canceled" => result = "canceled"
  /\ result # None /\ message \in {"start", "progress"} => kind \in Copying

(* A task ends as canceled only when it was cancelled: that one file's failure cancels the       *)
(* requests of the others does not count, their errors come second.                              *)
CanceledMeansCancelled == result = "canceled" => cancelled

(* How a task ends is told truly: by the files, by the message and by its result. *)
EndInv == DoneMeansStored /\ MessageAgrees /\ CanceledMeansCancelled

(* What aria2 has downloaded is removed from its disk only when the storage has it. *)
LocalKept == kind = "aria2" => \A f \in wanted \ lost : f \in local \union stored

(* Execute returns; only for aria2 it waits as long as the download does, unless it is cancelled. *)
ExecuteReturns == (cancelled \/ kind # "aria2") ~> result # None

(* "If context was canceled, also cancel the aria2 download." *)
DownloadCanceled ==
  kind = "aria2" /\ cancelled /\ result # None => \A g \in {"meta", "data"} : remote[g] # "active"
=============================================================================
