----------------------------- MODULE DirUploader -----------------------------
(***************************************************************************)
(* The upload pool of the watch subcommand, cmd/watch/uploader.go: Submit  *)
(* queues a job for a local file, workers upload, and a file submitted     *)
(* again while its job is queued or running is marked and queued once more *)
(* when the job ends.  runWatch (cmd/watch/cmd.go) closes the pool after   *)
(* an interrupt.                                                           *)
(*                                                                         *)
(* The content of a file is a version number, read when the upload opens   *)
(* the file.  Submitters are the goroutines that call Submit: the event    *)
(* loop and scan of the main goroutine, and the watcher's timers.          *)
(***************************************************************************)
EXTENDS Naturals, Sequences, FiniteSets, SequencesExt

CONSTANTS Paths,
          Uploaders,
          Main,         \* the main goroutine, which also closes the pool
          Timers,       \* the goroutines of the watcher's timers
          QueueSize,    \* capacity of the jobs channel
          Retries,      \* attempts for each upload
          Overwrite,    \* the flag --overwrite
          MaxChanges,   \* bound: how often a file changes
          NoPath

Submitters == Timers \union {Main}

ASSUME UploaderAssumption ==
  /\ Main \notin Timers
  /\ NoPath \notin Paths
  /\ QueueSize \in Nat \ {0} /\ Retries \in Nat \ {0}
  /\ Overwrite \in BOOLEAN /\ MaxChanges \in Nat \ {0}

VARIABLES
  version,      \* the local content of each file
  saved,        \* the content on the storage, 0 if none
  ctx,          \* "live" or "cancelled"
  jobs,         \* the channel
  closed,       \* whether it is closed
  inflight,     \* the map: absent, FALSE or TRUE
  spc, sjob,    \* the submitters
  wpc, wjob,    \* the workers
  attempts, reading, gaveUp,    \* their attempt, the content they opened, whether they gave up
  main,         \* "running", "closing", "returned"
  panicked,     \* a send on the closed channel
  accepted,     \* history: the content of each file when Submit last accepted it
  opened,       \* history: the content when an upload last opened the file, or tried to
  broken        \* history: files whose last upload failed

uploaderVars == <<version, saved, ctx, jobs, closed, inflight, spc, sjob, wpc, wjob, attempts, reading, gaveUp,
                  main, panicked, accepted, opened, broken>>

queueVars == <<jobs, closed, inflight>>
submitVars == <<spc, sjob, accepted>>
workerVars == <<wpc, wjob, attempts, reading, gaveUp, opened, broken>>
contextVars == <<ctx, main, panicked>>
contentVars == <<version, saved>>

Absent == "absent"
Clean == "clean"        \* in the map with the value false
Dirty == "dirty"        \* in the map with the value true

UploaderInit ==
  /\ version = [f \in Paths |-> 1]
  /\ saved = [f \in Paths |-> 0]
  /\ ctx = "live" /\ main = "running" /\ panicked = FALSE
  /\ jobs = <<>> /\ closed = FALSE
  /\ inflight = [f \in Paths |-> Absent]
  /\ spc = [p \in Submitters |-> "idle"] /\ sjob = [p \in Submitters |-> NoPath]
  /\ wpc = [w \in Uploaders |-> "idle"] /\ wjob = [w \in Uploaders |-> NoPath]
  /\ attempts = [w \in Uploaders |-> 0]
  /\ reading = [w \in Uploaders |-> 0]
  /\ gaveUp = [w \in Uploaders |-> FALSE]
  /\ accepted = [f \in Paths |-> 0]
  /\ opened = [f \in Paths |-> 0]
  /\ broken = {}

-----------------------------------------------------------------------------
(* The user's program writes to the file. *)
Change(f) ==
  /\ version[f] < MaxChanges
  /\ version' = [version EXCEPT ![f] = @ + 1]
  /\ UNCHANGED <<saved, queueVars, submitVars, workerVars, contextVars>>

(* A submitter checks that the context is live and goes on to call Submit. *)
Call(p, f) ==
  /\ spc[p] = "idle" /\ ctx = "live"
  /\ p = Main => main = "running"
  /\ spc' = [spc EXCEPT ![p] = "called"]
  /\ sjob' = [sjob EXCEPT ![p] = f]
  /\ UNCHANGED <<accepted, contentVars, queueVars, workerVars, contextVars>>

Ignored(f) == inflight
Marked(f) == [inflight EXCEPT ![f] = Dirty]

(* Submit's critical section finds the file in flight. *)
SubmitMarks(p) ==
  /\ spc[p] = "called"
  /\ inflight[sjob[p]] # Absent
  /\ inflight' = Marked(sjob[p])
  /\ accepted' = [accepted EXCEPT ![sjob[p]] = version[sjob[p]]]
  /\ spc' = [spc EXCEPT ![p] = "idle"]
  /\ sjob' = [sjob EXCEPT ![p] = NoPath]
  /\ UNCHANGED <<jobs, closed, contentVars, workerVars, contextVars>>

(* Or puts it in flight. *)
SubmitEnters(p) ==
  /\ spc[p] = "called"
  /\ inflight[sjob[p]] = Absent
  /\ inflight' = [inflight EXCEPT ![sjob[p]] = Clean]
  /\ spc' = [spc EXCEPT ![p] = "sending"]
  /\ UNCHANGED <<sjob, accepted, jobs, closed, contentVars, workerVars, contextVars>>

(* select: the send goes through, or panics on the closed channel. *)
SubmitSends(p) ==
  /\ spc[p] = "sending"
  /\ IF closed
       THEN panicked' = TRUE /\ UNCHANGED <<jobs, spc, sjob, accepted>>
       ELSE /\ Len(jobs) < QueueSize
            /\ jobs' = Append(jobs, sjob[p])
            /\ accepted' = [accepted EXCEPT ![sjob[p]] = version[sjob[p]]]
            /\ spc' = [spc EXCEPT ![p] = "idle"]
            /\ sjob' = [sjob EXCEPT ![p] = NoPath]
            /\ UNCHANGED panicked
  /\ UNCHANGED <<closed, inflight, ctx, main, contentVars, workerVars>>

(* select: the context is done. *)
SubmitGivesUp(p) ==
  /\ spc[p] = "sending" /\ ctx = "cancelled"
  /\ inflight' = [inflight EXCEPT ![sjob[p]] = Absent]
  /\ spc' = [spc EXCEPT ![p] = "idle"]
  /\ sjob' = [sjob EXCEPT ![p] = NoPath]
  /\ UNCHANGED <<accepted, jobs, closed, contentVars, workerVars, contextVars>>

-----------------------------------------------------------------------------
TakeJob(w) ==
  /\ wpc[w] = "idle" /\ jobs # <<>>
  /\ jobs' = Tail(jobs)
  /\ wjob' = [wjob EXCEPT ![w] = Head(jobs)]
  /\ wpc' = [wpc EXCEPT ![w] = "trying"]
  /\ attempts' = [attempts EXCEPT ![w] = 1]
  /\ gaveUp' = [gaveUp EXCEPT ![w] = FALSE]
  /\ UNCHANGED <<closed, inflight, reading, opened, broken, contentVars, submitVars, contextVars>>

(* The worker's select has both cases ready once the context is done: it may take another    *)
(* job or return.  It also returns when the channel is closed and empty.                     *)
WorkerReturns(w) ==
  /\ wpc[w] = "idle"
  /\ ctx = "cancelled" \/ (closed /\ jobs = <<>>)
  /\ wpc' = [wpc EXCEPT ![w] = "returned"]
  /\ UNCHANGED <<wjob, attempts, reading, gaveUp, opened, broken, queueVars, contentVars, submitVars, contextVars>>

(* uploadWithRetry finds the context done before an attempt, after one, or between two. *)
TryCancelled(w) ==
  /\ wpc[w] = "trying" /\ ctx = "cancelled"
  /\ gaveUp' = [gaveUp EXCEPT ![w] = TRUE]
  /\ wpc' = [wpc EXCEPT ![w] = "tried"]
  /\ UNCHANGED <<wjob, attempts, reading, opened, broken, queueVars, contentVars, submitVars, contextVars>>

TryLeft(w) == attempts[w] < Retries

TryFails(w) ==
  IF TryLeft(w)
    THEN /\ attempts' = [attempts EXCEPT ![w] = @ + 1]
         /\ wpc' = [wpc EXCEPT ![w] = "trying"]
         /\ UNCHANGED <<gaveUp, broken>>
    ELSE /\ gaveUp' = [gaveUp EXCEPT ![w] = TRUE]
         /\ broken' = broken \union {wjob[w]}
         /\ wpc' = [wpc EXCEPT ![w] = "tried"]
         /\ attempts' = [attempts EXCEPT ![w] = 0]

(* upload opens the file; without --overwrite a file that exists on the storage is skipped. *)
Open(w) ==
  LET f == wjob[w] IN
  /\ wpc[w] = "trying" /\ ctx = "live"
  /\ opened' = [opened EXCEPT ![f] = version[f]]
  /\ reading' = [reading EXCEPT ![w] = version[f]]
  /\ broken' = broken \ {f}
  /\ wpc' = [wpc EXCEPT ![w] = IF ~Overwrite /\ saved[f] # 0 THEN "tried" ELSE "saving"]
  /\ UNCHANGED <<wjob, attempts, gaveUp, queueVars, contentVars, submitVars, contextVars>>

(* The file cannot be opened or is a directory. *)
OpenFails(w) ==
  LET f == wjob[w] IN
  /\ wpc[w] = "trying" /\ ctx = "live"
  /\ opened' = [opened EXCEPT ![f] = version[f]]
  /\ TryFails(w)
  /\ UNCHANGED <<wjob, reading, queueVars, contentVars, submitVars, contextVars>>

Save(w) ==
  /\ wpc[w] = "saving"
  /\ saved' = [saved EXCEPT ![wjob[w]] = reading[w]]
  /\ wpc' = [wpc EXCEPT ![w] = "tried"]
  /\ attempts' = [attempts EXCEPT ![w] = 0] /\ reading' = [reading EXCEPT ![w] = 0]
  /\ UNCHANGED <<version, wjob, gaveUp, opened, broken, queueVars, submitVars, contextVars>>

(* The save failed, because of the storage or because the context is done. *)
StoreFails(w) ==
  /\ wpc[w] = "saving"
  /\ TryFails(w)
  /\ reading' = [reading EXCEPT ![w] = 0]
  /\ UNCHANGED <<wjob, opened, queueVars, contentVars, submitVars, contextVars>>

(* process after a failure under a cancelled context. *)
LetGo(w) ==
  /\ wpc[w] = "tried" /\ gaveUp[w] /\ ctx = "cancelled"
  /\ inflight' = [inflight EXCEPT ![wjob[w]] = Absent]
  /\ wpc' = [wpc EXCEPT ![w] = "idle"]
  /\ wjob' = [wjob EXCEPT ![w] = NoPath]
  /\ UNCHANGED <<jobs, closed, attempts, reading, gaveUp, opened, broken, contentVars, submitVars, contextVars>>

NeedReupload(f) == inflight[f] = Dirty

(* process's critical section: keep the file in flight and queue it again, or let it go.     *)
(* A failed upload comes here too while the context is live.                                 *)
Settle(w) ==
  /\ wpc[w] = "tried"
  /\ gaveUp[w] => ctx = "live"
  /\ IF NeedReupload(wjob[w])
       THEN /\ inflight' = [inflight EXCEPT ![wjob[w]] = Clean]
            /\ wpc' = [wpc EXCEPT ![w] = "requeueing"]
            /\ UNCHANGED wjob
       ELSE /\ inflight' = [inflight EXCEPT ![wjob[w]] = Absent]
            /\ wpc' = [wpc EXCEPT ![w] = "idle"]
            /\ wjob' = [wjob EXCEPT ![w] = NoPath]
  /\ UNCHANGED <<jobs, closed, attempts, reading, gaveUp, opened, broken, contentVars, submitVars, contextVars>>

Dropped(f) == jobs
Requeued(f) == Append(jobs, f)

Requeue(w) ==
  /\ wpc[w] = "requeueing"
  /\ IF closed
       THEN panicked' = TRUE /\ UNCHANGED <<jobs, wpc, wjob>>
       ELSE /\ Len(jobs) < QueueSize
            /\ jobs' = Requeued(wjob[w])
            /\ wpc' = [wpc EXCEPT ![w] = "idle"]
            /\ wjob' = [wjob EXCEPT ![w] = NoPath]
            /\ UNCHANGED panicked
  /\ UNCHANGED <<closed, inflight, ctx, main, attempts, reading, gaveUp, opened, broken, contentVars, submitVars>>

RequeueGivesUp(w) ==
  /\ wpc[w] = "requeueing" /\ ctx = "cancelled"
  /\ inflight' = [inflight EXCEPT ![wjob[w]] = Absent]
  /\ wpc' = [wpc EXCEPT ![w] = "idle"]
  /\ wjob' = [wjob EXCEPT ![w] = NoPath]
  /\ UNCHANGED <<jobs, closed, attempts, reading, gaveUp, opened, broken, contentVars, submitVars, contextVars>>

-----------------------------------------------------------------------------
(* SIGINT *)
Interrupt ==
  /\ ctx = "live"
  /\ ctx' = "cancelled"
  /\ UNCHANGED <<main, panicked, contentVars, queueVars, submitVars, workerVars>>

(* Watcher.Run has returned; runWatch calls Close. *)
Close ==
  /\ main = "running" /\ ctx = "cancelled" /\ spc[Main] = "idle"
  /\ closed' = TRUE
  /\ main' = "closing"
  /\ UNCHANGED <<jobs, inflight, ctx, panicked, contentVars, submitVars, workerVars>>

Exit ==
  /\ main = "closing"
  /\ \A w \in Uploaders : wpc[w] = "returned"
  /\ main' = "returned"
  /\ UNCHANGED <<ctx, panicked, contentVars, queueVars, submitVars, workerVars>>

Submit(p) == SubmitMarks(p) \/ SubmitEnters(p) \/ SubmitSends(p) \/ SubmitGivesUp(p)
UploadStep(w) == TryCancelled(w) \/ Open(w) \/ OpenFails(w) \/ Save(w) \/ StoreFails(w)
Process(w) == UploadStep(w) \/ LetGo(w) \/ Settle(w) \/ Requeue(w) \/ RequeueGivesUp(w)
Work(w) == TakeJob(w) \/ WorkerReturns(w) \/ Process(w)

UploaderNext ==
  /\ main # "returned" /\ ~panicked
  /\ \/ \E f \in Paths : Change(f) \/ \E p \in Submitters : Call(p, f)
     \/ \E p \in Submitters : Submit(p)
     \/ \E w \in Uploaders : Work(w)
     \/ Interrupt \/ Close \/ Exit

UploaderSpec == UploaderInit /\ [][UploaderNext]_uploaderVars

(* Submit and the workers run on; an upload ends one way or the other.  A worker that waits  *)
(* to send is not overtaken for ever.                                                        *)
UploaderFairSpec ==
  /\ UploaderSpec
  /\ \A p \in Submitters : WF_uploaderVars(~panicked /\ Submit(p))
  /\ \A w \in Uploaders : SF_uploaderVars(~panicked /\ main # "returned" /\ Work(w))

-----------------------------------------------------------------------------
UploaderTypeOK ==
  /\ version \in [Paths -> 1 .. MaxChanges]
  /\ \A f \in Paths : saved[f] \in 0 .. version[f] /\ accepted[f] \in 0 .. version[f] /\ opened[f] \in 0 .. version[f]
  /\ jobs \in Seq(Paths) /\ Len(jobs) <= QueueSize
  /\ inflight \in [Paths -> {Absent, Clean, Dirty}]
  /\ spc \in [Submitters -> {"idle", "called", "sending"}] /\ sjob \in [Submitters -> Paths \union {NoPath}]
  /\ wpc \in [Uploaders -> {"idle", "trying", "saving", "tried", "requeueing", "returned"}]
  /\ wjob \in [Uploaders -> Paths \union {NoPath}]
  /\ attempts \in [Uploaders -> 0 .. Retries]

Queued(f) == {i \in DOMAIN jobs : jobs[i] = f}
Senders(f) == {p \in Submitters : spc[p] = "sending" /\ sjob[p] = f}
Holders(f) == {w \in Uploaders : wjob[w] = f}

(* The map is exact: a file in it has one owner, a sender, a place in the channel or a worker, *)
(* so that no two workers ever upload one file, and a file not in it has none.               *)
OneOwnerInFlight ==
  \A f \in Paths :
    Cardinality(Queued(f)) + Cardinality(Senders(f)) + Cardinality(Holders(f))
      = IF inflight[f] = Absent THEN 0 ELSE 1

(* Once nothing is in flight the storage has the content last submitted, unless the last     *)
(* upload failed.                                                                            *)
LastContentStored ==
  ctx = "live" =>
    \A f \in Paths : inflight[f] = Absent /\ f \notin broken => saved[f] >= accepted[f]

(* What Submit accepts is uploaded in the end, unless the user interrupts.  It holds while   *)
(* the channel has room for every file: with more files than room all workers can come to    *)
(* wait for room in the channel that only they empty.                                        *)
AcceptedUploads ==
  \A f \in Paths : \A v \in 1 .. MaxChanges :
    (accepted[f] >= v) ~> (opened[f] >= v \/ ctx = "cancelled")
=============================================================================
