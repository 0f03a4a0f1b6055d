----------------------------- MODULE TaskRunner -----------------------------
(***************************************************************************)
(* The life of a save task: core/core.go, which puts tasks in the queue of *)
(* TaskQueue and runs them in worker goroutines, the events of             *)
(* pkg/taskevent it emits on the way, the progress records and webhooks    *)
(* that api/progress.go derives from those events, and the requests that   *)
(* create and cancel tasks.                                                *)
(*                                                                         *)
(* A task's identifier is an xid, so no two tasks share one here.          *)
(***************************************************************************)
EXTENDS Naturals, Sequences, FiniteSets

CONSTANTS
  Tasks,        \* save tasks
  ApiTasks,     \* those created through the HTTP API
  HookTasks,    \* API tasks created with a webhook
  CopyTasks,    \* tasks that copy a response body in a goroutine of their own
  Workers,      \* worker goroutines
  Callers,      \* requests to cancel a task
  HttpCallers,  \* the requests that come through the HTTP API
  None          \* no task, no record

VARIABLES
  tasks, taskMap, runningTaskMap, closed, cancelled, submitted, getter, held,
  found,      \* the variables of TaskQueue
  main,       \* the main goroutine: running, context cancelled, queue closed
  creation,   \* how far the creator of each task is
  semaphore,  \* number of tokens in the semaphore channel
  wpc,        \* where each worker is in its loop
  outcome,    \* what Execute returned for each task
  straggler,  \* tasks whose copying goroutine outlives Execute
  kpc,        \* where each cancel request is
  target,     \* the task each cancel request names
  rec,        \* store.tasks: the progress record of each task
  sent        \* statuses of the webhook payloads sent for each task

qvars == <<tasks, taskMap, runningTaskMap, closed, cancelled, submitted,
           getter, held, found>>
wvars == <<semaphore, wpc, outcome, straggler>>
kvars == <<kpc, target>>
rvars == <<rec, sent>>
vars  == <<qvars, main, creation, wvars, kvars, rvars>>

Q == INSTANCE TaskQueue WITH IDs <- Tasks, id <- [t \in Tasks |-> t]

Terminal == {"completed", "failed", "cancelled"}
Status   == {"queued", "running"} \cup Terminal
Outcomes == {"none", "ok", "canceled", "error"}
Sources  == {"api", "bot", "unknown"}
Records  == [status : Status, source : Sources, hook : BOOLEAN,
             notified : BOOLEAN]

ASSUME RunnerAssumption ==
  /\ IsFiniteSet(Workers)
  /\ None \notin Tasks /\ None \notin Records

TypeOK ==
  /\ Q!TypeOK
  /\ main \in {"up", "stopping", "closed"}
  /\ creation \in [Tasks -> {"new", "registered", "added", "announced",
                             "refused", "deleted"}]
  /\ semaphore \in 0 .. Cardinality(Workers)
  /\ wpc \in [Workers -> {"idle", "get", "start", "execute", "done", "notify",
                          "remove", "release", "exited"}]
  /\ outcome \in [Tasks -> Outcomes]
  /\ straggler \in SUBSET CopyTasks
  /\ kpc \in [Callers -> {"idle", "find", "apply", "emit", "update", "over"}]
  /\ target \in [Callers -> Tasks \cup {None}]
  /\ rec \in [Tasks -> Records \cup {None}]
  /\ sent \in [Tasks -> Seq(Status)]

Init == /\ Q!Init
        /\ main = "up"
        /\ creation = [t \in Tasks |-> "new"]
        /\ semaphore = 0
        /\ wpc = [w \in Workers |-> "idle"]
        /\ outcome = [t \in Tasks |-> "none"]
        /\ straggler = {}
        /\ kpc = [c \in Callers |-> "idle"]
        /\ target = [c \in Callers |-> None]
        /\ rec = [t \in Tasks |-> None]
        /\ sent = [t \in Tasks |-> <<>>]

-----------------------------------------------------------------------------
(* The progress store. An event for an unknown task makes a record from    *)
(* what the event carries; an event of any phase but "queued" then sets    *)
(* the status. The two critical sections of Emit are one step: a record is *)
(* removed long after its last event, or before its first.                 *)

Origin(t) == IF t \in ApiTasks THEN "api" ELSE "bot"

NewRecord(source) ==
  [status |-> "queued", source |-> source, hook |-> FALSE, notified |-> FALSE]

Stored(t, source) == IF rec[t] = None THEN NewRecord(source) ELSE rec[t]

(* The webhook fires once, when the status is completed or failed.         *)
FiresOnSuccess(r, status) ==
  r.hook /\ ~r.notified /\ status = "completed"

Fires(r, status) ==
  r.hook /\ ~r.notified /\ status \in {"completed", "failed"}

Emit(t, source, status) ==
  LET r == Stored(t, source)
  IN  rec' = [rec EXCEPT ![t] = [r EXCEPT !.status = status,
                                          !.notified = @ \/ Fires(r, status)]]

-----------------------------------------------------------------------------
(* Creators. The HTTP API registers a record before it adds the task, and  *)
(* deletes it when the task is refused; the bot and its relays only add.   *)

Register(t) ==
  /\ t \in ApiTasks
  /\ creation[t] = "new"
  /\ creation' = [creation EXCEPT ![t] = "registered"]
  /\ rec' = [rec EXCEPT ![t] = [NewRecord("api") EXCEPT !.hook = t \in HookTasks]]
  /\ UNCHANGED <<qvars, main, wvars, kvars, sent>>

ReadyToAdd(t) == creation[t] = IF t \in ApiTasks THEN "registered" ELSE "new"

AddTask(t) ==
  /\ ReadyToAdd(t)
  /\ \/ /\ Q!AddAccepted(t)
        /\ creation' = [creation EXCEPT ![t] = "added"]
     \/ /\ Q!AddRefused(t)
        /\ creation' = [creation EXCEPT ![t] = "refused"]
  /\ UNCHANGED <<main, wvars, kvars, rvars>>

QueuedResets(t) ==
  /\ creation[t] = "added"
  /\ creation' = [creation EXCEPT ![t] = "announced"]
  /\ Emit(t, Origin(t), "queued")
  /\ UNCHANGED <<qvars, main, wvars, kvars, sent>>

EmitQueued(t) ==
  /\ creation[t] = "added"
  /\ creation' = [creation EXCEPT ![t] = "announced"]
  /\ rec' = [rec EXCEPT ![t] = Stored(t, Origin(t))]
  /\ UNCHANGED <<qvars, main, wvars, kvars, sent>>

DeleteTask(t) ==
  /\ t \in ApiTasks
  /\ creation[t] = "refused"
  /\ creation' = [creation EXCEPT ![t] = "deleted"]
  /\ rec' = [rec EXCEPT ![t] = None]
  /\ UNCHANGED <<qvars, main, wvars, kvars, sent>>

Creator(t) == Register(t) \/ AddTask(t) \/ EmitQueued(t) \/ DeleteTask(t)

-----------------------------------------------------------------------------
(* A worker. The semaphore holds as many tokens as there are workers; a    *)
(* worker told that the queue is closed leaves without returning its own.  *)

Goto(w, pc) == wpc' = [wpc EXCEPT ![w] = pc]

Acquire(w) == /\ wpc[w] = "idle"
              /\ semaphore < Cardinality(Workers)
              /\ semaphore' = semaphore + 1
              /\ Goto(w, "get")
              /\ UNCHANGED <<qvars, main, creation, outcome, straggler, kvars,
                             rvars>>

Get(w) == /\ wpc[w] = "get"
          /\ \/ Q!GetTask(w) /\ Goto(w, "start")
             \/ Q!GetWait(w) /\ UNCHANGED wpc
             \/ Q!GetClosed(w) /\ Goto(w, "exited")
          /\ UNCHANGED <<main, creation, semaphore, outcome, straggler, kvars,
                         rvars>>

EmitStart(w) == /\ wpc[w] = "start"
                /\ Emit(held[w], Origin(held[w]), "running")
                /\ Goto(w, "execute")
                /\ UNCHANGED <<qvars, main, creation, semaphore, outcome,
                               straggler, kvars, sent>>

(* Execute reports progress and returns at some time. A task whose context *)
(* is done may still succeed or end with an error of another kind: the     *)
(* retry helper, for one, answers a done context with its own error. Only  *)
(* the copying goroutine of a task that did not succeed may be left over.  *)
EmitProgress(w) == /\ wpc[w] = "execute"
                   /\ Emit(held[w], "unknown", "running")
                   /\ UNCHANGED <<qvars, main, creation, wvars, kvars, sent>>

ExecuteReturns(w) ==
  /\ wpc[w] = "execute"
  /\ \E o \in Outcomes \ {"none"} :
       /\ o = "canceled" => held[w] \in cancelled
       /\ outcome' = [outcome EXCEPT ![held[w]] = o]
       /\ \/ UNCHANGED straggler
          \/ /\ o # "ok"
             /\ held[w] \in CopyTasks
             /\ straggler' = straggler \cup {held[w]}
  /\ Goto(w, "done")
  /\ UNCHANGED <<qvars, main, creation, semaphore, kvars, rvars>>

StatusOf(o) == CASE o = "ok" -> "completed"
                 [] o = "canceled" -> "cancelled"
                 [] OTHER -> "failed"

EmitDone(w) == LET t == held[w]
                   s == StatusOf(outcome[t])
               IN  /\ wpc[w] = "done"
                   /\ Emit(t, Origin(t), s)
                   /\ Goto(w, IF Fires(Stored(t, Origin(t)), s)
                              THEN "notify" ELSE "remove")
                   /\ UNCHANGED <<qvars, main, creation, semaphore, outcome,
                                  straggler, kvars, sent>>

(* Still in Emit, after unlocking: the payload is made from the status the *)
(* record has by now, and sent if the record is still stored.              *)
Notify(w) ==
  /\ wpc[w] = "notify"
  /\ IF rec[held[w]] = None
     THEN UNCHANGED sent
     ELSE sent' = [sent EXCEPT ![held[w]] = Append(@, rec[held[w]].status)]
  /\ Goto(w, "remove")
  /\ UNCHANGED <<qvars, main, creation, semaphore, outcome, straggler, kvars,
                 rec>>

QueueDone(w) == /\ wpc[w] = "remove"
                /\ Q!Done(w)
                /\ Goto(w, "release")
                /\ UNCHANGED <<main, creation, semaphore, outcome, straggler,
                               kvars, rvars>>

ReleaseNothing(w) == /\ wpc[w] = "release"
                     /\ Goto(w, "idle")
                     /\ UNCHANGED <<qvars, main, creation, semaphore, outcome,
                                    straggler, kvars, rvars>>

Release(w) == /\ wpc[w] = "release"
              /\ semaphore' = semaphore - 1
              /\ Goto(w, "idle")
              /\ UNCHANGED <<qvars, main, creation, outcome, straggler, kvars,
                             rvars>>

Worker(w) == \/ Acquire(w) \/ Get(w) \/ EmitStart(w) \/ ExecuteReturns(w)
             \/ EmitDone(w) \/ Notify(w) \/ QueueDone(w) \/ Release(w)

(* A goroutine left over reports the bytes it wrote last.                  *)
LateProgress(t) == /\ t \in straggler
                   /\ straggler' = straggler \ {t}
                   /\ Emit(t, "unknown", "running")
                   /\ UNCHANGED <<qvars, main, creation, semaphore, wpc,
                                  outcome, kvars, sent>>

-----------------------------------------------------------------------------
(* A request to cancel a task. Through the HTTP API the task must have a   *)
(* record, and the record is set to cancelled once more before the answer. *)

Request(c, t) == /\ kpc[c] = "idle"
                 /\ c \in HttpCallers => rec[t] # None
                 /\ target' = [target EXCEPT ![c] = t]
                 /\ kpc' = [kpc EXCEPT ![c] = "find"]
                 /\ UNCHANGED <<qvars, main, creation, wvars, rvars>>

CancelFind(c) == /\ kpc[c] = "find"
                 /\ \/ /\ Q!CancelFind(c, target[c])
                       /\ kpc' = [kpc EXCEPT ![c] = "apply"]
                    \/ /\ Q!Lookup(target[c]) = None
                       /\ kpc' = [kpc EXCEPT ![c] = "over"]
                       /\ UNCHANGED qvars
                 /\ UNCHANGED <<main, creation, wvars, target, rvars>>

CancelApply(c) == /\ kpc[c] = "apply"
                  /\ Q!CancelApply(c)
                  /\ kpc' = [kpc EXCEPT ![c] = "emit"]
                  /\ UNCHANGED <<main, creation, wvars, target, rvars>>

EmitCancelled(c) ==
  /\ kpc[c] = "emit"
  /\ Emit(target[c], "unknown", "cancelled")
  /\ kpc' = [kpc EXCEPT ![c] = IF c \in HttpCallers THEN "update" ELSE "over"]
  /\ UNCHANGED <<qvars, main, creation, wvars, target, sent>>

UpdateStatus(c) == LET t == target[c]
                   IN  /\ kpc[c] = "update"
                       /\ kpc' = [kpc EXCEPT ![c] = "over"]
                       /\ rec' = [rec EXCEPT ![t].status = "cancelled"]
                       /\ UNCHANGED <<qvars, main, creation, wvars, target, sent>>

Canceller(c) == \/ CancelFind(c) \/ CancelApply(c) \/ EmitCancelled(c)
                \/ UpdateStatus(c)

-----------------------------------------------------------------------------
(* CleanupExpired removes a terminal record 24 hours after its last update.*)
(* Whoever is about to emit an event for the task does so well before.     *)
Settled(t) == rec[t] # None => rec[t].status \in Terminal

Quiet(t) == /\ creation[t] = "announced"
            /\ \A w \in Workers : held[w] = t => wpc[w] = "execute"
            /\ \A c \in Callers : target[c] = t => kpc[c] = "over"

CleanupExpired(t) == /\ rec[t] # None
                     /\ Settled(t)
                     /\ Quiet(t)
                     /\ rec' = [rec EXCEPT ![t] = None]
                     /\ UNCHANGED <<qvars, main, creation, wvars, kvars, sent>>

(* Shutdown: the context all tasks are derived from is cancelled, which    *)
(* reaches them one by one, and the queue is closed.                       *)
Stop == /\ main = "up"
        /\ main' = "stopping"
        /\ UNCHANGED <<qvars, creation, wvars, kvars, rvars>>

ContextDone(t) == /\ main # "up"
                  /\ Q!ContextDone(t)
                  /\ UNCHANGED <<main, creation, wvars, kvars, rvars>>

Close == /\ main = "stopping"
         /\ main' = "closed"
         /\ Q!Close
         /\ UNCHANGED <<creation, wvars, kvars, rvars>>

-----------------------------------------------------------------------------
Next == \/ \E t \in Tasks : \/ Creator(t) \/ LateProgress(t)
                            \/ CleanupExpired(t) \/ ContextDone(t)
        \/ \E w \in Workers : Worker(w) \/ EmitProgress(w)
        \/ \E c \in Callers : Canceller(c) \/ \E t \in Tasks : Request(c, t)
        \/ Stop
        \/ Close

Spec == Init /\ [][Next]_vars

(* Goroutines proceed, and Execute returns at some time. The sweep of the  *)
(* store runs every ten minutes. Nobody must create, cancel or stop.       *)
Fairness == /\ \A w \in Workers : WF_vars(Worker(w))
            /\ \A c \in Callers : WF_vars(Canceller(c))
            /\ \A t \in Tasks : /\ WF_vars(EmitQueued(t) \/ DeleteTask(t))
                                /\ WF_vars(LateProgress(t))
                                /\ WF_vars(CleanupExpired(t))
                                /\ WF_vars(ContextDone(t))
            /\ WF_vars(Close)

FairSpec == Spec /\ Fairness

-----------------------------------------------------------------------------
(* A webhook is fired at most once for a task, only for one that was       *)
(* executed to the end, did not end as cancelled, and asked for it, and    *)
(* tells how it ended, whatever order the events of its worker and of      *)
(* cancel requests come in. The payload is made after the record is        *)
(* unlocked: what it tells instead is that the task was cancelled, if a    *)
(* cancel request writes the record in between, or that it is running, if  *)
(* a goroutine left over by a failed task does.                            *)
MayTell(t, s) == \/ s = StatusOf(outcome[t])
                 \/ s = "cancelled" /\ t \in cancelled
                 \/ s = "running" /\ t \in CopyTasks /\ outcome[t] = "error"

WebhookEarned == \A t \in Tasks : sent[t] # <<>> =>
                   /\ t \in HookTasks
                   /\ outcome[t] \in {"ok", "error"}
                   /\ \E s \in Status : sent[t] = <<s>> /\ MayTell(t, s)

(* "Once the task reaches completed or failed", and "cancelled tasks do    *)
(* not trigger a webhook" (docs/content/en/usage/api.md:522,525): the      *)
(* status that is sent is one of the two.                                  *)
WebhookStatus == \A t \in Tasks : sent[t] # <<>> =>
                   sent[t][1] \in {"completed", "failed"}

(* A task that is in the queue or with a worker and that nobody cancelled  *)
(* is in the store under its origin, as queued until its worker starts it  *)
(* and as running until Execute has returned.                              *)
Queueing(t)  == \E k \in DOMAIN tasks : tasks[k] = t
Executing(t) == \E w \in Workers : held[w] = t /\ wpc[w] = "execute"
LiveShown ==
  \A t \in Tasks \ cancelled :
    /\ Queueing(t) /\ creation[t] = "announced" =>
         rec[t] # None /\ rec[t].status = "queued" /\ rec[t].source = Origin(t)
    /\ Executing(t) =>
         rec[t] # None /\ rec[t].status = "running" /\ rec[t].source = Origin(t)

(* A creation request that was refused leaves no record behind.            *)
Refused(t) == \/ creation[t] = "deleted"
              \/ creation[t] = "refused" /\ t \notin ApiTasks
RefusedForgotten == \A t \in Tasks : Refused(t) => rec[t] = None

(* A record says running only while a worker has the task, for tasks that  *)
(* do all their work before Execute returns. A copying goroutine that is   *)
(* left over sets the record of a finished task to running again.          *)
RunningHeld(t) == rec[t] # None /\ rec[t].status = "running" =>
                    \E w \in Workers : held[w] = t

RunningMeansExecuting == \A t \in Tasks \ CopyTasks : RunningHeld(t)

(* What the records promise together: their shape; a task that may still run is shown as such;  *)
(* a refused one leaves no record; a record says "running" only while a worker holds it; and a   *)
(* webhook is sent once, and tells how the task ended or what was written over that since.       *)
RecordsInv == TypeOK /\ WebhookEarned /\ LiveShown /\ RefusedForgotten /\ RunningMeansExecuting

(* The record of an accepted task settles for good, unless the program is  *)
(* stopped, when the task does all its work before Execute returns.        *)
RecordsSettle == \A t \in Tasks \ CopyTasks :
  [](creation[t] = "added" => <>([](Settled(t)) \/ main # "up"))

(* A task with a webhook that ran to its end without being cancelled has   *)
(* its webhook fired.                                                      *)
WebhookFires == \A t \in HookTasks :
  outcome[t] \in {"ok", "error"} /\ t \notin cancelled ~> sent[t] # <<>>
=============================================================================
