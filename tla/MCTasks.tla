-------------------------------- MODULE MCTasks --------------------------------
(***************************************************************************)
(* The task queue alone, with two tasks that compete for one identifier    *)
(* and a third; and its users, a worker with a task of the API that has a  *)
(* webhook, a task of the bot, and a request to cancel one.                *)
(***************************************************************************)
EXTENDS TaskQueue, TLC

CONSTANTS t1, t2, t3, a, b, ApiTasks, BotTasks, RunnerWorker, HttpCallers

VARIABLES part,
          rtasks, rtaskMap, rrunning, rclosed, rcancelled, rsubmitted, rgetter, rheld, rfound,
          main, creation, semaphore, wpc, outcome, straggler, kpc, target, rec, sent

R == INSTANCE TaskRunner WITH
       Tasks <- ApiTasks \cup BotTasks, HookTasks <- ApiTasks, CopyTasks <- BotTasks,
       Workers <- {RunnerWorker}, Callers <- HttpCallers,
       tasks <- rtasks, taskMap <- rtaskMap, runningTaskMap <- rrunning, closed <- rclosed,
       cancelled <- rcancelled, submitted <- rsubmitted, getter <- rgetter, held <- rheld, found <- rfound

rqueueVars == <<rtasks, rtaskMap, rrunning, rclosed, rcancelled, rsubmitted, rgetter, rheld, rfound>>
runnerVars == <<rqueueVars, main, creation, semaphore, wpc, outcome, straggler, kpc, target, rec, sent>>

MCTasks == {t1, t2, t3}
MCIDs   == {a, b}
MCid    == t1 :> a @@ t2 :> a @@ t3 :> b

On(p) == part = p

MCInit == part \in {"queue", "runner"} /\ Init /\ R!Init
MCNext ==
  \/ On("queue") /\ Next /\ UNCHANGED <<part, runnerVars>>
  \/ On("runner") /\ R!Next /\ UNCHANGED <<part, qvars>>

(* The fairness of TaskQueue and of TaskRunner, each in its part. *)
MCFairness ==
  /\ \A w \in Workers : WF_qvars(On("queue") /\ Get(w)) /\ WF_qvars(On("queue") /\ Done(w))
  /\ WF_runnerVars(On("runner") /\ R!Worker(RunnerWorker))
  /\ \A c \in HttpCallers : WF_runnerVars(On("runner") /\ R!Canceller(c))
  /\ \A t \in ApiTasks \cup BotTasks :
       /\ WF_runnerVars(On("runner") /\ (R!EmitQueued(t) \/ R!DeleteTask(t)))
       /\ WF_runnerVars(On("runner") /\ R!ContextDone(t))
  /\ WF_runnerVars(On("runner") /\ R!Close)

MCSpec == MCInit /\ [][MCNext]_<<part, qvars, runnerVars>> /\ MCFairness

(* The runner gives the queue what TaskQueue assumes of its users: workers come back to Get, and *)
(* Done is called once for every task, by whoever got it.                                        *)
ServesQueue ==
  /\ R!Q!Spec
  /\ WF_rqueueVars(On("runner") /\ R!Q!Get(RunnerWorker))
  /\ WF_rqueueVars(On("runner") /\ R!Q!Done(RunnerWorker))

(* Once the queue is closed its workers stop; records settle and webhooks fire. *)
TasksSettle ==
  /\ On("queue") => CloseStopsWorkers
  /\ On("runner") => R!RecordsSettle /\ R!WebhookFires
=============================================================================
