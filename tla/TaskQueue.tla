----------------------------- MODULE TaskQueue ------------------------------
(***************************************************************************)
(* The task queue of pkg/queue: a list of queued tasks, an index of all    *)
(* live tasks by identifier, an index of the running ones, and a condition *)
(* variable on which idle workers wait.                                    *)
(*                                                                         *)
(* Every method but CancelTask does its work under tq.mu, so each is one   *)
(* step here. CancelTask looks the task up under the lock and cancels it   *)
(* after unlocking, which is two steps. A call of Get that blocks is split *)
(* where it gives the lock up: at cond.Wait.                               *)
(***************************************************************************)
EXTENDS Naturals, Sequences, FiniteSets, Functions

CONSTANTS Tasks,    \* task objects, one per call of NewTask
          IDs,      \* task identifiers
          id,       \* the field ID of each task
          Workers,  \* goroutines that call Get and Done
          Callers,  \* goroutines that call CancelTask
          None      \* the absent entry of a map

ASSUME IdAssumption == id \in [Tasks -> IDs]
ASSUME WorkersAssumption == IsFiniteSet(Workers)
ASSUME NoneAssumption == None \notin Tasks

VARIABLES
  tasks,           \* tq.tasks, oldest first
  taskMap,         \* tq.taskMap: queued and running tasks by identifier
  runningTaskMap,  \* tq.runningTaskMap: running tasks by identifier
  closed,          \* tq.closed
  cancelled,       \* tasks whose context is done
  submitted,       \* task objects that have been passed to Add
  getter,          \* where each worker is with respect to Get
  held,            \* the task Get returned to the worker, until its Done
  found            \* the task each caller has looked up and not yet cancelled

qvars == <<tasks, taskMap, runningTaskMap, closed, cancelled, submitted,
           getter, held, found>>

GetterStates == {"out",      \* not in Get, or about to take the lock in it
                 "waiting",  \* in cond.Wait
                 "woken",    \* signalled, about to take the lock again
                 "gone"}     \* was told that the queue is closed

TypeOK == /\ tasks \in Seq(Tasks)
          /\ taskMap \in [IDs -> Tasks \cup {None}]
          /\ runningTaskMap \in [IDs -> Tasks \cup {None}]
          /\ closed \in BOOLEAN
          /\ cancelled \in SUBSET Tasks
          /\ submitted \in SUBSET Tasks
          /\ getter \in [Workers -> GetterStates]
          /\ held \in [Workers -> Tasks \cup {None}]
          /\ found \in [Callers -> Tasks \cup {None}]

Init == /\ tasks = <<>>
        /\ taskMap = [i \in IDs |-> None]
        /\ runningTaskMap = [i \in IDs |-> None]
        /\ closed = FALSE
        /\ cancelled = {}
        /\ submitted = {}
        /\ getter = [w \in Workers |-> "out"]
        /\ held = [w \in Workers |-> None]
        /\ found = [c \in Callers |-> None]

Waiting == {w \in Workers : getter[w] = "waiting"}
Woken   == {w \in Workers : getter[w] = "woken"}
Held    == {held[w] : w \in Workers} \ {None}
Live    == Range(tasks) \cup Held

-----------------------------------------------------------------------------
(* Add. The caller wraps its work in a new Task, so no object is added     *)
(* twice; two objects may have the same identifier.                        *)

Addable(t) == /\ ~closed
              /\ taskMap[id[t]] = None
              /\ t \notin cancelled

SignalIfEmpty == IF Waiting = {} \/ tasks # <<>>
                 THEN UNCHANGED getter
                 ELSE \E w \in Waiting : getter' = [getter EXCEPT ![w] = "woken"]

(* cond.Signal: one waiting worker, if there is one, leaves the wait.      *)
Signal == IF Waiting = {}
          THEN UNCHANGED getter
          ELSE \E w \in Waiting : getter' = [getter EXCEPT ![w] = "woken"]

AddAccepted(t) == /\ t \notin submitted
                  /\ Addable(t)
                  /\ tasks' = Append(tasks, t)
                  /\ taskMap' = [taskMap EXCEPT ![id[t]] = t]
                  /\ submitted' = submitted \cup {t}
                  /\ Signal
                  /\ UNCHANGED <<runningTaskMap, closed, cancelled, held, found>>

AddRefused(t) == /\ t \notin submitted
                 /\ ~Addable(t)
                 /\ submitted' = submitted \cup {t}
                 /\ UNCHANGED <<tasks, taskMap, runningTaskMap, closed,
                                cancelled, getter, held, found>>

-----------------------------------------------------------------------------
(* Get. With the lock held it pops tasks until it meets one that is not    *)
(* cancelled; the identifiers of those it skips are released. When none is *)
(* left it waits, or gives up if the queue is closed.                      *)

InGet(w) == getter[w] \in {"out", "woken"} /\ held[w] = None

KeepsIdentifiers(n) == taskMap

(* delete(tq.taskMap, task.ID) for every task of a prefix of the list.     *)
Release(n) == LET gone == {id[tasks[j]] : j \in 1 .. n}
              IN  [i \in IDs |-> IF i \in gone THEN None ELSE taskMap[i]]

LastLive(k) == /\ tasks[k] \notin cancelled
               /\ \A j \in (k + 1) .. Len(tasks) : tasks[j] \in cancelled

FirstLive(k) == /\ tasks[k] \notin cancelled
                /\ \A j \in 1 .. (k - 1) : tasks[j] \in cancelled

AllCancelled == \A k \in DOMAIN tasks : tasks[k] \in cancelled

GetTask(w) == \E k \in DOMAIN tasks :
  /\ InGet(w)
  /\ FirstLive(k)
  /\ tasks' = SubSeq(tasks, k + 1, Len(tasks))
  /\ taskMap' = Release(k - 1)
  /\ runningTaskMap' = [runningTaskMap EXCEPT ![id[tasks[k]]] = tasks[k]]
  /\ held' = [held EXCEPT ![w] = tasks[k]]
  /\ getter' = [getter EXCEPT ![w] = "out"]
  /\ UNCHANGED <<closed, cancelled, submitted, found>>

GetNothing(w, next) == /\ InGet(w)
                       /\ AllCancelled
                       /\ tasks' = <<>>
                       /\ taskMap' = Release(Len(tasks))
                       /\ getter' = [getter EXCEPT ![w] = next]
                       /\ UNCHANGED <<runningTaskMap, closed, cancelled,
                                      submitted, held, found>>

GetWait(w) == ~closed /\ GetNothing(w, "waiting")

GetClosed(w) == closed /\ GetNothing(w, "gone")

Get(w) == GetTask(w) \/ GetWait(w) \/ GetClosed(w)

-----------------------------------------------------------------------------
(* Done, called by a worker with the identifier of the task it was given.  *)
Done(w) == /\ held[w] # None
           /\ taskMap' = [taskMap EXCEPT ![id[held[w]]] = None]
           /\ runningTaskMap' = [runningTaskMap EXCEPT ![id[held[w]]] = None]
           /\ held' = [held EXCEPT ![w] = None]
           /\ UNCHANGED <<tasks, closed, cancelled, submitted, getter, found>>

(* CancelTask: the task is looked up under the lock ...                    *)
Lookup(i) == IF taskMap[i] # None THEN taskMap[i] ELSE runningTaskMap[i]

CancelFind(c, i) == /\ found[c] = None
                    /\ Lookup(i) # None
                    /\ found' = [found EXCEPT ![c] = Lookup(i)]
                    /\ UNCHANGED <<tasks, taskMap, runningTaskMap, closed,
                                   cancelled, submitted, getter, held>>

(* ... and cancelled without it.                                           *)
CancelApply(c) == /\ found[c] # None
                  /\ found' = [found EXCEPT ![c] = None]
                  /\ cancelled' = cancelled \cup {found[c]}
                  /\ UNCHANGED <<tasks, taskMap, runningTaskMap, closed,
                                 submitted, getter, held>>

(* The context a task was created from is cancelled: NewTask derives the   *)
(* task's own context from it.                                             *)
ContextDone(t) == /\ t \notin cancelled
                  /\ cancelled' = cancelled \cup {t}
                  /\ UNCHANGED <<tasks, taskMap, runningTaskMap, closed,
                                 submitted, getter, held, found>>

(* Close: cond.Broadcast wakes every waiting worker.                       *)
Close == /\ closed' = TRUE
         /\ getter' = [w \in Workers |->
                         IF w \in Waiting THEN "woken" ELSE getter[w]]
         /\ UNCHANGED <<tasks, taskMap, runningTaskMap, cancelled, submitted,
                        held, found>>

-----------------------------------------------------------------------------
TaskStep(t) == AddAccepted(t) \/ AddRefused(t) \/ ContextDone(t)

Next == \/ \E t \in Tasks : TaskStep(t)
        \/ \E c \in Callers : CancelApply(c) \/ \E i \in IDs : CancelFind(c, i)
        \/ \E w \in Workers : Get(w) \/ Done(w)
        \/ Close

Spec == Init /\ [][Next]_qvars

(* The mutex is starvation-free, so a call of Get that may proceed does;   *)
(* a worker's task ends at some time and Done is called for it. Nobody is  *)
(* obliged to add, to cancel or to close.                                  *)
Fairness == \A w \in Workers : WF_qvars(Get(w)) /\ WF_qvars(Done(w))

FairSpec == Spec /\ Fairness

-----------------------------------------------------------------------------
(* ActiveLength, QueuedTasks and RunningTasks: what the bot shows a user.  *)
QueuedTasks  == Range(tasks) \ cancelled
RunningTasks == {runningTaskMap[i] : i \in IDs} \ (cancelled \cup {None})

(* The indices and the list agree: they name the same tasks, and no task   *)
(* is queued twice, run by two workers, or queued while it runs. Add, Get  *)
(* and Done each change two or three of the structures.                    *)
ListMapped == \A k \in DOMAIN tasks : /\ taskMap[id[tasks[k]]] = tasks[k]
                                      /\ runningTaskMap[id[tasks[k]]] = None
HeldMapped == \A w \in Workers : held[w] # None =>
                /\ taskMap[id[held[w]]] = held[w]
                /\ runningTaskMap[id[held[w]]] = held[w]
MapLive == \A i \in IDs : taskMap[i] # None =>
             /\ id[taskMap[i]] = i
             /\ taskMap[i] \in Live
RunningHeld == \A i \in IDs : runningTaskMap[i] # None =>
                 /\ id[runningTaskMap[i]] = i
                 /\ \E w \in Workers : held[w] = runningTaskMap[i]
NoDuplicate == /\ \A j, k \in DOMAIN tasks : tasks[j] = tasks[k] => j = k
               /\ \A v, w \in Workers :
                    held[v] = held[w] /\ held[v] # None => v = w
IndexInv == ListMapped /\ HeldMapped /\ MapLive /\ RunningHeld /\ NoDuplicate

(* Two live tasks never share an identifier, and a task that has not been  *)
(* cancelled is listed to the user as queued or as running, never as both  *)
(* and never as neither: otherwise nobody could cancel it.                 *)
OneOwner == \A t, u \in Live : id[t] = id[u] => t = u

ListedOnce == \A t \in Live \ cancelled :
                (t \in QueuedTasks) # (t \in RunningTasks)

(* No wake-up is lost: while a worker waits on the condition variable, as  *)
(* many workers have been signalled as there are tasks in the list. Add    *)
(* signals one worker only, Get may take tasks no one was signalled for,   *)
(* and a signalled worker may find nothing and wait again.                 *)
NoLostWakeup == /\ Waiting # {} => Len(tasks) <= Cardinality(Woken)
                /\ closed => Waiting = {}

(* The indexes and the wake-ups together: a task can always be found and   *)
(* always has a worker coming for it.                                      *)
QueueInv == IndexInv /\ NoLostWakeup

(* CancelTask reaches whoever has the identifier: looking up a live task's *)
(* identifier yields that very task, even though running tasks are searched*)
(* only when the first index has nothing.                                  *)
CancelReaches == \A t \in Live : Lookup(id[t]) = t

(* Whoever has an identifier gives it back, so that a task with the same   *)
(* one is not turned away for ever: a cancelled task keeps its own until a *)
(* worker comes across it in the list (queue.go:67-78, 91-96, 160-177),    *)
(* which takes a worker that is awake although there is nothing to run.    *)
IdentifiersReturn == \A i \in IDs : taskMap[i] # None ~> taskMap[i] = None

(* Once the queue is closed every worker returns from Get and stops.       *)
CloseStopsWorkers == closed ~> \A w \in Workers : getter[w] = "gone"

-----------------------------------------------------------------------------
Pool == INSTANCE TaskPool WITH waiting <- tasks, running <- Held,
                               Slots <- Cardinality(Workers)

(* The queue keeps the promises of TaskPool, its liveness included.        *)
ImplementsPool == Pool!FairSpec
=============================================================================
