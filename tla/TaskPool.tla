------------------------------ MODULE TaskPool ------------------------------
(***************************************************************************)
(* What the task queue of pkg/queue promises to its callers, without its   *)
(* list, maps, mutex or condition variable:                                *)
(*                                                                         *)
(*   - tasks are started in the order they were accepted;                  *)
(*   - an identifier belongs to at most one waiting or running task;       *)
(*   - a task cancelled while it waits is never started;                   *)
(*   - an accepted task is started as soon as a slot is free.              *)
(*                                                                         *)
(* TaskQueue implements this specification.                                *)
(***************************************************************************)
EXTENDS Naturals, Sequences, FiniteSets, Functions

CONSTANTS Tasks,   \* task objects
          id,      \* the identifier of each task
          Slots    \* number of tasks that may run at once

VARIABLES waiting,    \* accepted tasks not yet started, oldest first
          running,    \* tasks handed to a worker and not yet finished
          cancelled,  \* tasks whose context is done
          closed      \* no task is accepted any more

vars == <<waiting, running, cancelled, closed>>

Live == Range(waiting) \cup running

Init == /\ waiting = <<>>
        /\ running = {}
        /\ cancelled \in SUBSET Tasks
        /\ closed = FALSE

Accept(t) == /\ ~closed
             /\ t \notin cancelled
             /\ \A u \in Live : id[u] # id[t]
             /\ waiting' = Append(waiting, t)
             /\ UNCHANGED <<running, cancelled, closed>>

(* The k-th waiting task starts: those before it were cancelled and go.    *)
StartAt(k) == /\ waiting[k] \notin cancelled
              /\ \A j \in 1 .. (k - 1) : waiting[j] \in cancelled
              /\ Cardinality(running) < Slots
              /\ waiting' = SubSeq(waiting, k + 1, Len(waiting))
              /\ running' = running \cup {waiting[k]}
              /\ UNCHANGED <<cancelled, closed>>

Start == \E k \in DOMAIN waiting : StartAt(k)

(* A queue of cancelled tasks only is emptied.                             *)
Discard == /\ waiting # <<>>
           /\ Range(waiting) \subseteq cancelled
           /\ waiting' = <<>>
           /\ UNCHANGED <<running, cancelled, closed>>

Finish(t) == /\ t \in running
             /\ running' = running \ {t}
             /\ UNCHANGED <<waiting, cancelled, closed>>

Cancel(t) == /\ cancelled' = cancelled \cup {t}
             /\ UNCHANGED <<waiting, running, closed>>

Close == /\ closed' = TRUE
         /\ UNCHANGED <<waiting, running, cancelled>>

Next == \/ \E t \in Tasks : Accept(t) \/ Finish(t) \/ Cancel(t)
        \/ Start
        \/ Discard
        \/ Close

Spec == Init /\ [][Next]_vars

(* A task that may start does not wait for ever while a slot stays free.   *)
FairSpec == Spec /\ WF_vars(Start)
=============================================================================
